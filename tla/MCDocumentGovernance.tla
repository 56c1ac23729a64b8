------------------------ MODULE MCDocumentGovernance ------------------------
(* DocumentGovernance on one document with two versions, from the empty    *)
(* repository and from snapshots later in its life. *)
EXTENDS DocumentGovernance, SequencesExt

CONSTANTS h1, h2, actor, r1, r2

Command(action, n, h, reason, step) ==
  [action |-> action, version |-> n, sha256 |-> h, actor |-> actor,
   reason |-> reason, step |-> step]

Register(n, h)     == Command("registered", n, h, None, None)
StartProcessing(n) == Command("processing_started", n, None, None, None)
Reprocess(n, h)    == Command("reprocessing_started", n, h, None, None)
Extracted(n)       == Command("extraction_succeeded", n, None, None, "extraction")
Indexed(n)         == Command("indexing_succeeded", n, None, None, "indexing")
Fail(n, step)      == Command("processing_failed", n, None, r1, step)
Approve(n)         == Command("approved", n, None, r1, None)
Reject(n, reason)  == Command("rejected", n, None, reason, None)

MCHashes == {h1, h2}
MCActors == {actor}
MCReasons == {r1, r2}
MCInstants == {1, 2}

(* Every method on both versions, with a wrong hash and a second reason. *)
MCCommands ==
  { Register(1, h1), StartProcessing(1), Extracted(1), Approve(1), Reprocess(1, h1),
    Register(2, h2), Register(2, h1), StartProcessing(2), Extracted(2), Indexed(2),
    Fail(2, "indexing"), Reprocess(2, h2), Reprocess(2, h1), Approve(2),
    Reject(2, r1), Reject(2, r2) }

After(commands) ==
  FoldLeft(LAMBDA s, c : [document |-> ResultOf(s.document, c, 1),
                          revision |-> s.revision + 1],
           NothingStored, commands)

FirstApproved == <<Register(1, h1), StartProcessing(1), Extracted(1), Indexed(1),
                   Approve(1)>>

MCSeeds ==
  { NothingStored,
    After(<<Register(1, h1), StartProcessing(1), Extracted(1), Indexed(1)>>),
    After(FirstApproved \o <<Register(2, h2), StartProcessing(2)>>),
    After(FirstApproved \o <<Register(2, h2), StartProcessing(2), Extracted(2),
                             Fail(2, "indexing")>>),
    After(FirstApproved \o
          <<Register(2, h2), StartProcessing(2), Extracted(2), Fail(2, "indexing"),
            Reprocess(2, h2), Indexed(2), Reject(2, r1)>>) }

=============================================================================
