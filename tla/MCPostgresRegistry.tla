------------------------- MODULE MCPostgresRegistry -------------------------
(* PostgresRegistry with two sessions on one document: its first           *)
(* registration, and the approval that supersedes a version. *)
EXTENDS PostgresRegistry, SequencesExt, TLC

CONSTANTS h1, h2, actor, r1, r2

Command(action, n, h, reason, step) ==
  [action |-> action, version |-> n, sha256 |-> h, actor |-> actor,
   reason |-> reason, step |-> step]

Register(n, h)     == Command("registered", n, h, None, None)
StartProcessing(n) == Command("processing_started", n, None, None, None)
Extracted(n)       == Command("extraction_succeeded", n, None, None, "extraction")
Indexed(n)         == Command("indexing_succeeded", n, None, None, "indexing")
Approve(n, reason) == Command("approved", n, None, reason, None)
Reject(n, reason)  == Command("rejected", n, None, reason, None)
Reprocess(n, h)    == Command("reprocessing_started", n, h, None, None)

MCHashes == {h1, h2}
MCActors == {actor}
MCReasons == {r1, r2}

MCCommands == { Register(1, h1), Register(1, h2), Register(2, h2), StartProcessing(1),
                Approve(2, r1), Approve(2, r2), Reject(2, r1), Reprocess(2, h2),
                Extracted(1), Indexed(1), Approve(1, r1), StartProcessing(2),
                Extracted(2), Indexed(2) }

After(commands) ==
  FoldLeft(LAMBDA s, c : [document |-> ResultOf(s.document, c, 1),
                          revision |-> s.revision + 1],
           NothingStored, commands)

Pending == <<Register(1, h1), StartProcessing(1), Extracted(1), Indexed(1),
             Approve(1, r1), Register(2, h2), StartProcessing(2), Extracted(2), Indexed(2)>>

MCSeeds == { NothingStored, After(SubSeq(Pending, 1, 5)), After(Pending) }

SessionsAreAlike == Permutations(Sessions)

=============================================================================
