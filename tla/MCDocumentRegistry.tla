------------------------- MODULE MCDocumentRegistry -------------------------
(* DocumentRegistry on one logical document: two contents of two sizes,    *)
(* clients that register, decide, reprocess and retry, and a pipeline that *)
(* processes the second version. *)
EXTENDS DocumentRegistry, SequencesExt, TLC

CONSTANTS h1, h2, api_v1, processor, r1, r2, small, large

Command(action, n, h, actor, reason, step) ==
  [action |-> action, version |-> n, sha256 |-> h, actor |-> actor,
   reason |-> reason, step |-> step]

Register(n, h)     == Command("registered", n, h, api_v1, None, None)
Approve(n)         == Command("approved", n, None, api_v1, r1, None)
Reject(n)          == Command("rejected", n, None, api_v1, r1, None)
Reprocess(n, h)    == Command("reprocessing_started", n, h, api_v1, None, None)
StartProcessing(n) == Command("processing_started", n, None, processor, None, None)
Extracted(n)       == Command("extraction_succeeded", n, None, processor, None, "extraction")
Indexed(n)         == Command("indexing_succeeded", n, None, processor, None, "indexing")
Fail(n)            == Command("processing_failed", n, None, processor, r1, "indexing")

MCHashes == {h1, h2}
MCActors == {api_v1, processor}
MCReasons == {r1, r2}
MCSizes == {small, large}

Request(route, n, h, size, reason) ==
  [route |-> route, number |-> n, sha256 |-> h, size |-> size, reason |-> reason]

FirstSize == CHOOSE size \in MCSizes : TRUE
OtherSize == CHOOSE size \in MCSizes : size # FirstSize

MCRequests ==
  { Request("register", 0, h1, FirstSize, None), Request("register", 0, h1, OtherSize, None),
    Request("register", 0, h2, FirstSize, None), Request("get", 2, h2, FirstSize, None),
    Request("approve", 2, h2, FirstSize, r1), Request("approve", 2, h2, FirstSize, r2),
    Request("reject", 2, h2, FirstSize, r1), Request("reprocess", 2, h2, FirstSize, None),
    Request("approve", 1, h1, FirstSize, r1), Request("reprocess", 2, h1, FirstSize, None) }

MCPipelineCommands == { StartProcessing(2), Extracted(2), Indexed(2), Fail(2) }

MCCommands ==
  MCPipelineCommands \cup
  { Register(n, h) : n \in 1..2, h \in MCHashes } \cup
  { [Approve(2) EXCEPT !.reason = r] : r \in MCReasons } \cup
  { Reject(2), Reprocess(2, h2), StartProcessing(1), Extracted(1), Indexed(1), Approve(1) }

After(commands) ==
  FoldLeft(LAMBDA s, c : [document |-> ResultOf(s.document, c, 1),
                          revision |-> s.revision + 1],
           NothingStored, commands)

FirstApproved == <<Register(1, h1), StartProcessing(1), Extracted(1), Indexed(1),
                   Approve(1)>>
SecondPending == FirstApproved \o <<Register(2, h2), StartProcessing(2), Extracted(2),
                                    Indexed(2)>>

(* Nothing, an approved first version, a pending second one, and a second  *)
(* one that failed and one that was rejected. *)
MCSeeds ==
  { NothingStored, After(FirstApproved), After(SecondPending),
    After(SubSeq(SecondPending, 1, 8) \o <<Fail(2)>>),
    After(SecondPending \o <<Reject(2)>>) }

ReceivedSeeds == { After(FirstApproved \o <<Register(2, h2)>>) }

CallersAreAlike == Permutations(Callers)

=============================================================================
