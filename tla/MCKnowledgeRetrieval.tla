------------------------- MODULE MCKnowledgeRetrieval -------------------------
(* A fault class with two documents of up to two versions and one chunk    *)
(* each, one mapped to no document and one that is not mapped; the second  *)
(* version is indexed while evidence is retrieved.                         *)
EXTENDS KnowledgeRetrieval, TLC

CONSTANTS d1, d2

MCMapping == [bearing |-> <<d1, d2>>, looseness |-> <<>>]
MCFaults == {"bearing", "looseness", "misalignment"}

================================================================================
