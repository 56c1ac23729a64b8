---------------------- MODULE MCPrescriptionOrchestration ----------------------
(***************************************************************************)
(* A small instance: two request threads, two provider calls remembered at  *)
(* a time, one fault the generation contract can name and one, written     *)
(* with a percent escape as the fault label inventory does for a letter    *)
(* such as an accented e, that it cannot.                                  *)
(***************************************************************************)
EXTENDS PrescriptionOrchestration, TLC

MCFaults == {"folga", "caf%C3%A9"}
MCIdentifiers == {"folga"}
Symmetry == Permutations(Threads) \cup Permutations(Calls)
================================================================================
