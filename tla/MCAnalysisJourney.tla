--------------------------- MODULE MCAnalysisJourney ---------------------------
EXTENDS AnalysisJourney

MCRequests == 1..2

\* A prescription from all chunks, one that cites some of what was traced, an
\* abstention with nothing traced.
MCResults ==
  {p \in Projected :
     /\ p.metadata.neighbors
     /\ p.metadata.outcome \in {"documented_fault", "normal"}}

=============================================================================
