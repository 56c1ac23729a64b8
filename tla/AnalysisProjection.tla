--------------------------- MODULE AnalysisProjection ---------------------------
(***************************************************************************)
(* What analysis_integration.py makes of an orchestration: the public      *)
(* result of one of five closed outcomes, or nothing, and the metadata     *)
(* that is recorded for it.                                                *)
(*                                                                         *)
(* An orchestration is reduced to what the projection looks at: status and *)
(* reason, the diagnosed fault, whether there are a support score and      *)
(* neighbors, the chunks its retrieval traced and those its generation     *)
(* cites, and which of its identities are not the authorized ones.         *)
(***************************************************************************)
EXTENDS Integers, FiniteSets

CONSTANTS Chunks,      \* chunks of approved documents
          FaultCodes,  \* diagnoses
          Priorities   \* fault codes of the projection policy

ASSUME PrioritiesAssumption == Priorities \subseteq FaultCodes

NoFault == "none"

\* What AnalysisRuntimeAuthorization binds: the model, and what the
\* orchestration states of itself, which an orchestration names again where
\* generation ran and where a retrieval was traced.
Generation == {"prompt", "provider"}
Retrieval == {"policy", "mapping"}
Bound == {"model"} \cup Generation \cup Retrieval

SkippedUndocumented == {"UNDOCUMENTED_FAULT", "NO_EVIDENCE", "UNMAPPED_FAULT"}
DegradedReasons == {"INVALID_PREDICTION", "INVALID_REQUEST", "RETRIEVAL_UNAVAILABLE",
                    "CURRENTNESS_UNAVAILABLE", "PROVIDER_ERROR"}

\* What the result's constructor lets an orchestration be.
Diagnosed(o) == o.fault # NoFault

Orchestrated(o) ==
  /\ o.cited \subseteq o.evidence
  /\ o.foreign \cap Generation # {} => o.status # "SKIPPED"
  /\ o.foreign \cap Retrieval # {} => Diagnosed(o)
  /\ CASE o.status = "GENERATED" ->
            /\ o.reason = "none" /\ Diagnosed(o) /\ o.supported /\ o.neighbors
            /\ o.cited # {}
       [] o.status = "SKIPPED" ->
            /\ o.reason \in SkippedUndocumented \cup {"NORMAL", "OUT_OF_DISTRIBUTION"}
            /\ Diagnosed(o) = (o.reason # "OUT_OF_DISTRIBUTION")
            /\ o.supported /\ o.evidence = {}
       [] o.status = "REFUSED" ->
            /\ o.reason = "GUARDRAIL_REFUSAL" /\ Diagnosed(o) /\ o.supported
            /\ o.neighbors /\ o.cited = {}
       [] OTHER ->
            /\ o.reason \in DegradedReasons
            /\ o.reason = "INVALID_PREDICTION" =>
                 ~Diagnosed(o) /\ ~o.supported /\ ~o.neighbors
            /\ o.reason \notin {"INVALID_PREDICTION", "INVALID_REQUEST"} =>
                 Diagnosed(o) /\ o.supported
            /\ o.reason \in {"INVALID_PREDICTION", "INVALID_REQUEST",
                             "RETRIEVAL_UNAVAILABLE"} => o.evidence = {}
            /\ o.cited = {}

Orchestrations ==
  {o \in [status : {"GENERATED", "SKIPPED", "REFUSED", "DEGRADED"},
          reason : SkippedUndocumented \cup DegradedReasons \cup
                   {"none", "NORMAL", "OUT_OF_DISTRIBUTION", "GUARDRAIL_REFUSAL"},
          fault : FaultCodes \cup {NoFault}, supported : BOOLEAN, neighbors : BOOLEAN,
          evidence : SUBSET Chunks, cited : SUBSET Chunks, foreign : SUBSET Bound] :
     Orchestrated(o)}

\* priority_for: only what the policy names, never a fallback.
Prioritised(o) == o.fault \in Priorities

\* _public_prescription: without a priority nothing is prescribed.
Prescribes(o) == o.status = "GENERATED" /\ Diagnosed(o) /\ Prioritised(o)

\* _validate_orchestration_binding.
Authorized(o) == o.foreign = {}

\* _generated_public_citations: all of what is cited, or none.
PublicCitations(o) ==
  IF o.status = "GENERATED" /\ o.cited \subseteq o.evidence THEN o.cited ELSE {}

\* _degraded_result raises without a diagnosis.
Degraded(o) == IF Diagnosed(o) THEN "degraded" ELSE "none"

OutcomeOf(o) ==
  IF ~o.supported THEN "none"
  ELSE CASE o.status = "SKIPPED" /\ o.reason = "NORMAL" /\ Diagnosed(o) -> "normal"
         [] o.status = "SKIPPED" /\ o.reason = "OUT_OF_DISTRIBUTION" /\ ~Diagnosed(o) ->
              "out_of_distribution"
         [] o.status = "SKIPPED" /\ o.reason \in SkippedUndocumented
            /\ Diagnosed(o) /\ o.neighbors -> "undocumented_fault"
         [] Prescribes(o) /\ o.neighbors /\ PublicCitations(o) # {} -> "documented_fault"
         [] OTHER -> Degraded(o)

Outcomes == {"normal", "out_of_distribution", "undocumented_fault",
             "documented_fault", "degraded"}

\* _metadata: the row of an analysis refers to everything its retrieval
\* traced, not only to what is cited.
MetadataOf(o) == [outcome |-> OutcomeOf(o), evidence |-> o.evidence,
                  neighbors |-> o.neighbors]

\* A result that was projected: what is answered and what is recorded.
ResultOf(o) == [cited |-> PublicCitations(o), metadata |-> MetadataOf(o)]

Projected ==
  {ResultOf(o) : o \in {q \in Orchestrations : Authorized(q) /\ OutcomeOf(q) # "none"}}

-----------------------------------------------------------------------------
(* The demonstration mode: AnalysisService of services.py over the three   *)
(* synthetic ports of fakes.py.  A scenario is what the rotation speed of  *)
(* a request selects; an identifier is fixed for each outcome, so that all *)
(* requests of one scenario share one entry of what GET serves.            *)

CONSTANTS TopKs,     \* numbers of neighbors that requests ask for
          SeedTopK   \* top_k of SYNTHETIC_ANALYSIS_REQUESTS

ASSUME TopKAssumption == TopKs \subseteq Nat \ {0} /\ SeedTopK \in Nat \ {0}

Scenarios == {"normal", "documented_fault", "undocumented_fault",
              "out_of_distribution", "degraded"}
Nothing == "none"
Unavailable == [outcome |-> "unavailable", neighbors |-> 0, citations |-> 0]

\* SyntheticModelPort.predict: a retrieval key for faults only, a diagnosis
\* for all but the abstention.
Predicted(scenario, k) ==
  LET fault == scenario \in {"documented_fault", "undocumented_fault", "degraded"}
      outside == scenario = "out_of_distribution"
  IN  [disposition |-> IF outside THEN "OUT_OF_DISTRIBUTION" ELSE IF fault THEN "FAULT" ELSE "NORMAL",
       abstains |-> outside,
       diagnosis |-> IF outside THEN Nothing ELSE scenario,
       key |-> IF fault THEN scenario ELSE Nothing,
       neighbors |-> k]

\* SyntheticRetrievalPort and SyntheticGenerationPort.
CitationsFor(key, k) == IF key = "undocumented_fault" THEN 0 ELSE k
Generates(diagnosis) == diagnosis # "degraded"

Result(outcome, p, citations) ==
  [outcome |-> outcome, neighbors |-> p.neighbors, citations |-> citations]

\* A prediction that contradicts its own disposition is not answered.
Contradictory(p) ==
  \/ p.abstains # (p.disposition = "OUT_OF_DISTRIBUTION")
  \/ p.abstains /\ (p.diagnosis # Nothing \/ p.key # Nothing)
  \/ ~p.abstains /\ p.diagnosis = Nothing
  \/ (p.disposition = "NORMAL") # (p.key = Nothing) /\ ~p.abstains

\* AnalysisService._result_from_prediction.
ResultFrom(p, k) ==
  LET citations == CitationsFor(p.key, k)
  IN  CASE Contradictory(p) -> Unavailable
        [] p.disposition = "OUT_OF_DISTRIBUTION" /\ ~Contradictory(p) ->
             Result("out_of_distribution", p, 0)
        [] p.disposition = "NORMAL" /\ ~Contradictory(p) -> Result("normal", p, 0)
        [] p.disposition = "FAULT" /\ citations = 0 /\ ~Contradictory(p) ->
             Result("undocumented_fault", p, 0)
        [] OTHER -> Result(IF Generates(p.diagnosis) THEN "documented_fault" ELSE "degraded",
                           p, citations)

SyntheticResult(scenario, k) == ResultFrom(Predicted(scenario, k), k)

\* build_synthetic_analysis_service: the catalog GET serves before any request.
SeededCatalog == [id \in Scenarios |-> SyntheticResult(id, SeedTopK)]
NoCatalog == [id \in {} |-> Unavailable]

=============================================================================
