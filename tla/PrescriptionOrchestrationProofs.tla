-------------------- MODULE PrescriptionOrchestrationProofs --------------------
(***************************************************************************)
(* The slot is conserved, and every result is well formed, audited with    *)
(* its own provider call and grounded in evidence that outlived it, for    *)
(* any number of request threads, calls, faults and promotions.            *)
(*                                                                         *)
(* The argument: a call state has at most one owner, and once its owner    *)
(* stops waiting it is either disowned (the wait ended first) or done, and *)
(* then nothing but the owner's next request changes it.  So what a        *)
(* request has read of its call stays true until it is answered, and the   *)
(* worker of a disowned call is the only holder of the slot.               *)
(***************************************************************************)
EXTENDS PrescriptionOrchestration, TLAPS

CallsAreOwned ==
    /\ \A t \in Threads : call[t] \in Calls =>
            /\ calls[call[t]].phase # "unused"
            /\ pc[t] # "waiting" => calls[call[t]].phase = "done"
    /\ \A t, u \in Threads : call[t] \in Calls /\ call[t] = call[u] => t = u

SeenIsPast == \A c \in Calls : calls[c].seen <= approved

\* The provider supported the request: what a generated result relies on.
Supported(t) ==
    /\ call[t] \in Calls
    /\ attempt[t] = [outcome |-> "COMPLETED", usage |-> call[t]]
    /\ calls[call[t]].reply = "supported"

\* What the guardrails may decide after an attempt with this outcome.
CodesAfter(outcome) ==
    CASE outcome = "NOT_CALLED" ->
            UnusableEvidence \cup {"CURRENTNESS_UNAVAILABLE", "STALE_EVIDENCE"}
      [] outcome \in {"BUSY", "FAILED", "TIMED_OUT"} -> {"PROVIDER_ERROR"}
      [] outcome = "DISABLED" -> {"PROVIDER_DISABLED"}
      [] outcome = "INVALID_RESPONSE" -> {"INVALID_PROVIDER_OUTPUT"}
      [] OTHER -> {"ACCEPTED", "CURRENTNESS_UNAVAILABLE", "STALE_EVIDENCE",
                   "INSUFFICIENT_EVIDENCE", "INVALID_PROVIDER_OUTPUT"}

ReadyToConclude(t) ==
    /\ guarded[t] \in CodesAfter(attempt[t].outcome)
    /\ IF attempt[t].outcome = "COMPLETED"
       THEN call[t] \in Calls /\ attempt[t].usage = call[t]
       ELSE attempt[t].usage = NoUsage
    /\ guarded[t] = "ACCEPTED" =>
            Supported(t) /\ evidence[t] >= calls[call[t]].seen

AnsweredWell(t) ==
    /\ result[t].metadata # NoMetadata => result[t].metadata \in {NoUsage, call[t]}
    /\ result[t].status = "GENERATED" =>
            /\ call[t] \in Calls
            /\ result[t].metadata = call[t]
            /\ calls[call[t]].reply = "supported"
            /\ evidence[t] >= calls[call[t]].seen

RequestOK(t) ==
    /\ pc[t] \notin {"idle", "answered", "raised"} => key[t] \in Identifiers
    /\ pc[t] \in {"checking", "acquiring", "starting", "waiting"} => attempt[t] = NotCalled
    /\ pc[t] = "rechecking" => Supported(t)
    /\ pc[t] = "concluding" => ReadyToConclude(t)
    /\ pc[t] = "answered" => AnsweredWell(t)
    /\ pc[t] = "raised" => key[t] \in Faults \ Identifiers

OrchestrationInv ==
    /\ TypeOK
    /\ SlotIsConserved
    /\ CallsAreOwned
    /\ SeenIsPast
    /\ \A t \in Threads : RequestOK(t)

--------------------------------------------------------------------------------
(***************************************************************************)
(* Facts about results.                                                    *)
(***************************************************************************)

LEMMA ConstantsAreDistinct ==
    /\ NoCall \notin Calls /\ NoMetadata \notin Calls /\ NoUsage \notin Calls
    /\ NoUsage # NoMetadata /\ NoUsage # NoCall /\ NoMetadata # NoCall
BY CallsAssumption DEF NoCall, NoMetadata, NoUsage

\* The results of requests that end before the guardrails are constructible,
\* but for a fault the generation contract cannot name.
LEMMA EarlyResultsAreConstructible ==
    ASSUME NEW k \in EarlyReasons PROVE Constructible(Plain(k, k))
BY DEF EarlyReasons, Constructible, Plain, Decision, DispositionOf, Skipping,
       ValidSkipped, ValidDegraded, NoMetadata

LEMMA PlainResultsAreConstructible ==
    ASSUME NEW k \in Identifiers,
           NEW reason \in {"NO_EVIDENCE", "UNMAPPED_FAULT", "RETRIEVAL_UNAVAILABLE",
                           "TIMING_UNAVAILABLE"}
    PROVE  Constructible(Plain(k, reason))
BY FaultsAssumption
   DEF EarlyReasons, Constructible, Plain, Decision, DispositionOf, Skipping,
       ValidSkipped, ValidDegraded, NoMetadata

\* So are those composed from an attempt and a verdict that go together.
LEMMA ComposedResultsAreConstructible ==
    ASSUME NEW k \in Identifiers, NEW o \in Outcomes, NEW u \in Calls \cup {NoUsage},
           NEW code \in CodesAfter(o)
    PROVE  Constructible(Composed(k, [outcome |-> o, usage |-> u], code))
<1> DEFINE r == Composed(k, [outcome |-> o, usage |-> u], code)
<1>1. DispositionOf(k) = "FAULT"
  BY FaultsAssumption DEF DispositionOf, EarlyReasons
<1>2. u # NoMetadata
  BY ConstantsAreDistinct
<1>3. CASE o \in {"NOT_CALLED", "BUSY"}
  <2>1. MetadataOf([outcome |-> o, usage |-> u]) = NoMetadata
    BY <1>3 DEF MetadataOf
  <2> QED
    BY <1>1, <1>3, <2>1 DEF Composed, Decision, ProviderReason, CodesAfter, Constructible,
       ValidGenerated, ValidSkipped, ValidRefused, ValidDegraded, UnusableEvidence, Codes
<1>4. CASE o \notin {"NOT_CALLED", "BUSY"}
  <2>1. MetadataOf([outcome |-> o, usage |-> u]) = u
    BY <1>4 DEF MetadataOf
  <2> QED
    BY <1>1, <1>2, <1>4, <2>1 DEF Outcomes, ProviderFailures, Composed, Decision, ProviderReason,
       CodesAfter, Constructible, ValidGenerated, ValidSkipped, ValidRefused, ValidDegraded,
       UnusableEvidence, Codes
<1> QED BY <1>3, <1>4

LEMMA DispositionsAreTyped ==
    ASSUME NEW k \in EarlyReasons \cup Faults
    PROVE  DispositionOf(k) \in {"none", "NORMAL", "OUT_OF_DISTRIBUTION", "FAULT"}
BY DEF DispositionOf

LEMMA PlainResultsAreTyped ==
    ASSUME NEW k \in EarlyReasons \cup Faults,
           NEW reason \in EarlyReasons \cup
                {"NO_EVIDENCE", "UNMAPPED_FAULT", "RETRIEVAL_UNAVAILABLE", "TIMING_UNAVAILABLE"}
    PROVE  /\ Plain(k, reason) \in Results
           /\ Plain(k, reason).metadata = NoMetadata
           /\ Plain(k, reason).status # "GENERATED"
BY DispositionsAreTyped DEF Plain, Decision, Results

LEMMA ComposedResultsAreTyped ==
    ASSUME NEW k \in EarlyReasons \cup Faults, NEW code \in Codes,
           NEW a \in [outcome : Outcomes, usage : Calls \cup {NoUsage}]
    PROVE  Composed(k, a, code) \in Results
<1>1. MetadataOf(a) \in Calls \cup {NoUsage, NoMetadata}
  BY DEF MetadataOf
<1>2. ProviderReason(a.outcome) \in {"PROVIDER_TIMEOUT", "PROVIDER_BUSY",
                                    "PROVIDER_DISABLED", "PROVIDER_ERROR"}
  BY DEF ProviderReason
<1> QED BY <1>1, <1>2, DispositionsAreTyped DEF Composed, Decision, Results, Codes

--------------------------------------------------------------------------------
(***************************************************************************)
(* Requests do not disturb each other.                                     *)
(***************************************************************************)

Untouched(u) ==
    /\ pc'[u] = pc[u] /\ key'[u] = key[u] /\ evidence'[u] = evidence[u]
    /\ call'[u] = call[u] /\ attempt'[u] = attempt[u]
    /\ guarded'[u] = guarded[u] /\ result'[u] = result[u]

\* A request is as it was if nothing of it changed, nor the call it owns.
LEMMA UntouchedRequestStaysOK ==
    ASSUME NEW u \in Threads, RequestOK(u), Untouched(u),
           call[u] \in Calls /\ pc[u] # "waiting" => calls'[call[u]] = calls[call[u]]
    PROVE  RequestOK(u)'
BY DEF RequestOK, Untouched, Supported, ReadyToConclude, AnsweredWell, NotCalled

\* A step of thread t alone: it leaves the slot and the calls as they are and
\* at most lets go of its own.
LEMMA LocalStepKeepsInv ==
    ASSUME OrchestrationInv, NEW t \in Threads, TypeOK', RequestOK(t)',
           \A u \in Threads \ {t} : Untouched(u),
           UNCHANGED <<free, calls, approved>>,
           pc[t] # "starting", pc'[t] \notin {"starting", "waiting"},
           call'[t] \in Calls => call'[t] = call[t] /\ calls[call[t]].phase = "done"
    PROVE  OrchestrationInv'
<1>1. Starting' = Starting /\ InProvider' = InProvider
  BY DEF Starting, InProvider, Untouched
<1>2. SlotIsConserved'
  BY <1>1 DEF OrchestrationInv, SlotIsConserved
<1>3. CallsAreOwned'
  BY DEF OrchestrationInv, CallsAreOwned, Untouched
<1>4. SeenIsPast'
  BY DEF OrchestrationInv, SeenIsPast
<1>5. \A u \in Threads : RequestOK(u)'
  BY UntouchedRequestStaysOK DEF OrchestrationInv
<1> QED BY <1>2, <1>3, <1>4, <1>5 DEF OrchestrationInv

\* What Answer leaves behind, whichever way the request ends.
LEMMA AnswerEndsRequest ==
    ASSUME TypeOK, NEW t \in Threads, NEW r \in Results, Answer(t, r)
    PROVE  /\ result' \in [Threads -> Results] /\ result'[t] = r
           /\ pc' \in [Threads -> Stations]
           /\ guarded' \in [Threads -> Codes \cup {"none"}]
           /\ pc'[t] = IF Constructible(r) THEN "answered" ELSE "raised"
           /\ \A u \in Threads \ {t} : pc'[u] = pc[u] /\ guarded'[u] = guarded[u] /\ result'[u] = result[u]
BY DEF TypeOK, Answer, Stations

\* What Guarded leaves behind.
LEMMA GuardedRequestConcludes ==
    ASSUME TypeOK, NEW t \in Threads, NEW code \in Codes, Guarded(t, code)
    PROVE  /\ pc' \in [Threads -> Stations]
           /\ guarded' \in [Threads -> Codes \cup {"none"}]
           /\ pc'[t] = "concluding" /\ guarded'[t] = code
           /\ \A u \in Threads \ {t} : pc'[u] = pc[u] /\ guarded'[u] = guarded[u]
BY DEF TypeOK, Guarded, Stations

\* What Attempted leaves behind.
LEMMA AttemptIsRecorded ==
    ASSUME TypeOK, NEW t \in Threads, NEW o \in Outcomes, NEW u \in Calls \cup {NoUsage},
           Attempted(t, o, u)
    PROVE  /\ attempt' \in [Threads -> [outcome : Outcomes, usage : Calls \cup {NoUsage}]]
           /\ attempt'[t] = [outcome |-> o, usage |-> u]
           /\ \A v \in Threads \ {t} : attempt'[v] = attempt[v]
BY DEF TypeOK, Attempted

--------------------------------------------------------------------------------
(***************************************************************************)
(* Every step keeps the invariant.                                         *)
(***************************************************************************)

LEMMA InitSatisfiesInv == Init => OrchestrationInv
<1> SUFFICES ASSUME Init PROVE OrchestrationInv
  OBVIOUS
<1>1. NoResult \in Results
  BY DEF NoResult, Results, Decision, DispositionOf
<1>2. TypeOK
  BY <1>1, PromotionsAssumption DEF Init, TypeOK, Stations, NotCalled, UnusedCall, Outcomes, EarlyReasons
<1>3. SlotIsConserved
  BY DEF Init, SlotIsConserved, Starting, InProvider, UnusedCall
<1>4. CallsAreOwned /\ SeenIsPast
  BY ConstantsAreDistinct DEF Init, CallsAreOwned, SeenIsPast, UnusedCall
<1>5. \A t \in Threads : RequestOK(t)
  BY DEF Init, RequestOK
<1> QED BY <1>2, <1>3, <1>4, <1>5 DEF OrchestrationInv

LEMMA RetrievingNothingKeepsInv ==
    ASSUME OrchestrationInv, NEW t \in Threads, RetrieveNothing(t) PROVE OrchestrationInv'
<1>1. PICK reason \in {"NO_EVIDENCE", "UNMAPPED_FAULT", "RETRIEVAL_UNAVAILABLE",
                      "TIMING_UNAVAILABLE"} : Answer(t, Plain(key[t], reason))
  BY DEF RetrieveNothing
<1> DEFINE r == Plain(key[t], reason)
<1>2. TypeOK /\ key[t] \in Identifiers /\ key[t] \in EarlyReasons \cup Faults
      /\ pc[t] = "retrieving"
  BY DEF OrchestrationInv, RequestOK, RetrieveNothing, TypeOK
<1>3. r \in Results /\ Constructible(r) /\ r.metadata = NoMetadata /\ r.status # "GENERATED"
  BY <1>2, PlainResultsAreTyped, PlainResultsAreConstructible
<1> HIDE DEF r
<1>4. /\ result' \in [Threads -> Results] /\ result'[t] = r
      /\ pc' \in [Threads -> Stations]
      /\ guarded' \in [Threads -> Codes \cup {"none"}]
      /\ pc'[t] = "answered"
      /\ \A u \in Threads \ {t} : pc'[u] = pc[u] /\ guarded'[u] = guarded[u] /\ result'[u] = result[u]
  BY <1>1, <1>2, <1>3, AnswerEndsRequest DEF r
<1>5. UNCHANGED <<key, evidence, call, attempt, free, calls, approved>>
  BY DEF RetrieveNothing
<1>6. TypeOK'
  BY <1>2, <1>4, <1>5 DEF TypeOK
<1>7. RequestOK(t)'
  BY <1>3, <1>4 DEF RequestOK, AnsweredWell
<1>8. \A u \in Threads \ {t} : Untouched(u)
  BY <1>4, <1>5 DEF Untouched
<1>9. call[t] \in Calls => calls[call[t]].phase = "done"
  BY <1>2 DEF OrchestrationInv, CallsAreOwned
<1> QED BY <1>2, <1>4, <1>5, <1>6, <1>7, <1>8, <1>9, LocalStepKeepsInv

LEMMA RetrievingEvidenceKeepsInv ==
    ASSUME OrchestrationInv, NEW t \in Threads, RetrieveEvidence(t) PROVE OrchestrationInv'
<1>1. TypeOK /\ RequestOK(t) /\ CallsAreOwned
  BY DEF OrchestrationInv
<1>2. TypeOK'
  BY <1>1 DEF TypeOK, RetrieveEvidence, Stations, NotCalled, Outcomes
<1>3. RequestOK(t)'
  BY <1>1 DEF RetrieveEvidence, RequestOK, TypeOK
<1>4. \A u \in Threads \ {t} : Untouched(u)
  BY <1>1 DEF RetrieveEvidence, Untouched, TypeOK
<1>5. pc[t] = "retrieving" /\ pc'[t] = "checking" /\ UNCHANGED <<call, free, calls, approved>>
  BY <1>1 DEF RetrieveEvidence, TypeOK
<1>6. call[t] \in Calls => calls[call[t]].phase = "done"
  BY <1>1, <1>5 DEF CallsAreOwned
<1> QED BY <1>2, <1>3, <1>4, <1>5, <1>6, LocalStepKeepsInv

\* A refusal by the guardrails, whatever else the step records about thread t.
LEMMA RefusingKeepsInv ==
    ASSUME OrchestrationInv, NEW t \in Threads, NEW code \in Codes, Guarded(t, code),
           pc[t] \notin {"idle", "answered", "raised", "starting"},
           UNCHANGED <<key, evidence, result, free, calls, approved>>,
           call' \in [Threads -> Calls \cup {NoCall}],
           attempt' \in [Threads -> [outcome : Outcomes, usage : Calls \cup {NoUsage}]],
           \A u \in Threads \ {t} : call'[u] = call[u] /\ attempt'[u] = attempt[u],
           call'[t] \in Calls => call'[t] = call[t] /\ calls[call[t]].phase = "done",
           ReadyToConclude(t)'
    PROVE  OrchestrationInv'
<1>1. TypeOK /\ key[t] \in Identifiers
  BY DEF OrchestrationInv, RequestOK
<1>2. /\ pc' \in [Threads -> Stations]
      /\ guarded' \in [Threads -> Codes \cup {"none"}]
      /\ pc'[t] = "concluding" /\ guarded'[t] = code
      /\ \A u \in Threads \ {t} : pc'[u] = pc[u] /\ guarded'[u] = guarded[u]
  BY <1>1, GuardedRequestConcludes
<1>3. TypeOK'
  <2>1. \A u \in Threads : pc'[u] = "waiting" => call'[u] \in Calls
    BY <1>1, <1>2 DEF TypeOK
  <2> QED BY <1>1, <1>2, <2>1 DEF TypeOK
<1>4. RequestOK(t)'
  BY <1>1, <1>2 DEF RequestOK
<1>5. \A u \in Threads \ {t} : Untouched(u)
  BY <1>2 DEF Untouched
<1> QED BY <1>2, <1>3, <1>4, <1>5, LocalStepKeepsInv

LEMMA RefusingBeforeProviderKeepsInv ==
    ASSUME OrchestrationInv, NEW t \in Threads, RefuseBeforeProvider(t) PROVE OrchestrationInv'
<1>1. TypeOK /\ RequestOK(t) /\ CallsAreOwned /\ pc[t] = "checking"
  BY DEF OrchestrationInv, RefuseBeforeProvider
<1>2. PICK code \in UnusableEvidence \cup CurrentnessRefusal(t) : Guarded(t, code)
  BY DEF RefuseBeforeProvider
<1>3. code \in CodesAfter("NOT_CALLED") /\ code # "ACCEPTED" /\ code \in Codes
  BY DEF CurrentnessRefusal, CodesAfter, Codes, UnusableEvidence
<1>4. attempt[t] = NotCalled
  BY <1>1 DEF RequestOK
<1>5. UNCHANGED <<key, evidence, call, attempt, result, free, calls, approved>>
  BY DEF RefuseBeforeProvider
<1>6. guarded'[t] = code
  BY <1>1, <1>2, <1>3, GuardedRequestConcludes
<1>7. ReadyToConclude(t)'
  BY <1>3, <1>4, <1>5, <1>6 DEF ReadyToConclude, NotCalled
<1>8. call[t] \in Calls => calls[call[t]].phase = "done"
  BY <1>1 DEF CallsAreOwned
<1>9. /\ call' \in [Threads -> Calls \cup {NoCall}]
      /\ attempt' \in [Threads -> [outcome : Outcomes, usage : Calls \cup {NoUsage}]]
  BY <1>1, <1>5 DEF TypeOK
<1> QED BY <1>1, <1>2, <1>3, <1>5, <1>7, <1>8, <1>9, RefusingKeepsInv

LEMMA PassingToProviderKeepsInv ==
    ASSUME OrchestrationInv, NEW t \in Threads, PassToProvider(t) PROVE OrchestrationInv'
<1>1. TypeOK /\ RequestOK(t) /\ CallsAreOwned
  BY DEF OrchestrationInv
<1>2. TypeOK'
  BY <1>1 DEF TypeOK, PassToProvider, Stations
<1>3. RequestOK(t)'
  BY <1>1 DEF PassToProvider, RequestOK, TypeOK, NotCalled
<1>4. \A u \in Threads \ {t} : Untouched(u)
  BY <1>1 DEF PassToProvider, Untouched, TypeOK
<1>5. pc[t] = "checking" /\ pc'[t] = "acquiring" /\ UNCHANGED <<call, free, calls, approved>>
  BY <1>1 DEF PassToProvider, TypeOK
<1>6. call[t] \in Calls => calls[call[t]].phase = "done"
  BY <1>1, <1>5 DEF CallsAreOwned
<1> QED BY <1>2, <1>3, <1>4, <1>5, <1>6, LocalStepKeepsInv

LEMMA AcquiringKeepsInv ==
    ASSUME OrchestrationInv, NEW t \in Threads, Acquire(t) PROVE OrchestrationInv'
<1>1. TypeOK /\ RequestOK(t) /\ CallsAreOwned /\ SlotIsConserved /\ pc[t] = "acquiring"
  BY DEF OrchestrationInv, Acquire
<1>2. attempt[t] = NotCalled
  BY <1>1 DEF RequestOK
<1>3. UNCHANGED <<key, evidence, call, result, calls, approved>>
  BY DEF Acquire
<1>4. call[t] \in Calls => calls[call[t]].phase = "done"
  BY <1>1 DEF CallsAreOwned
<1>5. CASE free = 0
  <2>1. Attempted(t, "BUSY", NoUsage) /\ Guarded(t, "PROVIDER_ERROR") /\ UNCHANGED free
    BY <1>2, <1>5 DEF Acquire, NotCalled
  <2>2. "PROVIDER_ERROR" \in Codes /\ "BUSY" \in Outcomes
    BY DEF Codes, Outcomes
  <2>3. /\ attempt' \in [Threads -> [outcome : Outcomes, usage : Calls \cup {NoUsage}]]
        /\ attempt'[t] = [outcome |-> "BUSY", usage |-> NoUsage]
        /\ \A v \in Threads \ {t} : attempt'[v] = attempt[v]
    BY <1>1, <2>1, <2>2, AttemptIsRecorded
  <2>4. guarded'[t] = "PROVIDER_ERROR"
    BY <1>1, <2>1, <2>2, GuardedRequestConcludes
  <2>5. ReadyToConclude(t)'
    BY <2>3, <2>4 DEF ReadyToConclude, CodesAfter
  <2>6. call' \in [Threads -> Calls \cup {NoCall}]
    BY <1>1, <1>3 DEF TypeOK
  <2> QED BY <1>1, <1>3, <1>4, <2>1, <2>2, <2>3, <2>5, <2>6, RefusingKeepsInv
<1>6. CASE free # 0
  <2>1. free = 1 /\ free' = 0 /\ pc' = [pc EXCEPT ![t] = "starting"]
        /\ UNCHANGED <<attempt, guarded>>
    BY <1>1, <1>6 DEF Acquire, TypeOK
  <2>2. TypeOK'
    BY <1>1, <1>3, <2>1 DEF TypeOK, Stations
  <2>3. Starting' = {t} /\ InProvider' = {}
    BY <1>1, <1>3, <2>1 DEF Starting, InProvider, SlotIsConserved, TypeOK
  <2>4. SlotIsConserved'
    BY <2>1, <2>3 DEF SlotIsConserved
  <2>5. CallsAreOwned'
    BY <1>1, <1>3, <2>1 DEF CallsAreOwned, TypeOK
  <2>6. SeenIsPast'
    BY <1>3 DEF OrchestrationInv, SeenIsPast
  <2>7. RequestOK(t)'
    BY <1>1, <1>3, <2>1 DEF RequestOK, TypeOK, NotCalled
  <2>8. \A u \in Threads \ {t} : RequestOK(u)'
    <3> TAKE u \in Threads \ {t}
    <3>1. RequestOK(u) /\ Untouched(u)
      BY <1>1, <1>3, <2>1 DEF OrchestrationInv, Untouched, TypeOK
    <3> QED BY <1>3, <3>1, UntouchedRequestStaysOK
  <2> QED BY <2>2, <2>4, <2>5, <2>6, <2>7, <2>8 DEF OrchestrationInv
<1> QED BY <1>5, <1>6

LEMMA StartingKeepsInv ==
    ASSUME OrchestrationInv, NEW t \in Threads, NEW c \in Calls, StartWorker(t, c)
    PROVE  OrchestrationInv'
<1>1. TypeOK /\ RequestOK(t) /\ CallsAreOwned /\ SlotIsConserved /\ SeenIsPast
  BY DEF OrchestrationInv
<1>2. /\ pc[t] = "starting" /\ calls[c] = UnusedCall
      /\ pc' = [pc EXCEPT ![t] = "waiting"] /\ call' = [call EXCEPT ![t] = c]
      /\ calls' = [calls EXCEPT ![c] = [phase |-> "running", reply |-> "none", seen |-> 0]]
      /\ UNCHANGED <<key, evidence, attempt, guarded, result, free, approved>>
  BY DEF StartWorker
<1>3. TypeOK'
  BY <1>1, <1>2, PromotionsAssumption DEF TypeOK, Stations
<1>4. \A u \in Threads : call[u] # c
  BY <1>1, <1>2 DEF CallsAreOwned, UnusedCall
<1>5. SlotIsConserved'
  <2>1. Starting = {t} /\ InProvider = {} /\ free = 0
    BY <1>1, <1>2 DEF SlotIsConserved, Starting, TypeOK
  <2>2. Starting' = {} /\ InProvider' = {c}
    BY <1>1, <1>2, <2>1 DEF Starting, InProvider, TypeOK
  <2> QED BY <1>2, <2>1, <2>2 DEF SlotIsConserved
<1>6. CallsAreOwned'
  BY <1>1, <1>2, <1>4 DEF CallsAreOwned, TypeOK
<1>7. SeenIsPast'
  BY <1>1, <1>2, PromotionsAssumption DEF SeenIsPast, TypeOK
<1>8. RequestOK(t)'
  BY <1>1, <1>2 DEF RequestOK, TypeOK, NotCalled
<1>9. \A u \in Threads \ {t} : RequestOK(u)'
  <2> TAKE u \in Threads \ {t}
  <2>1. RequestOK(u) /\ Untouched(u) /\ call[u] # c
    BY <1>1, <1>2, <1>4 DEF OrchestrationInv, Untouched, TypeOK
  <2> QED BY <1>1, <1>2, <2>1, UntouchedRequestStaysOK DEF TypeOK
<1> QED BY <1>3, <1>5, <1>6, <1>7, <1>8, <1>9 DEF OrchestrationInv

LEMMA FailingToStartKeepsInv ==
    ASSUME OrchestrationInv, NEW t \in Threads, FailToStart(t) PROVE OrchestrationInv'
<1>1. TypeOK /\ RequestOK(t) /\ CallsAreOwned /\ SlotIsConserved /\ SeenIsPast
      /\ pc[t] = "starting"
  BY DEF OrchestrationInv, FailToStart
<1>2. Attempted(t, "FAILED", NoUsage) /\ Guarded(t, "PROVIDER_ERROR") /\ free' = free + 1
      /\ UNCHANGED <<key, evidence, call, result, calls, approved>>
  BY <1>1 DEF FailToStart, RequestOK, NotCalled
<1>3. "PROVIDER_ERROR" \in Codes /\ "FAILED" \in Outcomes
  BY DEF Codes, Outcomes, ProviderFailures
<1>4. /\ attempt' \in [Threads -> [outcome : Outcomes, usage : Calls \cup {NoUsage}]]
      /\ attempt'[t] = [outcome |-> "FAILED", usage |-> NoUsage]
      /\ \A v \in Threads \ {t} : attempt'[v] = attempt[v]
  BY <1>1, <1>2, <1>3, AttemptIsRecorded
<1>5. /\ pc' \in [Threads -> Stations]
      /\ guarded' \in [Threads -> Codes \cup {"none"}]
      /\ pc'[t] = "concluding" /\ guarded'[t] = "PROVIDER_ERROR"
      /\ \A u \in Threads \ {t} : pc'[u] = pc[u] /\ guarded'[u] = guarded[u]
  BY <1>1, <1>2, <1>3, GuardedRequestConcludes
<1>6. Starting = {t} /\ InProvider = {} /\ free = 0
  BY <1>1 DEF SlotIsConserved, Starting, TypeOK
<1>7. Starting' = {} /\ InProvider' = {}
  BY <1>2, <1>5, <1>6 DEF Starting, InProvider
<1>8. TypeOK' /\ SlotIsConserved'
  BY <1>1, <1>2, <1>4, <1>5, <1>6, <1>7 DEF TypeOK, SlotIsConserved
<1>9. CallsAreOwned' /\ SeenIsPast'
  BY <1>1, <1>2, <1>5 DEF CallsAreOwned, SeenIsPast
<1>10. RequestOK(t)'
  BY <1>1, <1>2, <1>4, <1>5 DEF RequestOK, ReadyToConclude, CodesAfter
<1>11. \A u \in Threads \ {t} : RequestOK(u)'
  <2> TAKE u \in Threads \ {t}
  <2>1. RequestOK(u) /\ Untouched(u)
    BY <1>2, <1>4, <1>5 DEF OrchestrationInv, Untouched
  <2> QED BY <1>2, <2>1, UntouchedRequestStaysOK
<1> QED BY <1>8, <1>9, <1>10, <1>11 DEF OrchestrationInv

\* A worker's step changes its own call, which no request but one that still
\* waits for it has read.
LEMMA WorkerStepKeepsRequests ==
    ASSUME OrchestrationInv, NEW c \in Calls, calls[c].phase \notin {"unused", "done"},
           \A d \in Calls \ {c} : calls'[d] = calls[d],
           UNCHANGED <<pc, key, evidence, call, attempt, guarded, result>>
    PROVE  \A u \in Threads : RequestOK(u)'
<1> TAKE u \in Threads
<1>1. RequestOK(u) /\ Untouched(u)
  BY DEF OrchestrationInv, Untouched
<1>2. call[u] \in Calls /\ pc[u] # "waiting" => call[u] # c
  BY DEF OrchestrationInv, CallsAreOwned
<1> QED BY <1>1, <1>2, UntouchedRequestStaysOK

LEMMA ProviderReturningKeepsInv ==
    ASSUME OrchestrationInv, NEW c \in Calls, ProviderReturns(c) PROVE OrchestrationInv'
<1>1. TypeOK /\ CallsAreOwned /\ SlotIsConserved /\ SeenIsPast
  BY DEF OrchestrationInv
<1>2. PICK reply \in Replies :
        calls' = [calls EXCEPT ![c] = [phase |-> "answered", reply |-> reply,
                                       seen |-> approved]]
  BY DEF ProviderReturns
<1>3. calls[c].phase = "running"
      /\ UNCHANGED <<pc, key, evidence, call, attempt, guarded, result, free, approved>>
  BY DEF ProviderReturns
<1>4. TypeOK'
  BY <1>1, <1>2, <1>3 DEF TypeOK
<1>5. SlotIsConserved'
  <2>1. Starting' = Starting /\ InProvider' = InProvider
    BY <1>1, <1>2, <1>3 DEF Starting, InProvider, TypeOK
  <2> QED BY <1>1, <1>3, <2>1 DEF SlotIsConserved
<1>6. CallsAreOwned'
  BY <1>1, <1>2, <1>3 DEF CallsAreOwned, TypeOK
<1>7. SeenIsPast'
  BY <1>1, <1>2, <1>3 DEF SeenIsPast, TypeOK
<1>8. \A u \in Threads : RequestOK(u)'
  <2>1. \A d \in Calls \ {c} : calls'[d] = calls[d]
    BY <1>1, <1>2 DEF TypeOK
  <2> QED BY <1>3, <2>1, WorkerStepKeepsRequests
<1> QED BY <1>4, <1>5, <1>6, <1>7, <1>8 DEF OrchestrationInv

LEMMA ReleasingKeepsInv ==
    ASSUME OrchestrationInv, NEW c \in Calls, ReleaseSlot(c) PROVE OrchestrationInv'
<1>1. TypeOK /\ CallsAreOwned /\ SlotIsConserved /\ SeenIsPast
  BY DEF OrchestrationInv
<1>2. /\ calls[c].phase = "answered" /\ free' = free + 1
      /\ calls' = [calls EXCEPT ![c].phase = "released"]
      /\ UNCHANGED <<pc, key, evidence, call, attempt, guarded, result, approved>>
  BY DEF ReleaseSlot
<1>3. Starting = {} /\ InProvider = {c} /\ free = 0
  BY <1>1, <1>2 DEF SlotIsConserved, InProvider, TypeOK
<1>4. Starting' = {} /\ InProvider' = {}
  BY <1>1, <1>2, <1>3 DEF Starting, InProvider, TypeOK
<1>5. TypeOK' /\ SlotIsConserved'
  <2>1. free' = 1
    BY <1>2, <1>3
  <2>2. calls' \in [Calls -> [phase : {"unused", "running", "answered", "released", "done"},
                             reply : Replies \cup {"none"}, seen : 0..MaxPromotions]]
    BY <1>1, <1>2 DEF TypeOK
  <2>3. TypeOK'
    BY <1>1, <1>2, <2>1, <2>2 DEF TypeOK
  <2> QED BY <1>4, <2>1, <2>3 DEF SlotIsConserved
<1>6. CallsAreOwned'
  BY <1>1, <1>2 DEF CallsAreOwned, TypeOK
<1>7. SeenIsPast'
  BY <1>1, <1>2 DEF SeenIsPast, TypeOK
<1>8. \A u \in Threads : RequestOK(u)'
  BY <1>1, <1>2, WorkerStepKeepsRequests DEF TypeOK
<1> QED BY <1>5, <1>6, <1>7, <1>8 DEF OrchestrationInv

LEMMA SignallingKeepsInv ==
    ASSUME OrchestrationInv, NEW c \in Calls, SignalDone(c) PROVE OrchestrationInv'
<1>1. TypeOK /\ CallsAreOwned /\ SlotIsConserved /\ SeenIsPast
  BY DEF OrchestrationInv
<1> DEFINE next == IF \E t \in Threads : call[t] = c
                   THEN [calls[c] EXCEPT !.phase = "done"] ELSE UnusedCall
<1>2. /\ calls[c].phase = "released" /\ calls' = [calls EXCEPT ![c] = next]
      /\ UNCHANGED <<pc, key, evidence, call, attempt, guarded, result, free, approved>>
  BY DEF SignalDone
<1>3. /\ next \in [phase : {"unused", "done"}, reply : Replies \cup {"none"},
                   seen : 0..MaxPromotions]
      /\ next.seen <= approved
      /\ (\E t \in Threads : call[t] = c) => next.phase = "done"
  <2>1. /\ calls[c] \in [phase : {"unused", "running", "answered", "released", "done"},
                        reply : Replies \cup {"none"}, seen : 0..MaxPromotions]
        /\ calls[c].seen <= approved /\ approved \in Nat
    BY <1>1 DEF TypeOK, SeenIsPast
  <2>2. CASE \E t \in Threads : call[t] = c
    <3>1. next = [calls[c] EXCEPT !.phase = "done"]
      BY <2>2
    <3> HIDE DEF next
    <3> QED BY <2>1, <2>2, <3>1
  <2>3. CASE ~ \E t \in Threads : call[t] = c
    <3>1. next = [phase |-> "unused", reply |-> "none", seen |-> 0]
      BY <2>3 DEF UnusedCall
    <3> HIDE DEF next
    <3> QED BY <2>1, <2>3, <3>1, PromotionsAssumption
  <2> QED BY <2>2, <2>3
<1> HIDE DEF next
<1>4. TypeOK'
  BY <1>1, <1>2, <1>3 DEF TypeOK
<1>5. SlotIsConserved'
  <2>1. Starting' = Starting /\ InProvider' = InProvider
    BY <1>1, <1>2, <1>3 DEF Starting, InProvider, TypeOK
  <2> QED BY <1>1, <1>2, <2>1 DEF SlotIsConserved
<1>6. CallsAreOwned'
  BY <1>1, <1>2, <1>3 DEF CallsAreOwned, TypeOK
<1>7. SeenIsPast'
  BY <1>1, <1>2, <1>3 DEF SeenIsPast, TypeOK
<1>8. \A u \in Threads : RequestOK(u)'
  BY <1>1, <1>2, WorkerStepKeepsRequests DEF TypeOK
<1> QED BY <1>4, <1>5, <1>6, <1>7, <1>8 DEF OrchestrationInv

LEMMA ReceivingKeepsInv ==
    ASSUME OrchestrationInv, NEW t \in Threads, Receive(t) PROVE OrchestrationInv'
<1> DEFINE c == call[t]
           reply == calls[c].reply
<1>1. TypeOK /\ RequestOK(t) /\ CallsAreOwned /\ pc[t] = "waiting"
  BY DEF OrchestrationInv, Receive
<1>2. c \in Calls /\ calls[c].phase = "done" /\ attempt[t] = NotCalled
  BY <1>1 DEF TypeOK, Receive, RequestOK
<1>3. UNCHANGED <<key, evidence, call, result, free, calls, approved>>
  BY DEF Receive
<1>4. RefusalOf(reply) \in Codes
  BY DEF RefusalOf, Codes
<1>5. call' \in [Threads -> Calls \cup {NoCall}] /\ call'[t] = c
  BY <1>1, <1>3 DEF TypeOK
<1>6. CASE reply \in ProviderFailures
  <2>1. Attempted(t, reply, NoUsage) /\ Guarded(t, RefusalOf(reply)) /\ reply \in Outcomes
    BY <1>2, <1>6 DEF Receive, NotCalled, ProviderFailures, Outcomes
  <2>2. /\ attempt' \in [Threads -> [outcome : Outcomes, usage : Calls \cup {NoUsage}]]
        /\ attempt'[t] = [outcome |-> reply, usage |-> NoUsage]
        /\ \A v \in Threads \ {t} : attempt'[v] = attempt[v]
    BY <1>1, <2>1, AttemptIsRecorded
  <2>3. guarded'[t] = RefusalOf(reply)
    BY <1>1, <1>4, <2>1, GuardedRequestConcludes
  <2>4. RefusalOf(reply) \in CodesAfter(reply) /\ RefusalOf(reply) # "ACCEPTED"
        /\ reply # "COMPLETED"
    BY <1>6 DEF RefusalOf, CodesAfter, ProviderFailures
  <2> HIDE DEF c, reply
  <2>5. ReadyToConclude(t)'
    BY <2>2, <2>3, <2>4 DEF ReadyToConclude
  <2> QED
    BY <1>1, <1>2, <1>3, <1>4, <1>5, <2>1, <2>2, <2>5, RefusingKeepsInv DEF c
<1>7. CASE reply \notin ProviderFailures
  <2>1. Attempted(t, "COMPLETED", c) /\ "COMPLETED" \in Outcomes
    BY <1>7 DEF Receive, Outcomes
  <2>2. /\ attempt' \in [Threads -> [outcome : Outcomes, usage : Calls \cup {NoUsage}]]
        /\ attempt'[t] = [outcome |-> "COMPLETED", usage |-> c]
        /\ \A v \in Threads \ {t} : attempt'[v] = attempt[v]
    BY <1>1, <1>2, <2>1, AttemptIsRecorded
  <2>3. CASE reply = "supported"
    <3>1. pc' = [pc EXCEPT ![t] = "rechecking"] /\ UNCHANGED guarded
      BY <2>3 DEF Receive
    <3>2. TypeOK'
      BY <1>1, <1>3, <2>2, <3>1 DEF TypeOK, Stations
    <3>3. RequestOK(t)'
      BY <1>1, <1>2, <1>3, <2>2, <2>3, <3>1 DEF RequestOK, Supported, TypeOK
    <3>4. \A u \in Threads \ {t} : Untouched(u)
      BY <1>1, <1>3, <2>2, <3>1 DEF Untouched, TypeOK
    <3>5. pc'[t] = "rechecking"
      BY <1>1, <3>1 DEF TypeOK
    <3> QED BY <1>1, <1>2, <1>3, <3>2, <3>3, <3>4, <3>5, LocalStepKeepsInv
  <2>4. CASE reply # "supported"
    <3>1. Guarded(t, RefusalOf(reply))
      BY <2>4 DEF Receive
    <3>2. guarded'[t] = RefusalOf(reply)
      BY <1>1, <1>4, <3>1, GuardedRequestConcludes
    <3>3. RefusalOf(reply) \in {"INSUFFICIENT_EVIDENCE", "INVALID_PROVIDER_OUTPUT"}
      BY <1>7 DEF RefusalOf, ProviderFailures
    <3> HIDE DEF reply
    <3>4. ReadyToConclude(t)'
      BY <1>2, <1>5, <2>2, <3>2, <3>3 DEF ReadyToConclude, CodesAfter
    <3> HIDE DEF c
    <3> QED
      BY <1>1, <1>2, <1>3, <1>4, <1>5, <2>2, <3>1, <3>4, RefusingKeepsInv DEF c
  <2> QED BY <2>3, <2>4
<1> QED BY <1>6, <1>7

LEMMA TimingOutKeepsInv ==
    ASSUME OrchestrationInv, NEW t \in Threads, TimeOut(t) PROVE OrchestrationInv'
<1>1. TypeOK /\ RequestOK(t) /\ pc[t] = "waiting"
  BY DEF OrchestrationInv, TimeOut
<1>2. /\ Attempted(t, "TIMED_OUT", NoUsage) /\ Guarded(t, "PROVIDER_ERROR")
      /\ call' = [call EXCEPT ![t] = NoCall]
      /\ UNCHANGED <<key, evidence, result, free, calls, approved>>
  BY <1>1 DEF TimeOut, RequestOK, NotCalled
<1>3. "PROVIDER_ERROR" \in Codes /\ "TIMED_OUT" \in Outcomes
  BY DEF Codes, Outcomes
<1>4. /\ attempt' \in [Threads -> [outcome : Outcomes, usage : Calls \cup {NoUsage}]]
      /\ attempt'[t] = [outcome |-> "TIMED_OUT", usage |-> NoUsage]
      /\ \A v \in Threads \ {t} : attempt'[v] = attempt[v]
  BY <1>1, <1>2, <1>3, AttemptIsRecorded
<1>5. guarded'[t] = "PROVIDER_ERROR"
  BY <1>1, <1>2, <1>3, GuardedRequestConcludes
<1>6. /\ call' \in [Threads -> Calls \cup {NoCall}] /\ call'[t] \notin Calls
      /\ \A u \in Threads \ {t} : call'[u] = call[u]
  BY <1>1, <1>2, ConstantsAreDistinct DEF TypeOK
<1>7. ReadyToConclude(t)'
  BY <1>4, <1>5 DEF ReadyToConclude, CodesAfter
<1> QED BY <1>1, <1>2, <1>3, <1>4, <1>6, <1>7, RefusingKeepsInv

LEMMA RecheckingKeepsInv ==
    ASSUME OrchestrationInv, NEW t \in Threads, Recheck(t) PROVE OrchestrationInv'
<1>1. TypeOK /\ RequestOK(t) /\ CallsAreOwned /\ SeenIsPast /\ pc[t] = "rechecking"
  BY DEF OrchestrationInv, Recheck
<1>2. Supported(t) /\ calls[call[t]].phase = "done"
  BY <1>1 DEF RequestOK, CallsAreOwned, Supported
<1>3. PICK code \in {"ACCEPTED", "CURRENTNESS_UNAVAILABLE", "STALE_EVIDENCE"} :
        Guarded(t, code) /\ (code = "ACCEPTED" => evidence[t] = approved)
  BY DEF Recheck, CurrentnessRefusal
<1>4. code \in Codes
  BY DEF Codes
<1>5. UNCHANGED <<key, evidence, call, attempt, result, free, calls, approved>>
  BY DEF Recheck
<1>6. guarded'[t] = code
  BY <1>1, <1>3, <1>4, GuardedRequestConcludes
<1>7. code = "ACCEPTED" => evidence[t] >= calls[call[t]].seen
  BY <1>1, <1>2, <1>3, PromotionsAssumption DEF SeenIsPast, Supported, TypeOK
<1>8. ReadyToConclude(t)'
  BY <1>2, <1>5, <1>6, <1>7 DEF ReadyToConclude, CodesAfter, Supported
<1>9. /\ call' \in [Threads -> Calls \cup {NoCall}]
      /\ attempt' \in [Threads -> [outcome : Outcomes, usage : Calls \cup {NoUsage}]]
  BY <1>1, <1>5 DEF TypeOK
<1> QED BY <1>1, <1>2, <1>3, <1>4, <1>5, <1>8, <1>9, RefusingKeepsInv

LEMMA ConcludingKeepsInv ==
    ASSUME OrchestrationInv, NEW t \in Threads, Conclude(t) PROVE OrchestrationInv'
<1>1. TypeOK /\ RequestOK(t) /\ CallsAreOwned /\ pc[t] = "concluding"
  BY DEF OrchestrationInv, Conclude
<1>2. /\ key[t] \in Identifiers /\ key[t] \in EarlyReasons \cup Faults
      /\ ReadyToConclude(t)
      /\ attempt[t] \in [outcome : Outcomes, usage : Calls \cup {NoUsage}]
  BY <1>1 DEF RequestOK, TypeOK
<1>3. UNCHANGED <<key, evidence, call, attempt, free, calls, approved>>
  BY DEF Conclude
<1>4. guarded[t] \in Codes
  BY <1>2 DEF ReadyToConclude, CodesAfter, Codes
<1>5. PICK r \in {Plain(key[t], "TIMING_UNAVAILABLE"),
                 Composed(key[t], attempt[t], guarded[t])} : Answer(t, r)
  BY DEF Conclude
<1>6. r \in Results /\ Constructible(r)
  <2>1. CASE r = Plain(key[t], "TIMING_UNAVAILABLE")
    BY <1>2, <2>1, PlainResultsAreTyped, PlainResultsAreConstructible
  <2>2. CASE r = Composed(key[t], attempt[t], guarded[t])
    <3>1. attempt[t] = [outcome |-> attempt[t].outcome, usage |-> attempt[t].usage]
          /\ attempt[t].outcome \in Outcomes /\ attempt[t].usage \in Calls \cup {NoUsage}
      BY <1>2
    <3>2. guarded[t] \in CodesAfter(attempt[t].outcome)
      BY <1>2 DEF ReadyToConclude
    <3>3. Constructible(Composed(key[t], attempt[t], guarded[t]))
      BY <1>2, <3>1, <3>2, ComposedResultsAreConstructible
    <3> QED BY <1>2, <1>4, <2>2, <3>3, ComposedResultsAreTyped
  <2> QED BY <2>1, <2>2
<1>7. /\ r.metadata # NoMetadata => r.metadata \in {NoUsage, call[t]}
      /\ r.status = "GENERATED" =>
            r.metadata = call[t] /\ Supported(t) /\ evidence[t] >= calls[call[t]].seen
  <2>1. CASE r = Plain(key[t], "TIMING_UNAVAILABLE")
    BY <1>2, <2>1, PlainResultsAreTyped
  <2>2. CASE r = Composed(key[t], attempt[t], guarded[t])
    <3>1. r.metadata = MetadataOf(attempt[t])
          /\ (r.status = "GENERATED" => guarded[t] = "ACCEPTED")
      BY <2>2 DEF Composed, Decision
    <3>2. MetadataOf(attempt[t]) \in {NoMetadata, NoUsage, call[t]}
      BY <1>2 DEF MetadataOf, ReadyToConclude
    <3>3. Supported(t) => MetadataOf(attempt[t]) = call[t]
      BY DEF MetadataOf, Supported
    <3> QED BY <1>2, <3>1, <3>2, <3>3 DEF ReadyToConclude
  <2> QED BY <2>1, <2>2
<1>8. /\ result' \in [Threads -> Results] /\ result'[t] = r
      /\ pc' \in [Threads -> Stations]
      /\ guarded' \in [Threads -> Codes \cup {"none"}]
      /\ pc'[t] = "answered"
      /\ \A u \in Threads \ {t} : pc'[u] = pc[u] /\ guarded'[u] = guarded[u] /\ result'[u] = result[u]
  BY <1>1, <1>5, <1>6, AnswerEndsRequest
<1>9. TypeOK'
  BY <1>1, <1>3, <1>8 DEF TypeOK
<1>10. RequestOK(t)'
  BY <1>3, <1>7, <1>8 DEF RequestOK, AnsweredWell, Supported
<1>11. \A u \in Threads \ {t} : Untouched(u)
  BY <1>3, <1>8 DEF Untouched
<1>12. call[t] \in Calls => calls[call[t]].phase = "done"
  BY <1>1 DEF CallsAreOwned
<1> QED BY <1>1, <1>3, <1>8, <1>9, <1>10, <1>11, <1>12, LocalStepKeepsInv

\* What a new request leaves behind: the calls but for the one it forgets.
LEMMA AskingStartsAfresh ==
    ASSUME OrchestrationInv, NEW t \in Threads, NEW k \in EarlyReasons \cup Faults, Ask(t, k)
    PROVE  /\ \A c \in Calls : calls'[c] = IF c = call[t] THEN UnusedCall ELSE calls[c]
           /\ calls' \in [Calls -> [phase : {"unused", "running", "answered", "released", "done"},
                                    reply : Replies \cup {"none"}, seen : 0..MaxPromotions]]
           /\ call' \in [Threads -> Calls \cup {NoCall}] /\ call'[t] = NoCall
           /\ key' \in [Threads -> EarlyReasons \cup Faults] /\ key'[t] = k
           /\ evidence' \in [Threads -> 0..MaxPromotions] /\ evidence'[t] = 0
           /\ \A u \in Threads \ {t} :
                call'[u] = call[u] /\ key'[u] = key[u] /\ evidence'[u] = evidence[u]
           /\ call[t] \in Calls => calls[call[t]].phase = "done"
           /\ UNCHANGED <<attempt, free, approved>>
<1>1. TypeOK /\ CallsAreOwned
  BY DEF OrchestrationInv
<1>2. UnusedCall \in [phase : {"unused", "running", "answered", "released", "done"},
                      reply : Replies \cup {"none"}, seen : 0..MaxPromotions]
  BY PromotionsAssumption DEF UnusedCall
<1>3. calls' = [c \in Calls |-> IF c = call[t] THEN UnusedCall ELSE calls[c]]
  BY DEF Ask
<1>4. call[t] \in Calls => calls[call[t]].phase = "done"
  BY <1>1 DEF Ask, CallsAreOwned
<1>5. /\ call' = [call EXCEPT ![t] = NoCall] /\ key' = [key EXCEPT ![t] = k]
      /\ evidence' = [evidence EXCEPT ![t] = 0] /\ UNCHANGED <<attempt, free, approved>>
  BY DEF Ask
<1>6. /\ calls' \in [Calls -> [phase : {"unused", "running", "answered", "released", "done"},
                              reply : Replies \cup {"none"}, seen : 0..MaxPromotions]]
      /\ \A c \in Calls : calls'[c] = IF c = call[t] THEN UnusedCall ELSE calls[c]
  BY <1>1, <1>2, <1>3 DEF TypeOK
<1> QED BY <1>1, <1>4, <1>5, <1>6, PromotionsAssumption DEF TypeOK

\* How the request fares at once.
LEMMA AskingEndsOrRetrieves ==
    ASSUME TypeOK, NEW t \in Threads, NEW k \in EarlyReasons \cup Faults, Ask(t, k)
    PROVE  /\ result' \in [Threads -> Results]
           /\ pc' \in [Threads -> Stations]
           /\ guarded' \in [Threads -> Codes \cup {"none"}]
           /\ \A u \in Threads \ {t} : pc'[u] = pc[u] /\ guarded'[u] = guarded[u] /\ result'[u] = result[u]
           /\ \/ /\ pc'[t] = "answered"
                 /\ result'[t].metadata = NoMetadata /\ result'[t].status # "GENERATED"
              \/ pc'[t] = "raised" /\ k \in Faults \ Identifiers
              \/ pc'[t] = "retrieving" /\ k \in Identifiers
<1>1. CASE k \in EarlyReasons /\ Answer(t, Plain(k, k))
  BY <1>1, PlainResultsAreTyped, EarlyResultsAreConstructible, AnswerEndsRequest
<1>2. CASE k \in Faults \ Identifiers /\ Answer(t, Plain(k, "INVALID_PREDICTION"))
  <2>1. "INVALID_PREDICTION" \in EarlyReasons
    BY DEF EarlyReasons
  <2> QED BY <1>2, <2>1, PlainResultsAreTyped, AnswerEndsRequest
<1>3. CASE /\ k \in Identifiers
           /\ pc' = [pc EXCEPT ![t] = "retrieving"]
           /\ result' = [result EXCEPT ![t] = NoResult]
           /\ UNCHANGED guarded
  <2>1. NoResult \in Results
    BY DEF NoResult, Results, Decision, DispositionOf
  <2> QED BY <1>3, <2>1 DEF TypeOK, Stations
<1> QED BY <1>1, <1>2, <1>3 DEF Ask

LEMMA AskingKeepsInv ==
    ASSUME OrchestrationInv, NEW t \in Threads, NEW k \in EarlyReasons \cup Faults, Ask(t, k)
    PROVE  OrchestrationInv'
<1>1. TypeOK /\ CallsAreOwned /\ SlotIsConserved /\ SeenIsPast
      /\ pc[t] \in {"idle", "answered", "raised"}
  BY DEF OrchestrationInv, Ask
<1>2. /\ \A c \in Calls : calls'[c] = IF c = call[t] THEN UnusedCall ELSE calls[c]
      /\ calls' \in [Calls -> [phase : {"unused", "running", "answered", "released", "done"},
                               reply : Replies \cup {"none"}, seen : 0..MaxPromotions]]
      /\ call' \in [Threads -> Calls \cup {NoCall}] /\ call'[t] = NoCall
      /\ key' \in [Threads -> EarlyReasons \cup Faults] /\ key'[t] = k
      /\ evidence' \in [Threads -> 0..MaxPromotions] /\ evidence'[t] = 0
      /\ \A u \in Threads \ {t} :
            call'[u] = call[u] /\ key'[u] = key[u] /\ evidence'[u] = evidence[u]
      /\ call[t] \in Calls => calls[call[t]].phase = "done"
      /\ UNCHANGED <<attempt, free, approved>>
  BY AskingStartsAfresh
<1>3. /\ result' \in [Threads -> Results]
      /\ pc' \in [Threads -> Stations]
      /\ guarded' \in [Threads -> Codes \cup {"none"}]
      /\ \A u \in Threads \ {t} : pc'[u] = pc[u] /\ guarded'[u] = guarded[u] /\ result'[u] = result[u]
      /\ \/ /\ pc'[t] = "answered"
            /\ result'[t].metadata = NoMetadata /\ result'[t].status # "GENERATED"
         \/ pc'[t] = "raised" /\ k \in Faults \ Identifiers
         \/ pc'[t] = "retrieving" /\ k \in Identifiers
  BY <1>1, AskingEndsOrRetrieves
<1>4. TypeOK'
  <2>1. \A u \in Threads : pc'[u] = "waiting" => call'[u] \in Calls
    BY <1>1, <1>2, <1>3 DEF TypeOK
  <2> QED BY <1>1, <1>2, <1>3, <2>1 DEF TypeOK
<1>5. SlotIsConserved'
  <2>1. Starting' = Starting /\ InProvider' = InProvider
    BY <1>1, <1>2, <1>3 DEF Starting, InProvider, UnusedCall
  <2> QED BY <1>1, <1>2, <2>1 DEF SlotIsConserved
<1>6. \A u \in Threads \ {t} : call[u] \in Calls => calls'[call[u]] = calls[call[u]]
  BY <1>1, <1>2 DEF CallsAreOwned
<1>7. CallsAreOwned'
  BY <1>1, <1>2, <1>3, <1>6, ConstantsAreDistinct DEF CallsAreOwned
<1>8. SeenIsPast'
  BY <1>1, <1>2 DEF SeenIsPast, UnusedCall, TypeOK
<1>9. RequestOK(t)'
  BY <1>2, <1>3 DEF RequestOK, AnsweredWell
<1>10. \A u \in Threads \ {t} : RequestOK(u)'
  <2> TAKE u \in Threads \ {t}
  <2>1. RequestOK(u) /\ Untouched(u)
    BY <1>2, <1>3 DEF OrchestrationInv, Untouched
  <2> QED BY <1>6, <2>1, UntouchedRequestStaysOK
<1> QED BY <1>4, <1>5, <1>7, <1>8, <1>9, <1>10 DEF OrchestrationInv

LEMMA PromotingKeepsInv == ASSUME OrchestrationInv, Promote PROVE OrchestrationInv'
<1>1. /\ UNCHANGED <<pc, key, evidence, call, attempt, guarded, result, free, calls>>
      /\ approved' = approved + 1 /\ approved' \in 0..MaxPromotions
  BY PromotionsAssumption DEF Promote, OrchestrationInv, TypeOK
<1>2. TypeOK' /\ SlotIsConserved' /\ CallsAreOwned'
  BY <1>1 DEF OrchestrationInv, TypeOK, SlotIsConserved, CallsAreOwned, Starting, InProvider
<1>3. SeenIsPast'
  BY <1>1, PromotionsAssumption DEF OrchestrationInv, SeenIsPast, TypeOK
<1>4. \A u \in Threads : RequestOK(u)'
  BY <1>1, UntouchedRequestStaysOK DEF OrchestrationInv, Untouched
<1> QED BY <1>2, <1>3, <1>4 DEF OrchestrationInv

LEMMA NextKeepsInv == OrchestrationInv /\ [Next]_vars => OrchestrationInv'
<1> SUFFICES ASSUME OrchestrationInv, [Next]_vars PROVE OrchestrationInv'
  OBVIOUS
<1>1. CASE UNCHANGED vars
  <2>1. TypeOK' /\ SlotIsConserved' /\ CallsAreOwned' /\ SeenIsPast'
    BY <1>1 DEF OrchestrationInv, vars, TypeOK, SlotIsConserved, CallsAreOwned, SeenIsPast,
       Starting, InProvider
  <2>2. \A u \in Threads : RequestOK(u)'
    BY <1>1, UntouchedRequestStaysOK DEF OrchestrationInv, vars, Untouched
  <2> QED BY <2>1, <2>2 DEF OrchestrationInv
<1>2. ASSUME NEW t \in Threads, NEW k \in EarlyReasons \cup Faults, Ask(t, k)
      PROVE  OrchestrationInv'
  BY <1>2, AskingKeepsInv
<1>3. ASSUME NEW t \in Threads, Serve(t) PROVE OrchestrationInv'
  <2>1. CASE RetrieveNothing(t)
    BY <2>1, RetrievingNothingKeepsInv
  <2>2. CASE RetrieveEvidence(t)
    BY <2>2, RetrievingEvidenceKeepsInv
  <2>3. CASE RefuseBeforeProvider(t)
    BY <2>3, RefusingBeforeProviderKeepsInv
  <2>4. CASE PassToProvider(t)
    BY <2>4, PassingToProviderKeepsInv
  <2>5. CASE Acquire(t)
    BY <2>5, AcquiringKeepsInv
  <2>6. CASE \E c \in Calls : StartWorker(t, c)
    BY <2>6, StartingKeepsInv
  <2>7. CASE FailToStart(t)
    BY <2>7, FailingToStartKeepsInv
  <2>8. CASE Receive(t)
    BY <2>8, ReceivingKeepsInv
  <2>9. CASE TimeOut(t)
    BY <2>9, TimingOutKeepsInv
  <2>10. CASE Recheck(t)
    BY <2>10, RecheckingKeepsInv
  <2>11. CASE Conclude(t)
    BY <2>11, ConcludingKeepsInv
  <2> QED
    BY <1>3, <2>1, <2>2, <2>3, <2>4, <2>5, <2>6, <2>7, <2>8, <2>9, <2>10, <2>11 DEF Serve
<1>4. ASSUME NEW c \in Calls, ProviderReturns(c) \/ Finish(c) PROVE OrchestrationInv'
  BY <1>4, ProviderReturningKeepsInv, ReleasingKeepsInv, SignallingKeepsInv DEF Finish
<1>5. CASE Promote
  BY <1>5, PromotingKeepsInv
<1> QED BY <1>1, <1>2, <1>3, <1>4, <1>5 DEF Next

--------------------------------------------------------------------------------
(***************************************************************************)
(* The theorems.                                                           *)
(***************************************************************************)

\* The inductive invariant holds throughout any run of the service.
THEOREM OrchestrationInvariant == Spec => []OrchestrationInv
BY InitSatisfiesInv, NextKeepsInv, PTL DEF Spec

\* The semaphore never exceeds its initial value, and every result, attempt
\* and call state keeps its shape (_try_generate_bounded releases exactly what
\* it acquired).
THEOREM OrchestrationIsTyped == Spec => []TypeOK
<1>1. OrchestrationInv => TypeOK
  BY DEF OrchestrationInv
<1> QED BY <1>1, OrchestrationInvariant, PTL

\* At most one provider call is in flight, and no timeout or failed start
\* loses the slot or hands it out twice.
THEOREM SlotIsAlwaysConserved == Spec => []SlotIsConserved
<1>1. OrchestrationInv => SlotIsConserved
  BY DEF OrchestrationInv
<1> QED BY <1>1, OrchestrationInvariant, PTL

\* For a fault the generation contract can name, no combination of outcome,
\* refusal and metadata is refused by the constructor of the result.
THEOREM NamedFaultsAreAnswered == Spec => []OnlyUnnamedFaultsEscape
<1>1. OrchestrationInv => OnlyUnnamedFaultsEscape
  BY DEF OrchestrationInv, RequestOK, OnlyUnnamedFaultsEscape
<1> QED BY <1>1, OrchestrationInvariant, PTL

\* The metadata of a result is that of its own provider call.
THEOREM MetadataIsAlwaysOwn == Spec => []MetadataIsOfThisAttempt
<1>1. OrchestrationInv => MetadataIsOfThisAttempt
  BY DEF OrchestrationInv, RequestOK, AnsweredWell, MetadataIsOfThisAttempt
<1> QED BY <1>1, OrchestrationInvariant, PTL

\* A generated prescription cites evidence that was still approved after the
\* provider had answered, however late the answer.
THEOREM EvidenceOutlivesProvider == Spec => []GeneratedFromLiveEvidence
<1>1. OrchestrationInv => GeneratedFromLiveEvidence
  BY DEF OrchestrationInv, RequestOK, AnsweredWell, GeneratedFromLiveEvidence
<1> QED BY <1>1, OrchestrationInvariant, PTL
================================================================================
