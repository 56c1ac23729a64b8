----------------------- MODULE PrescriptionOrchestration -----------------------
(***************************************************************************)
(* One prescription service instance shared by several request threads     *)
(* (prescription_orchestration.py, generation/guardrails.py and            *)
(* generation/service.py).  A request for a documented fault retrieves     *)
(* governed evidence, verifies that it is current, asks a generation       *)
(* provider, verifies the evidence again, and turns all of it into one     *)
(* typed result.  The provider is synchronous and cannot be cancelled: a   *)
(* worker thread calls it while it holds the only slot of the instance and *)
(* the request waits for it with a timeout, so an answer may arrive after  *)
(* its request has gone, while another request uses the instance.          *)
(*                                                                         *)
(* The provider, the retrieval index, the currentness port and the clock   *)
(* are external: what they answer is a nondeterministic choice.            *)
(***************************************************************************)
EXTENDS Naturals

CONSTANTS
    Threads,         \* request threads of one process
    Faults,          \* retrieval keys canonical_fault_class accepts
    Identifiers,     \* those the generation contract accepts as fault_code
    Calls,           \* bound: provider calls remembered at one time
    MaxPromotions    \* bound: document versions promoted during a run

ASSUME CallsAssumption == {"no call", "no metadata", "no usage"} \cap Calls = {}
ASSUME PromotionsAssumption == MaxPromotions \in Nat

NoCall     == "no call"          \* the request has started no provider call
NoMetadata == "no metadata"
NoUsage    == "no usage"

\* Predictions that never reach retrieval, and why.
EarlyReasons == {"INVALID_PREDICTION", "INVALID_REQUEST", "NORMAL",
                 "OUT_OF_DISTRIBUTION", "UNDOCUMENTED_FAULT"}

\* A retrieval key is not one of these words, which stand for other inputs.
ASSUME FaultsAssumption ==
    Identifiers \subseteq Faults /\ Faults \cap EarlyReasons = {}

ProviderFailures == {"DISABLED", "INVALID_RESPONSE", "FAILED"}

\* A response is classified by what validate_provider_output makes of its text.
ProviderResponses == {"supported", "insufficient", "malformed"}

Replies == ProviderFailures \cup ProviderResponses

Outcomes == ProviderFailures \cup {"NOT_CALLED", "COMPLETED", "TIMED_OUT", "BUSY"}

\* Evidence the guardrails refuse before any other check.
UnusableEvidence == {"DIAGNOSIS_CONFLICT", "UNSAFE_EVIDENCE",
                     "EVIDENCE_CONFLICT", "INVALID_RETRIEVAL"}

Codes == UnusableEvidence \cup
         {"ACCEPTED", "STALE_EVIDENCE", "CURRENTNESS_UNAVAILABLE",
          "PROVIDER_DISABLED", "PROVIDER_ERROR", "INVALID_PROVIDER_OUTPUT",
          "INSUFFICIENT_EVIDENCE"}

VARIABLES
    pc,         \* where each request thread is
    key,        \* its prediction: an early reason or a retrieval key
    evidence,   \* the document version its evidence was retrieved from
    call,       \* the _ProviderCallState of its provider call
    attempt,    \* the provider's thread-local outcome and usage
    guarded,    \* the guardrails' decision
    result,     \* the last result each thread returned
    free,       \* the value of the capacity semaphore
    calls,      \* worker threads and the state they share with the request
    approved    \* the version of the documents that is approved now

vars == <<pc, key, evidence, call, attempt, guarded, result, free, calls, approved>>

--------------------------------------------------------------------------------
(***************************************************************************)
(* The result and the checks its constructor makes.                        *)
(***************************************************************************)

Skipping == {"NORMAL", "OUT_OF_DISTRIBUTION", "UNDOCUMENTED_FAULT",
             "NO_EVIDENCE", "UNMAPPED_FAULT"}

DispositionOf(k) ==
    CASE k = "INVALID_PREDICTION" -> "none"
      [] k \in {"NORMAL", "OUT_OF_DISTRIBUTION"} -> k
      [] OTHER -> "FAULT"

Decision(k, status, reason, guardrail, metadata) ==
    [status |-> status, disposition |-> DispositionOf(k), reason |-> reason,
     guardrail |-> guardrail, metadata |-> metadata]

\* No result yet: the request is being served.
NoResult == Decision("INVALID_PREDICTION", "none", "none", "none", NoMetadata)

\* A result that consulted neither the guardrails nor the provider.
Plain(k, reason) ==
    Decision(k, IF reason \in Skipping THEN "SKIPPED" ELSE "DEGRADED", reason,
             "none", NoMetadata)

ValidGenerated(r) ==
    r.disposition = "FAULT" /\ r.guardrail = "ACCEPTED" /\ r.metadata # NoMetadata

ValidSkipped(r) ==
    /\ r.reason \in Skipping
    /\ r.guardrail = "none"
    /\ r.metadata = NoMetadata
    /\ r.disposition = IF r.reason \in {"NORMAL", "OUT_OF_DISTRIBUTION"}
                       THEN r.reason ELSE "FAULT"

ValidRefused(r) ==
    /\ r.disposition = "FAULT"
    /\ r.reason = "GUARDRAIL_REFUSAL"
    /\ r.guardrail \in Codes \ {"ACCEPTED", "CURRENTNESS_UNAVAILABLE",
                                "PROVIDER_DISABLED", "PROVIDER_ERROR"}
    /\ r.guardrail \in {"INVALID_PROVIDER_OUTPUT", "INSUFFICIENT_EVIDENCE"}
         => r.metadata # NoMetadata
    /\ r.guardrail \in UnusableEvidence => r.metadata = NoMetadata

ValidDegraded(r) ==
    \/ /\ r.reason = "INVALID_PREDICTION"
       /\ r.disposition = "none" /\ r.guardrail = "none"
    \/ /\ r.reason = "INVALID_REQUEST"
       /\ r.disposition # "none" /\ r.guardrail = "none"
    \/ /\ r.reason \in {"RETRIEVAL_UNAVAILABLE", "TIMING_UNAVAILABLE"}
       /\ r.disposition = "FAULT" /\ r.guardrail = "none"
    \/ /\ r.reason = "CURRENTNESS_UNAVAILABLE"
       /\ r.disposition = "FAULT" /\ r.guardrail = "CURRENTNESS_UNAVAILABLE"
    \/ /\ r.reason = "PROVIDER_DISABLED" /\ r.metadata # NoMetadata
       /\ r.disposition = "FAULT" /\ r.guardrail = "PROVIDER_DISABLED"
    \/ /\ r.reason \in {"PROVIDER_ERROR", "PROVIDER_TIMEOUT"} /\ r.metadata # NoMetadata
       /\ r.disposition = "FAULT" /\ r.guardrail = "PROVIDER_ERROR"
    \/ /\ r.reason = "PROVIDER_BUSY" /\ r.metadata = NoMetadata
       /\ r.disposition = "FAULT" /\ r.guardrail = "PROVIDER_ERROR"

\* What PrescriptionOrchestrationResult accepts; it raises on anything else.
Constructible(r) ==
    /\ r.metadata # NoMetadata => r.guardrail # "none"
    /\ CASE r.status = "GENERATED" -> ValidGenerated(r)
         [] r.status = "SKIPPED"   -> ValidSkipped(r)
         [] r.status = "REFUSED"   -> ValidRefused(r)
         [] OTHER                  -> ValidDegraded(r)

\* The request ends with result r, or with the exception its constructor raises.
Answer(t, r) ==
    /\ pc' = [pc EXCEPT ![t] = IF Constructible(r) THEN "answered" ELSE "raised"]
    /\ result' = [result EXCEPT ![t] = r]
    /\ guarded' = [guarded EXCEPT ![t] = "none"]

\* The guardrails' decision is code: the service composes the result next.
Guarded(t, code) ==
    /\ pc' = [pc EXCEPT ![t] = "concluding"]
    /\ guarded' = [guarded EXCEPT ![t] = code]

--------------------------------------------------------------------------------
(***************************************************************************)
(* Before the provider: the prediction, retrieval and the first check.     *)
(***************************************************************************)

UnusedCall == [phase |-> "unused", reply |-> "none", seen |-> 0]

\* orchestrate up to the retrieval.  Everything here is local to the thread,
\* whose previous result and locals are gone.
Ask(t, k) ==
    /\ pc[t] \in {"idle", "answered", "raised"}
    /\ key' = [key EXCEPT ![t] = k]
    /\ call' = [call EXCEPT ![t] = NoCall]
    /\ \/ k \in EarlyReasons /\ Answer(t, Plain(k, k))
       \/ k \in Faults \ Identifiers /\ Answer(t, Plain(k, "INVALID_PREDICTION"))
       \/ /\ k \in Identifiers
          /\ pc' = [pc EXCEPT ![t] = "retrieving"]
          /\ result' = [result EXCEPT ![t] = NoResult]
          /\ UNCHANGED guarded
    /\ evidence' = [evidence EXCEPT ![t] = 0]
    /\ calls' = [c \in Calls |-> IF c = call[t] THEN UnusedCall ELSE calls[c]]
    /\ UNCHANGED <<attempt, free, approved>>

\* No evidence: an empty or unmapped retrieval, one that failed or came from
\* another policy, or a clock that cannot be read before generation.
RetrieveNothing(t) ==
    /\ pc[t] = "retrieving"
    /\ \E reason \in {"NO_EVIDENCE", "UNMAPPED_FAULT",
                      "RETRIEVAL_UNAVAILABLE", "TIMING_UNAVAILABLE"} :
            Answer(t, Plain(key[t], reason))
    /\ UNCHANGED <<key, evidence, call, attempt, free, calls, approved>>

NotCalled == [outcome |-> "NOT_CALLED", usage |-> NoUsage]

\* MUTANT: the attempt of the thread's previous request is left in place.
RetrieveWithoutReset(t) ==
    /\ pc[t] = "retrieving"
    /\ pc' = [pc EXCEPT ![t] = "checking"]
    /\ evidence' = [evidence EXCEPT ![t] = approved]
    /\ UNCHANGED <<key, call, attempt, guarded, result, free, calls, approved>>

\* Evidence of the approved version; the attempt of the thread is reset.
RetrieveEvidence(t) ==
    /\ pc[t] = "retrieving"
    /\ pc' = [pc EXCEPT ![t] = "checking"]
    /\ evidence' = [evidence EXCEPT ![t] = approved]
    /\ attempt' = [attempt EXCEPT ![t] = NotCalled]
    /\ UNCHANGED <<key, call, guarded, result, free, calls, approved>>

\* _snapshots_are_current: a port that fails answers neither yes nor no.
CurrentnessRefusal(t) ==
    {"CURRENTNESS_UNAVAILABLE"} \cup
    (IF evidence[t] = approved THEN {} ELSE {"STALE_EVIDENCE"})

RefuseBeforeProvider(t) ==
    /\ pc[t] = "checking"
    /\ \E code \in UnusableEvidence \cup CurrentnessRefusal(t) : Guarded(t, code)
    /\ UNCHANGED <<key, evidence, call, attempt, result, free, calls, approved>>

PassToProvider(t) ==
    /\ pc[t] = "checking"
    /\ evidence[t] = approved
    /\ pc' = [pc EXCEPT ![t] = "acquiring"]
    /\ UNCHANGED <<key, evidence, call, attempt, guarded, result, free, calls, approved>>

--------------------------------------------------------------------------------
(***************************************************************************)
(* The bounded provider call.                                              *)
(***************************************************************************)

\* The provider call of thread t failed with this outcome, refused as code.
Attempted(t, outcome, usage) ==
    attempt' = [attempt EXCEPT ![t] = [outcome |-> outcome, usage |-> usage]]

\* MUTANT: the request waits for the slot.
WaitForTheSlot(t) ==
    /\ pc[t] = "acquiring"
    /\ free > 0
    /\ free' = free - 1
    /\ pc' = [pc EXCEPT ![t] = "starting"]
    /\ UNCHANGED <<key, evidence, call, attempt, guarded, result, calls, approved>>

\* The slot is taken without waiting, or the request is refused at once.
Acquire(t) ==
    /\ pc[t] = "acquiring"
    /\ \/ /\ free > 0
          /\ free' = free - 1
          /\ pc' = [pc EXCEPT ![t] = "starting"]
          /\ UNCHANGED <<attempt, guarded>>
       \/ /\ free = 0
          /\ Attempted(t, "BUSY", attempt[t].usage)
          /\ Guarded(t, "PROVIDER_ERROR")
          /\ UNCHANGED free
    /\ UNCHANGED <<key, evidence, call, result, calls, approved>>

StartWorker(t, c) ==
    /\ pc[t] = "starting"
    /\ calls[c] = UnusedCall
    /\ pc' = [pc EXCEPT ![t] = "waiting"]
    /\ call' = [call EXCEPT ![t] = c]
    /\ calls' = [calls EXCEPT ![c] = [phase |-> "running", reply |-> "none", seen |-> 0]]
    /\ UNCHANGED <<key, evidence, attempt, guarded, result, free, approved>>

\* MUTANT: the slot of a worker that never started is lost.
LoseTheSlot(t) ==
    /\ pc[t] = "starting"
    /\ Attempted(t, "FAILED", attempt[t].usage)
    /\ Guarded(t, "PROVIDER_ERROR")
    /\ UNCHANGED <<key, evidence, call, result, free, calls, approved>>

\* The worker thread cannot be started: the slot is handed back.
FailToStart(t) ==
    /\ pc[t] = "starting"
    /\ free' = free + 1
    /\ Attempted(t, "FAILED", attempt[t].usage)
    /\ Guarded(t, "PROVIDER_ERROR")
    /\ UNCHANGED <<key, evidence, call, result, calls, approved>>

\* The external provider answers or raises; seen is a history variable, the
\* version approved at that moment.
ProviderReturns(c) ==
    /\ calls[c].phase = "running"
    /\ \E reply \in Replies :
            calls' = [calls EXCEPT ![c] = [phase |-> "answered", reply |-> reply,
                                           seen |-> approved]]
    /\ UNCHANGED <<pc, key, evidence, call, attempt, guarded, result, free, approved>>

\* The worker's finally clause: first the slot, then the event.
ReleaseSlot(c) ==
    /\ calls[c].phase = "answered"
    /\ free' = free + 1
    /\ calls' = [calls EXCEPT ![c].phase = "released"]
    /\ UNCHANGED <<pc, key, evidence, call, attempt, guarded, result, approved>>

\* A state nobody waits for any more is forgotten with its reply.
SignalDone(c) ==
    /\ calls[c].phase = "released"
    /\ calls' = [calls EXCEPT ![c] = IF \E t \in Threads : call[t] = c
                                     THEN [@ EXCEPT !.phase = "done"]
                                     ELSE UnusedCall]
    /\ UNCHANGED <<pc, key, evidence, call, attempt, guarded, result, free, approved>>

\* How generate_prescription and the guardrails classify a reply.
RefusalOf(reply) ==
    CASE reply = "DISABLED"     -> "PROVIDER_DISABLED"
      [] reply = "FAILED"       -> "PROVIDER_ERROR"
      [] reply = "insufficient" -> "INSUFFICIENT_EVIDENCE"
      [] OTHER                  -> "INVALID_PROVIDER_OUTPUT"

\* The event is set: the request takes the reply of its own call.
Receive(t) ==
    /\ pc[t] = "waiting"
    /\ LET c == call[t]
           reply == calls[c].reply
       IN  /\ calls[c].phase = "done"
           /\ IF reply \in ProviderFailures
              THEN Attempted(t, reply, attempt[t].usage)
              ELSE Attempted(t, "COMPLETED", c)
           /\ IF reply = "supported"
              THEN pc' = [pc EXCEPT ![t] = "rechecking"] /\ UNCHANGED guarded
              ELSE Guarded(t, RefusalOf(reply))
    /\ UNCHANGED <<key, evidence, call, result, free, calls, approved>>

\* The wait ends first; the worker goes on and keeps the slot, and nobody
\* will read its state.
TimeOut(t) ==
    /\ pc[t] = "waiting"
    /\ calls[call[t]].phase # "done"
    /\ Attempted(t, "TIMED_OUT", attempt[t].usage)
    /\ Guarded(t, "PROVIDER_ERROR")
    /\ call' = [call EXCEPT ![t] = NoCall]
    /\ UNCHANGED <<key, evidence, result, free, calls, approved>>

--------------------------------------------------------------------------------
(***************************************************************************)
(* After the provider.                                                     *)
(***************************************************************************)

\* MUTANT: the check made before the provider call is taken to still hold.
TrustTheFirstCheck(t) ==
    /\ pc[t] = "rechecking"
    /\ Guarded(t, "ACCEPTED")
    /\ UNCHANGED <<key, evidence, call, attempt, result, free, calls, approved>>

\* The evidence is verified again before a generated text is accepted.
Recheck(t) ==
    /\ pc[t] = "rechecking"
    /\ \/ evidence[t] = approved /\ Guarded(t, "ACCEPTED")
       \/ \E code \in CurrentnessRefusal(t) : Guarded(t, code)
    /\ UNCHANGED <<key, evidence, call, attempt, result, free, calls, approved>>

\* MUTANT: a request turned away at the slot is audited like an attempt.
AuditEveryAttempt(a) == IF a.outcome = "NOT_CALLED" THEN NoMetadata ELSE a.usage

\* Metadata documents an attempt that took the slot; it is abstracted to the
\* usage it reports.
MetadataOf(a) ==
    IF a.outcome \in {"NOT_CALLED", "BUSY"} THEN NoMetadata ELSE a.usage

\* The reason of a degraded result, by the outcome of the attempt.
ProviderReason(outcome) ==
    CASE outcome = "TIMED_OUT" -> "PROVIDER_TIMEOUT"
      [] outcome = "BUSY"      -> "PROVIDER_BUSY"
      [] outcome = "DISABLED"  -> "PROVIDER_DISABLED"
      [] OTHER                 -> "PROVIDER_ERROR"

Composed(k, a, code) ==
    IF a.outcome \in {"TIMED_OUT", "BUSY", "DISABLED", "FAILED"}
      THEN Decision(k, "DEGRADED", ProviderReason(a.outcome), code, MetadataOf(a))
    ELSE IF code = "ACCEPTED"
      THEN Decision(k, "GENERATED", "none", code, MetadataOf(a))
    ELSE IF code = "CURRENTNESS_UNAVAILABLE"
      THEN Decision(k, "DEGRADED", code, code, MetadataOf(a))
    ELSE Decision(k, "REFUSED", "GUARDRAIL_REFUSAL", code, MetadataOf(a))

\* The tail of orchestrate; the clock may fail or go back in the meantime.
Conclude(t) ==
    /\ pc[t] = "concluding"
    /\ \/ Answer(t, Plain(key[t], "TIMING_UNAVAILABLE"))
       \/ Answer(t, Composed(key[t], attempt[t], guarded[t]))
    /\ UNCHANGED <<key, evidence, call, attempt, free, calls, approved>>

\* Document governance promotes another version of the evidence's document.
Promote ==
    /\ approved < MaxPromotions
    /\ approved' = approved + 1
    /\ UNCHANGED <<pc, key, evidence, call, attempt, guarded, result, free, calls>>

--------------------------------------------------------------------------------
Init ==
    /\ pc = [t \in Threads |-> "idle"]
    /\ key = [t \in Threads |-> "NORMAL"]
    /\ evidence = [t \in Threads |-> 0]
    /\ call = [t \in Threads |-> NoCall]
    /\ attempt = [t \in Threads |-> NotCalled]
    /\ guarded = [t \in Threads |-> "none"]
    /\ result = [t \in Threads |-> NoResult]
    /\ free = 1
    /\ calls = [c \in Calls |-> UnusedCall]
    /\ approved = 0

\* The steps of a request that has been asked.
Serve(t) ==
    \/ RetrieveNothing(t)
    \/ RetrieveEvidence(t)
    \/ RefuseBeforeProvider(t)
    \/ PassToProvider(t)
    \/ Acquire(t)
    \/ \E c \in Calls : StartWorker(t, c)
    \/ FailToStart(t)
    \/ Receive(t)
    \/ TimeOut(t)
    \/ Recheck(t)
    \/ Conclude(t)

\* The steps of a worker thread that do not wait for the provider.
Finish(c) == ReleaseSlot(c) \/ SignalDone(c)

Next ==
    \/ \E t \in Threads : \E k \in EarlyReasons \cup Faults : Ask(t, k)
    \/ \E t \in Threads : Serve(t)
    \/ \E c \in Calls : ProviderReturns(c) \/ Finish(c)
    \/ Promote

Spec == Init /\ [][Next]_vars

\* Threads are scheduled; nothing makes the provider answer.
FairSpec ==
    /\ Spec
    /\ \A t \in Threads : WF_vars(Serve(t))
    /\ \A c \in Calls : WF_vars(Finish(c))

--------------------------------------------------------------------------------
(***************************************************************************)
(* Properties.                                                             *)
(***************************************************************************)

Stations == {"idle", "retrieving", "checking", "acquiring", "starting", "waiting",
             "rechecking", "concluding", "answered", "raised"}

Results == [status : {"none", "GENERATED", "SKIPPED", "REFUSED", "DEGRADED"},
            disposition : {"none", "NORMAL", "OUT_OF_DISTRIBUTION", "FAULT"},
            reason : EarlyReasons \cup
                     {"none", "NO_EVIDENCE", "UNMAPPED_FAULT", "RETRIEVAL_UNAVAILABLE",
                      "TIMING_UNAVAILABLE", "CURRENTNESS_UNAVAILABLE", "GUARDRAIL_REFUSAL",
                      "PROVIDER_TIMEOUT", "PROVIDER_BUSY", "PROVIDER_DISABLED",
                      "PROVIDER_ERROR"},
            guardrail : Codes \cup {"none"},
            metadata : Calls \cup {NoUsage, NoMetadata}]

\* Type correctness: the semaphore never exceeds its initial value 1
\* (a BoundedSemaphore raises there) and every field keeps its range.
TypeOK ==
    /\ pc \in [Threads -> Stations]
    /\ key \in [Threads -> EarlyReasons \cup Faults]
    /\ evidence \in [Threads -> 0..MaxPromotions]
    /\ call \in [Threads -> Calls \cup {NoCall}]
    /\ attempt \in [Threads -> [outcome : Outcomes, usage : Calls \cup {NoUsage}]]
    /\ guarded \in [Threads -> Codes \cup {"none"}]
    /\ result \in [Threads -> Results]
    /\ free \in {0, 1}
    /\ calls \in [Calls -> [phase : {"unused", "running", "answered", "released", "done"},
                            reply : Replies \cup {"none"},
                            seen : 0..MaxPromotions]]
    /\ approved \in 0..MaxPromotions
    /\ \A t \in Threads : pc[t] = "waiting" => call[t] \in Calls

Starting == {t \in Threads : pc[t] = "starting"}
InProvider == {c \in Calls : calls[c].phase \in {"running", "answered"}}

\* The slot is neither leaked nor shared: at any time it is free or it has
\* exactly one holder, a request about to start its worker or a worker that
\* has not come back from the provider.  So there is at most one provider
\* call in flight, timeouts and failed starts included.
SlotIsConserved ==
    /\ \A t, u \in Starting : t = u
    /\ \A c, d \in InProvider : c = d
    /\ Starting = {} \/ InProvider = {}
    /\ free = 1 <=> Starting = {} /\ InProvider = {}

\* A request about a fault the generation contract can name always ends in a
\* result: no combination of outcome, refusal and metadata that the steps
\* above can produce is refused by the result's own constructor.
OnlyUnnamedFaultsEscape ==
    \A t \in Threads : pc[t] = "raised" => key[t] \in Faults \ Identifiers

\* orchestrate promises "a total, typed decision" for every prediction.
DecisionsAreTotal == \A t \in Threads : pc[t] # "raised"

\* The audit metadata of a result is that of its own provider call: a usage
\* is never that of an earlier request of the thread or of another thread's
\* call, and a generated prescription carries the usage of the very call
\* that supported it.
MetadataIsOfThisAttempt ==
    \A t \in Threads :
        (pc[t] = "answered" /\ result[t].metadata # NoMetadata) =>
            /\ result[t].metadata \in {NoUsage, call[t]}
            /\ result[t].status = "GENERATED" =>
                    /\ result[t].metadata = call[t]
                    /\ calls[call[t]].reply = "supported"

\* A prescription is only returned when the documents it cites were still
\* approved after the provider had answered, however long the call took.
GeneratedFromLiveEvidence ==
    \A t \in Threads :
        (pc[t] = "answered" /\ result[t].status = "GENERATED") =>
            evidence[t] >= calls[call[t]].seen

\* Every request ends, even when the provider never answers: neither a busy
\* slot nor a lost worker can hold a caller.
EveryRequestIsAnswered ==
    \A t \in Threads :
        pc[t] \notin {"idle", "answered", "raised"} ~> pc[t] \in {"answered", "raised"}
================================================================================
