------------------------- MODULE DocumentLifecycle -------------------------
(***************************************************************************)
(* The aggregate GovernedDocument of document_lifecycle.py: one logical    *)
(* document, its numbered content versions and its append-only history.    *)
(* A command either fails with the error the method raises first, or       *)
(* yields the next document.  The methods are pure (frozen dataclasses),   *)
(* so they are operators here; the state machines that run them extend     *)
(* this module.                                                            *)
(*                                                                         *)
(* A version number is the position in "versions" and an audit sequence    *)
(* number the position in "history".  received_at and updated_at repeat    *)
(* instants of the history and are left out.  A failure's code and reason  *)
(* are one text, "reason".                                                 *)
(***************************************************************************)
EXTENDS Integers, Sequences, FiniteSets

CONSTANTS Hashes,   \* content hashes (SHA-256 values)
          Actors,   \* who issues a command
          Reasons   \* free texts that justify a decision or a failure

None == "none"      \* Python's None, and the error of a command that succeeds

ASSUME NoneIsNotData == None \notin Hashes \cup Reasons

Steps == {"extraction", "indexing"}
StepStatuses == {"pending", "succeeded", "failed"}
Statuses == {"received", "processing", "pending_approval", "approved",
             "rejected", "failed", "superseded"}
Actions == {"registered", "processing_started", "reprocessing_started",
            "extraction_succeeded", "indexing_succeeded", "processing_failed",
            "approved", "rejected", "superseded"}

ActiveCandidateStatuses == {"received", "processing", "pending_approval"}
IntegrityRequiredStatuses ==
  {"pending_approval", "approved", "rejected", "superseded"}

AllowedTransitions ==
  { <<"received", "processing">>, <<"processing", "pending_approval">>,
    <<"processing", "failed">>, <<"pending_approval", "approved">>,
    <<"pending_approval", "rejected">>, <<"approved", "superseded">>,
    <<"rejected", "processing">>, <<"failed", "processing">> }

(* What an audit action says of the status before and after it. *)
EventStatusTransitions ==
  { <<"registered", None, "received">>,
    <<"processing_started", "received", "processing">>,
    <<"reprocessing_started", "failed", "processing">>,
    <<"reprocessing_started", "rejected", "processing">>,
    <<"extraction_succeeded", "processing", "processing">>,
    <<"indexing_succeeded", "processing", "pending_approval">>,
    <<"processing_failed", "processing", "failed">>,
    <<"approved", "pending_approval", "approved">>,
    <<"rejected", "pending_approval", "rejected">>,
    <<"superseded", "approved", "superseded">> }

-----------------------------------------------------------------------------
(* Values *)

Versions == [sha256 : Hashes, status : Statuses, extraction : StepStatuses,
             indexing : StepStatuses, failure : Steps \cup {None},
             superseded_by : Nat]

SupersessionReason == "superseded by a newer version"

Events == [version : Nat \ {0}, action : Actions,
           source : Statuses \cup {None}, target : Statuses, at : Nat,
           actor : Actors, reason : Reasons \cup {None, SupersessionReason},
           step : Steps \cup {None}]

Documents == [versions : Seq(Versions), current : Nat, history : Seq(Events)]

(* No document is stored under the identity yet. *)
NoDocument == [versions |-> <<>>, current |-> 0, history |-> <<>>]

(* _LifecycleCommand: the payload that is executed, and compared on replay. *)
CommandShapes ==
  [action : Actions \ {"superseded"}, version : Nat \ {0},
   sha256 : Hashes \cup {None}, actor : Actors, reason : Reasons \cup {None},
   step : Steps \cup {None}]

(* The commands the service's methods can build from valid arguments. *)
WellFormedCommand(c) ==
  /\ c \in CommandShapes
  /\ (c.sha256 # None) <=> (c.action \in {"registered", "reprocessing_started"})
  /\ (c.reason # None) <=> (c.action \in {"processing_failed", "approved", "rejected"})
  /\ c.action = "extraction_succeeded" => c.step = "extraction"
  /\ c.action = "indexing_succeeded" => c.step = "indexing"
  /\ c.action = "processing_failed" => c.step # None
  /\ c.action \notin {"extraction_succeeded", "indexing_succeeded",
                      "processing_failed"} => c.step = None

Complete(v) == v.extraction = "succeeded" /\ v.indexing = "succeeded"
HasFailure(v) == v.extraction = "failed" \/ v.indexing = "failed"
StatusFor(v, step) == IF step = "extraction" THEN v.extraction ELSE v.indexing
WithStatus(v, step, s) ==
  IF step = "extraction" THEN [v EXCEPT !.extraction = s]
                         ELSE [v EXCEPT !.indexing = s]
Resumed(s) == IF s = "failed" THEN "pending" ELSE s

(* The checks of the DocumentVersion constructor on version number n. *)
ValidVersion(v, n) ==
  /\ v.status = "received" => v.extraction = "pending" /\ v.indexing = "pending"
  /\ v.status = "processing" => ~HasFailure(v)
  /\ v.status \in IntegrityRequiredStatuses => Complete(v)
  /\ IF v.status = "failed" THEN v.failure # None /\ HasFailure(v)
                            ELSE v.failure = None
  /\ IF v.status = "superseded" THEN v.superseded_by > n
                                ELSE v.superseded_by = 0

(* The check of the LifecycleEvent constructor that a command can fail. *)
ValidEvent(e) == <<e.action, e.source, e.target>> \in EventStatusTransitions

NewVersion(h) == [sha256 |-> h, status |-> "received", extraction |-> "pending",
                  indexing |-> "pending", failure |-> None, superseded_by |-> 0]

EventOf(c, source, target, at) ==
  [version |-> c.version, action |-> c.action, source |-> source,
   target |-> target, at |-> at, actor |-> c.actor, reason |-> c.reason,
   step |-> c.step]

SupersededEvent(number, c, source, at) ==
  [version |-> number, action |-> "superseded", source |-> source,
   target |-> "superseded", at |-> at, actor |-> c.actor,
   reason |-> SupersessionReason, step |-> None]

-----------------------------------------------------------------------------
(* Guards shared by the methods *)

Latest(d) == Len(d.versions)
TransitionAllowed(source, target) == <<source, target>> \in AllowedTransitions
ClockIsTrusted(d, at) == FALSE                             \* mutant
ClockMovedBack(d, at) == at < d.history[Len(d.history)].at
StepInOrder(v, step) == step = "indexing" => v.extraction = "succeeded"

-----------------------------------------------------------------------------
(* The version a command leaves behind, from the version it is applied to. *)

(* Mutant: keeps the extraction that led to a rejection. *)
ReindexedVersion(v) ==
  [v EXCEPT !.status = "processing", !.failure = None,
            !.extraction = Resumed(@), !.indexing = "pending"]

ReprocessedVersion(v) ==
  [v EXCEPT !.status = "processing", !.failure = None,
            !.extraction = IF v.status = "failed" THEN Resumed(@) ELSE "pending",
            !.indexing   = IF v.status = "failed" THEN Resumed(@) ELSE "pending"]

SucceededVersion(v, step) ==
  LET w == WithStatus(v, step, "succeeded")
  IN  [w EXCEPT !.status = IF Complete(w) THEN "pending_approval" ELSE "processing"]

FailedVersion(v, step) ==
  [WithStatus(v, step, "failed") EXCEPT !.status = "failed", !.failure = step]

UpdatedVersion(v, c) ==
  CASE c.action = "processing_started"   -> [v EXCEPT !.status = "processing"]
    [] c.action = "reprocessing_started" -> ReprocessedVersion(v)
    [] c.action \in {"extraction_succeeded", "indexing_succeeded"}
                                         -> SucceededVersion(v, c.step)
    [] c.action = "processing_failed"    -> FailedVersion(v, c.step)
    [] c.action = "approved"             -> [v EXCEPT !.status = "approved"]
    [] c.action = "rejected"             -> [v EXCEPT !.status = "rejected"]

(* _replace_version_and_record *)
ReplaceVersionAndRecord(d, c, at) ==
  LET v == d.versions[c.version]
      w == UpdatedVersion(v, c)
  IN  [d EXCEPT !.versions = [@ EXCEPT ![c.version] = w],
                !.history = Append(@, EventOf(c, v.status, w.status, at))]

(* What the constructors called on the way to the next document refuse. *)
Recordable(d, c, at) ==
  LET v == d.versions[c.version]
      w == UpdatedVersion(v, c)
  IN  ValidVersion(w, c.version) /\ ValidEvent(EventOf(c, v.status, w.status, at))

-----------------------------------------------------------------------------
(* The methods of GovernedDocument: the error each raises first, None when *)
(* it returns, and the document it returns.                                *)

RegisterError(d, c, at) ==
  IF d = NoDocument THEN
     IF c.version # 1 THEN "version_conflict" ELSE None
  ELSE IF c.version <= Latest(d) THEN
     IF /\ d.versions[c.version].sha256 = c.sha256
        /\ \E i \in DOMAIN d.history :
             /\ d.history[i].action = "registered"
             /\ d.history[i].version = c.version
             /\ d.history[i].actor = c.actor
     THEN None ELSE "version_conflict"
  ELSE IF \E i \in DOMAIN d.versions : d.versions[i].sha256 = c.sha256
       THEN "content_conflict"
  ELSE IF c.version # Latest(d) + 1 THEN "version_conflict"
  ELSE IF d.versions[Latest(d)].status \in ActiveCandidateStatuses
       THEN "invalid_transition"
  ELSE IF ClockMovedBack(d, at) THEN "clock"
  ELSE None

Registered(d, c, at) ==
  IF c.version <= Latest(d) THEN d
  ELSE [d EXCEPT !.versions = Append(@, NewVersion(c.sha256)),
                 !.history = Append(@, EventOf(c, None, "received", at))]

StartProcessingError(d, c, at) ==
  IF c.version # Latest(d) THEN "version_conflict"
  ELSE IF ~TransitionAllowed(d.versions[c.version].status, "processing")
       THEN "invalid_transition"
  ELSE IF ClockMovedBack(d, at) THEN "clock"
  ELSE IF ~Recordable(d, c, at) THEN "invalid_input"
  ELSE None

ReprocessError(d, c, at) ==
  IF c.version > Latest(d) THEN "version_conflict"
  ELSE IF d.versions[c.version].sha256 # c.sha256 THEN "content_conflict"
  ELSE StartProcessingError(d, c, at)

(* record_step_succeeded and record_step_failed refuse alike: neither may  *)
(* touch a gate that has already succeeded.                                *)
RecordStepError(d, c, at) ==
  IF c.version # Latest(d) THEN "version_conflict"
  ELSE LET v == d.versions[c.version]
       IN IF \/ v.status # "processing"
             \/ StatusFor(v, c.step) = "succeeded"
             \/ ~StepInOrder(v, c.step)
          THEN "invalid_transition"
          ELSE IF ClockMovedBack(d, at) THEN "clock"
          ELSE IF ~Recordable(d, c, at) THEN "invalid_input"
          ELSE None

(* Approval supersedes the previous current version in the same value. *)
SupersededVersion(d, c) ==
  [d.versions[d.current] EXCEPT !.status = "superseded", !.superseded_by = c.version]

ApproveError(d, c, at) ==
  IF c.version # Latest(d) THEN "version_conflict"
  ELSE LET v == d.versions[c.version]
       IN IF ~Complete(v) THEN "approval_blocked"
          ELSE IF v.status # "pending_approval" THEN "invalid_transition"
          ELSE IF ClockMovedBack(d, at) THEN "clock"
          ELSE IF d.current # 0 /\ ~TransitionAllowed(d.versions[d.current].status,
                                                      "superseded")
               THEN "invalid_transition"
          ELSE IF \/ d.current # 0 /\ ~ValidVersion(SupersededVersion(d, c), d.current)
                  \/ ~Recordable(d, c, at)
               THEN "invalid_input"
          ELSE None

Approved(d, c, at) ==
  LET v == d.versions[c.version]
      approval == EventOf(c, v.status, "approved", at)
      promoted == [d.versions EXCEPT ![c.version] = UpdatedVersion(v, c)]
  IN  IF d.current = 0
      THEN [d EXCEPT !.versions = promoted, !.current = c.version,
                     !.history = Append(@, approval)]
      ELSE LET event == SupersededEvent(d.current, c, d.versions[d.current].status, at)
           IN  [d EXCEPT !.versions = [promoted EXCEPT ![d.current] = SupersededVersion(d, c)],
                         !.current = c.version,
                         !.history = Append(Append(@, event), approval)]

RejectError(d, c, at) ==
  IF c.version # Latest(d) THEN "version_conflict"
  ELSE IF ~TransitionAllowed(d.versions[c.version].status, "rejected")
       THEN "invalid_transition"
  ELSE IF ClockMovedBack(d, at) THEN "clock"
  ELSE IF ~Recordable(d, c, at) THEN "invalid_input"
  ELSE None

(* One command on one document at one instant. *)
ErrorOf(d, c, at) ==
  CASE c.action = "registered"           -> RegisterError(d, c, at)
    [] c.action = "processing_started"   -> StartProcessingError(d, c, at)
    [] c.action = "reprocessing_started" -> ReprocessError(d, c, at)
    [] c.action \in {"extraction_succeeded", "indexing_succeeded",
                     "processing_failed"} -> RecordStepError(d, c, at)
    [] c.action = "approved"             -> ApproveError(d, c, at)
    [] c.action = "rejected"             -> RejectError(d, c, at)

ResultOf(d, c, at) ==
  CASE c.action = "registered" -> Registered(d, c, at)
    [] c.action = "approved"   -> Approved(d, c, at)
    [] OTHER                   -> ReplaceVersionAndRecord(d, c, at)

(* The sole version retrieval may use, 0 when there is none. *)
IsEligibleAndLatest(d, n) == d.current = n /\ n = Latest(d)  \* mutant
IsEligible(d, n) ==
  /\ d.versions[n].status = "approved"
  /\ Complete(d.versions[n])
  /\ d.current = n

EligibleVersion(d) ==
  IF d.current # 0 /\ IsEligible(d, d.current) THEN d.current ELSE 0

-----------------------------------------------------------------------------
(* Exact replay of a command *)

SameActionAndVersion(e, c) ==                              \* mutant
  e.action = c.action /\ e.version = c.version

EventMatchesCommand(e, c) ==
  /\ e.action = c.action
  /\ e.version = c.version
  /\ e.actor = c.actor
  /\ e.reason = c.reason
  /\ e.step = c.step

MatchesLatestCommand(d, c) ==
  /\ EventMatchesCommand(d.history[Len(d.history)], c)
  /\ c.sha256 # None => /\ c.version <= Latest(d)
                        /\ d.versions[c.version].sha256 = c.sha256

MatchesRegistrationCommand(d, c) ==
  /\ c.action = "registered"
  /\ c.version <= Latest(d)
  /\ d.versions[c.version].sha256 = c.sha256
  /\ \E i \in DOMAIN d.history : EventMatchesCommand(d.history[i], c)

-----------------------------------------------------------------------------
(* A snapshot answers a command that it already contains. *)

OnlyRegistrationsReplay(snapshot, c, expected) ==          \* mutant
  /\ snapshot.document # NoDocument
  /\ MatchesRegistrationCommand(snapshot.document, c)

AlreadyExecuted(snapshot, c, expected) ==
  IF c.action = "registered"
  THEN /\ snapshot.document # NoDocument
       /\ MatchesRegistrationCommand(snapshot.document, c)
  ELSE /\ snapshot.document # NoDocument
       /\ snapshot.revision = expected + 1
       /\ MatchesLatestCommand(snapshot.document, c)

(* The checks of _validate_append_only_update that the revision is to make *)
(* redundant: the draft extends the stored history by one command that the *)
(* stored document accepts and that yields the draft. *)
OneEventPerCommand(d, draft, c) ==                         \* mutant
  Len(draft.history) = Len(d.history) + 1

ExtendsAudit(d, draft, c) ==
  /\ Len(d.history) < Len(draft.history)
  /\ SubSeq(draft.history, 1, Len(d.history)) = d.history
  /\ LET at == draft.history[Len(draft.history)].at
     IN  /\ ErrorOf(d, c, at) = None
         /\ ResultOf(d, c, at) = draft

(* The revision the i-th event was written at.  Each command takes one      *)
(* revision: a supersession belongs to the approval that follows it. *)
RevisionAt(h, i) == Cardinality({ j \in 1..i : h[j].action # "superseded" })

(* Equality on every field that tells two commands apart, the content hash *)
(* through the version it names. *)
Records(d, e, c) ==
  /\ <<e.action, e.version, e.actor, e.reason, e.step>> =
       <<c.action, c.version, c.actor, c.reason, c.step>>
  /\ c.sha256 # None => d.versions[c.version].sha256 = c.sha256

(* The command that made revision r of the document is this one. *)
RecordedAt(d, r, c) ==
  \E i \in DOMAIN d.history :
    Records(d, d.history[i], c) /\ RevisionAt(d.history, i) = r

=============================================================================
