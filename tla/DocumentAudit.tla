--------------------------- MODULE DocumentAudit ---------------------------
(***************************************************************************)
(* Which snapshots are trusted: those the constructor of GovernedDocument  *)
(* accepts, and, by is_document_snapshot_audited, whose own history,       *)
(* executed again from nothing, yields the same document at the same       *)
(* revision.  compare_and_swap applies the audit to the stored and to the  *)
(* next snapshot, and PostgreSQL readers to every snapshot they assemble.  *)
(***************************************************************************)
EXTENDS DocumentLifecycle

(* A DocumentSnapshot, and what stands for none. *)
Snapshots == [document : Documents, revision : Nat]
NothingStored == [document |-> NoDocument, revision |-> 0]

CurrentIsApproved(d) ==
  /\ d.current <= Latest(d)
  /\ \A n \in DOMAIN d.versions : (d.versions[n].status = "approved") <=> (d.current = n)

OnlyLatestIsActive(d) ==
  \A n \in DOMAIN d.versions :
    d.versions[n].status \in ActiveCandidateStatuses => n = Latest(d)

DistinctContent(d) ==
  \A m, n \in DOMAIN d.versions : d.versions[m].sha256 = d.versions[n].sha256 => m = n

VersionsAreValid(d) == \A n \in DOMAIN d.versions : ValidVersion(d.versions[n], n)

(* An audited time never precedes the one before it. *)
TimeMovesForward(h) == \A i, j \in DOMAIN h : i <= j => h[i].at <= h[j].at

(* What the GovernedDocument constructor would refuse to build. *)
ConsistentDocument(d) ==
  /\ (d.versions = <<>>) <=> (d.history = <<>>)
  /\ CurrentIsApproved(d)
  /\ OnlyLatestIsActive(d)
  /\ DistinctContent(d)
  /\ VersionsAreValid(d)
  /\ TimeMovesForward(d.history)
  /\ \A i \in DOMAIN d.history : d.history[i].version \in DOMAIN d.versions

(* _rebuild_audited_update: the command an event was written by.  "d" is   *)
(* the audited document, which still holds the content hashes. *)
CommandOf(d, e) ==
  [version |-> e.version, action |-> e.action, actor |-> e.actor,
   reason |-> e.reason, step |-> e.step,
   sha256 |-> IF e.action \in {"registered", "reprocessing_started"}
              THEN d.versions[e.version].sha256 ELSE None]

(* One turn of the replay loop.  A supersession is held back until the     *)
(* approval that must follow it. *)
ReplayEvent(d, r, e) ==
  IF e.action = "superseded" THEN [r EXCEPT !.held = Append(@, e)]
  ELSE LET c == CommandOf(d, e)
           next == ResultOf(r.document, c, e.at)
       IN IF /\ r.audited
             /\ ErrorOf(r.document, c, e.at) = None
             /\ next.history = r.document.history \o r.held \o <<e>>
          THEN [document |-> next, revision |-> r.revision + 1,
                held |-> <<>>, audited |-> TRUE]
          ELSE [r EXCEPT !.audited = FALSE]

NothingReplayed ==
  [document |-> NoDocument, revision |-> 0, held |-> <<>>, audited |-> TRUE]

ReplayOf(d) ==
  LET replayed[i \in 0..Len(d.history)] ==
        IF i = 0 THEN NothingReplayed ELSE ReplayEvent(d, replayed[i - 1], d.history[i])
  IN  replayed

Audited(s) ==
  ReplayOf(s.document)[Len(s.document.history)]
    = [document |-> s.document, revision |-> s.revision, held |-> <<>>, audited |-> TRUE]

(* What the LifecycleEvent constructor requires of each action: a command  *)
(* can be rebuilt from every event but a supersession. *)
EventsAreCommands(d) ==
  \A i \in DOMAIN d.history :
    d.history[i].action # "superseded" => WellFormedCommand(CommandOf(d, d.history[i]))

(* What the history of a version records of its gates: an extraction       *)
(* counts until a start from nothing. *)
RestartsFromNothing(e) ==
  \/ e.action = "processing_started"
  \/ e.action = "reprocessing_started" /\ e.source = "rejected"

Passed(h, n, action, i) == h[i].version = n /\ h[i].action = action

ExtractionStands(h, n, x) ==
  /\ Passed(h, n, "extraction_succeeded", x)
  /\ \A i \in DOMAIN h : i > x /\ h[i].version = n => ~RestartsFromNothing(h[i])

=============================================================================
