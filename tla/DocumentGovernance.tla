------------------------- MODULE DocumentGovernance -------------------------
(***************************************************************************)
(* DocumentGovernanceService over a compare-and-swap DocumentRepository,   *)
(* called by several threads at once.  A call reads the stored snapshot,   *)
(* computes the next document on its own copy, and publishes it only if    *)
(* the revision is still the one its caller expected.  Repository methods  *)
(* hold one lock, so each is a single step; everything between two of them *)
(* interleaves with the other callers.                                     *)
(*                                                                         *)
(* A caller may send any command with any revision it has once been shown, *)
(* so the retry of a call whose answer was lost is a call like any other.  *)
(* Aggregates do not interact; the model keeps one identity.               *)
(***************************************************************************)
EXTENDS AuditedDocument

CONSTANTS Callers,      \* threads that serve a request
          Revisions,    \* bound: the revisions a call may expect
          MaxStaleness  \* bound: how far behind a call's revision may be

ASSUME BoundsAreNaturals == Revisions \subseteq Nat /\ MaxStaleness \in Nat
ASSUME SomebodyAsks == Commands # {}

VARIABLES call      \* per caller: where it is, what it was asked, what it holds

vars == <<store, call>>

Phases == {"idle", "get", "mutate", "compare_and_swap", "reread", "done"}
Outcomes == {"applied", "replayed", "not_found", "concurrency", "audit_conflict",
             "version_conflict", "content_conflict", "invalid_transition",
             "approval_blocked", "clock", "invalid_input"}

(* "base" is the snapshot read, "draft" the document computed from it, *)
(* "answer" the revision of the snapshot handed back. *)
Calls == [phase : Phases, command : Commands, expected : Nat, base : Snapshots,
          draft : Documents, outcome : Outcomes \cup {None}, answer : Nat]

At(p, phase) == call[p].phase = phase

Finish(p, outcome, revision) ==
  call' = [call EXCEPT ![p] = [@ EXCEPT !.phase = "done", !.outcome = outcome,
                                        !.answer = revision,
                                        !.base = NothingStored, !.draft = NoDocument]]

Proceed(p, phase) == call' = [call EXCEPT ![p] = [@ EXCEPT !.phase = phase]]

-----------------------------------------------------------------------------
IdleCall == [phase |-> "idle", command |-> CHOOSE c \in Commands : TRUE,
             expected |-> 0, base |-> NothingStored, draft |-> NoDocument,
             outcome |-> None, answer |-> 0]

Init == AtomicInit /\ call = [p \in Callers |-> IdleCall]

(* A caller issues a command with a revision it was shown at some time. *)
Begin(p) ==
  /\ At(p, "idle")
  /\ \E c \in Commands, e \in Revisions :
       /\ e <= store.revision
       /\ store.revision <= e + MaxStaleness
       /\ call' = [call EXCEPT ![p] = [@ EXCEPT !.phase = "get", !.command = c,
                                                !.expected = e]]
  /\ UNCHANGED store

(* repository.get, and the checks made before the mutation *)
Get(p) ==
  /\ At(p, "get")
  /\ LET c == call[p].command
         e == call[p].expected
     IN  IF store.document = NoDocument /\ c.action # "registered"
         THEN Finish(p, "not_found", 0)
         ELSE IF AlreadyExecuted(store, c, e)
         THEN Finish(p, "replayed", store.revision)
         ELSE IF store.revision # e THEN Finish(p, "concurrency", 0)
         ELSE call' = [call EXCEPT ![p] = [@ EXCEPT !.phase = "mutate", !.base = store]]
  /\ UNCHANGED store

(* clock.now, then the aggregate's method on the snapshot that was read *)
Mutate(p) ==
  /\ At(p, "mutate")
  /\ \E at \in Instants :
       LET c == call[p].command
           d == call[p].base.document
       IN  IF ErrorOf(d, c, at) # None
           THEN Finish(p, ErrorOf(d, c, at), 0)
           ELSE call' = [call EXCEPT ![p] = [@ EXCEPT !.phase = "compare_and_swap",
                                                      !.draft = ResultOf(d, c, at)]]
  /\ UNCHANGED store

RevisionMatches(p) == store.revision = call[p].expected

PublishedInPlace(p) ==                                     \* mutant
  [document |-> call[p].draft, revision |-> store.revision]
PublishedCompacted(p) ==                                   \* mutant
  [document |-> [call[p].draft EXCEPT
                   !.history = SelectSeq(@, LAMBDA e : e.version = Latest(call[p].draft))],
   revision |-> store.revision + 1]
Published(p) == [document |-> call[p].draft, revision |-> store.revision + 1]

CompareAndSwap(p) ==
  /\ At(p, "compare_and_swap")
  /\ IF ~RevisionMatches(p)
     THEN Proceed(p, "reread") /\ UNCHANGED store
     ELSE IF ExtendsAudit(store.document, call[p].draft, call[p].command)
     THEN store' = Published(p) /\ Finish(p, "applied", store.revision + 1)
     ELSE Finish(p, "audit_conflict", 0) /\ UNCHANGED store

(* After a lost race the repository is read once more. *)
Reread(p) ==
  /\ At(p, "reread")
  /\ IF AlreadyExecuted(store, call[p].command, call[p].expected)
     THEN Finish(p, "replayed", store.revision)
     ELSE Finish(p, "concurrency", 0)
  /\ UNCHANGED store

(* The answer reaches the caller, or is lost: nobody can tell. *)
Return(p) ==
  /\ At(p, "done")
  /\ call' = [call EXCEPT ![p] = IdleCall]
  /\ UNCHANGED store

Serve(p) == Get(p) \/ Mutate(p) \/ CompareAndSwap(p) \/ Reread(p) \/ Return(p)

Next == \E p \in Callers : Begin(p) \/ Serve(p)

(* A thread that serves a request keeps running; nobody has to send one. *)
Spec == Init /\ [][Next]_vars /\ \A p \in Callers : WF_vars(Serve(p))

-----------------------------------------------------------------------------

TypeOK == StoreTypeOK /\ call \in [Callers -> Calls]

(* A revision number identifies one snapshot: a call that still expects    *)
(* the stored revision holds exactly the stored document, however many     *)
(* calls were served since it read it (no ABA, no lost update). *)
RevisionIdentifiesSnapshot ==
  \A p \in Callers :
    call[p].phase \in {"mutate", "compare_and_swap"} =>
      /\ call[p].base.revision = call[p].expected
      /\ call[p].base.revision = store.revision => call[p].base = store

(* A caller that is told its command succeeded finds it in the audit       *)
(* history at the revision after the one it expected (a registration: at   *)
(* some revision), also when the answer came from recognising a replay. *)
AcknowledgedIsStored ==
  \A p \in Callers :
    LET c == call[p].command
        d == store.document
    IN  call[p].outcome \in {"applied", "replayed"} =>
          IF c.action = "registered"
          THEN \E i \in DOMAIN d.history : Records(d, d.history[i], c)
          ELSE RecordedAt(d, call[p].expected + 1, c)

(* A caller told that it lost the race did lose it: the command that took  *)
(* the revision it wanted is a different one. *)
ConflictIsReal ==
  \A p \in Callers :
    call[p].outcome = "concurrency" =>
      /\ store.revision > call[p].expected
      /\ store.revision = call[p].expected + 1
           => ~RecordedAt(store.document, store.revision, call[p].command)

(* Whatever a caller is told of its command is true of the store: a success *)
(* is recorded where it must be, a lost race was lost to another command.  *)
AnswersAreTrue == AcknowledgedIsStored /\ ConflictIsReal

(* Each revision has one author: of all calls that expected it, at most    *)
(* one was applied. *)
OneWinnerPerRevision ==
  \A p, q \in Callers :
    /\ call[p].outcome = "applied" /\ call[q].outcome = "applied"
    /\ call[p].expected = call[q].expected
    => p = q

-----------------------------------------------------------------------------

(* History is append-only and a registered version keeps its content. *)
AppendOnly ==
  [][ /\ Len(store.document.history) <= Len(store'.document.history)
      /\ SubSeq(store'.document.history, 1, Len(store.document.history))
           = store.document.history
      /\ \A n \in DOMAIN store.document.versions :
           store'.document.versions[n].sha256 = store.document.versions[n].sha256
    ]_store

(* Once some version is eligible there is always one, and it only moves to *)
(* a newer version: neither a rejected, failed or reprocessed candidate    *)
(* nor a promotion leaves retrieval without a document. *)
KnowledgeIsNeverWithdrawn ==
  [][EligibleVersion(store'.document) >= EligibleVersion(store.document)]_store

(* A document only ever grows: its history, the content of its versions    *)
(* and the version retrieval may use. *)
DocumentOnlyGrows == AppendOnly /\ KnowledgeIsNeverWithdrawn

(* Optimistic concurrency makes progress: a caller about to swap over the  *)
(* stored revision does not stay there, and it only leaves because the     *)
(* document moved on, by its command or by that of another.                *)
Contending(p) == At(p, "compare_and_swap") /\ call[p].expected = store.revision

SomeoneWins ==
  /\ \A p \in Callers : Contending(p) ~> ~Contending(p)
  /\ [][\A p \in Callers :
          Contending(p) /\ ~Contending(p)' => store'.revision > store.revision]_vars

=============================================================================
