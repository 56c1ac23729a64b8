-------------------------- MODULE PostgresRegistry --------------------------
(***************************************************************************)
(* PostgresDocumentRegistryRepository under DocumentGovernanceService: the *)
(* aggregate is spread over four tables and every operation is a           *)
(* transaction of several statements.  Readers run REPEATABLE READ: their  *)
(* first SELECT fixes what all of them see.  Writers run READ COMMITTED,   *)
(* each statement seeing what is committed by then, under a transaction    *)
(* advisory lock and a row lock (FOR UPDATE), and compare the revision     *)
(* twice.  A connection may be lost at any statement, and also during      *)
(* COMMIT, when the client cannot know whether it took effect; a session   *)
(* that got an error may send the same command again.                      *)
(*                                                                         *)
(* The server is external: it rolls back what was not committed, publishes *)
(* a commit in one step, and makes an INSERT of a key that another         *)
(* transaction has inserted wait for that transaction.                     *)
(***************************************************************************)
EXTENDS DocumentAudit

CONSTANTS Seeds, Commands, Instants,  \* as in AuditedDocument
          Sessions,                   \* threads of the API, each with a connection
          Revisions                   \* bound: the revisions a call may expect

ASSUME CommandsAreWellFormed == \A c \in Commands : WellFormedCommand(c)
ASSUME BoundsAreNaturals == Instants \subseteq Nat /\ Revisions \subseteq Nat
ASSUME SomebodyAsks == Commands # {}

(* The database was written by the application: what it holds passes the   *)
(* audit, as every reader requires. *)
ASSUME SeedsAreAudited ==
  \A s \in Seeds : /\ s \in Snapshots /\ ConsistentDocument(s.document)
                   /\ Audited(s) /\ EventsAreCommands(s.document)

VARIABLES tables,   \* what is committed
          session   \* per session: transaction, statement and what it has read

vars == <<tables, session>>

(* One logical document's rows.  document_versions holds the content       *)
(* hashes; document_lifecycle_versions joins it for every version. *)
NoRow == [revision |-> 0, current |-> 0]
VersionRows == [status : Statuses, extraction : StepStatuses, indexing : StepStatuses,
                failure : Steps \cup {None}, superseded_by : Nat]
Tables == [registry : [revision : Nat, current : Nat], hashes : Seq(Hashes),
           versions : Seq(VersionRows), events : Seq(Events)]
NoRows == [registry |-> NoRow, hashes |-> <<>>, versions |-> <<>>, events |-> <<>>]

(* _version_row_values *)
VersionRow(v) == [status |-> v.status, extraction |-> v.extraction,
                  indexing |-> v.indexing, failure |-> v.failure,
                  superseded_by |-> v.superseded_by]

(* _load_registration, _domain_version: the snapshot that rows stand for *)
DomainVersion(row, hash) ==
  [sha256 |-> hash, status |-> row.status, extraction |-> row.extraction,
   indexing |-> row.indexing, failure |-> row.failure,
   superseded_by |-> row.superseded_by]

Assembled(t) ==
  [document |-> [versions |-> [n \in DOMAIN t.versions |->
                                 DomainVersion(t.versions[n], t.hashes[n])],
                 current |-> t.registry.current, history |-> t.events],
   revision |-> t.registry.revision]

(* What every writer and reader together are to look like. *)
Promise == INSTANCE AuditedDocument WITH store <- Assembled(tables)

(* The constructors on the way to a DocumentRegistrationSnapshot. *)
Reconstructible(t) ==
  /\ Len(t.hashes) >= Len(t.versions)
  /\ t.registry.current <= Len(t.versions)
  /\ ConsistentDocument(Assembled(t).document)
  /\ Audited(Assembled(t))

RowsOf(s) == [registry |-> [revision |-> s.revision, current |-> s.document.current],
              hashes |-> [n \in DOMAIN s.document.versions |-> s.document.versions[n].sha256],
              versions |-> [n \in DOMAIN s.document.versions |->
                              VersionRow(s.document.versions[n])],
              events |-> s.document.history]

(* A "get" or "reread" transaction reads; a "swap" transaction writes. *)
Transactions == {"get", "reread", "swap"}
Phases == {"idle", "begin", "registry", "versions", "events", "check", "write",
           "commit", "mutate", "done"}
Outcomes == {"applied", "replayed", "concurrency", "refused", "integrity", "unavailable"}

SessionStates ==
  [phase : Phases, tx : Transactions, command : Commands, expected : Nat,
   view : Tables, rows : Tables, base : Snapshots, draft : Documents,
   outcome : Outcomes \cup {None}, lost : BOOLEAN]

IdleSession ==
  [phase |-> "idle", tx |-> "get", command |-> CHOOSE c \in Commands : TRUE,
   expected |-> 0, view |-> NoRows, rows |-> NoRows, base |-> NothingStored,
   draft |-> NoDocument, outcome |-> None, lost |-> FALSE]

In(s, phase) == session[s].phase = phase
Step(s, change) == session' = [session EXCEPT ![s] = change]

(* The end of a call: nothing of what was read is kept. *)
EndOf(s, outcome) ==
  [session[s] EXCEPT !.phase = "done", !.outcome = outcome, !.view = NoRows,
                     !.rows = NoRows, !.base = NothingStored, !.draft = NoDocument]

-----------------------------------------------------------------------------
(* Statements *)

Begin(s) ==
  /\ In(s, "idle")
  /\ \E c \in Commands, e \in Revisions :
       /\ e <= tables.registry.revision
       /\ Step(s, [IdleSession EXCEPT !.phase = "begin", !.command = c, !.expected = e])
  /\ UNCHANGED tables

Writes(s) == session[s].tx = "swap"

(* pg_advisory_xact_lock is held from the first statement to the end. *)
AdvisoryLockIsFree(s) ==
  \A q \in Sessions \ {s} :
    ~(Writes(q) /\ session[q].phase \in {"registry", "versions", "events", "check",
                                         "write", "commit"})

OpenTransaction(s) ==
  /\ In(s, "begin")
  /\ Writes(s) => AdvisoryLockIsFree(s)
  /\ Step(s, [session[s] EXCEPT !.phase = "registry"])
  /\ UNCHANGED tables

(* The row lock of SELECT ... FOR UPDATE, if there was a row to lock. *)
RegistryRowIsFree(s) ==
  \A q \in Sessions \ {s} :
    ~(/\ Writes(q)
      /\ session[q].phase \in {"versions", "events", "check", "write", "commit"}
      /\ session[q].rows.registry # NoRow)

ReadCommitted(s) == tables                                 \* mutant
Visible(s) == IF Writes(s) THEN tables ELSE session[s].view

SelectRegistry(s) ==
  /\ In(s, "registry")
  /\ Writes(s) => RegistryRowIsFree(s)
  /\ LET read == [session[s] EXCEPT !.view = IF Writes(s) THEN NoRows ELSE tables,
                                    !.rows = [NoRows EXCEPT !.registry = tables.registry]]
     IN  Step(s, [read EXCEPT !.phase =
                    IF tables.registry = NoRow THEN "check" ELSE "versions"])
  /\ UNCHANGED tables

SelectVersions(s) ==
  /\ In(s, "versions")
  /\ Step(s, [session[s] EXCEPT !.phase = "events",
                                !.rows.versions = Visible(s).versions,
                                !.rows.hashes = Visible(s).hashes])
  /\ UNCHANGED tables

SelectEvents(s) ==
  /\ In(s, "events")
  /\ Step(s, [session[s] EXCEPT !.phase = "check", !.rows.events = Visible(s).events])
  /\ UNCHANGED tables

-----------------------------------------------------------------------------
(* What the service and the repository do with what was loaded *)

(* DocumentGovernanceService on the snapshot of a "get" or a "reread" *)
Answered(s) ==
  LET c == session[s].command
      e == session[s].expected
      loaded == Assembled(session[s].rows)
  IN  IF AlreadyExecuted(loaded, c, e) THEN EndOf(s, "replayed")
      ELSE IF loaded.document = NoDocument /\ c.action # "registered"
      THEN EndOf(s, "refused")
      ELSE IF loaded.revision # e \/ session[s].tx = "reread" THEN EndOf(s, "concurrency")
      ELSE [session[s] EXCEPT !.phase = "mutate", !.base = loaded,
                              !.view = NoRows, !.rows = NoRows]

(* build_document_snapshot_after_compare_and_swap inside the transaction *)
Compared(s) ==
  LET loaded == Assembled(session[s].rows)
  IN  IF loaded.revision # session[s].expected
      THEN [session[s] EXCEPT !.phase = "begin", !.tx = "reread", !.view = NoRows,
                              !.rows = NoRows, !.base = NothingStored, !.draft = NoDocument]
      ELSE IF ~ExtendsAudit(loaded.document, session[s].draft, session[s].command)
      THEN EndOf(s, "integrity")
      ELSE [session[s] EXCEPT !.phase = "write"]

Check(s) ==
  /\ In(s, "check")
  /\ Step(s, IF session[s].rows.registry # NoRow /\ ~Reconstructible(session[s].rows)
             THEN EndOf(s, "integrity")
             ELSE IF Writes(s) THEN Compared(s) ELSE Answered(s))
  /\ UNCHANGED tables

Mutate(s) ==
  /\ In(s, "mutate")
  /\ \E at \in Instants :
       LET c == session[s].command
           d == session[s].base.document
       IN  Step(s, IF ErrorOf(d, c, at) # None THEN EndOf(s, "refused")
                   ELSE [session[s] EXCEPT !.phase = "begin", !.tx = "swap",
                                           !.draft = ResultOf(d, c, at), !.base = NothingStored])
  /\ UNCHANGED tables

-----------------------------------------------------------------------------
(* Writing: _write_traceable_document_metadata and _write_registration *)


Candidate(s) ==
  RowsOf([document |-> session[s].draft, revision |-> session[s].expected + 1])

(* Mutant: only the row of the version the command names is updated. *)
OneVersionRow(t, candidate, n) ==
  [m \in DOMAIN candidate.versions |->
     IF m = n \/ m > Len(t.versions) THEN candidate.versions[m] ELSE t.versions[m]]

(* New version rows are inserted, then every version row is updated. *)
UpdatedVersionRows(t, candidate, n) == candidate.versions

(* Hashes and events are only ever inserted, after those already stored. *)
Written(s) ==
  LET loaded == session[s].rows
      candidate == Candidate(s)
  IN  [registry |-> candidate.registry,
       hashes |-> tables.hashes \o SubSeq(candidate.hashes, Len(loaded.hashes) + 1,
                                          Len(candidate.hashes)),
       versions |-> UpdatedVersionRows(loaded, candidate, session[s].command.version),
       events |-> tables.events \o SubSeq(candidate.events, Len(loaded.events) + 1,
                                          Len(candidate.events))]

(* The first registration inserts its rows, and a duplicate key is an      *)
(* error; later writes update the registry row only where it still has the *)
(* revision that was loaded.  Another transaction's uncommitted insert is  *)
(* waited for.  The statements' effects are invisible until COMMIT. *)
Write(s) ==
  /\ In(s, "write")
  /\ \A q \in Sessions \ {s} : ~(Writes(q) /\ In(q, "commit"))
  /\ LET loaded == session[s].rows.registry
     IN  Step(s, IF loaded = NoRow /\ tables.registry # NoRow THEN EndOf(s, "unavailable")
                 ELSE IF loaded.revision # tables.registry.revision
                 THEN EndOf(s, "integrity")
                 ELSE [session[s] EXCEPT !.phase = "commit"])
  /\ UNCHANGED tables

Commit(s) ==
  /\ In(s, "commit")
  /\ tables' = Written(s)
  /\ Step(s, EndOf(s, "applied"))

-----------------------------------------------------------------------------
(* Failures *)

InTransaction(s) == session[s].phase \in Phases \ {"idle", "mutate", "done"}

LostSession(s) == [EndOf(s, "unavailable") EXCEPT !.lost = TRUE]

(* The connection breaks: the server rolls back and releases the locks.    *)
(* While COMMIT is running, it may have been executed. *)
LoseConnection(s) ==
  /\ InTransaction(s)
  /\ Step(s, LostSession(s))
  /\ \/ UNCHANGED tables
     \/ In(s, "commit") /\ tables' = Written(s)

(* The client sends the command again, expecting what it expected before. *)
Retry(s) ==
  /\ In(s, "done")
  /\ session[s].outcome = "unavailable"
  /\ Step(s, [IdleSession EXCEPT !.phase = "begin", !.command = session[s].command,
                                 !.expected = session[s].expected])
  /\ UNCHANGED tables

Return(s) ==
  /\ In(s, "done")
  /\ Step(s, IdleSession)
  /\ UNCHANGED tables

-----------------------------------------------------------------------------

Init == /\ tables \in { RowsOf(s) : s \in Seeds }
        /\ session = [s \in Sessions |-> IdleSession]

Serve(s) == \/ OpenTransaction(s) \/ SelectRegistry(s) \/ SelectVersions(s)
            \/ SelectEvents(s) \/ Check(s) \/ Mutate(s) \/ Write(s) \/ Commit(s)
            \/ Return(s)

Next == \E s \in Sessions : Begin(s) \/ Serve(s) \/ LoseConnection(s) \/ Retry(s)

Spec == Init /\ [][Next]_vars

-----------------------------------------------------------------------------

PgTypeOK == tables \in Tables /\ session \in [Sessions -> SessionStates]

(* Four tables, several statements, any interleaving and any lost          *)
(* connection: what is committed changes only by one whole command. *)
ImplementsAtomicDocument == Promise!AtomicSpec

(* A refusal has its cause.  No reader or writer ever assembles rows of two *)
(* different commits, nor does the guard of the last UPDATE refuse.  Only a *)
(* lost connection makes the registry unavailable: two first registrations *)
(* at the same time do not collide on a key.  A retry is told that it lost *)
(* the race only if another command took the revision: what COMMIT did to  *)
(* the first try is always found out. *)
RefusalsHaveACause ==
  \A s \in Sessions :
    LET d == Assembled(tables).document
        k == session[s].expected + 1
    IN  /\ session[s].outcome # "integrity"
        /\ session[s].outcome = "unavailable" => session[s].lost
        /\ session[s].outcome = "concurrency" =>
             /\ k <= RevisionAt(d.history, Len(d.history))
             /\ k = RevisionAt(d.history, Len(d.history))
                  => ~RecordedAt(d, k, session[s].command)

=============================================================================
