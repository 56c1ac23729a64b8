---------------------------- MODULE AnalysisService ----------------------------
(***************************************************************************)
(* The API process: composition of the selected mode at startup, in the    *)
(* artifacts mode IntegratedAnalysisService.analyze with its unit of work  *)
(* over either store, in the demonstration the synthetic service, and the  *)
(* answers kept in memory for GET.  Handlers run on threads and interleave;*)
(* the process may be restarted at any point.                              *)
(*                                                                         *)
(* Every analysis has a fresh identifier, here the request itself.  With   *)
(* PostgreSQL the tables are those of SchemaMigrations, whose commands run *)
(* beside the process.                                                     *)
(***************************************************************************)
EXTENDS AnalysisProjection, SchemaMigrations

CONSTANTS Requests,      \* POST /analysis requests, in the order they are sent
          Results,       \* bound: the projected results that are tried
          MaxRestarts    \* bound: restarts of the API process

ASSUME RequestsAssumption ==
  IsFiniteSet(Requests) /\ Requests = 1..Cardinality(Requests)
ASSUME ResultsAssumption == Results \subseteq Projected
ASSUME RestartsAssumption == MaxRestarts \in Nat

VARIABLES backend,    \* settings.persistence_backend, or the demonstration mode
          composed,   \* the analysis service was configured at startup
          call,       \* what the process does for each request
          cache,      \* IntegratedAnalysisService._results
          catalog,    \* AnalysisService._results of the demonstration
          rows,       \* committed analyses: metadata by identifier
          stored,     \* chunks whose documents are committed
          generation, \* InMemoryStore._generation
          erased,     \* analyses whose rows were dropped with the store
          restarts

serviceVars == <<backend, composed, call, cache, catalog, rows, stored, generation, erased, restarts>>

CallPhases == {"none", "persisting", "open", "staged", "committed", "answered", "gone"}
\* 200, or any other status the operation declares (422, 503).
Statuses == {"none", "accepted", "refused"}
NoRows == [r \in {} |-> {}]
NoResult == [cited |-> {}, metadata |-> [outcome |-> "none", evidence |-> {},
                                         neighbors |-> FALSE]]
NoCall == [phase |-> "none", status |-> "none", result |-> NoResult, shown |-> Unavailable,
           base |-> 0, seen |-> NoRows]

\* _compose_artifacts_runtime verifies every artifact against the manifest and
\* refuses the whole set otherwise; _build_unit_of_work_factory seeds a new
\* memory store, or requires the documents to be in the database.
Composable(documents) == backend = "postgres" => documents = Chunks

\* compose_analysis_runtime of the demonstration reads nothing and cannot fail.
Compositions(documents) ==
  IF backend = "demonstration" THEN {TRUE} ELSE {FALSE, Composable(documents)}
CatalogAtStart == IF backend = "demonstration" THEN SeededCatalog ELSE NoCatalog

ServiceInit ==
  /\ backend \in {"memory", "postgres", "demonstration"}
  /\ stored = IF backend = "memory" \/ schema.tables # {} THEN Chunks ELSE {}
  /\ composed = Composable(stored)
  /\ catalog = CatalogAtStart
  /\ call = [r \in Requests |-> NoCall]
  /\ cache = NoRows
  /\ rows = NoRows
  /\ generation = 0
  /\ erased = {}
  /\ restarts = 0

Calls(r, change) == call' = [call EXCEPT ![r] = change]
AnswersWith(r, status) == [call[r] EXCEPT !.phase = "answered", !.status = status, !.seen = NoRows]
StoreUnchanged ==
  UNCHANGED <<backend, composed, cache, catalog, rows, stored, generation, erased, restarts>>

-----------------------------------------------------------------------------

\* ConfiguredAnalysisService: the service of the selected mode, or none.
Integrated == composed /\ backend # "demonstration"
Demonstrating == composed /\ backend = "demonstration"

\* POST /analysis: contract, identifier, prediction checked against the
\* similarity index, orchestration checked against the authorization,
\* projection and metadata: a failure of any of them, or no composed service,
\* is refused and leaves nothing behind.
Analyze(r) ==
  /\ call[r].phase = "none"
  /\ \/ Calls(r, AnswersWith(r, "refused"))
     \/ /\ Integrated
        /\ \E result \in Results :
             Calls(r, [call[r] EXCEPT !.phase = "persisting", !.result = result])
  /\ StoreUnchanged

\* The synthetic service answers at once and keeps the answer under the
\* identifier of its outcome.
Demonstrate(r) ==
  /\ call[r].phase = "none"
  /\ Demonstrating
  /\ \E scenario \in Scenarios, k \in TopKs :
       LET result == SyntheticResult(scenario, k)
       IN  /\ result # Unavailable
           /\ Calls(r, [AnswersWith(r, "accepted") EXCEPT !.shown = result])
           /\ catalog' = [id \in DOMAIN catalog \cup {result.outcome} |->
                            IF id = result.outcome THEN result ELSE catalog[id]]
  /\ UNCHANGED <<backend, composed, cache, rows, stored, generation, erased, restarts>>

\* InMemoryUnitOfWork.__enter__: a snapshot of the store.
OpenInMemory(r) ==
  /\ call[r].phase = "persisting" /\ backend = "memory"
  /\ Calls(r, [call[r] EXCEPT !.phase = "open", !.base = generation, !.seen = rows])
  /\ StoreUnchanged

\* PostgresUnitOfWork.__enter__: a connection of its own, which must be idle
\* and must not commit by itself.
OpenInPostgres(r) ==
  /\ call[r].phase = "persisting" /\ backend = "postgres"
  /\ \E usable \in BOOLEAN :
       Calls(r, IF usable THEN [call[r] EXCEPT !.phase = "open"] ELSE AnswersWith(r, "refused"))
  /\ StoreUnchanged

\* A migration under way holds exclusive locks on the tables it altered.
TablesAreFree ==
  \A o \in Operators :
    operator[o].phase = "commit" => operator[o].work.tables = schema.tables

\* _reference_exists of every evidence reference.
ReferencesExist(r) == call[r].result.metadata.evidence \subseteq stored

\* InMemoryAnalysisRepository.add looks the references up in its snapshot.
AddToMemory(r) ==
  /\ call[r].phase = "open" /\ backend = "memory"
  /\ Calls(r, IF ReferencesExist(r) THEN [call[r] EXCEPT !.phase = "staged"]
              ELSE AnswersWith(r, "refused"))
  /\ StoreUnchanged

\* PostgresAnalysisRepository.add inserts the analysis, its evidence and its
\* neighbors.  A broken constraint makes the transaction fit for a rollback
\* only, which leaving it does, as any other failure.
AddToPostgres(r) ==
  /\ call[r].phase = "open" /\ backend = "postgres"
  /\ TablesAreFree
  /\ \/ /\ ReferencesExist(r) /\ Latest \in schema.tables
        /\ Calls(r, [call[r] EXCEPT !.phase = "staged"])
     \/ Calls(r, AnswersWith(r, "refused"))
  /\ StoreUnchanged

PublishAlways(r) == TRUE                                   \* mutant
NothingPublishedSince(r) == generation = call[r].base

\* InMemoryStore.publish replaces the state by the transaction's copy.
CommitToMemory(r) ==
  /\ call[r].phase = "staged" /\ backend = "memory"
  /\ IF NothingPublishedSince(r)
     THEN /\ Calls(r, [call[r] EXCEPT !.phase = "committed", !.seen = NoRows])
          /\ rows' = [s \in DOMAIN call[r].seen \cup {r} |->
                        IF s = r THEN call[r].result.metadata ELSE call[r].seen[s]]
          /\ generation' = generation + 1
     ELSE Calls(r, AnswersWith(r, "refused")) /\ UNCHANGED <<rows, generation>>
  /\ UNCHANGED <<backend, composed, cache, catalog, stored, erased, restarts>>

\* The answer to COMMIT may be lost with the connection, whether or not the
\* server committed.
CommitToPostgres(r) ==
  /\ call[r].phase = "staged" /\ backend = "postgres"
  /\ \E committed, heard \in BOOLEAN :
       /\ heard => committed
       /\ Calls(r, IF heard THEN [call[r] EXCEPT !.phase = "committed"]
                   ELSE AnswersWith(r, "refused"))
       /\ rows' = [s \in DOMAIN rows \cup (IF committed THEN {r} ELSE {}) |->
                     IF s = r THEN call[r].result.metadata ELSE rows[s]]
  /\ UNCHANGED <<backend, composed, cache, catalog, stored, generation, erased, restarts>>

Published == {"committed"}

\* The result is kept for GET and answered; a failure to keep it is logged.
PublishResult(r) ==
  /\ call[r].phase \in Published
  /\ \/ cache' = [s \in DOMAIN cache \cup {r} |->
                    IF s = r THEN call[r].result ELSE cache[s]]
     \/ UNCHANGED cache
  /\ Calls(r, AnswersWith(r, "accepted"))
  /\ UNCHANGED <<backend, composed, catalog, rows, stored, generation, erased, restarts>>

\* The process dies and is started again.  Calls under way are gone, and with
\* them the memory store and what GET could serve.
Restart ==
  /\ restarts < MaxRestarts
  /\ restarts' = restarts + 1
  /\ call' = [r \in Requests |->
       IF call[r].phase \in {"none", "answered"} THEN call[r]
       ELSE [NoCall EXCEPT !.phase = "gone"]]
  /\ cache' = NoRows
  /\ IF backend = "memory"
     THEN rows' = NoRows /\ erased' = erased \cup DOMAIN rows /\ generation' = 0
     ELSE UNCHANGED <<rows, erased, generation>>
  /\ composed' \in Compositions(stored)
  /\ catalog' = CatalogAtStart
  /\ UNCHANGED <<backend, stored>>

ServiceStep(r) ==
  \/ OpenInMemory(r)
  \/ OpenInPostgres(r)
  \/ AddToMemory(r)
  \/ AddToPostgres(r)
  \/ CommitToMemory(r)
  \/ CommitToPostgres(r)
  \/ PublishResult(r)

-----------------------------------------------------------------------------

\* A migration command of the same database.  Its DDL waits for transactions
\* that touched the tables; what it drops goes with the commit.
Migrate(o) ==
  /\ OperatorStep(o, \A r \in Requests : backend = "postgres" => call[r].phase # "staged")
  /\ backend = "postgres"
  /\ LET dropped == schema.tables \ schema'.tables
     IN  /\ erased' = IF dropped # {} THEN erased \cup DOMAIN rows ELSE erased
         /\ rows' = IF 1 \in dropped THEN NoRows
                    ELSE IF Latest \in dropped
                         THEN [r \in DOMAIN rows |-> [rows[r] EXCEPT !.neighbors = FALSE]]
                         ELSE rows
         /\ stored' = IF 1 \in dropped THEN {} ELSE stored
  /\ UNCHANGED <<backend, composed, call, cache, catalog, generation, restarts>>

=============================================================================
