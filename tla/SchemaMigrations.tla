--------------------------- MODULE SchemaMigrations ---------------------------
(***************************************************************************)
(* persistence/migrations.py: upgrade and downgrade run each as one        *)
(* transaction under a transaction advisory lock, current_version as one   *)
(* without a lock.  Each applied migration has a row in a history table    *)
(* that downgrade(0) drops again.                                          *)
(*                                                                         *)
(* The server is external.  DDL is transactional: what an operator applies *)
(* is seen by others when it commits, and a statement that creates what    *)
(* exists, or drops what does not, fails and takes the transaction with    *)
(* it.  A connection may be lost at any statement.                         *)
(***************************************************************************)
EXTENDS Integers, FiniteSets

CONSTANTS Operators,      \* processes that run a migration command
          Targets,        \* bound: the versions they ask for
          MaxOperations   \* bound: migration commands in a run

Latest == 4
Versions == 1..Latest

ASSUME TargetsAssumption == Targets \subseteq 0..Latest
ASSUME OperationsAssumption == MaxOperations \in Nat

VARIABLES schema,       \* what is committed: the history table and its rows,
                        \* and the migrations whose tables exist
          operator,     \* the command each operator runs
          operations    \* how many commands were started

migrationVars == <<schema, operator, operations>>

Schemas == [history : BOOLEAN, applied : SUBSET Versions, tables : SUBSET Versions]
Commands == {"upgrade", "downgrade", "inspect"}
OperatorPhases == {"idle", "lock", "read", "apply", "commit", "exists", "select", "done"}
Answers == {"none", "ok", "target refused", "state refused", "collision", "lost"}

Idle == [phase |-> "idle", command |-> "inspect", target |-> 0, answer |-> "none",
         version |-> 0, work |-> [history |-> FALSE, applied |-> {}, tables |-> {}],
         dropped |-> FALSE]

NoTables == [history |-> FALSE, applied |-> {}, tables |-> {}]
Migrated(n) == [history |-> TRUE, applied |-> 1..n, tables |-> 1..n]

MigrationInit ==
  /\ schema \in {NoTables, Migrated(Latest)}
  /\ operator = [o \in Operators |-> Idle]
  /\ operations = 0

Moves(o, change) == operator' = [operator EXCEPT ![o] = change]
Ends(o, answer) == [operator[o] EXCEPT !.phase = "done", !.answer = answer, !.work = NoTables]

\* _read_applied: the rows must be a prefix of the known migrations.
Contiguous(applied) == applied = 1..Cardinality(applied)
Current(applied) == Cardinality(applied)

-----------------------------------------------------------------------------

\* _validate_target refuses nothing here: Targets are in range.
Call(o) ==
  /\ operator[o].phase \in {"idle", "done"}
  /\ operations < MaxOperations
  /\ operations' = operations + 1
  /\ \E command \in Commands, target \in Targets :
       Moves(o, [Idle EXCEPT !.command = command,
                             !.target = IF command = "inspect" THEN 0 ELSE target,
                             !.phase = IF command = "inspect" THEN "exists" ELSE "lock"])
  /\ UNCHANGED schema

UnlockedMigrations(o) == TRUE                              \* mutant
MigrationLockIsFree(o) ==
  \A q \in Operators \ {o} : operator[q].phase \notin {"read", "apply", "commit"}

\* _lock_migrations
LockMigrations(o) ==
  /\ operator[o].phase = "lock"
  /\ MigrationLockIsFree(o)
  /\ Moves(o, [operator[o] EXCEPT !.phase = "read"])
  /\ UNCHANGED <<schema, operations>>

\* upgrade creates the history table if it is missing and reads it.
ReadForUpgrade(o) ==
  /\ operator[o].phase = "read" /\ operator[o].command = "upgrade"
  /\ LET applied == IF schema.history THEN schema.applied ELSE {}
     IN  Moves(o,
           IF ~Contiguous(applied) THEN Ends(o, "state refused")
           ELSE IF operator[o].target < Current(applied) THEN Ends(o, "target refused")
           ELSE [operator[o] EXCEPT !.phase = "apply",
                   !.work = [schema EXCEPT !.history = TRUE, !.applied = applied]])
  /\ UNCHANGED <<schema, operations>>

\* downgrade of a database without history is done, or refused.
ReadForDowngrade(o) ==
  /\ operator[o].phase = "read" /\ operator[o].command = "downgrade"
  /\ Moves(o,
       IF ~schema.history
       THEN Ends(o, IF operator[o].target = 0 THEN "ok" ELSE "target refused")
       ELSE IF ~Contiguous(schema.applied) THEN Ends(o, "state refused")
       ELSE IF operator[o].target > Current(schema.applied) THEN Ends(o, "target refused")
       ELSE [operator[o] EXCEPT !.phase = "apply", !.work = schema])
  /\ UNCHANGED <<schema, operations>>

\* The up statements and history rows of every migration up to the target.
\* What is created before the commit is seen by nobody else.
ApplyMigrations(o) ==
  LET w == operator[o].work
      added == {v \in Versions : Current(w.applied) < v /\ v <= operator[o].target}
  IN  /\ operator[o].phase = "apply" /\ operator[o].command = "upgrade"
      /\ Moves(o, IF added \cap schema.tables # {} THEN Ends(o, "collision")
                  ELSE [operator[o] EXCEPT !.phase = "commit",
                                           !.work.applied = @ \cup added,
                                           !.work.tables = @ \cup added])
      /\ UNCHANGED <<schema, operations>>

HistoryWithout(w, reverted) == w.applied \ reverted

\* The down statements of every migration above the target, last one first;
\* their history rows are deleted.  tableIsFree is what the other
\* transactions of the database allow.
RevertMigrations(o, tableIsFree) ==
  LET w == operator[o].work
      reverted == {v \in w.applied : v > operator[o].target}
  IN  /\ operator[o].phase = "apply" /\ operator[o].command = "downgrade"
      /\ tableIsFree
      /\ Moves(o, IF ~(reverted \subseteq schema.tables) THEN Ends(o, "collision")
                  ELSE [operator[o] EXCEPT !.phase = "commit",
                                           !.work.applied = HistoryWithout(w, reverted),
                                           !.work.tables = @ \ reverted])
      /\ UNCHANGED <<schema, operations>>

\* downgrade(0) drops the history table last; an inspection under way may
\* already have seen it.
CommitMigration(o) ==
  LET w == operator[o].work
      gone == operator[o].command = "downgrade" /\ operator[o].target = 0
  IN  /\ operator[o].phase = "commit"
      /\ schema' = IF gone THEN [w EXCEPT !.history = FALSE, !.applied = {}] ELSE w
      /\ operator' = [q \in Operators |->
           IF q = o THEN Ends(o, "ok")
           ELSE [operator[q] EXCEPT !.dropped =
                   @ \/ (gone /\ operator[q].phase = "select")]]
      /\ UNCHANGED operations

-----------------------------------------------------------------------------

\* current_version, first statement: to_regclass takes no lock.
InspectExists(o) ==
  /\ operator[o].phase = "exists"
  /\ Moves(o, IF schema.history THEN [operator[o] EXCEPT !.phase = "select"]
              ELSE Ends(o, "ok"))
  /\ UNCHANGED <<schema, operations>>

\* Second statement, in a snapshot of its own.
InspectRead(o) ==
  /\ operator[o].phase = "select"
  /\ Moves(o, IF ~schema.history THEN Ends(o, "collision")
              ELSE IF ~Contiguous(schema.applied) THEN Ends(o, "state refused")
              ELSE [Ends(o, "ok") EXCEPT !.version = Current(schema.applied)])
  /\ UNCHANGED <<schema, operations>>

\* A lost connection rolls the transaction back.
LoseOperator(o) ==
  /\ operator[o].phase \in {"lock", "read", "apply", "commit", "exists", "select"}
  /\ Moves(o, Ends(o, "lost"))
  /\ UNCHANGED <<schema, operations>>

OperatorStep(o, tableIsFree) ==
  \/ Call(o)
  \/ LockMigrations(o)
  \/ ReadForUpgrade(o)
  \/ ReadForDowngrade(o)
  \/ ApplyMigrations(o)
  \/ RevertMigrations(o, tableIsFree)
  \/ CommitMigration(o)
  \/ InspectExists(o)
  \/ InspectRead(o)
  \/ LoseOperator(o)

-----------------------------------------------------------------------------

MigrationTypeOK ==
  /\ schema \in Schemas
  /\ operator \in [Operators -> [phase : OperatorPhases, command : Commands,
                                 target : 0..Latest, answer : Answers,
                                 version : 0..Latest, work : Schemas, dropped : BOOLEAN]]
  /\ operations \in 0..MaxOperations

\* Two commands never fail because of each other: one that finds a table
\* created or dropped under it would leave its operator with a database error.
\* The one exception is an inspection whose history table was dropped between
\* its two statements, which take no lock.
OperatorsDoNotCollide ==
  \A o \in Operators :
    operator[o].answer \in {"collision", "state refused"} =>
      operator[o].command = "inspect" /\ operator[o].dropped

=============================================================================
