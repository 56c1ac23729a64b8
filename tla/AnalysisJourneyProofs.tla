------------------------- MODULE AnalysisJourneyProofs -------------------------
(***************************************************************************)
(* Three facts about one analysis, for any number of requests, operators,  *)
(* chunks and restarts: migration commands do not fail because of each     *)
(* other, the panel shows the newest request, and what was answered is     *)
(* recorded until somebody removes it.                                     *)
(***************************************************************************)
EXTENDS AnalysisJourney, FiniteSetTheorems, TLAPS

-----------------------------------------------------------------------------
(* Migrations.  One command at a time works under the lock, and what it     *)
(* read is what is stored until it commits; history and tables agree.      *)

UnderLock == {"read", "apply", "commit"}

SchemaIs(s, n) ==
  /\ s \in Schemas /\ s.applied = 1..n /\ s.tables = 1..n
  /\ n # 0 => s.history

Wellformed(s) == \E n \in 0..Latest : SchemaIs(s, n)

OperatorCommands ==
  [phase : OperatorPhases, command : Commands, target : 0..Latest, answer : Answers,
   version : 0..Latest, work : Schemas, dropped : BOOLEAN]

(* What a command c has read of the schema s, or prepared, by its phase.    *)
WorkIsCurrent(c, s) ==
  /\ c.phase = "apply" =>
       \E n \in 0..Latest :
         /\ SchemaIs(s, n) /\ SchemaIs(c.work, n) /\ c.work.history
         /\ IF c.command = "upgrade" THEN n <= c.target ELSE c.target <= n
  /\ c.phase = "commit" =>
       /\ Wellformed(c.work) /\ c.work.history
       /\ c.command = "downgrade" /\ c.target = 0 => c.work.tables = {}

OperatorOK(c, s) ==
  /\ c \in OperatorCommands
  /\ c.phase \in {"exists", "select"} => c.command = "inspect"
  /\ c.phase \in {"lock"} \cup UnderLock => c.command # "inspect"
  /\ c.phase = "select" => s.history \/ c.dropped
  /\ c.answer \in {"collision", "state refused"} => c.command = "inspect" /\ c.dropped
  /\ WorkIsCurrent(c, s)

OneUnderLock ==
  \A o, q \in Operators :
    operator[o].phase \in UnderLock /\ operator[q].phase \in UnderLock => o = q

MigrationInv ==
  /\ Wellformed(schema)
  /\ operator = [o \in Operators |-> operator[o]]
  /\ \A o \in Operators : OperatorOK(operator[o], schema)
  /\ OneUnderLock

LEMMA CurrentOfSchema ==
  ASSUME NEW s, NEW n \in 0..Latest, SchemaIs(s, n)
  PROVE  Contiguous(s.applied) /\ Current(s.applied) = n /\ s.applied = 1..n /\ s.tables = 1..n
<1>1. n \in Int /\ n >= 0 /\ 1 \in Int
  BY DEF Latest
<1>2. Cardinality(1..n) = IF 1 > n THEN 0 ELSE n - 1 + 1
  BY <1>1, FS_Interval
<1>3. Cardinality(1..n) = n
  BY <1>1, <1>2
<1>4. s.applied = 1..n /\ s.tables = 1..n
  BY DEF SchemaIs
<1> QED
  BY <1>3, <1>4 DEF Contiguous, Current

LEMMA SchemaIsTyped == ASSUME NEW s, Wellformed(s) PROVE s \in Schemas
BY DEF Wellformed, SchemaIs

LEMMA InitEstablishesMigration == Init => MigrationInv
<1> SUFFICES ASSUME Init PROVE MigrationInv
  OBVIOUS
<1>1. Wellformed(schema)
  <2>1. SchemaIs(NoTables, 0) /\ SchemaIs(Migrated(Latest), Latest)
    BY DEF SchemaIs, NoTables, Migrated, Latest, Schemas, Versions
  <2>2. 0 \in 0..Latest /\ Latest \in 0..Latest
    BY DEF Latest
  <2> QED
    BY <2>1, <2>2 DEF Init, MigrationInit, Wellformed
<1>2. operator = [o \in Operators |-> Idle]
  BY DEF Init, MigrationInit
<1>3. OperatorOK(Idle, schema)
  BY DEF OperatorOK, OperatorCommands, WorkIsCurrent, Idle, UnderLock, Commands, Latest, OperatorPhases,
       Answers, Schemas
<1> QED
  BY <1>1, <1>2, <1>3 DEF MigrationInv, OneUnderLock, UnderLock, Idle

(* One command moves, and the schema stays as it is. *)
LEMMA MovingAlone ==
  ASSUME MigrationInv, NEW o \in Operators, NEW change, Moves(o, change), UNCHANGED schema,
         operator[o].phase \in UnderLock \/ change.phase \notin UnderLock \/ MigrationLockIsFree(o),
         OperatorOK(change, schema)
  PROVE  MigrationInv'
<1>1. operator' = [q \in Operators |-> IF q = o THEN change ELSE operator[q]]
  BY DEF MigrationInv, Moves
<1>2. Wellformed(schema)' /\ \A q \in Operators : OperatorOK(operator[q], schema)'
  BY <1>1 DEF MigrationInv
<1>3. OneUnderLock'
  BY <1>1 DEF MigrationInv, OneUnderLock, MigrationLockIsFree, UnderLock
<1> QED
  BY <1>1, <1>2, <1>3 DEF MigrationInv

LEMMA EndingIsOK ==
  ASSUME MigrationInv, NEW o \in Operators, NEW answer \in Answers,
         answer \in {"collision", "state refused"} =>
           operator[o].command = "inspect" /\ operator[o].dropped
  PROVE  /\ OperatorOK(Ends(o, answer), schema)
         /\ Ends(o, answer).phase \notin UnderLock
BY DEF MigrationInv, OperatorOK, OperatorCommands, WorkIsCurrent, Ends, UnderLock, OperatorPhases, NoTables, Schemas

LEMMA CallKeepsMigration ==
  ASSUME MigrationInv, NEW o \in Operators, Call(o) PROVE MigrationInv'
<1>1. PICK command \in Commands, target \in Targets :
        Moves(o, [Idle EXCEPT !.command = command,
                              !.target = IF command = "inspect" THEN 0 ELSE target,
                              !.phase = IF command = "inspect" THEN "exists" ELSE "lock"])
  BY DEF Call
<1> DEFINE change == [Idle EXCEPT !.command = command,
                              !.target = IF command = "inspect" THEN 0 ELSE target,
                              !.phase = IF command = "inspect" THEN "exists" ELSE "lock"]
<1>2. target \in 0..Latest /\ 0 \in 0..Latest
  BY TargetsAssumption DEF Latest
<1>3. OperatorOK(change, schema) /\ change.phase \notin UnderLock
  BY <1>2 DEF OperatorOK, OperatorCommands, WorkIsCurrent, Idle, Commands, UnderLock, OperatorPhases,
         Answers, Schemas
<1> HIDE DEF change
<1> QED
  BY <1>1, <1>3, MovingAlone DEF Call, change

LEMMA LockKeepsMigration ==
  ASSUME MigrationInv, NEW o \in Operators, LockMigrations(o) PROVE MigrationInv'
<1> DEFINE change == [operator[o] EXCEPT !.phase = "read"]
<1>1. Moves(o, change) /\ UNCHANGED schema /\ MigrationLockIsFree(o) /\ operator[o].phase = "lock"
  BY DEF LockMigrations
<1>2. OperatorOK(change, schema)
  BY <1>1 DEF MigrationInv, OperatorOK, OperatorCommands, WorkIsCurrent, UnderLock, OperatorPhases
<1> QED
  BY <1>1, <1>2, MovingAlone

LEMMA ReadForUpgradeKeepsMigration ==
  ASSUME MigrationInv, NEW o \in Operators, ReadForUpgrade(o) PROVE MigrationInv'
<1> DEFINE applied == IF schema.history THEN schema.applied ELSE {}
           work == [schema EXCEPT !.history = TRUE, !.applied = applied]
           change == [operator[o] EXCEPT !.phase = "apply", !.work = work]
<1>1. PICK n \in 0..Latest : SchemaIs(schema, n)
  BY DEF MigrationInv, Wellformed
<1>2. applied = 1..n
  <2>1. n = 0 => 1..n = {}
    BY DEF Latest
  <2> QED
    BY <1>1, <2>1 DEF SchemaIs
<1>8. SchemaIs(work, n) /\ work.history /\ work \in Schemas
  <2>1. schema \in Schemas /\ schema.tables = 1..n /\ 1..n \in SUBSET Versions
    BY <1>1 DEF SchemaIs, Schemas
  <2>2. work = [schema EXCEPT !.history = TRUE, !.applied = 1..n]
    BY <1>2
  <2> QED
    BY <2>1, <2>2 DEF SchemaIs, Schemas
<1>3. Contiguous(applied) /\ Current(applied) = n
  BY <1>2, <1>1, CurrentOfSchema
<1>4. UNCHANGED schema /\ operator[o].phase = "read" /\ operator[o].command = "upgrade"
  BY DEF ReadForUpgrade
<1>5. Moves(o, IF operator[o].target < n THEN Ends(o, "target refused") ELSE change)
  BY <1>3 DEF ReadForUpgrade
<1>6. CASE operator[o].target < n
  BY <1>4, <1>5, <1>6, EndingIsOK, MovingAlone DEF Answers
<1>7. CASE ~(operator[o].target < n)
  <2>0. operator[o].target \in 0..Latest
    BY DEF MigrationInv, OperatorOK, OperatorCommands
  <2>1. n <= operator[o].target
    BY <1>1, <1>7, <2>0 DEF Latest
  <2>2. OperatorOK(change, schema)
    <3> HIDE DEF work
    <3> QED
      BY <1>1, <1>8, <1>4, <2>1 DEF MigrationInv, OperatorOK, OperatorCommands, WorkIsCurrent, UnderLock, OperatorPhases
  <2>3. operator[o].phase \in UnderLock
    BY <1>4 DEF UnderLock
  <2> HIDE DEF change
  <2> QED
    BY <1>4, <1>5, <1>7, <2>2, <2>3, MovingAlone
<1> QED
  BY <1>6, <1>7

LEMMA ReadForDowngradeKeepsMigration ==
  ASSUME MigrationInv, NEW o \in Operators, ReadForDowngrade(o) PROVE MigrationInv'
<1> DEFINE change == [operator[o] EXCEPT !.phase = "apply", !.work = schema]
<1>1. PICK n \in 0..Latest : SchemaIs(schema, n)
  BY DEF MigrationInv, Wellformed
<1>2. Contiguous(schema.applied) /\ Current(schema.applied) = n
  BY <1>1, CurrentOfSchema
<1>3. UNCHANGED schema /\ operator[o].phase = "read" /\ operator[o].command = "downgrade"
  BY DEF ReadForDowngrade
<1>4. \/ Moves(o, Ends(o, "ok")) \/ Moves(o, Ends(o, "target refused"))
      \/ Moves(o, change) /\ operator[o].target <= n /\ schema.history
  <2>1. operator[o].target \in 0..Latest
    BY DEF MigrationInv, OperatorOK, OperatorCommands
  <2>2. operator[o].target > n \/ operator[o].target <= n
    BY <2>1 DEF Latest
  <2> HIDE DEF change
  <2> QED
    BY <1>2, <2>2 DEF ReadForDowngrade, change
<1>5. CASE Moves(o, Ends(o, "ok")) \/ Moves(o, Ends(o, "target refused"))
  BY <1>3, <1>5, EndingIsOK, MovingAlone DEF Answers
<1>6. CASE Moves(o, change) /\ operator[o].target <= n /\ schema.history
  <2>0. schema \in Schemas
    BY SchemaIsTyped DEF MigrationInv
  <2>1. OperatorOK(change, schema)
    BY <1>1, <1>3, <1>6, <2>0 DEF MigrationInv, OperatorOK, OperatorCommands, WorkIsCurrent, UnderLock, OperatorPhases
  <2>2. operator[o].phase \in UnderLock
    BY <1>3 DEF UnderLock
  <2> HIDE DEF change
  <2> QED
    BY <1>3, <1>6, <2>1, <2>2, MovingAlone
<1> QED
  BY <1>4, <1>5, <1>6

(* The migrations between a stored prefix and a target, and those above a   *)
(* target.                                                                  *)
LEMMA PrefixArithmetic ==
  ASSUME NEW n \in 0..Latest, NEW target \in 0..Latest
  PROVE  /\ n <= target =>
              LET added == {v \in Versions : n < v /\ v <= target}
              IN  added \cap (1..n) = {} /\ (1..n) \cup added = 1..target
         /\ target <= n =>
              LET reverted == {v \in 1..n : v > target}
              IN  reverted \subseteq 1..n /\ (1..n) \ reverted = 1..target
BY DEF Latest, Versions

LEMMA ApplyKeepsMigration ==
  ASSUME MigrationInv, NEW o \in Operators, ApplyMigrations(o) PROVE MigrationInv'
<1> DEFINE w == operator[o].work
           target == operator[o].target
           added == {v \in Versions : Current(w.applied) < v /\ v <= target}
           work == [w EXCEPT !.applied = @ \cup added, !.tables = @ \cup added]
           change == [operator[o] EXCEPT !.phase = "commit", !.work = work]
<1>1. UNCHANGED schema /\ operator[o].phase = "apply" /\ operator[o].command = "upgrade"
  BY DEF ApplyMigrations
<1>2. PICK n \in 0..Latest :
        SchemaIs(schema, n) /\ SchemaIs(w, n) /\ w.history /\ n <= target
  BY <1>1 DEF MigrationInv, OperatorOK, WorkIsCurrent
<1>3. target \in 0..Latest
  BY DEF MigrationInv, OperatorOK, OperatorCommands
<1>4. added = {v \in Versions : n < v /\ v <= target}
  BY <1>2, CurrentOfSchema
<1>5. added \cap schema.tables = {} /\ w.applied \cup added = 1..target /\ w.tables \cup added = 1..target
  BY <1>2, <1>3, <1>4, PrefixArithmetic, CurrentOfSchema
<1>6. Moves(o, change)
  <2>1. Moves(o, [operator[o] EXCEPT !.phase = "commit",
                                     !.work.applied = @ \cup added,
                                     !.work.tables = @ \cup added])
    BY <1>5 DEF ApplyMigrations
  <2>2. w \in Schemas /\ operator[o] \in OperatorCommands
    BY DEF MigrationInv, OperatorOK, OperatorCommands
  <2> HIDE DEF added
  <2> QED
    BY <2>1, <2>2 DEF OperatorCommands, Schemas
<1>7. work.applied = 1..target /\ work.tables = 1..target /\ work.history /\ work \in Schemas
  <2>1. w \in Schemas /\ 1..target \in SUBSET Versions
    BY <1>2, <1>3 DEF SchemaIs, Latest, Versions
  <2> HIDE DEF w, added, target
  <2> QED
    BY <1>2, <1>5, <2>1 DEF Schemas
<1>8. Wellformed(work)
  BY <1>3, <1>7 DEF Wellformed, SchemaIs
<1>9. OperatorOK(change, schema)
  <2> HIDE DEF work
  <2> QED
    BY <1>1, <1>7, <1>8 DEF MigrationInv, OperatorOK, OperatorCommands, WorkIsCurrent, UnderLock, OperatorPhases
<1>10. operator[o].phase \in UnderLock
  BY <1>1 DEF UnderLock
<1> HIDE DEF change
<1> QED
  BY <1>1, <1>6, <1>9, <1>10, MovingAlone

LEMMA RevertKeepsMigration ==
  ASSUME MigrationInv, NEW o \in Operators, NEW free, RevertMigrations(o, free)
  PROVE  MigrationInv'
<1> DEFINE w == operator[o].work
           target == operator[o].target
           reverted == {v \in w.applied : v > target}
           work == [w EXCEPT !.applied = w.applied \ reverted, !.tables = @ \ reverted]
           change == [operator[o] EXCEPT !.phase = "commit", !.work = work]
<1>1. UNCHANGED schema /\ operator[o].phase = "apply" /\ operator[o].command = "downgrade"
  BY DEF RevertMigrations
<1>2. PICK n \in 0..Latest :
        SchemaIs(schema, n) /\ SchemaIs(w, n) /\ w.history /\ target <= n
  BY <1>1 DEF MigrationInv, OperatorOK, WorkIsCurrent
<1>3. target \in 0..Latest
  BY DEF MigrationInv, OperatorOK, OperatorCommands
<1>4. reverted = {v \in 1..n : v > target}
  BY <1>2, CurrentOfSchema
<1>5. reverted \subseteq schema.tables /\ w.applied \ reverted = 1..target /\ w.tables \ reverted = 1..target
  BY <1>2, <1>3, <1>4, PrefixArithmetic, CurrentOfSchema
<1>6. Moves(o, change)
  <2>1. Moves(o, [operator[o] EXCEPT !.phase = "commit",
                                     !.work.applied = w.applied \ reverted,
                                     !.work.tables = @ \ reverted])
    BY <1>5 DEF RevertMigrations, HistoryWithout
  <2>2. w \in Schemas /\ operator[o] \in OperatorCommands
    BY DEF MigrationInv, OperatorOK, OperatorCommands
  <2> HIDE DEF reverted
  <2> QED
    BY <2>1, <2>2 DEF OperatorCommands, Schemas
<1>7. work.applied = 1..target /\ work.tables = 1..target /\ work.history /\ work \in Schemas
  <2>1. w \in Schemas /\ 1..target \in SUBSET Versions
    BY <1>2, <1>3 DEF SchemaIs, Latest, Versions
  <2> HIDE DEF w, reverted, target
  <2> QED
    BY <1>2, <1>5, <2>1 DEF Schemas
<1>8. Wellformed(work) /\ (target = 0 => work.tables = {})
  <2>1. 1..0 = {}
    OBVIOUS
  <2> HIDE DEF work, target
  <2> QED
    BY <1>3, <1>7, <2>1 DEF Wellformed, SchemaIs
<1>9. OperatorOK(change, schema)
  <2> HIDE DEF work
  <2> QED
    BY <1>1, <1>7, <1>8 DEF MigrationInv, OperatorOK, OperatorCommands, WorkIsCurrent, UnderLock, OperatorPhases
<1>10. operator[o].phase \in UnderLock
  BY <1>1 DEF UnderLock
<1> HIDE DEF change
<1> QED
  BY <1>1, <1>6, <1>9, <1>10, MovingAlone

LEMMA CommitKeepsMigration ==
  ASSUME MigrationInv, NEW o \in Operators, CommitMigration(o) PROVE MigrationInv'
<1> DEFINE w == operator[o].work
           gone == operator[o].command = "downgrade" /\ operator[o].target = 0
           seen(q) == [operator[q] EXCEPT !.dropped = @ \/ (gone /\ operator[q].phase = "select")]
<1>1. /\ operator[o].phase = "commit"
      /\ schema' = IF gone THEN [w EXCEPT !.history = FALSE, !.applied = {}] ELSE w
      /\ operator' = [q \in Operators |-> IF q = o THEN Ends(o, "ok") ELSE seen(q)]
  BY DEF CommitMigration
<1>2. Wellformed(w) /\ w.history /\ (gone => w.tables = {}) /\ w \in Schemas
  BY <1>1, SchemaIsTyped DEF MigrationInv, OperatorOK, WorkIsCurrent
<1>3. Wellformed(schema') /\ (~gone => schema'.history)
  <2>1. CASE gone
    <3>1. schema' \in Schemas /\ schema'.applied = {} /\ schema'.tables = {}
      BY <1>1, <1>2, <2>1 DEF Schemas
    <3>2. SchemaIs(schema', 0)
      BY <3>1 DEF SchemaIs
    <3> QED
      BY <2>1, <3>2 DEF Wellformed, Latest
  <2> QED
    BY <1>1, <1>2, <2>1
<1>4. OperatorOK(Ends(o, "ok"), schema')
  BY DEF MigrationInv, OperatorOK, OperatorCommands, WorkIsCurrent, Ends, UnderLock, OperatorPhases, NoTables, Schemas, Answers
<1>5. ASSUME NEW q \in Operators, q # o PROVE OperatorOK(seen(q), schema')
  <2>1. operator[q].phase \notin UnderLock
    BY <1>1, <1>5 DEF MigrationInv, OneUnderLock, UnderLock
  <2>2. OperatorOK(operator[q], schema) /\ operator[q] \in OperatorCommands
    BY DEF MigrationInv, OperatorOK
  <2>3. /\ seen(q) \in OperatorCommands
        /\ seen(q).phase = operator[q].phase /\ seen(q).command = operator[q].command
        /\ seen(q).answer = operator[q].answer
        /\ operator[q].dropped => seen(q).dropped
        /\ operator[q].phase = "select" /\ gone => seen(q).dropped
    BY <2>2 DEF OperatorCommands
  <2> HIDE DEF gone, seen
  <2> QED
    BY <1>3, <2>1, <2>2, <2>3 DEF OperatorOK, WorkIsCurrent, UnderLock
<1>6. OneUnderLock'
  <2>1. \A q \in Operators : operator'[q].phase \in UnderLock => operator[q].phase \in UnderLock
    BY <1>1 DEF MigrationInv, OperatorOK, OperatorCommands, Ends, UnderLock
  <2> QED
    BY <2>1 DEF MigrationInv, OneUnderLock
<1> QED
  BY <1>1, <1>3, <1>4, <1>5, <1>6 DEF MigrationInv

LEMMA InspectionsKeepMigration ==
  ASSUME MigrationInv, NEW o \in Operators, InspectExists(o) \/ InspectRead(o) PROVE MigrationInv'
<1>1. UNCHANGED schema
  BY DEF InspectExists, InspectRead
<1>2. CASE InspectExists(o)
  <2> DEFINE change == [operator[o] EXCEPT !.phase = "select"]
  <2>1. operator[o].phase = "exists" /\ (Moves(o, Ends(o, "ok")) \/ (Moves(o, change) /\ schema.history))
    BY <1>2 DEF InspectExists
  <2>2. schema.history => OperatorOK(change, schema)
    BY <2>1 DEF MigrationInv, OperatorOK, OperatorCommands, WorkIsCurrent, UnderLock, OperatorPhases
  <2>3. change.phase \notin UnderLock
    BY <2>1 DEF MigrationInv, OperatorOK, OperatorCommands, UnderLock
  <2> HIDE DEF change
  <2> QED
    BY <1>1, <2>1, <2>2, <2>3, EndingIsOK, MovingAlone DEF Answers
<1>3. CASE InspectRead(o)
  <2>1. PICK n \in 0..Latest : SchemaIs(schema, n)
    BY DEF MigrationInv, Wellformed
  <2>2. Contiguous(schema.applied) /\ Current(schema.applied) = n
    BY <2>1, CurrentOfSchema
  <2> DEFINE change == [Ends(o, "ok") EXCEPT !.version = n]
  <2>3. operator[o].phase = "select" /\ operator[o].command = "inspect"
    BY <1>3 DEF InspectRead, MigrationInv, OperatorOK
  <2>4. \/ Moves(o, Ends(o, "collision")) /\ ~schema.history
       \/ Moves(o, change)
    BY <1>3, <2>2 DEF InspectRead
  <2>5. ~schema.history => operator[o].dropped
    BY <2>3 DEF MigrationInv, OperatorOK
  <2>6. OperatorOK(change, schema) /\ change.phase \notin UnderLock
    BY DEF MigrationInv, OperatorOK, OperatorCommands, WorkIsCurrent, Ends, UnderLock, OperatorPhases,
           NoTables, Schemas, Answers
  <2> HIDE DEF change
  <2> QED
    BY <1>1, <2>3, <2>4, <2>5, <2>6, EndingIsOK, MovingAlone DEF Answers
<1> QED
  BY <1>2, <1>3

LEMMA LossKeepsMigration ==
  ASSUME MigrationInv, NEW o \in Operators, LoseOperator(o) PROVE MigrationInv'
BY EndingIsOK, MovingAlone DEF LoseOperator, Answers

LEMMA OperatorStepKeepsMigration ==
  ASSUME MigrationInv, NEW o \in Operators, NEW free, OperatorStep(o, free) PROVE MigrationInv'
BY CallKeepsMigration, LockKeepsMigration, ReadForUpgradeKeepsMigration, ReadForDowngradeKeepsMigration,
   ApplyKeepsMigration, RevertKeepsMigration, CommitKeepsMigration, InspectionsKeepMigration,
   LossKeepsMigration DEF OperatorStep

LEMMA NextKeepsMigration == ASSUME MigrationInv, [Next]_vars PROVE MigrationInv'
<1>1. ASSUME UNCHANGED migrationVars PROVE MigrationInv'
  <2>1. schema' = schema /\ operator' = operator
    BY <1>1 DEF migrationVars
  <2> QED
    BY <2>1 DEF MigrationInv, OneUnderLock
<1>2. ASSUME NEW o \in Operators, Operate(o) PROVE MigrationInv'
  BY <1>2, OperatorStepKeepsMigration DEF Operate, Migrate
<1>3. CASE UNCHANGED vars
  BY <1>1, <1>3 DEF vars
<1>4. CASE Next
  BY <1>1, <1>2, <1>4 DEF Next, Steps, Deliver, Serve, Exchange, Fail, Browse
<1> QED
  BY <1>3, <1>4

LEMMA MigrationIsInvariant == Spec => []MigrationInv
<1>1. Init => MigrationInv
  BY InitEstablishesMigration
<1>2. MigrationInv /\ [Next]_vars => MigrationInv'
  BY NextKeepsMigration
<1> QED
  BY <1>1, <1>2, PTL DEF Spec

(* Commands of several operators do not fail because of each other: the     *)
(* lock of migrations.py, and reads under it, keep one command from finding *)
(* tables or a history that another one changed.  An inspection takes no    *)
(* lock and may lose its history table between its statements.              *)
THEOREM MigrationsDoNotCollide == Spec => []OperatorsDoNotCollide
<1>1. MigrationInv => OperatorsDoNotCollide
  BY DEF MigrationInv, OperatorOK, OperatorsDoNotCollide
<1> QED
  BY <1>1, MigrationIsInvariant, PTL

-----------------------------------------------------------------------------
(* The API process: what its calls and its store are made of.              *)

Metadata == [outcome : Outcomes \cup {"none"}, evidence : SUBSET Chunks, neighbors : BOOLEAN]
Answerable == [cited : SUBSET Chunks, metadata : Metadata]
Synthetic == [outcome : Scenarios \cup {"unavailable"}, neighbors : Nat, citations : Nat]
Recorded == UNION {[S -> Metadata] : S \in SUBSET Requests}
Kept == UNION {[S -> Answerable] : S \in SUBSET Requests}

CallRecords == [phase : CallPhases, status : Statuses, result : Answerable, shown : Synthetic,
                base : Nat, seen : Recorded]

ServiceTyped ==
  /\ backend \in {"memory", "postgres", "demonstration"} /\ composed \in BOOLEAN
  /\ call \in [Requests -> CallRecords]
  /\ rows \in Recorded /\ cache \in Kept
  /\ stored \subseteq Chunks /\ erased \subseteq Requests /\ generation \in Nat

LEMMA ProjectedIsAnswerable ==
  ASSUME NEW result \in Results
  PROVE  result \in Answerable /\ result.cited \subseteq result.metadata.evidence
<1>1. PICK o \in Orchestrations : result = ResultOf(o)
  BY ResultsAssumption DEF Projected
<1>2. o.evidence \in SUBSET Chunks /\ o.cited \in SUBSET Chunks /\ o.neighbors \in BOOLEAN
  BY <1>1 DEF Orchestrations
<1>3. PublicCitations(o) \in SUBSET Chunks /\ PublicCitations(o) \subseteq o.evidence
  BY <1>2 DEF PublicCitations
<1>4. OutcomeOf(o) \in Outcomes \cup {"none"}
  BY DEF OutcomeOf, Degraded, Outcomes
<1> QED
  BY <1>1, <1>2, <1>3, <1>4 DEF ResultOf, MetadataOf, Answerable, Metadata

(* Every scenario of the demonstration answers with its own outcome. *)
LEMMA ScenarioAnswers ==
  ASSUME NEW scenario \in Scenarios, NEW k \in Nat \ {0}
  PROVE  /\ SyntheticResult(scenario, k) \in Synthetic
         /\ SyntheticResult(scenario, k).outcome = scenario
<1> DEFINE p == Predicted(scenario, k)
<1>1. p = [disposition |-> IF scenario = "out_of_distribution" THEN "OUT_OF_DISTRIBUTION"
                           ELSE IF scenario \in {"documented_fault", "undocumented_fault", "degraded"}
                           THEN "FAULT" ELSE "NORMAL",
           abstains |-> scenario = "out_of_distribution",
           diagnosis |-> IF scenario = "out_of_distribution" THEN "none" ELSE scenario,
           key |-> IF scenario \in {"documented_fault", "undocumented_fault", "degraded"}
                   THEN scenario ELSE "none",
           neighbors |-> k]
  BY DEF Predicted, Nothing
<1> HIDE DEF p
<1>2. ~Contradictory(p)
  BY <1>1 DEF Contradictory, Nothing, Scenarios
<1>3. p.neighbors = k /\ CitationsFor(p.key, k) \in Nat
      /\ (CitationsFor(p.key, k) = 0 <=> p.key = "undocumented_fault")
  BY <1>1 DEF CitationsFor
<1>4. /\ ResultFrom(p, k).outcome = scenario
      /\ ResultFrom(p, k) \in Synthetic
  BY <1>1, <1>2, <1>3 DEF ResultFrom, Result, Generates, Scenarios, Synthetic
<1> QED
  BY <1>4 DEF SyntheticResult, p

LEMMA ZeroIsNoRequest == 0 \notin Requests /\ Requests \subseteq Nat
<1>1. Cardinality(Requests) \in Nat
  BY RequestsAssumption, FS_CardinalityType
<1> DEFINE n == Cardinality(Requests)
<1>2. Requests = 1..n
  BY RequestsAssumption
<1> HIDE DEF n
<1>3. n \in Nat
  BY <1>1 DEF n
<1> QED
  BY <1>2, <1>3

(* What is kept is kept of requests; one more entry of its type is fine.    *)
LEMMA RecordedEntries ==
  /\ NoRows \in Recorded /\ NoRows \in Kept /\ DOMAIN NoRows = {}
  /\ \A f \in Recorded : DOMAIN f \subseteq Requests /\ \A s \in DOMAIN f : f[s] \in Metadata
  /\ \A f \in Kept : DOMAIN f \subseteq Requests /\ \A s \in DOMAIN f : f[s] \in Answerable
<1>1. NoRows \in [{} -> Metadata] /\ NoRows \in [{} -> Answerable] /\ {} \in SUBSET Requests
      /\ DOMAIN NoRows = {}
  BY DEF NoRows
<1> QED
  BY <1>1 DEF Recorded, Kept

LEMMA RecordedExtends ==
  ASSUME NEW f \in Recorded, NEW r \in Requests, NEW R \in SUBSET {r}, NEW m \in Metadata
  PROVE  [s \in DOMAIN f \cup R |-> IF s = r THEN m ELSE f[s]] \in Recorded
<1> DEFINE D == DOMAIN f \cup R
           g == [s \in D |-> IF s = r THEN m ELSE f[s]]
<1>1. D \in SUBSET Requests /\ \A s \in DOMAIN f : f[s] \in Metadata
  BY RecordedEntries
<1>2. \A s \in D : (IF s = r THEN m ELSE f[s]) \in Metadata
  BY <1>1
<1> HIDE DEF D
<1>3. g \in [D -> Metadata]
  BY <1>2
<1> HIDE DEF g
<1> QED
  BY <1>1, <1>3 DEF Recorded, g, D

LEMMA KeptExtends ==
  ASSUME NEW f \in Kept, NEW r \in Requests, NEW a \in Answerable
  PROVE  [s \in DOMAIN f \cup {r} |-> IF s = r THEN a ELSE f[s]] \in Kept
<1> DEFINE D == DOMAIN f \cup {r}
           g == [s \in D |-> IF s = r THEN a ELSE f[s]]
<1>1. D \in SUBSET Requests /\ \A s \in DOMAIN f : f[s] \in Answerable
  BY RecordedEntries
<1>2. \A s \in D : (IF s = r THEN a ELSE f[s]) \in Answerable
  BY <1>1
<1> HIDE DEF D
<1>3. g \in [D -> Answerable]
  BY <1>2
<1> HIDE DEF g
<1> QED
  BY <1>1, <1>3 DEF Kept, g, D

LEMMA NoCallIsTyped == NoCall \in CallRecords /\ NoResult \in Answerable /\ Unavailable \in Synthetic
<1>1. NoResult \in Answerable
  BY DEF NoResult, Answerable, Metadata
<1>2. Unavailable \in Synthetic
  BY DEF Unavailable, Synthetic
<1> QED
  BY <1>1, <1>2, RecordedEntries DEF NoCall, CallRecords, CallPhases, Statuses

LEMMA InitIsTyped == Init => ServiceTyped
<1> SUFFICES ASSUME Init PROVE ServiceTyped
  OBVIOUS
<1>1. composed \in BOOLEAN
  BY DEF Init, ServiceInit, Composable
<1>2. call \in [Requests -> CallRecords]
  BY NoCallIsTyped DEF Init, ServiceInit
<1> QED
  BY <1>1, <1>2, RecordedEntries DEF Init, ServiceInit, ServiceTyped

(* Refusals of a call, and what else ends one without a result. *)
LEMMA AnswerIsTyped ==
  ASSUME ServiceTyped, NEW r \in Requests, NEW status \in Statuses
  PROVE  /\ AnswersWith(r, status) \in CallRecords
         /\ AnswersWith(r, status) =
              [call[r] EXCEPT !.phase = "answered", !.status = status, !.seen = NoRows]
BY RecordedEntries DEF AnswersWith, ServiceTyped, CallRecords, CallPhases

LEMMA CallIsTyped ==
  ASSUME ServiceTyped, NEW r \in Requests, NEW change \in CallRecords, Calls(r, change)
  PROVE  call' \in [Requests -> CallRecords]
BY DEF ServiceTyped, Calls

LEMMA DeliverKeepsTypes ==
  ASSUME ServiceTyped, NEW r \in Requests, Analyze(r) \/ Demonstrate(r) PROVE ServiceTyped'
<1>1. call' \in [Requests -> CallRecords]
  <2>1. CASE Calls(r, AnswersWith(r, "refused"))
    BY <2>1, AnswerIsTyped, CallIsTyped DEF Statuses
  <2>2. ASSUME NEW result \in Results,
               Calls(r, [call[r] EXCEPT !.phase = "persisting", !.result = result])
        PROVE  call' \in [Requests -> CallRecords]
    <3> DEFINE change == [call[r] EXCEPT !.phase = "persisting", !.result = result]
    <3>1. change \in CallRecords
      BY ProjectedIsAnswerable DEF ServiceTyped, CallRecords, CallPhases
    <3> HIDE DEF change
    <3> QED
      BY <2>2, <3>1, CallIsTyped DEF change
  <2>3. ASSUME NEW scenario \in Scenarios, NEW k \in TopKs,
               Calls(r, [AnswersWith(r, "accepted") EXCEPT !.shown = SyntheticResult(scenario, k)])
        PROVE  call' \in [Requests -> CallRecords]
    <3> DEFINE change == [AnswersWith(r, "accepted") EXCEPT !.shown = SyntheticResult(scenario, k)]
    <3>1. change \in CallRecords
      BY AnswerIsTyped, ScenarioAnswers, TopKAssumption DEF CallRecords, Statuses
    <3> HIDE DEF change
    <3> QED
      BY <2>3, <3>1, CallIsTyped DEF change
  <2> QED
    BY <2>1, <2>2, <2>3 DEF Analyze, Demonstrate
<1>2. UNCHANGED <<backend, composed, rows, cache, stored, erased, generation>>
  BY DEF Analyze, Demonstrate, StoreUnchanged
<1> QED
  BY <1>1, <1>2 DEF ServiceTyped

LEMMA StepKeepsTypes ==
  ASSUME ServiceTyped, NEW r \in Requests, ServiceStep(r) PROVE ServiceTyped'
<1>1. call' \in [Requests -> CallRecords]
  <2>1. call[r] \in CallRecords /\ generation \in Nat /\ rows \in Recorded /\ NoRows \in Recorded
    BY RecordedEntries DEF ServiceTyped
  <2>2. /\ [call[r] EXCEPT !.phase = "open", !.base = generation, !.seen = rows] \in CallRecords
        /\ [call[r] EXCEPT !.phase = "open"] \in CallRecords
        /\ [call[r] EXCEPT !.phase = "staged"] \in CallRecords
        /\ [call[r] EXCEPT !.phase = "committed", !.seen = NoRows] \in CallRecords
        /\ [call[r] EXCEPT !.phase = "committed"] \in CallRecords
    BY <2>1 DEF CallRecords, CallPhases
  <2>3. AnswersWith(r, "accepted") \in CallRecords /\ AnswersWith(r, "refused") \in CallRecords
    BY AnswerIsTyped DEF Statuses
  <2>4. PICK change \in CallRecords : Calls(r, change)
    BY <2>2, <2>3 DEF ServiceStep, OpenInMemory, OpenInPostgres, AddToMemory, AddToPostgres,
         CommitToMemory, CommitToPostgres, PublishResult
  <2> QED
    BY <2>4, CallIsTyped
<1>2. rows' \in Recorded
  <2>1. call[r].seen \in Recorded /\ call[r].result.metadata \in Metadata /\ rows \in Recorded
    BY DEF ServiceTyped, CallRecords, Answerable
  <2>2. CASE CommitToMemory(r)
    <3>1. [s \in DOMAIN call[r].seen \cup {r} |->
             IF s = r THEN call[r].result.metadata ELSE call[r].seen[s]] \in Recorded
      BY <2>1, RecordedExtends
    <3> QED
      BY <2>1, <2>2, <3>1 DEF CommitToMemory
  <2>3. CASE CommitToPostgres(r)
    <3>1. PICK committed \in BOOLEAN :
            rows' = [s \in DOMAIN rows \cup (IF committed THEN {r} ELSE {}) |->
                       IF s = r THEN call[r].result.metadata ELSE rows[s]]
      BY <2>3 DEF CommitToPostgres
    <3>2. (IF committed THEN {r} ELSE {}) \in SUBSET {r}
      OBVIOUS
    <3> QED
      BY <2>1, <3>1, <3>2, RecordedExtends
  <2> QED
    BY <2>1, <2>2, <2>3 DEF ServiceStep, OpenInMemory, OpenInPostgres, AddToMemory, AddToPostgres,
       PublishResult, StoreUnchanged
<1>3. cache' \in Kept
  <2>1. call[r].result \in Answerable /\ cache \in Kept
    BY DEF ServiceTyped, CallRecords
  <2> QED
    BY <2>1, KeptExtends DEF ServiceStep, OpenInMemory, OpenInPostgres, AddToMemory, AddToPostgres,
       CommitToMemory, CommitToPostgres, PublishResult, StoreUnchanged
<1>4. UNCHANGED <<backend, composed, stored, erased>>
  BY DEF ServiceStep, OpenInMemory, OpenInPostgres, AddToMemory, AddToPostgres,
       CommitToMemory, CommitToPostgres, PublishResult, StoreUnchanged
<1>5. generation' \in Nat
  BY DEF ServiceTyped, ServiceStep, OpenInMemory, OpenInPostgres, AddToMemory, AddToPostgres,
       CommitToMemory, CommitToPostgres, PublishResult, StoreUnchanged
<1> QED
  BY <1>1, <1>2, <1>3, <1>4, <1>5 DEF ServiceTyped

LEMMA RestartKeepsTypes == ASSUME ServiceTyped, Restart PROVE ServiceTyped'
<1>1. [NoCall EXCEPT !.phase = "gone"] \in CallRecords
  BY NoCallIsTyped DEF CallRecords, CallPhases
<1>2. call' \in [Requests -> CallRecords]
  BY <1>1 DEF Restart, ServiceTyped
<1>3. composed' \in BOOLEAN
  BY DEF Restart, Compositions, Composable
<1>4. DOMAIN rows \subseteq Requests
  BY RecordedEntries DEF ServiceTyped
<1> QED
  BY <1>2, <1>3, <1>4, RecordedEntries DEF Restart, ServiceTyped

LEMMA MigrateKeepsTypes == ASSUME ServiceTyped, NEW o \in Operators, Migrate(o) PROVE ServiceTyped'
<1>1. DOMAIN rows \in SUBSET Requests /\ \A r \in DOMAIN rows : rows[r] \in Metadata
  BY RecordedEntries DEF ServiceTyped
<1>2. [r \in DOMAIN rows |-> [rows[r] EXCEPT !.neighbors = FALSE]] \in Recorded
  <2> DEFINE D == DOMAIN rows
             f == [r \in D |-> [rows[r] EXCEPT !.neighbors = FALSE]]
  <2>1. \A r \in D : [rows[r] EXCEPT !.neighbors = FALSE] \in Metadata
    BY <1>1 DEF Metadata
  <2>2. D \in SUBSET Requests
    BY <1>1
  <2> HIDE DEF D
  <2>3. f \in [D -> Metadata]
    BY <2>1
  <2> HIDE DEF f
  <2>4. f \in Recorded
    BY <2>2, <2>3 DEF Recorded
  <2> QED
    BY <2>4 DEF f, D
<1> QED
  BY <1>1, <1>2, RecordedEntries DEF Migrate, ServiceTyped

LEMMA NextKeepsTypes == ASSUME ServiceTyped, [Next]_vars PROVE ServiceTyped'
<1>1. ASSUME UNCHANGED serviceVars PROVE ServiceTyped'
  BY <1>1 DEF serviceVars, ServiceTyped
<1>2. CASE UNCHANGED vars
  BY <1>1, <1>2 DEF vars
<1>3. CASE Next
  BY <1>1, <1>3, DeliverKeepsTypes, StepKeepsTypes, RestartKeepsTypes, MigrateKeepsTypes
     DEF Next, Steps, Deliver, Serve, Exchange, Fail, Browse, Operate
<1> QED
  BY <1>2, <1>3

-----------------------------------------------------------------------------
(* Recording.  What a call c of request r may rely on, and what the store   *)
(* holds for it.  A staged call in PostgreSQL has no downgrade of its       *)
(* tables before it; a snapshot in memory with the current generation is    *)
(* the store itself.                                                        *)

InStore == {"persisting", "open", "staged", "committed"}

Grounded(c) ==
  /\ c.phase \in InStore => backend # "demonstration"
  /\ c.phase \in InStore \/ (c.status = "accepted" /\ backend # "demonstration") =>
       c.result.cited \subseteq c.result.metadata.evidence
  /\ c.phase = "staged" => c.result.metadata.evidence \subseteq stored

SnapshotIsCurrent(c) ==
  backend = "memory" /\ c.phase \in {"open", "staged"} =>
    c.base <= generation /\ (c.base = generation => c.seen = rows)

TablesAreKept(c) ==
  backend = "postgres" /\ c.phase = "staged" =>
    \A o \in Operators : operator[o].phase = "commit" => schema.tables \subseteq operator[o].work.tables

IsRecorded(c, r) ==
  r \notin erased /\ backend # "demonstration" =>
    /\ c.phase = "committed" \/ c.status = "accepted" =>
         r \in DOMAIN rows /\ rows[r] = c.result.metadata /\ rows[r].evidence \subseteq stored
    /\ r \in DOMAIN cache => r \in DOMAIN rows /\ rows[r] = cache[r].metadata

AnsweredOnce(c, r) ==
  (c.status = "accepted" \/ r \in DOMAIN cache) => c.phase = "answered"

Sound(c, r) ==
  Grounded(c) /\ SnapshotIsCurrent(c) /\ TablesAreKept(c) /\ IsRecorded(c, r) /\ AnsweredOnce(c, r)

DemonstrationIsServed ==
  backend = "demonstration" =>
    /\ DOMAIN catalog = Scenarios
    /\ \A id \in Scenarios : catalog[id].outcome = id
    /\ \A r \in Requests : call[r].status = "accepted" => call[r].shown.outcome \in Scenarios

RecordInv == (\A r \in Requests : Sound(call[r], r)) /\ DemonstrationIsServed

JourneyInv == MigrationInv /\ ServiceTyped /\ RecordInv

LEMMA SeededCatalogIsServed ==
  DOMAIN SeededCatalog = Scenarios /\ \A id \in Scenarios : SeededCatalog[id].outcome = id
BY ScenarioAnswers, TopKAssumption DEF SeededCatalog

LEMMA InitEstablishesRecord == Init => RecordInv
<1> SUFFICES ASSUME Init PROVE RecordInv
  OBVIOUS
<1>1. \A r \in Requests : call[r] = NoCall
  BY DEF Init, ServiceInit
<1>2. ASSUME NEW r \in Requests PROVE Sound(NoCall, r)
  <2>1. NoCall.phase = "none" /\ NoCall.status = "none" /\ DOMAIN cache = {}
    BY RecordedEntries DEF NoCall, Init, ServiceInit
  <2> QED
    BY <2>1 DEF Sound, Grounded, SnapshotIsCurrent, TablesAreKept, IsRecorded, AnsweredOnce, InStore
<1>3. DemonstrationIsServed
  BY <1>1, SeededCatalogIsServed DEF DemonstrationIsServed, Init, ServiceInit, CatalogAtStart, NoCall
<1> QED
  BY <1>1, <1>2, <1>3 DEF RecordInv

(* One call moves on; store, tables and operators stay as they are. *)
LEMMA CallMovesAlone ==
  ASSUME JourneyInv, NEW r \in Requests, NEW change, Calls(r, change),
         UNCHANGED <<backend, cache, rows, stored, generation, erased, schema, operator>>,
         Sound(change, r), DemonstrationIsServed'
  PROVE  RecordInv'
<1>1. call' = [q \in Requests |-> IF q = r THEN change ELSE call[q]]
  BY DEF Calls, JourneyInv, ServiceTyped
<1>2. ASSUME NEW q \in Requests PROVE Sound(call[q], q)'
  <2>1. Sound(IF q = r THEN change ELSE call[q], q)
    BY DEF JourneyInv, RecordInv
  <2>2. call'[q] = IF q = r THEN change ELSE call[q]
    BY <1>1
  <2> QED
    BY <2>1, <2>2 DEF Sound, Grounded, SnapshotIsCurrent, TablesAreKept, IsRecorded, AnsweredOnce
<1> QED
  BY <1>2 DEF RecordInv

(* A refusal leaves nothing to keep. *)
LEMMA RefusalIsSound ==
  ASSUME JourneyInv, NEW r \in Requests, call[r].phase # "answered"
  PROVE  Sound(AnswersWith(r, "refused"), r)
<1>1. /\ AnswersWith(r, "refused").phase = "answered" /\ AnswersWith(r, "refused").status = "refused"
      /\ AnswersWith(r, "refused").result = call[r].result
  BY AnswerIsTyped DEF JourneyInv, ServiceTyped, CallRecords, Statuses
<1>2. r \notin DOMAIN cache
  BY DEF JourneyInv, RecordInv, Sound, AnsweredOnce
<1> QED
  BY <1>1, <1>2 DEF Sound, Grounded, SnapshotIsCurrent, TablesAreKept, IsRecorded, AnsweredOnce, InStore

(* Nothing of the demonstration moves in a process with a store. *)
LEMMA DemonstrationStays ==
  ASSUME DemonstrationIsServed, backend' = backend,
         \/ backend # "demonstration"
         \/ UNCHANGED <<catalog, call>>
  PROVE  DemonstrationIsServed'
BY DEF DemonstrationIsServed

LEMMA AnalyzeKeepsRecord ==
  ASSUME JourneyInv, NEW r \in Requests, Analyze(r), UNCHANGED migrationVars PROVE RecordInv'
<1>1. call[r].phase = "none" /\ r \notin DOMAIN cache
  BY DEF Analyze, JourneyInv, RecordInv, Sound, AnsweredOnce
<1>2. UNCHANGED <<backend, cache, catalog, rows, stored, generation, erased, schema, operator>>
  BY DEF Analyze, StoreUnchanged, migrationVars
<1>3. CASE Calls(r, AnswersWith(r, "refused"))
  <2>1. DemonstrationIsServed'
    <3>1. AnswersWith(r, "refused").status = "refused"
      BY AnswerIsTyped DEF JourneyInv, ServiceTyped, CallRecords, Statuses
    <3>2. \A q \in Requests : call'[q] = IF q = r THEN AnswersWith(r, "refused") ELSE call[q]
      BY <1>3 DEF Calls, JourneyInv, ServiceTyped
    <3> QED
      BY <1>2, <3>1, <3>2 DEF JourneyInv, RecordInv, DemonstrationIsServed
  <2> QED
    BY <1>1, <1>2, <1>3, <2>1, RefusalIsSound, CallMovesAlone
<1>4. ASSUME NEW result \in Results, Integrated,
             Calls(r, [call[r] EXCEPT !.phase = "persisting", !.result = result])
      PROVE  RecordInv'
  <2> DEFINE change == [call[r] EXCEPT !.phase = "persisting", !.result = result]
  <2>1. backend # "demonstration"
    BY <1>4 DEF Integrated
  <2>2. change.phase = "persisting" /\ change.result = result /\ change.status = call[r].status
    BY DEF JourneyInv, ServiceTyped, CallRecords
  <2>3. call[r].status # "accepted"
    BY <1>1 DEF JourneyInv, RecordInv, Sound, AnsweredOnce
  <2>4. DemonstrationIsServed'
    BY <1>2, <2>1, DemonstrationStays DEF JourneyInv, RecordInv
  <2> HIDE DEF change
  <2>5. Sound(change, r)
    BY <1>1, <2>1, <2>2, <2>3, ProjectedIsAnswerable
       DEF Sound, Grounded, SnapshotIsCurrent, TablesAreKept, IsRecorded, AnsweredOnce
  <2> QED
    BY <1>2, <1>4, <2>4, <2>5, CallMovesAlone DEF change
<1> QED
  BY <1>3, <1>4 DEF Analyze

LEMMA DemonstrateKeepsRecord ==
  ASSUME JourneyInv, NEW r \in Requests, Demonstrate(r), UNCHANGED migrationVars PROVE RecordInv'
<1>1. call[r].phase = "none" /\ r \notin DOMAIN cache /\ backend = "demonstration"
  BY DEF Demonstrate, Demonstrating, JourneyInv, RecordInv, Sound, AnsweredOnce
<1>2. UNCHANGED <<backend, cache, rows, stored, generation, erased, schema, operator>>
  BY DEF Demonstrate, migrationVars
<1>3. PICK scenario \in Scenarios, k \in TopKs :
        LET result == SyntheticResult(scenario, k)
        IN  /\ Calls(r, [AnswersWith(r, "accepted") EXCEPT !.shown = result])
            /\ catalog' = [id \in DOMAIN catalog \cup {result.outcome} |->
                             IF id = result.outcome THEN result ELSE catalog[id]]
  BY DEF Demonstrate
<1> DEFINE result == SyntheticResult(scenario, k)
           change == [AnswersWith(r, "accepted") EXCEPT !.shown = result]
<1>4. result \in Synthetic /\ result.outcome = scenario
  BY ScenarioAnswers, TopKAssumption
<1>5. change.phase = "answered" /\ change.status = "accepted" /\ change.shown = result
  BY AnswerIsTyped DEF JourneyInv, ServiceTyped, CallRecords, Statuses
<1>6. Calls(r, change) /\ catalog' = [id \in DOMAIN catalog \cup {scenario} |->
                                        IF id = scenario THEN result ELSE catalog[id]]
  BY <1>3, <1>4
<1> HIDE DEF change, result
<1>7. DemonstrationIsServed'
  <2>1. \A q \in Requests : call'[q] = IF q = r THEN change ELSE call[q]
    BY <1>6 DEF Calls, JourneyInv, ServiceTyped
  <2>2. DOMAIN catalog = Scenarios /\ \A id \in Scenarios : catalog[id].outcome = id
    BY <1>1 DEF JourneyInv, RecordInv, DemonstrationIsServed
  <2>3. DOMAIN catalog' = Scenarios /\ \A id \in Scenarios : catalog'[id].outcome = id
    BY <1>4, <1>6, <2>2
  <2>4. \A q \in Requests : call'[q].status = "accepted" => call'[q].shown.outcome \in Scenarios
    BY <1>1, <1>4, <1>5, <2>1 DEF JourneyInv, RecordInv, DemonstrationIsServed
  <2> QED
    BY <2>3, <2>4 DEF DemonstrationIsServed
<1>8. Sound(change, r)
  BY <1>1, <1>5 DEF Sound, Grounded, SnapshotIsCurrent, TablesAreKept, IsRecorded, AnsweredOnce, InStore
<1> QED
  BY <1>2, <1>6, <1>7, <1>8, CallMovesAlone

(* Opening and staging write to nothing that others see. *)
LEMMA StagingKeepsRecord ==
  ASSUME JourneyInv, NEW r \in Requests, UNCHANGED migrationVars,
         OpenInMemory(r) \/ OpenInPostgres(r) \/ AddToMemory(r) \/ AddToPostgres(r)
  PROVE  RecordInv'
<1>1. /\ call[r].phase \in {"persisting", "open"} /\ r \notin DOMAIN cache
      /\ call[r].status # "accepted" /\ backend # "demonstration"
  BY DEF OpenInMemory, OpenInPostgres, AddToMemory, AddToPostgres, JourneyInv, RecordInv, Sound,
     AnsweredOnce, Grounded, InStore
<1>2. UNCHANGED <<backend, cache, catalog, rows, stored, generation, erased, schema, operator>>
  BY DEF OpenInMemory, OpenInPostgres, AddToMemory, AddToPostgres, StoreUnchanged, migrationVars
<1>3. DemonstrationIsServed'
  BY <1>1, <1>2, DemonstrationStays DEF JourneyInv, RecordInv
<1>4. Grounded(call[r]) /\ SnapshotIsCurrent(call[r]) /\ call[r] \in CallRecords /\ generation \in Nat
  BY DEF JourneyInv, RecordInv, Sound, ServiceTyped
<1> DEFINE opened == [call[r] EXCEPT !.phase = "open", !.base = generation, !.seen = rows]
           open == [call[r] EXCEPT !.phase = "open"]
           staged == [call[r] EXCEPT !.phase = "staged"]
<1>5. CASE Calls(r, AnswersWith(r, "refused"))
  BY <1>1, <1>2, <1>3, <1>5, RefusalIsSound, CallMovesAlone
<1>6. CASE Calls(r, opened) /\ backend = "memory"
  <2>1. /\ opened.phase = "open" /\ opened.base = generation /\ opened.seen = rows
        /\ opened.status = call[r].status /\ opened.result = call[r].result
    BY <1>4 DEF CallRecords
  <2> HIDE DEF opened
  <2>2. Sound(opened, r)
    BY <1>1, <1>4, <1>6, <2>1
       DEF Sound, Grounded, SnapshotIsCurrent, TablesAreKept, IsRecorded, AnsweredOnce, InStore
  <2> QED
    BY <1>2, <1>3, <1>6, <2>2, CallMovesAlone
<1>7. CASE Calls(r, open) /\ backend = "postgres"
  <2>1. open.phase = "open" /\ open.status = call[r].status /\ open.result = call[r].result
    BY <1>4 DEF CallRecords
  <2> HIDE DEF open
  <2>2. Sound(open, r)
    BY <1>1, <1>4, <1>7, <2>1
       DEF Sound, Grounded, SnapshotIsCurrent, TablesAreKept, IsRecorded, AnsweredOnce, InStore
  <2> QED
    BY <1>2, <1>3, <1>7, <2>2, CallMovesAlone
<1>8. CASE /\ Calls(r, staged) /\ ReferencesExist(r) /\ call[r].phase = "open"
           /\ backend = "memory" \/ TablesAreFree
  <2>1. /\ staged.phase = "staged" /\ staged.status = call[r].status /\ staged.result = call[r].result
        /\ staged.base = call[r].base /\ staged.seen = call[r].seen
    BY <1>4 DEF CallRecords
  <2> HIDE DEF staged
  <2>2. Sound(staged, r)
    BY <1>1, <1>4, <1>8, <2>1
       DEF Sound, Grounded, SnapshotIsCurrent, TablesAreKept, IsRecorded, AnsweredOnce, InStore,
           ReferencesExist, TablesAreFree
  <2> QED
    BY <1>2, <1>3, <1>8, <2>2, CallMovesAlone
<1> QED
  BY <1>5, <1>6, <1>7, <1>8 DEF OpenInMemory, OpenInPostgres, AddToMemory, AddToPostgres

LEMMA CommitToMemoryKeepsRecord ==
  ASSUME JourneyInv, NEW r \in Requests, CommitToMemory(r), UNCHANGED migrationVars PROVE RecordInv'
<1>1. /\ call[r].phase = "staged" /\ backend = "memory" /\ r \notin DOMAIN cache
      /\ call[r].status # "accepted"
  BY DEF CommitToMemory, JourneyInv, RecordInv, Sound, AnsweredOnce
<1>2. UNCHANGED <<backend, cache, catalog, stored, erased, schema, operator>>
  BY DEF CommitToMemory, migrationVars
<1>3. DemonstrationIsServed'
  BY <1>1, <1>2, DemonstrationStays DEF JourneyInv, RecordInv
<1>4. CASE ~NothingPublishedSince(r)
  <2>1. Calls(r, AnswersWith(r, "refused")) /\ UNCHANGED <<rows, generation>>
    BY <1>4 DEF CommitToMemory
  <2> QED
    BY <1>1, <1>2, <1>3, <2>1, RefusalIsSound, CallMovesAlone
<1>5. CASE NothingPublishedSince(r)
  <2> DEFINE change == [call[r] EXCEPT !.phase = "committed", !.seen = NoRows]
             m == call[r].result.metadata
  <2>1. Sound(call[r], r) /\ call[r] \in CallRecords /\ generation \in Nat
    BY DEF JourneyInv, RecordInv, ServiceTyped
  <2>2. rows = call[r].seen
    BY <1>1, <1>5, <2>1 DEF Sound, SnapshotIsCurrent, NothingPublishedSince
  <2>3. rows' = [s \in DOMAIN rows \cup {r} |-> IF s = r THEN m ELSE rows[s]]
    BY <1>5, <2>2 DEF CommitToMemory
  <2>4. generation' = generation + 1 /\ Calls(r, change)
    BY <1>5 DEF CommitToMemory
  <2>5. \A q \in Requests : call'[q] = IF q = r THEN change ELSE call[q]
    BY <2>4 DEF Calls, JourneyInv, ServiceTyped
  <2>6. change.phase = "committed" /\ change.result = call[r].result /\ change.status = call[r].status
    BY <2>1 DEF CallRecords
  <2>7. m.evidence \subseteq stored /\ call[r].result.cited \subseteq m.evidence
    BY <1>1, <2>1 DEF Sound, Grounded, InStore
  <2> HIDE DEF change, m
  <2>8. Sound(call[r], r)'
    BY <1>1, <1>2, <2>3, <2>5, <2>6, <2>7
       DEF Sound, Grounded, SnapshotIsCurrent, TablesAreKept, IsRecorded, AnsweredOnce, InStore, m
  <2>9. ASSUME NEW q \in Requests, q # r PROVE Sound(call[q], q)'
    <3>1. Sound(call[q], q) /\ call'[q] = call[q] /\ call[q].base \in Nat
      BY <2>5, <2>9 DEF JourneyInv, RecordInv, ServiceTyped, CallRecords
    <3>2. Grounded(call[q])' /\ TablesAreKept(call[q])' /\ AnsweredOnce(call[q], q)'
      BY <1>2, <3>1 DEF Sound, Grounded, TablesAreKept, AnsweredOnce
    <3>3. SnapshotIsCurrent(call[q])'
      BY <1>2, <2>1, <2>4, <3>1 DEF Sound, SnapshotIsCurrent
    <3>4. IsRecorded(call[q], q)'
      BY <1>2, <2>3, <2>9, <3>1 DEF Sound, IsRecorded
    <3> QED
      BY <3>2, <3>3, <3>4 DEF Sound
  <2> QED
    BY <1>3, <2>8, <2>9 DEF RecordInv
<1> QED
  BY <1>4, <1>5

LEMMA CommitToPostgresKeepsRecord ==
  ASSUME JourneyInv, NEW r \in Requests, CommitToPostgres(r), UNCHANGED migrationVars PROVE RecordInv'
<1>1. /\ call[r].phase = "staged" /\ backend = "postgres" /\ r \notin DOMAIN cache
      /\ call[r].status # "accepted"
  BY DEF CommitToPostgres, JourneyInv, RecordInv, Sound, AnsweredOnce
<1>2. UNCHANGED <<backend, cache, catalog, stored, generation, erased, schema, operator>>
  BY DEF CommitToPostgres, migrationVars
<1>3. DemonstrationIsServed'
  BY <1>1, <1>2, DemonstrationStays DEF JourneyInv, RecordInv
<1> DEFINE m == call[r].result.metadata
           change(heard) == IF heard THEN [call[r] EXCEPT !.phase = "committed"]
                            ELSE AnswersWith(r, "refused")
<1>4. PICK committed \in BOOLEAN, heard \in BOOLEAN :
        /\ heard => committed
        /\ Calls(r, change(heard))
        /\ rows' = [s \in DOMAIN rows \cup (IF committed THEN {r} ELSE {}) |->
                      IF s = r THEN m ELSE rows[s]]
  BY DEF CommitToPostgres
<1>5. Sound(call[r], r) /\ call[r] \in CallRecords
  BY DEF JourneyInv, RecordInv, ServiceTyped
<1>6. /\ change(heard).phase = IF heard THEN "committed" ELSE "answered"
      /\ change(heard).status # "accepted" /\ change(heard).result = call[r].result
  <2>1. CASE heard
    <3>1. change(heard) = [call[r] EXCEPT !.phase = "committed"]
      BY <2>1
    <3> HIDE DEF change
    <3> QED
      BY <1>1, <1>5, <2>1, <3>1 DEF CallRecords
  <2>2. CASE ~heard
    <3>1. change(heard) = AnswersWith(r, "refused") /\ "refused" \in Statuses
      BY <2>2 DEF Statuses
    <3>2. AnswersWith(r, "refused") =
            [call[r] EXCEPT !.phase = "answered", !.status = "refused", !.seen = NoRows]
      BY DEF AnswersWith
    <3> HIDE DEF change
    <3> QED
      BY <1>5, <2>2, <3>1, <3>2 DEF CallRecords
  <2> QED
    BY <2>1, <2>2
<1>7. \A q \in Requests : call'[q] = IF q = r THEN change(heard) ELSE call[q]
  BY <1>4 DEF Calls, JourneyInv, ServiceTyped
<1>8. m.evidence \subseteq stored /\ call[r].result.cited \subseteq m.evidence
  BY <1>1, <1>5 DEF Sound, Grounded, InStore
<1> HIDE DEF change, m
<1>9. Sound(call[r], r)'
  BY <1>1, <1>2, <1>4, <1>6, <1>7, <1>8
     DEF Sound, Grounded, SnapshotIsCurrent, TablesAreKept, IsRecorded, AnsweredOnce, InStore, m
<1>10. ASSUME NEW q \in Requests, q # r PROVE Sound(call[q], q)'
  <2>1. Sound(call[q], q) /\ call'[q] = call[q]
    BY <1>7, <1>10 DEF JourneyInv, RecordInv
  <2> QED
    BY <1>1, <1>2, <1>4, <1>10, <2>1
       DEF Sound, Grounded, SnapshotIsCurrent, TablesAreKept, IsRecorded, AnsweredOnce
<1> QED
  BY <1>3, <1>9, <1>10 DEF RecordInv

LEMMA PublishKeepsRecord ==
  ASSUME JourneyInv, NEW r \in Requests, PublishResult(r), UNCHANGED migrationVars PROVE RecordInv'
<1>1. call[r].phase = "committed" /\ backend # "demonstration"
  BY DEF PublishResult, Published, JourneyInv, RecordInv, Sound, Grounded, InStore
<1>2. UNCHANGED <<backend, catalog, rows, stored, generation, erased, schema, operator>>
  BY DEF PublishResult, migrationVars
<1>3. DemonstrationIsServed'
  BY <1>1, <1>2, DemonstrationStays DEF JourneyInv, RecordInv
<1> DEFINE change == AnswersWith(r, "accepted")
<1>4. Calls(r, change) /\ change.phase = "answered" /\ change.status = "accepted"
      /\ change.result = call[r].result
  BY AnswerIsTyped DEF PublishResult, JourneyInv, ServiceTyped, CallRecords, Statuses
<1>5. \A q \in Requests : call'[q] = IF q = r THEN change ELSE call[q]
  BY <1>4 DEF Calls, JourneyInv, ServiceTyped
<1>6. /\ \A q \in Requests : q # r => (q \in DOMAIN cache' <=> q \in DOMAIN cache) /\
                                      (q \in DOMAIN cache => cache'[q] = cache[q])
      /\ r \in DOMAIN cache' => cache'[r] = call[r].result
  BY <1>1 DEF PublishResult, JourneyInv, RecordInv, Sound, AnsweredOnce
<1>7. Sound(call[r], r)
  BY DEF JourneyInv, RecordInv
<1> HIDE DEF change
<1>8. Sound(call[r], r)'
  BY <1>1, <1>2, <1>4, <1>5, <1>6, <1>7
     DEF Sound, Grounded, SnapshotIsCurrent, TablesAreKept, IsRecorded, AnsweredOnce, InStore
<1>9. ASSUME NEW q \in Requests, q # r PROVE Sound(call[q], q)'
  <2>1. Sound(call[q], q) /\ call'[q] = call[q]
    BY <1>5, <1>9 DEF JourneyInv, RecordInv
  <2> QED
    BY <1>2, <1>6, <1>9, <2>1
       DEF Sound, Grounded, SnapshotIsCurrent, TablesAreKept, IsRecorded, AnsweredOnce
<1> QED
  BY <1>3, <1>8, <1>9 DEF RecordInv

(* A restart loses the calls under way; the memory store is erased with it. *)
LEMMA RestartKeepsRecord ==
  ASSUME JourneyInv, Restart, UNCHANGED migrationVars PROVE RecordInv'
<1>1. /\ UNCHANGED <<backend, stored, schema, operator>> /\ DOMAIN cache' = {}
      /\ IF backend = "memory" THEN erased' = erased \cup DOMAIN rows
         ELSE UNCHANGED <<rows, erased, generation>>
  BY RecordedEntries DEF Restart, migrationVars
<1>2. ASSUME NEW r \in Requests
      PROVE  \/ call'[r] = call[r] /\ call[r].phase \in {"none", "answered"}
             \/ call'[r].phase = "gone" /\ call'[r].status = "none"
  BY DEF Restart, NoCall
<1>3. ASSUME NEW r \in Requests PROVE Sound(call[r], r)'
  <2>1. Sound(call[r], r)
    BY DEF JourneyInv, RecordInv
  <2>2. Grounded(call[r])' /\ SnapshotIsCurrent(call[r])' /\ TablesAreKept(call[r])' /\ AnsweredOnce(call[r], r)'
    BY <1>1, <1>2, <2>1 DEF Sound, Grounded, SnapshotIsCurrent, TablesAreKept, AnsweredOnce, InStore
  <2>3. IsRecorded(call[r], r)'
    BY <1>1, <1>2, <2>1 DEF Sound, IsRecorded
  <2> QED
    BY <2>2, <2>3 DEF Sound
<1>4. DemonstrationIsServed'
  <2>1. backend = "demonstration" => catalog' = SeededCatalog
    BY DEF Restart, CatalogAtStart
  <2>2. \A r \in Requests : call'[r].status = "accepted" => call'[r] = call[r]
    BY <1>2
  <2> QED
    BY <1>1, <2>1, <2>2, SeededCatalogIsServed DEF DemonstrationIsServed, JourneyInv, RecordInv
<1> QED
  BY <1>3, <1>4 DEF RecordInv

(* What an operator's step short of a commit leaves of the work of others,  *)
(* and that only an upgrade gets ready to commit while a call is staged.    *)
LEMMA PreparingKeepsTables ==
  ASSUME MigrationInv, NEW o \in Operators, NEW free \in BOOLEAN, OperatorStep(o, free),
         ~CommitMigration(o), ~free,
         NEW q \in Operators, operator'[q].phase = "commit"
  PROVE  \/ operator[q].phase = "commit" /\ operator'[q].work = operator[q].work
         \/ schema.tables \subseteq operator'[q].work.tables
<1>1. operator[o] \in OperatorCommands /\ operator = [p \in Operators |-> operator[p]]
  BY DEF MigrationInv, OperatorOK
<1>2. CASE q # o
  BY <1>1, <1>2 DEF OperatorStep, Moves, Call, LockMigrations, ReadForUpgrade, ReadForDowngrade,
     ApplyMigrations, RevertMigrations, InspectExists, InspectRead, LoseOperator
<1>3. CASE q = o /\ ApplyMigrations(o)
  <2> DEFINE added == {v \in Versions : Current(operator[o].work.applied) < v /\ v <= operator[o].target}
  <2>1. operator'[o] = IF added \cap schema.tables # {} THEN Ends(o, "collision")
                       ELSE [operator[o] EXCEPT !.phase = "commit",
                                                !.work.applied = @ \cup added,
                                                !.work.tables = @ \cup added]
    BY <1>1, <1>3 DEF ApplyMigrations, Moves
  <2>2. operator[o].work.tables = schema.tables /\ operator[o].work \in Schemas
    BY <1>3 DEF ApplyMigrations, MigrationInv, OperatorOK, WorkIsCurrent, SchemaIs
  <2>3. Ends(o, "collision").phase = "done"
    BY <1>1 DEF Ends, OperatorCommands
  <2> HIDE DEF added
  <2> QED
    BY <1>1, <1>3, <2>1, <2>2, <2>3 DEF OperatorCommands, Schemas
<1>4. CASE q = o /\ ~ApplyMigrations(o)
  <2>1. /\ \A answer : Ends(o, answer).phase = "done"
        /\ [Ends(o, "ok") EXCEPT !.version = Current(schema.applied)].phase = "done"
    BY <1>1 DEF Ends, OperatorCommands
  <2>2. CASE Call(o)
    <3>1. PICK command \in Commands, target \in Targets :
            Moves(o, [Idle EXCEPT !.command = command,
                                  !.target = IF command = "inspect" THEN 0 ELSE target,
                                  !.phase = IF command = "inspect" THEN "exists" ELSE "lock"])
      BY <2>2 DEF Call
    <3> QED
      BY <1>1, <1>4, <3>1 DEF Moves, Idle
  <2>3. CASE LockMigrations(o) \/ InspectExists(o)
    BY <1>1, <1>4, <2>1, <2>3 DEF LockMigrations, InspectExists, Moves, OperatorCommands
  <2>4. CASE ReadForUpgrade(o)
    <3> DEFINE applied == IF schema.history THEN schema.applied ELSE {}
               work == [schema EXCEPT !.history = TRUE, !.applied = applied]
    <3>1. operator'[o] = Ends(o, "state refused") \/ operator'[o] = Ends(o, "target refused")
          \/ operator'[o] = [operator[o] EXCEPT !.phase = "apply", !.work = work]
      BY <1>1, <2>4 DEF ReadForUpgrade, Moves
    <3> HIDE DEF work
    <3> QED
      BY <1>1, <1>4, <2>1, <3>1 DEF OperatorCommands
  <2>5. CASE ReadForDowngrade(o)
    <3>1. \/ \E answer : operator'[o] = Ends(o, answer)
          \/ operator'[o] = [operator[o] EXCEPT !.phase = "apply", !.work = schema]
      BY <1>1, <2>5 DEF ReadForDowngrade, Moves
    <3> QED
      BY <1>1, <1>4, <2>1, <3>1 DEF OperatorCommands
  <2>6. CASE InspectRead(o) \/ LoseOperator(o)
    BY <1>1, <1>4, <2>1, <2>6 DEF InspectRead, LoseOperator, Moves
  <2> QED
    BY <1>4, <2>2, <2>3, <2>4, <2>5, <2>6 DEF OperatorStep, RevertMigrations
<1> QED
  BY <1>2, <1>3, <1>4

(* Dropping tables erases what was recorded, and no staged call loses the   *)
(* documents it refers to.                                                  *)
LEMMA MigrateKeepsRecord ==
  ASSUME JourneyInv, MigrationInv', NEW o \in Operators, Migrate(o) PROVE RecordInv'
<1> DEFINE dropped == schema.tables \ schema'.tables
           free == \A r \in Requests : backend = "postgres" => call[r].phase # "staged"
<1>1. /\ OperatorStep(o, free) /\ backend = "postgres"
      /\ erased' = IF dropped # {} THEN erased \cup DOMAIN rows ELSE erased
      /\ dropped = {} => rows' = rows /\ stored' = stored
      /\ UNCHANGED <<backend, call, cache, catalog, generation>>
  BY DEF Migrate
<1>2. free \in BOOLEAN
  OBVIOUS
<1>3. CASE ~CommitMigration(o)
  <2>1. schema' = schema
    BY <1>1, <1>3 DEF OperatorStep, Call, LockMigrations, ReadForUpgrade, ReadForDowngrade,
     ApplyMigrations, RevertMigrations, InspectExists, InspectRead, LoseOperator
  <2>2. dropped = {}
    BY <2>1
  <2>3. ASSUME NEW r \in Requests PROVE Sound(call[r], r)'
    <3>1. Sound(call[r], r)
      BY DEF JourneyInv, RecordInv
    <3>2. TablesAreKept(call[r])'
      <4> SUFFICES ASSUME call[r].phase = "staged", NEW q \in Operators, operator'[q].phase = "commit"
                   PROVE  schema.tables \subseteq operator'[q].work.tables
        BY <1>1, <2>1 DEF TablesAreKept
      <4>1. ~free
        BY <1>1
      <4> HIDE DEF free
      <4>2. \/ operator[q].phase = "commit" /\ operator'[q].work = operator[q].work
            \/ schema.tables \subseteq operator'[q].work.tables
        BY <1>1, <1>2, <1>3, <4>1, PreparingKeepsTables DEF JourneyInv
      <4> QED
        BY <1>1, <3>1, <4>2 DEF Sound, TablesAreKept
    <3> QED
      BY <1>1, <2>2, <3>1, <3>2 DEF Sound, Grounded, SnapshotIsCurrent, IsRecorded, AnsweredOnce
  <2> QED
    BY <1>1, <2>3, DemonstrationStays DEF JourneyInv, RecordInv
<1>4. CASE CommitMigration(o)
  <2>1. /\ operator[o].phase = "commit"
        /\ schema'.tables = operator[o].work.tables
    <3>1. operator[o].phase = "commit" /\ operator[o].work \in Schemas
      BY <1>4 DEF CommitMigration, JourneyInv, MigrationInv, OperatorOK, OperatorCommands
    <3> QED
      BY <1>4, <3>1 DEF CommitMigration, Schemas
  <2>2. \A q \in Operators : operator'[q].phase # "commit"
    <3>1. \A q \in Operators \ {o} : operator[q].phase \notin UnderLock
      BY <2>1 DEF JourneyInv, MigrationInv, OneUnderLock, UnderLock
    <3>2. operator[o] \in OperatorCommands /\ \A q \in Operators : operator[q] \in OperatorCommands
      BY DEF JourneyInv, MigrationInv, OperatorOK
    <3> QED
      BY <1>4, <3>1, <3>2 DEF CommitMigration, Ends, OperatorCommands, UnderLock
  <2>3. ASSUME NEW r \in Requests PROVE Sound(call[r], r)'
    <3>1. Sound(call[r], r)
      BY DEF JourneyInv, RecordInv
    <3>2. call[r].phase = "staged" => dropped = {}
      BY <1>1, <2>1, <3>1 DEF Sound, TablesAreKept
    <3>3. Grounded(call[r])' /\ SnapshotIsCurrent(call[r])' /\ TablesAreKept(call[r])' /\ AnsweredOnce(call[r], r)'
      BY <1>1, <2>2, <3>1, <3>2 DEF Sound, Grounded, SnapshotIsCurrent, TablesAreKept, AnsweredOnce
    <3>4. IsRecorded(call[r], r)'
      BY <1>1, <3>1 DEF Sound, IsRecorded
    <3> QED
      BY <3>3, <3>4 DEF Sound
  <2> QED
    BY <1>1, <2>3, DemonstrationStays DEF JourneyInv, RecordInv
<1> QED
  BY <1>3, <1>4

LEMMA NextKeepsRecord == ASSUME JourneyInv, MigrationInv', [Next]_vars PROVE RecordInv'
<1>1. ASSUME UNCHANGED <<migrationVars, serviceVars>> PROVE RecordInv'
  BY <1>1 DEF serviceVars, migrationVars, JourneyInv, RecordInv, Sound, Grounded, SnapshotIsCurrent,
     TablesAreKept, IsRecorded, AnsweredOnce, DemonstrationIsServed
<1>2. CASE UNCHANGED vars
  BY <1>1, <1>2 DEF vars
<1>3. CASE Next
  BY <1>1, <1>3, AnalyzeKeepsRecord, DemonstrateKeepsRecord, StagingKeepsRecord, CommitToMemoryKeepsRecord,
     CommitToPostgresKeepsRecord, PublishKeepsRecord, RestartKeepsRecord, MigrateKeepsRecord
     DEF Next, Steps, Deliver, Serve, ServiceStep, Exchange, Fail, Browse, Operate
<1> QED
  BY <1>2, <1>3

LEMMA JourneyIsInvariant == Spec => []JourneyInv
<1>1. Init => JourneyInv
  BY InitEstablishesMigration, InitIsTyped, InitEstablishesRecord DEF JourneyInv
<1>2. JourneyInv /\ [Next]_vars => JourneyInv'
  BY NextKeepsMigration, NextKeepsTypes, NextKeepsRecord DEF JourneyInv
<1> QED
  BY <1>1, <1>2, PTL DEF Spec

(* Whatever is interleaved with it, lost on its way or restarted under it,  *)
(* an analysis that was answered, or that GET serves, is in the store with  *)
(* all its evidence until its store or its tables are removed.              *)
THEOREM AnswersAreRecorded == Spec => []AcceptedIsRecorded
<1>1. JourneyInv => AcceptedIsRecorded
  <2> SUFFICES ASSUME JourneyInv PROVE AcceptedIsRecorded
    OBVIOUS
  <2>1. CASE backend = "demonstration"
    BY <2>1 DEF JourneyInv, RecordInv, DemonstrationIsServed, AcceptedIsRecorded
  <2>2. CASE backend # "demonstration"
    BY <2>2 DEF JourneyInv, RecordInv, Sound, Grounded, IsRecorded, AcceptedIsRecorded
  <2> QED
    BY <2>1, <2>2
<1> QED
  BY <1>1, JourneyIsInvariant, PTL

-----------------------------------------------------------------------------
(* The panel.  Requests later than the newest were not sent; an answered    *)
(* call keeps its answer, so that what is shown stays an answer.            *)

PanelInv ==
  /\ newest \in Requests \cup {0} /\ shown \in Requests \cup {0}
  /\ busy \in BOOLEAN /\ view \in {"idle", "loading", "current", "failure"}
  /\ client \in [Requests -> ClientStates]
  /\ \A r \in Requests : r > newest => client[r] = "none"
  /\ ShownIsTheNewestAnswer

LEMMA InitEstablishesPanel == Init => PanelInv
BY ZeroIsNoRequest DEF Init, PanelInit, PanelInv, ShownIsTheNewestAnswer, ClientStates, Waiting

LEMMA AnsweredStays ==
  ASSUME JourneyInv, [Next]_vars, NEW r \in Requests, call[r].phase = "answered"
  PROVE  call'[r] = call[r]
<1>1. call = [q \in Requests |-> call[q]]
  BY DEF JourneyInv, ServiceTyped
<1>2. ASSUME NEW q \in Requests, call[q].phase # "answered", NEW change, Calls(q, change)
      PROVE  call'[r] = call[r]
  BY <1>1, <1>2 DEF Calls
<1>3. CASE \E q \in Requests : Deliver(q) \/ Serve(q)
  BY <1>2, <1>3 DEF Deliver, Serve, Analyze, Demonstrate, ServiceStep, OpenInMemory, OpenInPostgres,
     AddToMemory, AddToPostgres, CommitToMemory, CommitToPostgres, PublishResult, Published
<1>4. CASE Fail
  BY <1>4 DEF Fail, Restart
<1>5. CASE (\E q \in Requests : Exchange(q)) \/ (\E o \in Operators : Operate(o)) \/ Browse \/ UNCHANGED vars
  BY <1>5 DEF Exchange, Operate, Migrate, Browse, serviceVars, vars
<1> QED
  BY <1>3, <1>4, <1>5 DEF Next, Steps

LEMMA SubmitKeepsPanel ==
  ASSUME PanelInv, Submit, UNCHANGED serviceVars PROVE PanelInv'
<1>1. newest \in Nat /\ newest + 1 \in Requests /\ newest' = newest + 1 /\ newest' # 0
  BY ZeroIsNoRequest DEF PanelInv, Submit
<1>2. client' = [client EXCEPT ![newest'] = "headers"] /\ client' \in [Requests -> ClientStates]
  BY <1>1 DEF Submit, PanelInv, ClientStates, Waiting
<1>3. \A r \in Requests : r > newest' => client'[r] = "none"
  BY <1>1, <1>2, ZeroIsNoRequest DEF PanelInv
<1>4. shown # 0 => shown # newest'
  BY <1>1, ZeroIsNoRequest DEF PanelInv, ShownIsTheNewestAnswer
<1>5. UNCHANGED <<call, shown>> /\ busy' = TRUE /\ view' = "loading"
  BY DEF serviceVars, Submit
<1>6. ShownIsTheNewestAnswer'
  BY <1>1, <1>2, <1>4, <1>5 DEF PanelInv, ShownIsTheNewestAnswer, Waiting
<1> QED
  BY <1>1, <1>2, <1>3, <1>5, <1>6 DEF PanelInv

LEMMA SettleKeepsPanel ==
  ASSUME PanelInv, NEW r \in Requests, NEW output \in {"ok", "failed"}, Settle(r, output),
         client[r] \in Waiting, UNCHANGED serviceVars,
         output = "ok" => call[r].status = "accepted"
  PROVE  PanelInv'
<1>1. client' = [client EXCEPT ![r] = output] /\ client' \in [Requests -> ClientStates]
      /\ newest' = newest /\ call' = call /\ newest \in Nat
  BY ZeroIsNoRequest DEF Settle, PanelInv, ClientStates, serviceVars
<1>2. \A q \in Requests : q > newest' => client'[q] = "none"
  BY <1>1 DEF PanelInv, Waiting
<1>3. shown # r /\ r # 0
  BY ZeroIsNoRequest DEF PanelInv, ShownIsTheNewestAnswer, Waiting
<1>4. CASE r = newest
  BY <1>1, <1>2, <1>3, <1>4 DEF PanelInv, ShownIsTheNewestAnswer, Settle, Applies, Waiting
<1>5. CASE r # newest
  BY <1>1, <1>2, <1>3, <1>5 DEF PanelInv, ShownIsTheNewestAnswer, Settle, Applies
<1> QED
  BY <1>4, <1>5

LEMMA ExchangeKeepsPanel ==
  ASSUME PanelInv, NEW r \in Requests, WebStep(r), UNCHANGED serviceVars PROVE PanelInv'
<1>1. CASE RelayAnswer(r)
  <2>1. client' = [client EXCEPT ![r] = "body"] /\ client[r] = "headers" /\ call' = call
        /\ UNCHANGED <<newest, busy, view, shown>>
    BY <1>1 DEF RelayAnswer, ViewUnchanged, serviceVars
  <2>2. newest \in Nat
    BY ZeroIsNoRequest DEF PanelInv
  <2> QED
    BY <2>1, <2>2 DEF PanelInv, ShownIsTheNewestAnswer, ClientStates, Waiting
<1>2. CASE BodyArrives(r)
  <2>1. PICK decodes \in BOOLEAN : Settle(r, OutputOf(r, decodes))
    BY <1>2 DEF BodyArrives
  <2>2. OutputOf(r, decodes) \in {"ok", "failed"} /\ client[r] \in Waiting
        /\ (OutputOf(r, decodes) = "ok" => call[r].status = "accepted")
    BY <1>2 DEF OutputOf, BodyArrives, Waiting
  <2> QED
    BY <2>1, <2>2, SettleKeepsPanel
<1>3. CASE GatewayFailure(r) \/ NetworkFails(r) \/ ClientDeadline(r)
  BY <1>3, SettleKeepsPanel DEF GatewayFailure, NetworkFails, ClientDeadline, UnderDeadline, Waiting
<1> QED
  BY <1>1, <1>2, <1>3 DEF WebStep

LEMMA NextKeepsPanel == ASSUME JourneyInv, PanelInv, [Next]_vars PROVE PanelInv'
<1>1. ASSUME UNCHANGED panelVars PROVE PanelInv'
  <2>1. shown # 0 => shown \in Requests /\ call'[shown] = call[shown]
    <3> SUFFICES ASSUME shown # 0 PROVE shown \in Requests /\ call'[shown] = call[shown]
      OBVIOUS
    <3>1. shown \in Requests /\ call[shown].status = "accepted"
      BY DEF PanelInv, ShownIsTheNewestAnswer
    <3>2. call[shown].phase = "answered"
      BY <3>1 DEF JourneyInv, RecordInv, Sound, AnsweredOnce
    <3> QED
      BY <3>1, <3>2, AnsweredStays
  <2> QED
    BY <1>1, <2>1 DEF panelVars, PanelInv, ShownIsTheNewestAnswer
<1>2. CASE Next
  BY <1>1, <1>2, SubmitKeepsPanel, ExchangeKeepsPanel
     DEF Next, Steps, Deliver, Serve, Exchange, Fail, Browse, Operate
<1>3. CASE UNCHANGED vars
  BY <1>1, <1>3 DEF vars
<1> QED
  BY <1>2, <1>3

(* The panel shows the newest request, or says that it ended without a      *)
(* report, whatever arrives late and in whatever order (latest-request.ts). *)
THEOREM PanelShowsTheNewest == Spec => []ShownIsTheNewestAnswer
<1>1. Init => PanelInv
  BY InitEstablishesPanel
<1>2. JourneyInv /\ PanelInv /\ [Next]_vars => PanelInv'
  BY NextKeepsPanel
<1>3. PanelInv => ShownIsTheNewestAnswer
  BY DEF PanelInv
<1> QED
  BY <1>1, <1>2, <1>3, JourneyIsInvariant, PTL DEF Spec

=============================================================================
