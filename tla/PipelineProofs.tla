---------------------------- MODULE PipelineProofs ----------------------------
(***************************************************************************)
(* Four stretches of the pipeline, for any tables, sources, versions,     *)
(* plans, pins and bounds.                                                 *)
(*                                                                         *)
(* The audits (SourceAudit): a round that read another content than its    *)
(* receipt names was paid for with two disturbances of the open file.      *)
(* Every process carries the price of its rounds, no two processes share   *)
(* a round, and two rounds that agree on a wrong content cost four.        *)
(*                                                                         *)
(* The artifacts (ArtifactChain): whoever removes, rebuilds and replaces   *)
(* directories, and however often, the comparisons a reader makes are      *)
(* enough for what it holds at the end to be of one version.  Nothing is   *)
(* assumed of the directories between two reads, so the proof looks at     *)
(* the reader alone.                                                       *)
(*                                                                         *)
(* The build (CanonicalDataset): there is one way to put a finite set in a *)
(* strict order, so occurrences follow each other in time, the boundaries  *)
(* lie between them and the purge keeps partitions apart.  A build carries *)
(* the turns its fit has taken; they are read off the times of the source  *)
(* alone, whatever its labels.                                             *)
(*                                                                         *)
(* The answers (NeighborDecision): the index keeps the order of the model  *)
(* under its own names for the windows, and the guard of the batches holds *)
(* every window that could come first.  What is built stays, and what a    *)
(* directory, a writer or the reader holds was built, so the model that    *)
(* answers is one of a settled fit.                                        *)
(***************************************************************************)
EXTENDS AnalysisPipeline, FiniteSetTheorems, TLAPS

-----------------------------------------------------------------------------
(* The chain of artifacts.                                                 *)

Held == [dataset : Versions \cup {Nothing}, model : Versions \cup {Nothing},
         vectors : Versions \cup {Nothing}, refs : Versions \cup {Nothing},
         index : Versions \cup {Nothing}, holdout : Versions \cup {Nothing}]
Steps == {"begun", "bound", "described", "hashed", "half_read", "read", "model",
          "index_verified", "index_described", "index_read", "frozen", "ready", "failed"}

ReaderOK ==
  reader \in [role : {"runtime", "evaluation"}, step : Steps,
              pin : [model : Versions \cup {Nothing}, index : Versions \cup {Nothing}],
              held : Held]

\* After AcceptModel: what was loaded is what the manifest declares.
ModelIsWhole ==
  reader.step \in {"model", "index_verified", "index_described", "index_read", "frozen", "ready"} =>
    /\ reader.held.vectors = reader.held.model /\ reader.held.refs = reader.held.model
    /\ Runtime => reader.held.model = reader.pin.model

\* After JoinChain: the index is of that model, and for an evaluation the
\* model is of the dataset that was bound first.
ChainIsJoined ==
  reader.step \in {"frozen", "ready"} =>
    /\ reader.held.index = reader.held.model
    /\ ~Runtime => reader.held.model = reader.held.dataset

\* Only an evaluation reads a holdout, and it must be that of its dataset.
HoldoutIsOwn ==
  /\ At("frozen") => ~Runtime
  /\ At("ready") /\ ~Runtime => reader.held.holdout = reader.held.dataset

ChainInv == ReaderOK /\ ModelIsWhole /\ ChainIsJoined /\ HoldoutIsOwn

-----------------------------------------------------------------------------

LEMMA FailingKeepsInv == ASSUME ChainInv, Fails PROVE ChainInv'
BY DEF Fails, Goes, ChainInv, ReaderOK, ModelIsWhole, ChainIsJoined, HoldoutIsOwn, At, Runtime,
   NothingHeld, Held, Steps

Names == {"dataset", "model", "vectors", "refs", "index", "holdout"}

\* A read that succeeds changes one part of what the reader holds.
Took(name, step, accepted) ==
  /\ ReaderOK'
  /\ reader'.role = reader.role /\ reader'.pin = reader.pin /\ reader'.step = step
  /\ reader'.held[name] \in accepted
  /\ \A n \in Names \ {name} : reader'.held[n] = reader.held[n]

LEMMA ReadsTakeOnePart ==
  ASSUME ReaderOK, NEW k, NEW accepted \in SUBSET (Versions \cup {Nothing}),
         NEW name \in Names, NEW step \in Steps, Reads(k, accepted, name, step)
  PROVE  Fails \/ Took(name, step, accepted)
<1> SUFFICES ASSUME NEW c \in accepted, Goes(step, [reader.held EXCEPT ![name] = c])
             PROVE  Took(name, step, accepted)
  BY DEF Reads
<1> DEFINE h == [reader.held EXCEPT ![name] = c]
<1>1. reader.held \in Held
  BY DEF ReaderOK
<1>2. h \in Held
  BY <1>1 DEF Held, Names
<1>3. h[name] = c /\ \A n \in Names \ {name} : h[n] = reader.held[n]
  BY <1>1 DEF Held, Names
<1> HIDE DEF h
<1>4. reader' = [reader EXCEPT !.step = step, !.held = h]
  BY DEF Goes, h
<1>5. /\ ReaderOK' /\ reader'.role = reader.role /\ reader'.pin = reader.pin
      /\ reader'.step = step /\ reader'.held = h
  BY <1>2, <1>4 DEF ReaderOK
<1> QED
  BY <1>3, <1>5 DEF Took

\* Before AcceptModel nothing is claimed.
LEMMA EarlyReadsKeepInv ==
  ASSUME ChainInv,
         VerifyModelManifest \/ BindDataset \/ ReadModelManifest \/ HashArrays \/ LoadVectors
           \/ LoadRefs
  PROVE  ChainInv'
<1> DEFINE Early == {"bound", "described", "hashed", "half_read", "read"}
<1>1. ReaderOK /\ Early \subseteq Steps
  BY DEF ChainInv, Steps
<1>2. reader.held.model \in Versions \cup {Nothing} /\ reader.pin.model \in Versions \cup {Nothing}
  BY <1>1 DEF ReaderOK, Held
<1>3. Fails \/ \E name \in Names, step \in Early, accepted \in SUBSET (Versions \cup {Nothing}) :
                 Took(name, step, accepted)
  BY <1>1, <1>2, ReadsTakeOnePart
  DEF VerifyModelManifest, BindDataset, ReadModelManifest, HashArrays, LoadVectors, LoadRefs, Names
<1> QED
  BY <1>3, FailingKeepsInv DEF Took, ChainInv, ModelIsWhole, ChainIsJoined, HoldoutIsOwn, At

LEMMA LateReadsKeepInv ==
  ASSUME ChainInv,
         VerifyIndexManifest \/ ReadIndexManifest \/ ReadIndexFiles \/ ReadHoldout
  PROVE  ChainInv'
<1>1. ReaderOK
  BY DEF ChainInv
<1>2. /\ reader.pin.index \in Versions \cup {Nothing}
      /\ reader.held.index \in Versions \cup {Nothing}
      /\ reader.held.dataset \in Versions \cup {Nothing}
  BY <1>1 DEF ReaderOK, Held
<1>3. CASE VerifyIndexManifest \/ ReadIndexManifest \/ ReadIndexFiles
  <2>1. reader.step \in {"model", "index_verified", "index_described"}
    BY <1>3 DEF VerifyIndexManifest, ReadIndexManifest, ReadIndexFiles, At
  <2>2. Fails \/ \E step \in {"index_verified", "index_described", "index_read"},
                    accepted \in SUBSET (Versions \cup {Nothing}) : Took("index", step, accepted)
    BY <1>1, <1>2, <1>3, ReadsTakeOnePart
    DEF VerifyIndexManifest, ReadIndexManifest, ReadIndexFiles, Names, Steps
  <2> QED
    BY <2>1, <2>2, FailingKeepsInv
    DEF Took, Names, ChainInv, ModelIsWhole, ChainIsJoined, HoldoutIsOwn, At, Runtime
<1>4. CASE ReadHoldout
  <2>1. Fails \/ Took("holdout", "ready", {reader.held.dataset})
    BY <1>1, <1>2, <1>4, ReadsTakeOnePart DEF ReadHoldout, Names, Steps
  <2> QED
    BY <1>4, <2>1, FailingKeepsInv
    DEF ReadHoldout, Took, Names, ChainInv, ModelIsWhole, ChainIsJoined, HoldoutIsOwn, At, Runtime
<1> QED
  BY <1>3, <1>4

LEMMA ComparisonsKeepInv ==
  ASSUME ChainInv, AcceptModel \/ JoinChain PROVE ChainInv'
<1> USE DEF ChainInv, ReaderOK, ModelIsWhole, ChainIsJoined, HoldoutIsOwn, At, Runtime, Goes,
            Held, Steps
<1>1. CASE AcceptModel
  BY <1>1, FailingKeepsInv DEF AcceptModel, ArraysAreDeclared
<1>2. CASE JoinChain
  BY <1>2, FailingKeepsInv DEF JoinChain
<1> QED
  BY <1>1, <1>2

\* Writers and the operator touch directories only.
LEMMA OthersKeepInv ==
  ASSUME ChainInv, UNCHANGED reader PROVE ChainInv'
BY DEF ChainInv, ReaderOK, ModelIsWhole, ChainIsJoined, HoldoutIsOwn, At, Runtime

LEMMA OthersLeaveReader ==
  ASSUME \/ \E v \in Versions : IndexStep(v)
         \/ \E k \in Kinds : OperatorStep(k) \/ \E v \in Versions : Stage(k, v) \/ WriterStep(k, v)
         \/ UNCHANGED chainVars
  PROVE  UNCHANGED reader
BY DEF IndexStep, SnapshotModelManifest, SnapshotModelArrays, OperatorStep, StartRemoval,
   EndRemoval, Stage, WriterStep, Compare, Place, chainVars

\* A runtime that starts, and an evaluation that runs, hold the parts of one
\* version, for any versions, pins and sequence of removals and rebuilds.
THEOREM RuntimeIsAlwaysOneChain == ChainSpec => []RuntimeIsOneChain
<1>1. ChainInit => ChainInv
  BY ChainAssumption DEF ChainInit, Readers, NoPin, NothingHeld, ChainInv, ReaderOK, ModelIsWhole,
     ChainIsJoined, HoldoutIsOwn, At, Held, Steps
<1>2. ChainInv /\ [ChainNext]_chainVars => ChainInv'
  BY EarlyReadsKeepInv, LateReadsKeepInv, ComparisonsKeepInv, OthersKeepInv, OthersLeaveReader
  DEF ChainNext, ReaderStep
<1>3. ChainInv => RuntimeIsOneChain
  BY DEF ChainInv, ModelIsWhole, ChainIsJoined, HoldoutIsOwn, RuntimeIsOneChain, At
<1> QED
  BY <1>1, <1>2, <1>3, PTL DEF ChainSpec

\* The rest of the pipeline leaves the chain of artifacts alone, so what a
\* reader holds is of one version there too.
THEOREM PipelineKeepsTheChain == Spec => ChainSpec
<1>1. Init => ChainInit
  BY DEF Init
<1>2. [Next]_pipelineVars => [ChainNext]_chainVars
  <2>1. CASE Chain
    BY <2>1 DEF Chain, ChainNext
  <2>2. CASE \E v \in Versions, k \in Kinds : Publish(k, v)
    BY <2>2 DEF Publish, ChainNext
  <2>3. CASE UNCHANGED chainVars
    BY <2>3
  <2>4. [Next]_pipelineVars =>
          Chain \/ (\E v \in Versions, k \in Kinds : Publish(k, v)) \/ UNCHANGED chainVars
    BY DEF Next, Audit, Load, Build, Analyze, Evaluate, pipelineVars
  <2> QED
    BY <2>1, <2>2, <2>3, <2>4
<1> QED
  BY <1>1, <1>2, PTL DEF Spec, ChainSpec

-----------------------------------------------------------------------------
(* What the audits keep.                                                   *)

Phases == {"asking", "opening", "consuming", "rechecking", "read", "comparing", "placing", "passed",
           "loaded"}
Going(r) == r.phase \in Phases
Finished(r) == r.phase \in {"comparing", "placing"}

DiskOK ==
  /\ audit \in Audits
  /\ disk = [contents |-> disk.contents, path |-> disk.path, manifest |-> disk.manifest,
             disturbances |-> disk.disturbances]
  /\ disk.contents \in Seq(DOMAIN audit.table) /\ disk.path \in DOMAIN disk.contents
  /\ disk.manifest \in DOMAIN audit.table
  /\ disk.disturbances \in Nat

\* A process: the version it was asked for, the rounds it has made, an open file.
IsProcess(r) ==
  r = [phase |-> r.phase, identity |-> r.identity, expected |-> r.expected,
       inode |-> r.inode, rounds |-> r.rounds, approvals |-> r.approvals]
ReaderIsSound(p, r) ==
  /\ IsProcess(r)
  /\ r.rounds \in Seq([digest : DOMAIN audit.table, read : DOMAIN audit.table])
  /\ Len(r.rounds) <= RoundsOf(p)
  /\ Going(r) => r.identity \in DOMAIN audit.table
  /\ r.phase \in {"opening", "consuming", "rechecking"} => r.expected \in DOMAIN audit.table
  /\ r.phase \in {"consuming", "rechecking"} => r.inode \in DOMAIN disk.contents
  /\ r.phase \in {"asking", "opening", "consuming"} => Len(r.rounds) < RoundsOf(p)
  /\ r.phase = "rechecking" => r.rounds # <<>>
  /\ Going(r) /\ r.phase \notin {"asking", "opening", "consuming", "rechecking"} =>
       Len(r.rounds) = RoundsOf(p)

\* A round that read another version than the one it was asked for took two
\* disturbances: one to change the open file and one to change it back.
Missed(r, n) == IF n \in DOMAIN r.rounds /\ r.rounds[n].read # r.rounds[n].digest THEN 1 ELSE 0
Price(r) == 2 * (Missed(r, 1) + Missed(r, 2))
Paid(r) ==
  LET changed == IF disk.contents[r.inode] # r.expected THEN 1 ELSE 0
  IN  /\ r.phase = "consuming" => Price(r) + changed <= disk.disturbances
      /\ r.phase = "rechecking" => Price(r) - changed <= disk.disturbances
      /\ Going(r) /\ r.phase \notin {"consuming", "rechecking"} => Price(r) <= disk.disturbances

\* Two equal rounds that both missed a change took four.
Quiet == disk.disturbances < 4

\* A baseline is accepted as it is written, and would be the same if it had
\* been made from the content it is published for.
Sayable(v, b) == ApprovedPayload(BaselineBytes(v, b), v, audit.expected)
SaysTrue(v, b) == BaselineBytes(v, b) = BaselineBytes(v, [b EXCEPT !.read = v])
CountsTrue(v, w) == Frequencies(TableOf(w)) = Frequencies(TableOf(v))

\* What a process publishes: the bytes of its first round.
FirstRound(p, r) == [read |-> r.rounds[1].read, tool |-> Tool(p)]
BaselinerOK(p, r) ==
  /\ Finished(r) =>
       /\ Sayable(r.identity, FirstRound(p, r))
       /\ Quiet => SaysTrue(r.identity, FirstRound(p, r))
  /\ r.phase = "passed" =>
       /\ baselines[r.identity].read # Unpublished
       /\ SameBaseline(r.identity, FirstRound(p, r))

InventoryRunOK(r) ==
  LET expects == ExpectationsOf(r.identity)
  IN  /\ Going(r) => BaselineServes(r.identity)
      /\ Finished(r) =>
           /\ InventoryIsValid(InventoryOf(r.identity, r.rounds[1].read, expects), r.identity,
                               expects)
           /\ Quiet => CountsTrue(r.identity, r.rounds[1].read)
      /\ r.phase = "passed" =>
           /\ inventories[r.identity] # Unpublished
           /\ SameInventory(r.identity, r.rounds[1].read)

ProcessOK(p, r) ==
  /\ ReaderIsSound(p, r) /\ Paid(r)
  /\ Finished(r) => p # "build"
  /\ p \in Baseliners => BaselinerOK(p, r)
  /\ p = "inventory" => InventoryRunOK(r)

PublishedOK ==
  /\ DOMAIN baselines = DOMAIN audit.table /\ DOMAIN inventories = DOMAIN audit.table
  /\ \A v \in DOMAIN audit.table :
       /\ baselines[v] = [read |-> baselines[v].read, tool |-> baselines[v].tool]
       /\ baselines[v].read # Unpublished =>
            BaselineServes(v) /\ (Quiet => SaysTrue(v, baselines[v]))
       /\ inventories[v] # Unpublished =>
            InventoryServes(v) /\ (Quiet => CountsTrue(v, inventories[v]))

\* A behaviour either starts with audits or has nothing left to audit.
AuditIsOver == audit = NoAudit /\ DOMAIN runner = {} /\ DOMAIN baselines = {}
AuditIsSound ==
  /\ DiskOK /\ PublishedOK
  /\ DOMAIN runner = audit.plan
  /\ \A p \in DOMAIN runner : ProcessOK(p, runner[p])
AuditInv == AuditIsOver \/ AuditIsSound

\* What a process finds around it when it moves.
Around == <<audit, disk, baselines, inventories>>

\* What is published is never replaced, so whoever relies on it still can.
PublishedStays ==
  \A v \in DOMAIN audit.table :
    /\ baselines[v].read # Unpublished => baselines'[v] = baselines[v]
    /\ inventories[v] # Unpublished => inventories'[v] = inventories[v]

LEMMA PublishingKeepsTheOthers ==
  ASSUME UNCHANGED audit, UNCHANGED disk, PublishedStays, NEW q, NEW r, ProcessOK(q, r)
  PROVE  ProcessOK(q, r)'
<1>1. ReaderIsSound(q, r)' /\ Paid(r)'
  BY DEF ProcessOK, ReaderIsSound, Paid, Going, Price, Missed
<1>2. Going(r) => r.identity \in DOMAIN audit.table
  BY DEF ProcessOK, ReaderIsSound
<1>3. Finished(r) \/ r.phase = "passed" => Going(r)
  BY DEF Finished, Going, Phases
<1>4. q \in Baseliners => BaselinerOK(q, r)'
  BY <1>2, <1>3
  DEF ProcessOK, BaselinerOK, PublishedStays, Finished, Sayable, Quiet, SaysTrue, FirstRound,
      SameBaseline, BaselineBytes, TableOf
<1>5. ASSUME q = "inventory", Going(r) PROVE InventoryRunOK(r)'
  <2>1. BaselineServes(r.identity) /\ baselines'[r.identity] = baselines[r.identity]
    BY <1>2, <1>5 DEF ProcessOK, InventoryRunOK, BaselineServes, PublishedStays
  <2> QED
    BY <1>2, <1>5, <2>1
    DEF ProcessOK, InventoryRunOK, PublishedStays, Finished, Going, Quiet, CountsTrue,
        SameInventory, BaselineServes, BaselineBytes, ExpectationsOf, TableOf, InventoryOf
<1>6. ASSUME q = "inventory", ~Going(r) PROVE InventoryRunOK(r)'
  BY <1>3, <1>6 DEF InventoryRunOK, Finished, Going
<1> QED
  BY <1>1, <1>4, <1>5, <1>6 DEF ProcessOK, Finished

LEMMA OneProcessMoves ==
  ASSUME AuditIsSound, NEW p \in DOMAIN runner, NEW r, Stands(p, r), UNCHANGED Around,
         ProcessOK(p, r)
  PROVE  AuditIsSound'
<1>1. UNCHANGED audit /\ UNCHANGED disk /\ UNCHANGED baselines /\ UNCHANGED inventories
  BY DEF Around
<1>2. DOMAIN runner' = DOMAIN runner
      /\ \A q \in DOMAIN runner : runner'[q] = IF q = p THEN r ELSE runner[q]
  BY DEF Stands
<1>3. DiskOK' /\ PublishedOK'
  BY <1>1
  DEF AuditIsSound, DiskOK, PublishedOK, BaselineServes, InventoryServes, SaysTrue, CountsTrue,
      BaselineBytes, ExpectationsOf, TableOf, InventoryOf, Quiet
<1>4. ASSUME NEW q \in DOMAIN runner, NEW s, ProcessOK(q, s), runner'[q] = s
      PROVE  ProcessOK(q, runner[q])'
  <2>1. ProcessOK(q, s)'
    BY <1>1, <1>4, PublishingKeepsTheOthers DEF PublishedStays
  <2> QED
    BY <1>4, <2>1
<1>5. \A q \in DOMAIN runner : ProcessOK(q, runner[q])'
  BY <1>2, <1>4 DEF AuditIsSound
<1> QED
  BY <1>1, <1>2, <1>3, <1>5 DEF AuditIsSound

\* The record of a process after it moved.
Moved(r, s, phase, expected, inode, rounds) ==
  /\ IsProcess(s)
  /\ s.phase = phase /\ s.identity = r.identity /\ s.expected = expected /\ s.inode = inode
  /\ s.rounds = rounds /\ s.approvals = r.approvals

LEMMA ProcessMoves ==
  ASSUME NEW r, IsProcess(r), NEW s, NEW phase, NEW expected, NEW inode, NEW rounds
  PROVE  /\ s = [r EXCEPT !.phase = phase] => Moved(r, s, phase, r.expected, r.inode, r.rounds)
         /\ s = [r EXCEPT !.phase = phase, !.inode = inode]
              => Moved(r, s, phase, r.expected, inode, r.rounds)
         /\ s = [r EXCEPT !.inode = inode, !.phase = phase]
              => Moved(r, s, phase, r.expected, inode, r.rounds)
         /\ s = [r EXCEPT !.phase = phase, !.expected = expected]
              => Moved(r, s, phase, expected, r.inode, r.rounds)
         /\ s = [r EXCEPT !.phase = phase, !.rounds = rounds]
              => Moved(r, s, phase, r.expected, r.inode, rounds)
<1> USE DEF IsProcess, Moved
<1>1. s = [r EXCEPT !.phase = phase] => Moved(r, s, phase, r.expected, r.inode, r.rounds)
  OBVIOUS
<1>2. s = [r EXCEPT !.phase = phase, !.inode = inode]
        => Moved(r, s, phase, r.expected, inode, r.rounds)
  OBVIOUS
<1>3. s = [r EXCEPT !.inode = inode, !.phase = phase]
        => Moved(r, s, phase, r.expected, inode, r.rounds)
  OBVIOUS
<1>4. s = [r EXCEPT !.phase = phase, !.expected = expected]
        => Moved(r, s, phase, expected, r.inode, r.rounds)
  OBVIOUS
<1>5. s = [r EXCEPT !.phase = phase, !.rounds = rounds]
        => Moved(r, s, phase, r.expected, r.inode, rounds)
  OBVIOUS
<1> QED
  BY <1>1, <1>2, <1>3, <1>4, <1>5

LEMMA RefusingKeepsAudit ==
  ASSUME AuditIsSound, NEW p \in DOMAIN runner, NEW reason, reason \notin Phases,
         Refused(p, reason), UNCHANGED Around
  PROVE  AuditIsSound'
<1> DEFINE old == runner[p]
<1>1. PICK r : r = [old EXCEPT !.phase = reason, !.inode = 0]
  OBVIOUS
<1>2. ReaderIsSound(p, old) /\ Stands(p, r)
  BY <1>1 DEF AuditIsSound, ProcessOK, Refused
<1> HIDE DEF old
<1>3. Moved(old, r, reason, old.expected, 0, old.rounds)
  BY <1>1, <1>2, ProcessMoves DEF ReaderIsSound
<1>4. ~Going(r) /\ ~Finished(r)
      /\ reason \notin {"asking", "opening", "consuming", "rechecking", "passed"}
  BY <1>3 DEF Moved, Going, Finished, Phases
<1>5. ProcessOK(p, r)
  BY <1>2, <1>3, <1>4 DEF Moved, ProcessOK, ReaderIsSound, Paid, BaselinerOK, InventoryRunOK
<1> QED
  BY <1>2, <1>5, OneProcessMoves

LEMMA TwoRoundsAtMost ==
  ASSUME NEW p PROVE RoundsOf(p) \in {1, 2} /\ (p # "build" => RoundsOf(p) = 2)
BY DEF RoundsOf

LEMMA OneElement == ASSUME NEW S, NEW e \in S PROVE <<e>> \in Seq(S) /\ DOMAIN <<e>> = {1}
OBVIOUS

LEMMA FirstElement ==
  ASSUME NEW S, NEW q \in Seq(S), Len(q) \in {1, 2} PROVE q[1] \in S
OBVIOUS

-----------------------------------------------------------------------------
(* Reading.                                                                *)

LEMMA AskKeepsAudit ==
  ASSUME AuditIsSound, NEW p \in DOMAIN runner, AskManifest(p) PROVE AuditIsSound'
<1> DEFINE old == runner[p]
<1>1. PICK r : r = [old EXCEPT !.phase = "opening", !.expected = disk.manifest]
  OBVIOUS
<1>2. ProcessOK(p, old) /\ DiskOK /\ old.phase = "asking" /\ Stands(p, r) /\ UNCHANGED Around
  BY <1>1 DEF AuditIsSound, AskManifest, Runs, Around
<1> HIDE DEF old
<1>3. Moved(old, r, "opening", disk.manifest, old.inode, old.rounds)
  BY <1>1, <1>2, ProcessMoves DEF ProcessOK, ReaderIsSound
<1>4. Price(r) = Price(old)
  BY <1>3 DEF Moved, Price, Missed
<1>5. ProcessOK(p, r)
  BY <1>2, <1>3, <1>4 DEF Moved, ProcessOK, ReaderIsSound, Paid, BaselinerOK, InventoryRunOK, Going,
     Finished, Phases, DiskOK
<1> QED
  BY <1>2, <1>5, OneProcessMoves

LEMMA OpenKeepsAudit ==
  ASSUME AuditIsSound, NEW p \in DOMAIN runner, OpenSource(p) PROVE AuditIsSound'
<1> DEFINE old == runner[p]
<1>1. PICK r : r = [old EXCEPT !.phase = "consuming", !.inode = disk.path]
  OBVIOUS
<1>2. ProcessOK(p, old) /\ DiskOK /\ old.phase = "opening" /\ UNCHANGED Around
  BY DEF AuditIsSound, OpenSource, Runs, Around
<1>3. CASE Refused(p, "source_mismatch")
  BY <1>2, <1>3, RefusingKeepsAudit DEF Phases
<1>4. CASE disk.contents[disk.path] = old.expected /\ Stands(p, r)
  <2> HIDE DEF old
  <2>1. Moved(old, r, "consuming", old.expected, disk.path, old.rounds)
    BY <1>1, <1>2, ProcessMoves DEF ProcessOK, ReaderIsSound
  <2>2. Price(r) = Price(old) /\ Price(r) \in Nat
    BY <2>1 DEF Moved, Price, Missed
  <2>3. Price(r) <= disk.disturbances
    BY <1>2, <2>2 DEF ProcessOK, Paid, Going, Phases
  <2>4. Paid(r)
    BY <1>4, <2>1, <2>2, <2>3 DEF Moved, Paid
  <2>5. ReaderIsSound(p, r)
    BY <1>2, <2>1 DEF Moved, ProcessOK, ReaderIsSound, DiskOK, Going, Phases
  <2>6. ProcessOK(p, r)
    BY <1>2, <2>1, <2>4, <2>5
    DEF Moved, ProcessOK, BaselinerOK, InventoryRunOK, Going, Finished, Phases
  <2> QED
    BY <1>2, <1>4, <2>6, OneProcessMoves
<1> QED
  BY <1>1, <1>3, <1>4 DEF OpenSource

LEMMA ConsumeKeepsAudit ==
  ASSUME AuditIsSound, NEW p \in DOMAIN runner, Consume(p) PROVE AuditIsSound'
<1> DEFINE old == runner[p]
           n == Len(old.rounds)
           changed == IF Content(p) # old.expected THEN 1 ELSE 0
<1>1. PICK round : round = [digest |-> old.expected, read |-> Content(p)]
  OBVIOUS
<1>2. PICK rounds : rounds = Append(old.rounds, round)
  OBVIOUS
<1>3. PICK r : r = [old EXCEPT !.phase = "rechecking", !.rounds = rounds]
  OBVIOUS
<1>4. /\ ProcessOK(p, old) /\ DiskOK /\ old.phase = "consuming" /\ UNCHANGED Around
      /\ Stands(p, r)
  BY <1>1, <1>2, <1>3 DEF AuditIsSound, Consume, Runs, Around
<1>5. Content(p) = disk.contents[old.inode]
  BY DEF Content
<1> HIDE DEF old
<1>6. Moved(old, r, "rechecking", old.expected, old.inode, rounds)
  BY <1>3, <1>4, ProcessMoves DEF ProcessOK, ReaderIsSound
<1>7. /\ old.rounds \in Seq([digest : DOMAIN audit.table, read : DOMAIN audit.table])
      /\ n < RoundsOf(p) /\ n \in Nat
      /\ old.expected \in DOMAIN audit.table /\ old.inode \in DOMAIN disk.contents
  BY <1>4 DEF ProcessOK, ReaderIsSound
<1>8. Content(p) \in DOMAIN audit.table
  BY <1>4, <1>5, <1>7 DEF DiskOK
<1>9. round \in [digest : DOMAIN audit.table, read : DOMAIN audit.table]
  BY <1>1, <1>7, <1>8
<1>10. /\ rounds \in Seq([digest : DOMAIN audit.table, read : DOMAIN audit.table])
       /\ Len(rounds) = n + 1 /\ rounds # <<>> /\ rounds[n + 1] = round
       /\ \A i \in 1..n : rounds[i] = old.rounds[i]
  BY <1>2, <1>7, <1>9
<1>11. DOMAIN rounds = 1..n + 1 /\ DOMAIN old.rounds = 1..n
  BY <1>7, <1>10
<1>12. n \in {0, 1} /\ n + 1 <= RoundsOf(p)
  <2>1. RoundsOf(p) \in {1, 2}
    BY TwoRoundsAtMost
  <2> HIDE DEF n
  <2> QED
    BY <1>7, <2>1
<1>13. old.identity \in DOMAIN audit.table /\ Price(old) + changed <= disk.disturbances
  BY <1>4, <1>5 DEF ProcessOK, ReaderIsSound, Paid, Going, Phases
<1> HIDE DEF n
<1>14. ReaderIsSound(p, r)
  BY <1>6, <1>7, <1>10, <1>12, <1>13 DEF Moved, ReaderIsSound
<1>15. Paid(r)
  <2>1. Price(r) = Price(old) + 2 * changed
    BY <1>1, <1>6, <1>10, <1>11, <1>12 DEF Moved, Price, Missed
  <2>2. Price(old) \in Nat /\ disk.disturbances \in Nat /\ changed \in Nat
    BY <1>4 DEF Price, Missed, DiskOK
  <2>3. Price(r) - changed <= disk.disturbances
    BY <1>13, <2>1, <2>2
  <2> QED
    BY <1>5, <1>6, <2>3 DEF Moved, Paid
<1>16. ProcessOK(p, r)
  BY <1>4, <1>6, <1>14, <1>15
  DEF Moved, ProcessOK, BaselinerOK, InventoryRunOK, Going, Finished, Phases
<1> QED
  BY <1>4, <1>16, OneProcessMoves

LEMMA RecheckKeepsAudit ==
  ASSUME AuditIsSound, NEW p \in DOMAIN runner, Recheck(p) PROVE AuditIsSound'
<1> DEFINE old == runner[p]
<1>1. PICK phase : phase = IF Len(old.rounds) < RoundsOf(p) THEN "asking" ELSE "read"
  OBVIOUS
<1>2. PICK r : r = [old EXCEPT !.inode = 0, !.phase = phase]
  OBVIOUS
<1>3. ProcessOK(p, old) /\ DiskOK /\ old.phase = "rechecking" /\ UNCHANGED Around
  BY DEF AuditIsSound, Recheck, Runs, Around
<1>4. CASE Refused(p, "source_changed") \/ Refused(p, "parsing_failed")
  BY <1>3, <1>4, RefusingKeepsAudit DEF Phases
<1>5. CASE Content(p) = old.expected /\ Stands(p, r)
  <2>1. disk.contents[old.inode] = old.expected
    BY <1>5 DEF Content
  <2> HIDE DEF old
  <2>2. Moved(old, r, phase, old.expected, 0, old.rounds)
    BY <1>2, <1>3, ProcessMoves DEF ProcessOK, ReaderIsSound
  <2>3. \/ phase = "asking" /\ Len(old.rounds) < RoundsOf(p)
        \/ phase = "read" /\ Len(old.rounds) = RoundsOf(p)
    <3>1. RoundsOf(p) \in Nat
      BY TwoRoundsAtMost
    <3>2. PICK m : m = Len(old.rounds)
      OBVIOUS
    <3>3. m \in Nat /\ m <= RoundsOf(p)
      BY <1>3, <3>2 DEF ProcessOK, ReaderIsSound
    <3> QED
      BY <1>1, <3>1, <3>2, <3>3
  <2>4. Price(r) = Price(old) /\ Price(r) \in Nat
    BY <2>2 DEF Moved, Price, Missed
  <2>5. Paid(r)
    BY <1>3, <2>1, <2>2, <2>3, <2>4 DEF Moved, ProcessOK, Paid
  <2>6. ReaderIsSound(p, r)
    BY <1>3, <2>2, <2>3 DEF Moved, ProcessOK, ReaderIsSound, Going, Phases
  <2>7. ProcessOK(p, r)
    BY <1>3, <2>2, <2>3, <2>5, <2>6
    DEF Moved, ProcessOK, BaselinerOK, InventoryRunOK, Going, Finished, Phases
  <2> QED
    BY <1>3, <1>5, <2>7, OneProcessMoves
<1> QED
  BY <1>1, <1>2, <1>4, <1>5 DEF Recheck

-----------------------------------------------------------------------------
(* Disturbing.                                                             *)

LEMMA DisturbKeepsAudit ==
  ASSUME AuditIsSound, NEW v \in DOMAIN audit.table,
         EditInPlace(v) \/ ReplaceFile(v) \/ ApproveVersion(v)
  PROVE  AuditIsSound'
<1> DEFINE Good(d) ==
             /\ d = [contents |-> d.contents, path |-> d.path, manifest |-> d.manifest,
                     disturbances |-> disk.disturbances]
             /\ d.contents \in Seq(DOMAIN audit.table) /\ d.path \in DOMAIN d.contents
             /\ d.manifest \in DOMAIN audit.table
             /\ DOMAIN disk.contents \subseteq DOMAIN d.contents
<1>1. DiskOK
  BY DEF AuditIsSound
<1>2. PICK d : Disturb(d) /\ Good(d)
  <2>1. CASE EditInPlace(v)
    <3>1. PICK contents : contents = [disk.contents EXCEPT ![disk.path] = v]
      OBVIOUS
    <3>2. PICK d : d = [disk EXCEPT !.contents[disk.path] = v]
      OBVIOUS
    <3>3. contents \in Seq(DOMAIN audit.table) /\ DOMAIN contents = DOMAIN disk.contents
      BY <1>1, <3>1 DEF DiskOK
    <3>4. d = [contents |-> contents, path |-> disk.path, manifest |-> disk.manifest,
               disturbances |-> disk.disturbances]
      BY <1>1, <3>1, <3>2 DEF DiskOK
    <3>5. Good(d)
      BY <1>1, <3>3, <3>4 DEF DiskOK
    <3> QED
      BY <2>1, <3>2, <3>5 DEF EditInPlace
  <2>2. CASE ReplaceFile(v)
    <3>1. PICK contents : contents = Append(disk.contents, v)
      OBVIOUS
    <3>2. PICK d : d = [disk EXCEPT !.contents = Append(@, v), !.path = Len(disk.contents) + 1]
      OBVIOUS
    <3>3. /\ contents \in Seq(DOMAIN audit.table) /\ DOMAIN disk.contents \subseteq DOMAIN contents
          /\ Len(disk.contents) + 1 \in DOMAIN contents
      BY <1>1, <3>1 DEF DiskOK
    <3>4. d = [contents |-> contents, path |-> Len(disk.contents) + 1, manifest |-> disk.manifest,
               disturbances |-> disk.disturbances]
      BY <1>1, <3>1, <3>2 DEF DiskOK
    <3>5. Good(d)
      BY <1>1, <3>3, <3>4 DEF DiskOK
    <3> QED
      BY <2>2, <3>2, <3>5 DEF ReplaceFile
  <2>3. CASE ApproveVersion(v)
    <3>1. PICK d : d = [disk EXCEPT !.manifest = v]
      OBVIOUS
    <3>2. d = [contents |-> disk.contents, path |-> disk.path, manifest |-> v,
               disturbances |-> disk.disturbances]
      BY <1>1, <3>1 DEF DiskOK
    <3>3. Good(d)
      BY <1>1, <3>2 DEF DiskOK
    <3> QED
      BY <2>3, <3>1, <3>3 DEF ApproveVersion
  <2> QED
    BY <2>1, <2>2, <2>3
<1>3. disk' = [contents |-> d.contents, path |-> d.path, manifest |-> d.manifest,
               disturbances |-> disk.disturbances + 1]
  BY <1>2 DEF Disturb
<1>4. UNCHANGED <<audit, runner, baselines, inventories>>
  BY <1>2 DEF Disturb
<1>5. disk.disturbances \in Nat /\ disk'.disturbances = disk.disturbances + 1
  BY <1>1, <1>3 DEF DiskOK
<1>6. DiskOK'
  BY <1>1, <1>2, <1>3, <1>4, <1>5 DEF DiskOK
<1>7. Quiet' => Quiet
  BY <1>5 DEF Quiet
<1>8. PublishedOK'
  BY <1>4, <1>7
  DEF AuditIsSound, PublishedOK, BaselineServes, InventoryServes, SaysTrue, CountsTrue,
      BaselineBytes, ExpectationsOf, TableOf, InventoryOf
<1>9. ASSUME NEW q, NEW r, ProcessOK(q, r)
      PROVE  ReaderIsSound(q, r)' /\ Paid(r)'
  <2>1. ReaderIsSound(q, r)'
    BY <1>2, <1>3, <1>4, <1>9 DEF ProcessOK, ReaderIsSound, Going
  <2>2. Price(r) \in Nat /\ Price(r)' = Price(r)
    BY DEF Price, Missed
  <2>3. PICK a, b : /\ a = IF disk.contents[r.inode] # r.expected THEN 1 ELSE 0
                    /\ b = IF disk'.contents[r.inode] # r.expected THEN 1 ELSE 0
    OBVIOUS
  <2>4. a \in {0, 1} /\ b \in {0, 1}
    BY <2>3
  <2>5. /\ r.phase = "consuming" => Price(r) + a <= disk.disturbances
        /\ r.phase = "rechecking" => Price(r) - a <= disk.disturbances
        /\ Going(r) /\ r.phase \notin {"consuming", "rechecking"} => Price(r) <= disk.disturbances
    BY <1>9, <2>3 DEF ProcessOK, Paid
  <2>6. PICK m : m = Price(r)
    OBVIOUS
  <2>7. /\ r.phase = "consuming" => m + b <= disk'.disturbances
        /\ r.phase = "rechecking" => m - b <= disk'.disturbances
        /\ Going(r) /\ r.phase \notin {"consuming", "rechecking"} => m <= disk'.disturbances
    BY <1>5, <2>2, <2>4, <2>5, <2>6
  <2>8. Going(r)' = Going(r)
    BY DEF Going
  <2> QED
    BY <2>1, <2>2, <2>3, <2>6, <2>7, <2>8 DEF Paid
<1>10. ASSUME NEW q \in DOMAIN runner
       PROVE  ProcessOK(q, runner[q])'
  <2>1. ProcessOK(q, runner[q])
    BY DEF AuditIsSound
  <2>2. PICK r : r = runner[q] /\ r = runner'[q]
    BY <1>4
  <2>3. ProcessOK(q, r)
    BY <2>1, <2>2
  <2>4. ReaderIsSound(q, r)' /\ Paid(r)'
    BY <1>9, <2>3
  <2>5. ProcessOK(q, r)'
    BY <1>4, <1>7, <2>3, <2>4 DEF ProcessOK, BaselinerOK, InventoryRunOK, Going, Finished,
       Sayable, SaysTrue, CountsTrue, FirstRound, SameBaseline, SameInventory,
       BaselineServes, BaselineBytes, ExpectationsOf, TableOf, InventoryOf
  <2> QED
    BY <2>2, <2>5
<1> QED
  BY <1>4, <1>6, <1>8, <1>10 DEF AuditIsSound

-----------------------------------------------------------------------------
(* The baseline.                                                           *)

LEMMA BeginBaselineKeepsAudit ==
  ASSUME AuditIsSound, NEW p \in DOMAIN runner, BeginBaseline(p) PROVE AuditIsSound'
<1>1. PICK r : r = [Idle EXCEPT !.phase = "asking", !.identity = disk.manifest]
  OBVIOUS
<1>2. /\ p \in Baseliners /\ DiskOK /\ UNCHANGED Around /\ Stands(p, r)
  BY <1>1 DEF AuditIsSound, BeginBaseline, Around
<1>3. r = [phase |-> "asking", identity |-> disk.manifest, expected |-> Unpublished,
           inode |-> 0, rounds |-> <<>>, approvals |-> {}]
  BY <1>1 DEF Idle
<1>4. ReaderIsSound(p, r)
  <2>1. RoundsOf(p) \in {1, 2}
    BY TwoRoundsAtMost
  <2>2. Len(r.rounds) = 0 /\ r.rounds = <<>>
    BY <1>3
  <2> QED
    BY <1>2, <1>3, <2>1, <2>2 DEF ReaderIsSound, IsProcess, DiskOK, Going, Phases
<1>5. Paid(r)
  <2>1. DOMAIN r.rounds = {}
    BY <1>3
  <2>2. Price(r) = 0
    BY <2>1 DEF Price, Missed
  <2> QED
    BY <1>2, <1>3, <2>2 DEF Paid, DiskOK
<1>6. ProcessOK(p, r)
  BY <1>2, <1>3, <1>4, <1>5 DEF ProcessOK, BaselinerOK, Finished, Baseliners
<1> QED
  BY <1>2, <1>6, OneProcessMoves

\* A quiet run missed at most one change, so one of its rounds is about the
\* version its receipts name.
LEMMA OneRoundIsTrue ==
  ASSUME NEW p, p # "build", NEW r, ReaderIsSound(p, r), Paid(r), r.phase = "read",
         \A n \in DOMAIN r.rounds : r.rounds[n].digest = r.identity,
         disk.disturbances \in Nat, Quiet
  PROVE  r.rounds[1].read = r.identity \/ r.rounds[2].read = r.identity
<1>1. Len(r.rounds) = 2
  BY TwoRoundsAtMost DEF ReaderIsSound, Going, Phases
<1>2. 1 \in DOMAIN r.rounds /\ 2 \in DOMAIN r.rounds
  BY <1>1 DEF ReaderIsSound
<1>3. Price(r) <= disk.disturbances
  BY DEF Paid, Going, Phases
<1>4. SUFFICES ASSUME r.rounds[1].read # r.identity, r.rounds[2].read # r.identity PROVE FALSE
  OBVIOUS
<1>5. Price(r) = 4
  BY <1>2, <1>4 DEF Price, Missed
<1> QED
  BY <1>3, <1>5 DEF Quiet

LEMMA FinishBaselineKeepsAudit ==
  ASSUME AuditIsSound, NEW p \in DOMAIN runner, FinishBaseline(p) PROVE AuditIsSound'
<1> DEFINE old == runner[p]
           v == old.identity
<1>1. PICK r : r = [old EXCEPT !.phase = "comparing"]
  OBVIOUS
<1>2. /\ ProcessOK(p, old) /\ DiskOK /\ old.phase = "read" /\ UNCHANGED Around
      /\ p \in Baseliners /\ p # "build"
  BY DEF AuditIsSound, FinishBaseline, Runs, Around, Baseliners
<1>3. CASE \E reason \in {"receipt_mismatch", "sanitization_failed", "rounds_differ", "blocked"} :
             Refused(p, reason)
  BY <1>2, <1>3, RefusingKeepsAudit DEF Phases
<1>4. CASE /\ ReceiptsMatch(p)
           /\ \A n \in {1, 2} : PayloadIsValid(BaselineBytes(v, Made(p, n)), audit.expected)
           /\ RoundsAgree(p) /\ BaselineBytes(v, Made(p, 1)).passed
           /\ Stands(p, r)
  <2>1. /\ BaselineBytes(v, Made(p, 1)) = BaselineBytes(v, Made(p, 2))
        /\ \A n \in DOMAIN old.rounds : old.rounds[n].digest = v
    BY <1>2, <1>4 DEF RoundsAgree, ReceiptsMatch
  <2>2. Sayable(v, Made(p, 1))
    BY <1>4 DEF Sayable, ApprovedPayload, BaselineBytes, Payload
  <2>3. /\ Made(p, 1) = [read |-> old.rounds[1].read, tool |-> Tool(p)]
        /\ Made(p, 2) = [read |-> old.rounds[2].read, tool |-> Tool(p)]
    BY DEF Made
  <2>4. ASSUME Quiet PROVE SaysTrue(v, Made(p, 1))
    <3>1. old.rounds[1].read = v \/ old.rounds[2].read = v
      BY <1>2, <2>1, <2>4, OneRoundIsTrue DEF ProcessOK, DiskOK
    <3>2. PICK b : b = [Made(p, 1) EXCEPT !.read = v]
      OBVIOUS
    <3>3. b = [read |-> v, tool |-> Tool(p)]
      BY <2>3, <3>2
    <3>4. b = Made(p, 1) \/ b = Made(p, 2)
      BY <2>3, <3>1, <3>3
    <3> QED
      BY <2>1, <3>2, <3>4 DEF SaysTrue
  <2>5. Made(p, 1) = FirstRound(p, old)
    BY <2>3 DEF FirstRound
  <2> HIDE DEF old
  <2>6. Moved(old, r, "comparing", old.expected, old.inode, old.rounds)
    BY <1>1, <1>2, ProcessMoves DEF ProcessOK, ReaderIsSound
  <2>7. Price(r) = Price(old) /\ FirstRound(p, r) = FirstRound(p, old)
    BY <2>6 DEF Moved, Price, Missed, FirstRound
  <2>8. ReaderIsSound(p, r) /\ Paid(r)
    BY <1>2, <2>6, <2>7 DEF Moved, ProcessOK, ReaderIsSound, Paid, Going, Phases
  <2>9. BaselinerOK(p, r)
    BY <2>2, <2>4, <2>5, <2>6, <2>7 DEF Moved, BaselinerOK
  <2>10. ProcessOK(p, r)
    BY <1>2, <2>8, <2>9 DEF ProcessOK, Baseliners
  <2> QED
    BY <1>2, <1>4, <2>10, OneProcessMoves
<1> QED
  BY <1>1, <1>3, <1>4 DEF FinishBaseline

-----------------------------------------------------------------------------
(* The inventory.                                                          *)

LEMMA BeginInventoryKeepsAudit ==
  ASSUME AuditIsSound, BeginInventory PROVE AuditIsSound'
<1> DEFINE p == "inventory"
<1>1. PICK approvals, r :
        /\ r = [Idle EXCEPT !.phase = "asking", !.identity = disk.manifest,
                            !.expected = Unpublished, !.approvals = approvals]
        /\ Stands(p, r)
  BY DEF BeginInventory
<1>2. /\ p \in DOMAIN runner /\ p \notin Baseliners /\ DiskOK /\ UNCHANGED Around
      /\ BaselineServes(disk.manifest)
  BY DEF AuditIsSound, BeginInventory, Around, Runs, Baseliners
<1>3. r = [phase |-> "asking", identity |-> disk.manifest, expected |-> Unpublished,
           inode |-> 0, rounds |-> <<>>, approvals |-> approvals]
  BY <1>1 DEF Idle
<1>4. ReaderIsSound(p, r)
  <2>1. RoundsOf(p) = 2
    BY TwoRoundsAtMost
  <2>2. Len(r.rounds) = 0 /\ r.rounds = <<>>
    BY <1>3
  <2> QED
    BY <1>2, <1>3, <2>1, <2>2 DEF ReaderIsSound, IsProcess, DiskOK, Going, Phases
<1>5. Paid(r)
  <2>1. DOMAIN r.rounds = {}
    BY <1>3
  <2>2. Price(r) = 0
    BY <2>1 DEF Price, Missed
  <2> QED
    BY <1>2, <1>3, <2>2 DEF Paid, DiskOK
<1>6. ProcessOK(p, r)
  BY <1>2, <1>3, <1>4, <1>5 DEF ProcessOK, InventoryRunOK, Finished
<1> QED
  BY <1>1, <1>2, <1>6, OneProcessMoves

LEMMA FinishInventoryKeepsAudit ==
  ASSUME AuditIsSound, FinishInventory PROVE AuditIsSound'
<1> DEFINE p == "inventory"
           old == runner[p]
           v == old.identity
           first == old.rounds[1].read
           expects == ExpectationsOf(v)
<1>1. PICK r : r = [old EXCEPT !.phase = "comparing"]
  OBVIOUS
<1>2. PICK refusal :
        refusal = InventoryRefusal(Frequencies(TableOf(first)), Len(TableOf(first).rows),
                                   expects, old.approvals)
  OBVIOUS
<1>3. /\ p \in DOMAIN runner /\ p \notin Baseliners /\ p # "build" /\ old.phase = "read"
      /\ UNCHANGED Around
  BY DEF FinishInventory, Runs, Around, Baseliners
<1>4. ProcessOK(p, old) /\ DiskOK
  BY <1>3 DEF AuditIsSound
<1>5. CASE \E reason \in {"receipt_mismatch", "rounds_differ", "serialization_failed"} :
             Refused(p, reason)
  BY <1>3, <1>5, RefusingKeepsAudit DEF Phases
<1>6. CASE Refused(p, refusal) /\ refusal # "none"
  <2>1. refusal \notin Phases
    BY <1>2, <1>6 DEF InventoryRefusal, Phases
  <2> QED
    BY <1>3, <1>6, <2>1, RefusingKeepsAudit
<1>7. CASE /\ ReceiptsMatch(p) /\ RoundsAgree(p)
           /\ InventoryIsValid(InventoryOf(v, first, expects), v, expects)
           /\ Stands(p, r)
  <2>1. /\ CountsTrue(old.rounds[2].read, first)
        /\ \A n \in DOMAIN old.rounds : old.rounds[n].digest = v
    BY <1>3, <1>7 DEF RoundsAgree, ReceiptsMatch, CountsTrue
  <2>2. ASSUME Quiet PROVE CountsTrue(v, first)
    <3>1. first = v \/ old.rounds[2].read = v
      BY <1>3, <1>4, <2>1, <2>2, OneRoundIsTrue DEF ProcessOK, DiskOK
    <3> QED
      BY <2>1, <3>1 DEF CountsTrue
  <2>3. BaselineServes(v)
    BY <1>3, <1>4 DEF ProcessOK, InventoryRunOK, Going, Phases
  <2> HIDE DEF old
  <2>4. Moved(old, r, "comparing", old.expected, old.inode, old.rounds)
    BY <1>1, <1>4, ProcessMoves DEF ProcessOK, ReaderIsSound
  <2>5. Price(r) = Price(old)
    BY <2>4 DEF Moved, Price, Missed
  <2>6. ReaderIsSound(p, r) /\ Paid(r)
    BY <1>3, <1>4, <2>4, <2>5 DEF Moved, ProcessOK, ReaderIsSound, Paid, Going, Phases
  <2>7. InventoryRunOK(r)
    BY <1>7, <2>2, <2>3, <2>4 DEF Moved, InventoryRunOK
  <2>8. ProcessOK(p, r)
    BY <1>3, <2>6, <2>7 DEF ProcessOK
  <2> QED
    BY <1>3, <1>7, <2>8, OneProcessMoves
<1> QED
  BY <1>1, <1>2, <1>5, <1>6, <1>7 DEF FinishInventory

-----------------------------------------------------------------------------
(* The output.                                                             *)

LEMMA CompareKeepsAudit ==
  ASSUME AuditIsSound, NEW p \in DOMAIN runner, CompareOutput(p) PROVE AuditIsSound'
<1> DEFINE old == runner[p]
           v == old.identity
<1>1. PICK phase : /\ Refused(p, "write_failed") \/ phase \in {"placing", "passed"}
                   /\ phase = "passed" =>
                        /\ ~Vacant(Output(p))
                        /\ IF p = "inventory" THEN SameInventory(v, old.rounds[1].read)
                           ELSE SameBaseline(v, Made(p, 1))
                   /\ phase \in {"placing", "passed"} => Stands(p, [old EXCEPT !.phase = phase])
  <2>1. CASE Refused(p, "write_failed")
    BY <2>1
  <2>2. CASE Vacant(Output(p)) /\ Stands(p, [old EXCEPT !.phase = "placing"])
    BY <2>2
  <2>3. CASE /\ ~Vacant(Output(p)) /\ Stands(p, [old EXCEPT !.phase = "passed"])
             /\ IF p = "inventory" THEN SameInventory(v, old.rounds[1].read)
                ELSE SameBaseline(v, Made(p, 1))
    BY <2>3
  <2> QED
    BY <2>1, <2>2, <2>3 DEF CompareOutput
<1>2. ProcessOK(p, old) /\ DiskOK /\ old.phase = "comparing" /\ UNCHANGED Around
  BY DEF AuditIsSound, CompareOutput, Runs, Around
<1>3. CASE Refused(p, "write_failed")
  BY <1>2, <1>3, RefusingKeepsAudit DEF Phases
<1>4. CASE phase \in {"placing", "passed"}
  <2>1. PICK r : r = [old EXCEPT !.phase = phase]
    OBVIOUS
  <2>2. Stands(p, r)
    BY <1>1, <1>4, <2>1
  <2>3. Made(p, 1) = FirstRound(p, old)
    BY DEF Made, FirstRound
  <2>4. phase = "passed" =>
          IF p = "inventory"
          THEN inventories[v] # Unpublished /\ SameInventory(v, old.rounds[1].read)
          ELSE baselines[v].read # Unpublished /\ SameBaseline(v, FirstRound(p, old))
    BY <1>1, <2>3 DEF Output, Vacant
  <2> HIDE DEF old
  <2>5. Moved(old, r, phase, old.expected, old.inode, old.rounds)
    BY <1>2, <2>1, ProcessMoves DEF ProcessOK, ReaderIsSound
  <2>6. Price(r) = Price(old) /\ FirstRound(p, r) = FirstRound(p, old)
    BY <2>5 DEF Moved, Price, Missed, FirstRound
  <2>7. ReaderIsSound(p, r) /\ Paid(r)
    BY <1>2, <1>4, <2>5, <2>6 DEF Moved, ProcessOK, ReaderIsSound, Paid, Going, Phases
  <2>8. p \in Baseliners => BaselinerOK(p, r)
    BY <1>2, <2>4, <2>5, <2>6 DEF Moved, ProcessOK, BaselinerOK, Finished, Baseliners
  <2>9. p = "inventory" => InventoryRunOK(r)
    BY <1>2, <2>4, <2>5 DEF Moved, ProcessOK, InventoryRunOK, Finished, Going, Phases
  <2>10. ProcessOK(p, r)
    BY <1>2, <2>7, <2>8, <2>9 DEF ProcessOK, Finished
  <2> QED
    BY <1>2, <2>2, <2>10, OneProcessMoves
<1> QED
  BY <1>1, <1>3, <1>4

LEMMA LosingKeepsAudit ==
  ASSUME AuditIsSound, NEW p \in DOMAIN runner, LoseThePlace(p) PROVE AuditIsSound'
BY RefusingKeepsAudit DEF LoseThePlace, Around, Phases

LEMMA PlacingKeepsAudit ==
  ASSUME AuditIsSound, NEW p \in DOMAIN runner, PlaceOutput(p) PROVE AuditIsSound'
<1> DEFINE old == runner[p]
           v == old.identity
           first == old.rounds[1].read
<1>1. PICK r : r = [old EXCEPT !.phase = "passed"]
  OBVIOUS
<1>2. /\ ProcessOK(p, old) /\ DiskOK /\ PublishedOK /\ old.phase = "placing" /\ Vacant(Output(p))
      /\ UNCHANGED audit /\ UNCHANGED disk /\ Stands(p, r)
      /\ p \in Baseliners \cup {"inventory"}
  BY <1>1, AuditAssumption
  DEF AuditIsSound, PlaceOutput, Runs, DiskOK, Auditors, ProcessOK, Finished
<1>3. Going(old) /\ Finished(old)
  BY <1>2 DEF Going, Finished, Phases
<1>4. v \in DOMAIN audit.table /\ DOMAIN baselines = DOMAIN audit.table
      /\ DOMAIN inventories = DOMAIN audit.table
  BY <1>2, <1>3 DEF ProcessOK, ReaderIsSound, PublishedOK
<1>5. first \in DOMAIN audit.table /\ first # Unpublished
  <2>1. PICK rounds : rounds = old.rounds
    OBVIOUS
  <2>2. /\ Len(rounds) \in {1, 2}
        /\ rounds \in Seq([digest : DOMAIN audit.table, read : DOMAIN audit.table])
    BY <1>2, <1>3, <2>1, TwoRoundsAtMost DEF ProcessOK, ReaderIsSound
  <2>3. rounds[1] \in [digest : DOMAIN audit.table, read : DOMAIN audit.table]
    BY <2>2, FirstElement
  <2> QED
    BY <1>2, <2>1, <2>3, AuditAssumption DEF DiskOK
<1>6. /\ p = "inventory" => /\ inventories' = [inventories EXCEPT ![v] = first]
                            /\ UNCHANGED baselines /\ inventories[v] = Unpublished
      /\ p # "inventory" => /\ baselines' = [baselines EXCEPT ![v] = FirstRound(p, old)]
                            /\ UNCHANGED inventories /\ baselines[v].read = Unpublished
  BY <1>2 DEF PlaceOutput, Output, Vacant, Made, FirstRound
<1>7. PublishedStays
  BY <1>4, <1>6 DEF PublishedStays
<1>8. ASSUME NEW w \in DOMAIN audit.table, baselines'[w] = baselines[w]
      PROVE  /\ ExpectationsOf(w)' = ExpectationsOf(w) /\ BaselineServes(w)' = BaselineServes(w)
             /\ Quiet' = Quiet /\ SaysTrue(w, baselines[w])' = SaysTrue(w, baselines[w])
  BY <1>2, <1>8 DEF ExpectationsOf, BaselineServes, BaselineBytes, SaysTrue, TableOf, Quiet
<1>9. PublishedOK'
  <2>1. DOMAIN baselines' = DOMAIN audit.table /\ DOMAIN inventories' = DOMAIN audit.table
    BY <1>4, <1>6
  <2>2. ASSUME NEW w \in DOMAIN audit.table
        PROVE  baselines'[w] = [read |-> baselines'[w].read, tool |-> baselines'[w].tool]
    BY <1>2, <1>4, <1>6 DEF PublishedOK, FirstRound
  <2>3. ASSUME NEW w \in DOMAIN audit.table, baselines'[w].read # Unpublished
        PROVE  BaselineServes(w)' /\ (Quiet' => SaysTrue(w, baselines[w])')
    <3>1. CASE baselines[w].read # Unpublished
      BY <1>2, <1>7, <1>8, <3>1 DEF PublishedOK, PublishedStays
    <3>2. CASE baselines[w].read = Unpublished
      <4>1. w = v /\ p \in Baseliners /\ baselines'[w] = FirstRound(p, old)
        BY <1>2, <1>4, <1>6, <2>3, <3>2
      <4>2. Sayable(v, FirstRound(p, old)) /\ (Quiet => SaysTrue(v, FirstRound(p, old)))
        BY <1>2, <1>3, <4>1 DEF ProcessOK, BaselinerOK
      <4>3. PICK b : b = FirstRound(p, old)
        OBVIOUS
      <4> QED
        BY <1>2, <2>3, <4>1, <4>2, <4>3
        DEF BaselineServes, Sayable, SaysTrue, BaselineBytes, TableOf, Quiet
    <3> QED
      BY <3>1, <3>2
  <2>4. ASSUME NEW w \in DOMAIN audit.table, inventories'[w] # Unpublished
        PROVE  InventoryServes(w)' /\ (Quiet' => CountsTrue(w, inventories[w])')
    <3>1. CASE inventories[w] # Unpublished
      <4>1. InventoryServes(w) /\ BaselineServes(w) /\ (Quiet => CountsTrue(w, inventories[w]))
        BY <1>2, <3>1 DEF PublishedOK, InventoryServes
      <4>2. baselines'[w] = baselines[w] /\ inventories'[w] = inventories[w]
        BY <1>7, <3>1, <4>1 DEF PublishedStays, BaselineServes
      <4> QED
        BY <1>2, <1>8, <4>1, <4>2 DEF InventoryServes, InventoryOf, CountsTrue, TableOf
    <3>2. CASE inventories[w] = Unpublished
      <4>1. w = v /\ p = "inventory" /\ inventories'[w] = first /\ baselines'[w] = baselines[w]
        BY <1>2, <1>4, <1>6, <2>4, <3>2
      <4>2. /\ BaselineServes(v)
            /\ InventoryIsValid(InventoryOf(v, first, ExpectationsOf(v)), v, ExpectationsOf(v))
            /\ Quiet => CountsTrue(v, first)
        BY <1>2, <1>3, <4>1 DEF ProcessOK, InventoryRunOK
      <4> HIDE DEF v, first
      <4> QED
        BY <1>2, <1>8, <2>4, <4>1, <4>2 DEF InventoryServes, InventoryOf, CountsTrue, TableOf
    <3> QED
      BY <3>1, <3>2
  <2> QED
    BY <1>2, <2>1, <2>2, <2>3, <2>4 DEF PublishedOK
<1>10. ProcessOK(p, r)'
  <2>1. p \in Baseliners => baselines'[v] = FirstRound(p, old)
    BY <1>4, <1>6 DEF Baseliners
  <2>2. p = "inventory" => /\ inventories'[v] = first /\ BaselineServes(v)
                           /\ baselines'[v] = baselines[v]
    BY <1>2, <1>3, <1>4, <1>6 DEF ProcessOK, InventoryRunOK
  <2>3. FirstRound(p, old).read = first
    BY DEF FirstRound
  <2>4. Going(old) /\ ReaderIsSound(p, old) /\ Paid(old)
    BY <1>2, <1>3 DEF ProcessOK
  <2> HIDE DEF old
  <2>5. Moved(old, r, "passed", old.expected, old.inode, old.rounds)
    BY <1>1, <2>4, ProcessMoves DEF ReaderIsSound
  <2>6. Price(r) = Price(old) /\ FirstRound(p, r) = FirstRound(p, old)
    BY <2>5 DEF Moved, Price, Missed, FirstRound
  <2>7. ReaderIsSound(p, r) /\ Paid(r)
    BY <1>2, <2>4, <2>5, <2>6 DEF Moved, ReaderIsSound, Paid, Going, Phases
  <2>8. ReaderIsSound(p, r)' /\ Paid(r)'
    BY <1>2, <2>7 DEF ReaderIsSound, Paid, Going, Price, Missed
  <2>9. ~Finished(r) /\ r.phase = "passed" /\ r.identity = v /\ r.rounds[1].read = first
    BY <2>5 DEF Moved, Finished
  <2>10. p \in Baseliners => BaselinerOK(p, r)'
    BY <1>5, <2>1, <2>3, <2>6, <2>9 DEF BaselinerOK, SameBaseline, Finished, FirstRound
  <2>11. p = "inventory" => BaselineServes(r.identity)'
    BY <1>4, <1>8, <2>2, <2>9
  <2>12. p = "inventory" => InventoryRunOK(r)'
    BY <1>5, <2>2, <2>9, <2>11 DEF InventoryRunOK, SameInventory, Finished
  <2> QED
    BY <2>8, <2>9, <2>10, <2>12 DEF ProcessOK, Finished
<1>11. ASSUME NEW q \in DOMAIN runner PROVE ProcessOK(q, runner[q])'
  <2>1. CASE q = p
    BY <1>2, <1>10, <2>1 DEF Stands
  <2>2. CASE q # p
    <3>1. PICK s : s = runner[q]
      OBVIOUS
    <3>2. ProcessOK(q, s) /\ runner'[q] = s
      BY <1>2, <2>2, <3>1 DEF AuditIsSound, Stands
    <3>3. ProcessOK(q, s)'
      BY <1>2, <1>7, <3>2, PublishingKeepsTheOthers
    <3> QED
      BY <3>2, <3>3
  <2> QED
    BY <2>1, <2>2
<1> QED
  BY <1>2, <1>9, <1>11 DEF AuditIsSound, DiskOK, Stands

-----------------------------------------------------------------------------
(* The build.                                                              *)

LEMMA BeginBuildKeepsAudit ==
  ASSUME AuditIsSound, BeginBuild PROVE AuditIsSound'
<1> DEFINE p == "build"
<1>1. PICK r : r = [Idle EXCEPT !.phase = "asking", !.identity = disk.manifest]
  OBVIOUS
<1>2. /\ p \in DOMAIN runner /\ p \notin Baseliners /\ DiskOK /\ UNCHANGED Around
      /\ Stands(p, r) \/ Refused(p, "labels_not_one_to_one")
  BY <1>1 DEF AuditIsSound, BeginBuild, Around, Runs, Baseliners
<1>3. CASE Refused(p, "labels_not_one_to_one")
  BY <1>2, <1>3, RefusingKeepsAudit DEF Phases
<1>4. CASE Stands(p, r)
  <2>1. r = [phase |-> "asking", identity |-> disk.manifest, expected |-> Unpublished,
             inode |-> 0, rounds |-> <<>>, approvals |-> {}]
    BY <1>1 DEF Idle
  <2>2. RoundsOf(p) \in {1, 2}
    BY TwoRoundsAtMost
  <2>3. Len(r.rounds) = 0 /\ r.rounds = <<>> /\ DOMAIN r.rounds = {}
    BY <2>1
  <2>4. ReaderIsSound(p, r)
    BY <1>2, <2>1, <2>2, <2>3 DEF ReaderIsSound, IsProcess, DiskOK, Going, Phases
  <2>5. Price(r) = 0
    BY <2>3 DEF Price, Missed
  <2>6. Paid(r)
    BY <1>2, <2>1, <2>5 DEF Paid, DiskOK
  <2>7. ProcessOK(p, r)
    BY <1>2, <2>1, <2>4, <2>6 DEF ProcessOK, Finished
  <2> QED
    BY <1>2, <1>4, <2>7, OneProcessMoves
<1> QED
  BY <1>2, <1>3, <1>4

LEMMA LoadingKeepsAudit ==
  ASSUME AuditIsSound, RefuseTable \/ \E v \in Versions : LoadTable(v) PROVE AuditIsSound'
<1> DEFINE p == "build"
           old == runner[p]
<1>1. PICK r : r = [old EXCEPT !.phase = "loaded"]
  OBVIOUS
<1>2. /\ p \in DOMAIN runner /\ p \notin Baseliners /\ UNCHANGED Around /\ old.phase = "read"
      /\ Stands(p, r) \/ (LoadRefusal # "none" /\ Refused(p, LoadRefusal))
  BY <1>1 DEF LoadTable, RefuseTable, Around, Runs, Baseliners
<1>3. ProcessOK(p, old)
  BY <1>2 DEF AuditIsSound
<1>4. CASE LoadRefusal # "none" /\ Refused(p, LoadRefusal)
  <2>1. LoadRefusal \notin Phases
    BY <1>4 DEF LoadRefusal, Phases
  <2> QED
    BY <1>2, <1>4, <2>1, RefusingKeepsAudit
<1>5. CASE Stands(p, r)
  <2> HIDE DEF old
  <2>1. Moved(old, r, "loaded", old.expected, old.inode, old.rounds)
    BY <1>1, <1>3, ProcessMoves DEF ProcessOK, ReaderIsSound
  <2>2. Price(r) = Price(old)
    BY <2>1 DEF Moved, Price, Missed
  <2>3. ReaderIsSound(p, r) /\ Paid(r)
    BY <1>2, <1>3, <2>1, <2>2 DEF Moved, ProcessOK, ReaderIsSound, Paid, Going, Phases
  <2>4. ProcessOK(p, r)
    BY <1>2, <2>1, <2>3 DEF Moved, ProcessOK, Finished
  <2> QED
    BY <1>2, <1>5, <2>4, OneProcessMoves
<1> QED
  BY <1>2, <1>4, <1>5

-----------------------------------------------------------------------------
(* The specification.                                                      *)

LEMMA AuditStaysOver ==
  ASSUME AuditIsOver, AuditStep \/ \E v \in Versions : LoadTable(v)
  PROVE  FALSE
<1>1. audit.table = <<>> /\ DOMAIN runner = {}
  BY DEF AuditIsOver, NoAudit
<1> QED
  BY <1>1 DEF AuditStep, LoadTable, BeginInventory, FinishInventory, BeginBuild, RefuseTable, Runs

LEMMA NextAudits ==
  ASSUME [Next]_pipelineVars
  PROVE  AuditStep \/ (\E v \in Versions : LoadTable(v)) \/ UNCHANGED auditVars
BY DEF Next, Audit, Load, Build, Publish, Chain, Analyze, Evaluate, pipelineVars

LEMMA NextKeepsAudit ==
  ASSUME AuditInv, [Next]_pipelineVars PROVE AuditInv'
<1>1. CASE UNCHANGED auditVars
  <2>1. AuditIsOver => AuditIsOver'
    BY <1>1 DEF auditVars, AuditIsOver
  <2>2. AuditIsSound => DiskOK' /\ PublishedOK' /\ DOMAIN runner' = audit'.plan
    BY <1>1
    DEF auditVars, AuditIsSound, DiskOK, PublishedOK, BaselineServes, InventoryServes, SaysTrue,
        CountsTrue, BaselineBytes, ExpectationsOf, TableOf, InventoryOf, Quiet
  <2>3. ASSUME AuditIsSound, NEW q \in DOMAIN runner PROVE ProcessOK(q, runner[q])'
    <3>1. PICK s : s = runner[q] /\ runner'[q] = s
      BY <1>1 DEF auditVars
    <3>2. ProcessOK(q, s)
      BY <2>3, <3>1 DEF AuditIsSound
    <3>3. ProcessOK(q, s)'
      BY <1>1, <3>2, PublishingKeepsTheOthers DEF auditVars, PublishedStays
    <3> QED
      BY <3>1, <3>3
  <2>4. AuditIsSound => AuditIsSound'
    BY <1>1, <2>2, <2>3 DEF AuditIsSound, auditVars
  <2> QED
    BY <2>1, <2>4 DEF AuditInv
<1>2. CASE AuditStep \/ \E v \in Versions : LoadTable(v)
  <2>1. AuditIsSound
    BY <1>2, AuditStaysOver DEF AuditInv
  <2>2. AuditIsSound'
    BY <1>2, <2>1, DisturbKeepsAudit, AskKeepsAudit, OpenKeepsAudit, ConsumeKeepsAudit,
       RecheckKeepsAudit, BeginBaselineKeepsAudit, FinishBaselineKeepsAudit,
       BeginInventoryKeepsAudit, FinishInventoryKeepsAudit, CompareKeepsAudit, PlacingKeepsAudit,
       LosingKeepsAudit, BeginBuildKeepsAudit, LoadingKeepsAudit
    DEF AuditStep, Read
  <2> QED
    BY <2>2 DEF AuditInv
<1> QED
  BY <1>1, <1>2, NextAudits

LEMMA AuditsBeginSound ==
  ASSUME Init PROVE AuditInv
<1>1. CASE AuditStarts(NoAudit)
  BY <1>1 DEF AuditStarts, NoAudit, AuditInv, AuditIsOver
<1>2. CASE \E a \in Audits : AuditStarts(a)
  <2>1. /\ audit \in Audits /\ AuditStarts(audit)
    BY <1>2 DEF AuditStarts
  <2>2. "first" \in DOMAIN audit.table
    BY <2>1, AuditAssumption
  <2>3. DiskOK
    <3>1. PICK contents : contents = <<"first">>
      OBVIOUS
    <3>2. contents \in Seq(DOMAIN audit.table) /\ 1 \in DOMAIN contents
      BY <2>2, <3>1, OneElement
    <3>3. disk = [contents |-> contents, path |-> 1, manifest |-> "first", disturbances |-> 0]
      BY <2>1, <3>1 DEF AuditStarts
    <3> QED
      BY <2>1, <2>2, <3>2, <3>3 DEF DiskOK
  <2>4. PublishedOK
    BY <2>1 DEF AuditStarts, PublishedOK
  <2>5. ASSUME NEW p \in DOMAIN runner PROVE ProcessOK(p, runner[p])
    <3>1. runner[p] = Idle
      BY <2>1, <2>5 DEF AuditStarts
    <3>2. PICK r : r = Idle
      OBVIOUS
    <3>3. r = [phase |-> "idle", identity |-> Unpublished, expected |-> Unpublished,
               inode |-> 0, rounds |-> <<>>, approvals |-> {}]
      BY <3>2 DEF Idle
    <3>4. RoundsOf(p) \in {1, 2} /\ Len(r.rounds) = 0 /\ r.rounds = <<>>
      BY <3>3, TwoRoundsAtMost
    <3>5. ~Going(r) /\ ~Finished(r)
      BY <3>3 DEF Going, Finished, Phases
    <3>6. ProcessOK(p, r)
      BY <3>3, <3>4, <3>5
      DEF ProcessOK, ReaderIsSound, IsProcess, Paid, BaselinerOK, InventoryRunOK
    <3> QED
      BY <3>1, <3>2, <3>6
  <2> QED
    BY <2>1, <2>3, <2>4, <2>5 DEF AuditInv, AuditIsSound, AuditStarts
<1> QED
  BY <1>1, <1>2 DEF Init

\* With fewer than four disturbances whatever is published is true and serves
\* every later reader; that a run which passed finds its bytes published holds
\* under any number of them.
THEOREM PassedStaysPublished == Spec => []PassedIsWhatIsPublished
<1>1. AuditInv => PassedIsWhatIsPublished
  <2>1. AuditIsOver => PassedIsWhatIsPublished
    BY DEF AuditIsOver, PassedIsWhatIsPublished, Runs
  <2>2. AuditIsSound => PassedIsWhatIsPublished
    BY DEF AuditIsSound, ProcessOK, BaselinerOK, InventoryRunOK, PassedIsWhatIsPublished, Runs,
       FirstRound, Made
  <2> QED
    BY <2>1, <2>2 DEF AuditInv
<1> QED
  BY <1>1, AuditsBeginSound, NextKeepsAudit, PTL DEF Spec

THEOREM QuietPublicationIsReliable == Spec => [](Quiet => PublicationIsReliable)
<1>1. AuditInv => (Quiet => PublishedIsTrue)
  <2>1. AuditIsOver => PublishedIsTrue
    BY DEF AuditIsOver, PublishedIsTrue
  <2>2. AuditIsSound => (Quiet => PublishedIsTrue)
    BY DEF AuditIsSound, PublishedOK, PublishedIsTrue, SaysTrue, CountsTrue, SameInventory
  <2> QED
    BY <2>1, <2>2 DEF AuditInv
<1>2. AuditInv /\ PassedIsWhatIsPublished => (Quiet => PublicationIsReliable)
  BY <1>1 DEF PublicationIsReliable
<1> QED
  BY <1>2, AuditsBeginSound, NextKeepsAudit, PassedStaysPublished, PTL DEF Spec

-----------------------------------------------------------------------------
(* What Sorted makes of a finite set in a strict order of its members.     *)

StrictOrder(R, S) ==
  /\ \A a \in S : <<a, a>> \notin R
  /\ \A a, b \in S : a = b \/ <<a, b>> \in R \/ <<b, a>> \in R
  /\ \A a, b, c \in S : <<a, b>> \in R /\ <<b, c>> \in R => <<a, c>> \in R

Preceding(R, S, m) == {k \in S : <<k, m>> \in R}
PlaceOf(R, S, m) == Cardinality(Preceding(R, S, m))

\* Members that come later have more before them, and none as many as there are.
LEMMA PlacesGrow ==
  ASSUME NEW S, IsFiniteSet(S), NEW R, StrictOrder(R, S)
  PROVE  /\ \A a \in S : PlaceOf(R, S, a) \in 0..Cardinality(S) - 1
         /\ \A a, b \in S : <<a, b>> \in R => PlaceOf(R, S, a) < PlaceOf(R, S, b)
<1>1. \A a \in S : /\ IsFiniteSet(Preceding(R, S, a)) /\ PlaceOf(R, S, a) \in Nat
                   /\ PlaceOf(R, S, a) <= Cardinality(S)
  BY FS_Subset, FS_CardinalityType DEF Preceding, PlaceOf
<1>2. ASSUME NEW a \in S PROVE PlaceOf(R, S, a) \in 0..Cardinality(S) - 1
  <2>1. a \notin Preceding(R, S, a) /\ Preceding(R, S, a) \in SUBSET S
    BY DEF Preceding, StrictOrder
  <2>2. Cardinality(S) # PlaceOf(R, S, a)
    BY <2>1, FS_Subset DEF PlaceOf
  <2> QED BY <1>1, <2>2, FS_CardinalityType
<1>3. ASSUME NEW a \in S, NEW b \in S, <<a, b>> \in R PROVE PlaceOf(R, S, a) < PlaceOf(R, S, b)
  <2>1. Preceding(R, S, a) \in SUBSET Preceding(R, S, b)
    BY <1>3 DEF Preceding, StrictOrder
  <2>2. a \in Preceding(R, S, b) /\ a \notin Preceding(R, S, a)
    BY <1>3 DEF Preceding, StrictOrder
  <2>3. PlaceOf(R, S, a) <= PlaceOf(R, S, b) /\ PlaceOf(R, S, a) # PlaceOf(R, S, b)
    BY <1>1, <2>1, <2>2, FS_Subset DEF PlaceOf
  <2> QED BY <1>1, <2>3
<1> QED BY <1>2, <1>3

\* Every place is taken, by one member.
LEMMA EveryPlaceIsTaken ==
  ASSUME NEW S, IsFiniteSet(S), NEW R, StrictOrder(R, S)
  PROVE  \A n \in 1..Cardinality(S) : \E m \in S : PlaceOf(R, S, m) = n - 1
<1> DEFINE N == Cardinality(S)
           f == [m \in S |-> PlaceOf(R, S, m) + 1]
<1>0. N \in Nat
  BY FS_CardinalityType
<1>1. f \in [S -> 1..N]
  <2> SUFFICES ASSUME NEW m \in S PROVE PlaceOf(R, S, m) + 1 \in 1..N
    OBVIOUS
  <2>1. PlaceOf(R, S, m) \in 0..N - 1
    BY PlacesGrow
  <2> QED BY <1>0, <2>1
<1>2. \A a, b \in S : f[a] = f[b] => a = b
  <2> SUFFICES ASSUME NEW a \in S, NEW b \in S, f[a] = f[b], a # b PROVE FALSE
    OBVIOUS
  <2>1. <<a, b>> \in R \/ <<b, a>> \in R
    BY DEF StrictOrder
  <2>2. PlaceOf(R, S, a) < PlaceOf(R, S, b) \/ PlaceOf(R, S, b) < PlaceOf(R, S, a)
    BY <2>1, PlacesGrow
  <2>3. PlaceOf(R, S, a) \in Int /\ PlaceOf(R, S, b) \in Int /\ PlaceOf(R, S, a) + 1 = PlaceOf(R, S, b) + 1
    BY PlacesGrow
  <2> QED BY <2>2, <2>3
<1>3. IsFiniteSet(1..N) /\ Cardinality(1..N) = N
  BY <1>0, FS_Interval
<1>4. f \in Injection(S, 1..N)
  <2> HIDE DEF f
  <2> QED BY <1>1, <1>2 DEF Injection, IsInjective
<1>5. f \in Surjection(S, 1..N)
  <2> HIDE DEF f
  <2> QED BY <1>3, <1>4, FS_Injection
<1>6. ASSUME NEW n \in 1..N PROVE \E m \in S : PlaceOf(R, S, m) = n - 1
  <2>1. PICK m \in S : f[m] = n
    BY <1>5 DEF Surjection
  <2>2. PlaceOf(R, S, m) + 1 = n /\ PlaceOf(R, S, m) \in Int
    BY <2>1, PlacesGrow
  <2> QED BY <1>0, <2>2
<1> QED BY <1>6

LEMMA SortedHasEveryMember ==
  ASSUME NEW S, IsFiniteSet(S), NEW R, StrictOrder(R, S)
  PROVE  LET N == Cardinality(S)
             f == Sorted(R, S)
         IN  /\ N \in Nat /\ f \in [1..N -> S]
             /\ \A n \in 1..N : PlaceOf(R, S, f[n]) = n - 1
             /\ \A m, n \in 1..N : m < n => <<f[m], f[n]>> \in R /\ f[m] # f[n]
             /\ \A s \in S : \E n \in 1..N : f[n] = s
<1> DEFINE N == Cardinality(S)
           f == Sorted(R, S)
<1>1. N \in Nat
  BY FS_CardinalityType
<1>2. f = [n \in 1..N |-> CHOOSE m \in S : PlaceOf(R, S, m) = n - 1]
  BY DEF Sorted, PlaceOf, Preceding
<1>3. f \in [1..N -> S] /\ \A n \in 1..N : PlaceOf(R, S, f[n]) = n - 1
  <2> HIDE DEF f, N
  <2>1. ASSUME NEW n \in 1..N PROVE f[n] \in S /\ PlaceOf(R, S, f[n]) = n - 1
    <3>1. \E m \in S : PlaceOf(R, S, m) = n - 1
      BY EveryPlaceIsTaken DEF N
    <3>2. f[n] = CHOOSE m \in S : PlaceOf(R, S, m) = n - 1
      BY <1>2
    <3> QED BY <3>1, <3>2
  <2> QED BY <1>2, <2>1
<1> HIDE DEF f
<1>4. ASSUME NEW m \in 1..N, NEW n \in 1..N, m < n PROVE <<f[m], f[n]>> \in R /\ f[m] # f[n]
  <2>1. f[m] \in S /\ f[n] \in S /\ PlaceOf(R, S, f[m]) = m - 1 /\ PlaceOf(R, S, f[n]) = n - 1
    BY <1>3
  <2>2. m \in Int /\ n \in Int
    BY <1>1
  <2>3. f[m] # f[n]
    BY <1>4, <2>1, <2>2
  <2>4. ~(<<f[n], f[m]>> \in R)
    <3> SUFFICES ASSUME <<f[n], f[m]>> \in R PROVE FALSE
      OBVIOUS
    <3>1. n - 1 < m - 1
      BY <2>1, PlacesGrow
    <3> QED BY <1>4, <2>2, <3>1
  <2> QED BY <2>1, <2>3, <2>4 DEF StrictOrder
<1>5. ASSUME NEW s \in S PROVE \E n \in 1..N : f[n] = s
  <2>1. PlaceOf(R, S, s) \in 0..N - 1
    BY PlacesGrow
  <2> DEFINE n == PlaceOf(R, S, s) + 1
  <2>2. n \in 1..N /\ n - 1 = PlaceOf(R, S, s)
    BY <1>1, <2>1
  <2>3. f[n] \in S /\ PlaceOf(R, S, f[n]) = PlaceOf(R, S, s)
    BY <1>3, <2>2
  <2>4. f[n] = s
    <3> SUFFICES ASSUME f[n] # s PROVE FALSE
      OBVIOUS
    <3>1. PlaceOf(R, S, f[n]) < PlaceOf(R, S, s) \/ PlaceOf(R, S, s) < PlaceOf(R, S, f[n])
      BY <2>3, PlacesGrow DEF StrictOrder
    <3> QED BY <2>1, <2>3, <3>1
  <2> QED BY <2>2, <2>4
<1> QED BY <1>1, <1>3, <1>4, <1>5 DEF f

LEMMA PlacesDiffer ==
  ASSUME NEW S, IsFiniteSet(S), NEW R, StrictOrder(R, S),
         NEW a \in S, NEW b \in S, PlaceOf(R, S, a) = PlaceOf(R, S, b)
  PROVE  a = b
<1> SUFFICES ASSUME a # b PROVE FALSE
  OBVIOUS
<1>1. PlaceOf(R, S, a) < PlaceOf(R, S, b) \/ PlaceOf(R, S, b) < PlaceOf(R, S, a)
  BY PlacesGrow DEF StrictOrder
<1>2. PlaceOf(R, S, a) \in Int /\ PlaceOf(R, S, b) \in Int
  BY PlacesGrow
<1> QED BY <1>1, <1>2

\* A sequence that has every member, in order, is the sorted one.
LEMMA OnlyOneOrder ==
  ASSUME NEW S, NEW R, StrictOrder(R, S), NEW M \in Nat, NEW g \in [1..M -> S],
         \A m, n \in 1..M : m < n => <<g[m], g[n]>> \in R,
         \A s \in S : \E n \in 1..M : g[n] = s
  PROVE  g = Sorted(R, S) /\ Cardinality(S) = M /\ IsFiniteSet(S)
<1>1. \A m, n \in 1..M : g[m] = g[n] => m = n
  <2> SUFFICES ASSUME NEW m \in 1..M, NEW n \in 1..M, g[m] = g[n], m # n PROVE FALSE
    OBVIOUS
  <2>1. m < n \/ n < m
    OBVIOUS
  <2>2. <<g[m], g[n]>> \in R \/ <<g[n], g[m]>> \in R
    BY <2>1
  <2> QED BY <2>2 DEF StrictOrder
<1>2. g \in Bijection(1..M, S)
  BY <1>1 DEF Bijection, Injection, Surjection, IsInjective
<1>3. IsFiniteSet(1..M) /\ Cardinality(1..M) = M
  BY FS_Interval
<1>4. IsFiniteSet(S) /\ Cardinality(S) = M
  BY <1>2, <1>3, FS_Bijection DEF ExistsBijection
<1>5. ASSUME NEW n \in 1..M PROVE PlaceOf(R, S, g[n]) = n - 1
  <2> DEFINE h == [m \in 1..n - 1 |-> g[m]]
             T == Preceding(R, S, g[n])
  <2>1. \A m \in 1..n - 1 : m \in 1..M /\ m < n
    OBVIOUS
  <2>2. \A m \in 1..n - 1 : g[m] \in T
    BY <2>1 DEF Preceding
  <2>3. \A s \in T : \E m \in 1..n - 1 : g[m] = s
    <3> SUFFICES ASSUME NEW s \in T PROVE \E m \in 1..n - 1 : g[m] = s
      OBVIOUS
    <3>1. s \in S /\ <<s, g[n]>> \in R
      BY DEF Preceding
    <3>2. PICK m \in 1..M : g[m] = s
      BY <3>1
    <3>3. ~(n < m) /\ n # m
      <4>1. ASSUME n < m PROVE FALSE
        <5>1. <<g[n], s>> \in R
          BY <3>2, <4>1
        <5> QED BY <3>1, <5>1 DEF StrictOrder
      <4>2. ASSUME n = m PROVE FALSE
        BY <3>1, <3>2, <4>2 DEF StrictOrder
      <4> QED BY <4>1, <4>2
    <3> QED BY <3>2, <3>3
  <2>4. h \in Bijection(1..n - 1, T)
    <3> HIDE DEF T
    <3>1. h \in [1..n - 1 -> T]
      BY <2>2
    <3>2. \A i, j \in 1..n - 1 : h[i] = h[j] => i = j
      BY <1>1, <2>1
    <3>3. \A s \in T : \E m \in 1..n - 1 : h[m] = s
      BY <2>3
    <3> HIDE DEF h
    <3> QED BY <3>1, <3>2, <3>3 DEF Bijection, Injection, Surjection, IsInjective
  <2>5. IsFiniteSet(1..n - 1) /\ Cardinality(1..n - 1) = n - 1
    BY FS_Interval
  <2>6. Cardinality(T) = n - 1
    <3> HIDE DEF h, T
    <3> QED BY <2>4, <2>5, FS_Bijection DEF ExistsBijection
  <2> QED BY <2>6 DEF PlaceOf
<1> DEFINE f == Sorted(R, S)
<1>6. f \in [1..M -> S] /\ \A n \in 1..M : PlaceOf(R, S, f[n]) = n - 1
  BY <1>4, SortedHasEveryMember
<1> HIDE DEF f
<1>7. \A n \in 1..M : f[n] = g[n]
  BY <1>4, <1>5, <1>6, PlacesDiffer
<1>8. f = g
  BY <1>6, <1>7
<1> QED BY <1>4, <1>8 DEF f

\* Members that none of those left out precedes keep their places.
LEMMA FirstPlacesStay ==
  ASSUME NEW S, IsFiniteSet(S), NEW R, StrictOrder(R, S), NEW A \in SUBSET S,
         NEW k \in 0..Cardinality(S), \A n \in 1..k : Sorted(R, S)[n] \in A
  PROVE  /\ k <= Cardinality(A)
         /\ \A n \in 1..k : Sorted(R, A)[n] = Sorted(R, S)[n]
<1> DEFINE N == Cardinality(S)
           f == Sorted(R, S)
           g == Sorted(R, A)
<1>0. IsFiniteSet(A) /\ StrictOrder(R, A)
  BY FS_Subset DEF StrictOrder
<1>1. /\ N \in Nat /\ f \in [1..N -> S]
      /\ \A n \in 1..N : PlaceOf(R, S, f[n]) = n - 1
      /\ \A m, n \in 1..N : m < n => <<f[m], f[n]>> \in R /\ f[m] # f[n]
      /\ \A s \in S : \E n \in 1..N : f[n] = s
  BY SortedHasEveryMember
<1>2. /\ Cardinality(A) \in Nat /\ g \in [1..Cardinality(A) -> A]
      /\ \A n \in 1..Cardinality(A) : PlaceOf(R, A, g[n]) = n - 1
  BY <1>0, SortedHasEveryMember
<1>3. \A n \in 1..k : f[n] \in A
  OBVIOUS
<1> HIDE DEF f, g
<1>4. ASSUME NEW n \in 1..k PROVE PlaceOf(R, A, f[n]) = n - 1
  <2>1. n \in 1..N /\ f[n] \in A
    BY <1>1, <1>3
  <2>2. Preceding(R, S, f[n]) = Preceding(R, A, f[n])
    <3>1. ASSUME NEW s \in Preceding(R, S, f[n]) PROVE s \in A
      <4>1. s \in S /\ <<s, f[n]>> \in R
        BY DEF Preceding
      <4>2. PICK m \in 1..N : f[m] = s
        BY <1>1, <4>1
      <4>3. PlaceOf(R, S, s) < PlaceOf(R, S, f[n])
        BY <1>1, <2>1, <4>1, PlacesGrow
      <4>4. m - 1 < n - 1
        BY <1>1, <2>1, <4>2, <4>3
      <4> QED BY <1>1, <1>3, <4>2, <4>4
    <3> QED BY <3>1 DEF Preceding
  <2> QED BY <1>1, <2>1, <2>2 DEF PlaceOf
<1>5. k <= Cardinality(A)
  <2>1. CASE k = 0
    BY <1>2, <2>1
  <2>2. CASE k # 0
    <3>1. k \in 1..k /\ f[k] \in A
      BY <1>1, <1>3, <2>2
    <3>2. PlaceOf(R, A, f[k]) \in 0..Cardinality(A) - 1 /\ PlaceOf(R, A, f[k]) = k - 1
      BY <1>0, <1>4, <3>1, PlacesGrow
    <3> QED BY <1>1, <1>2, <3>2
  <2> QED BY <2>1, <2>2
<1>6. ASSUME NEW n \in 1..k PROVE g[n] = f[n]
  <2>1. n \in 1..Cardinality(A) /\ f[n] \in A
    BY <1>1, <1>2, <1>3, <1>5
  <2> QED BY <1>0, <1>2, <1>4, <2>1, PlacesDiffer
<1> QED BY <1>5, <1>6 DEF f, g

LEMMA AscendingIsAnOrder ==
  ASSUME NEW key, DOMAIN key \subseteq Int, \A i \in DOMAIN key : key[i] \in Int
  PROVE  StrictOrder(Ascending(key), DOMAIN key)
<1>1. \A a, b \in DOMAIN key :
        <<a, b>> \in Ascending(key) <=> key[a] < key[b] \/ (key[a] = key[b] /\ a < b)
  BY DEF Ascending
<1>2. \A a \in DOMAIN key : <<a, a>> \notin Ascending(key)
  BY <1>1
<1>3. ASSUME NEW a \in DOMAIN key, NEW b \in DOMAIN key
      PROVE  a = b \/ <<a, b>> \in Ascending(key) \/ <<b, a>> \in Ascending(key)
  <2>1. key[a] \in Int /\ key[b] \in Int /\ a \in Int /\ b \in Int
    OBVIOUS
  <2>2. \/ a = b \/ key[a] < key[b] \/ (key[a] = key[b] /\ a < b)
        \/ key[b] < key[a] \/ (key[b] = key[a] /\ b < a)
    BY <2>1
  <2> QED BY <1>1, <2>2
<1>4. ASSUME NEW a \in DOMAIN key, NEW b \in DOMAIN key, NEW c \in DOMAIN key,
             <<a, b>> \in Ascending(key), <<b, c>> \in Ascending(key)
      PROVE  <<a, c>> \in Ascending(key)
  <2>1. key[a] \in Int /\ key[b] \in Int /\ key[c] \in Int /\ a \in Int /\ b \in Int /\ c \in Int
    OBVIOUS
  <2>2. key[a] < key[b] \/ (key[a] = key[b] /\ a < b)
    BY <1>1, <1>4
  <2>3. key[b] < key[c] \/ (key[b] = key[c] /\ b < c)
    BY <1>1, <1>4
  <2>4. key[a] < key[c] \/ (key[a] = key[c] /\ a < c)
    BY <2>1, <2>2, <2>3
  <2> QED BY <1>1, <2>4
<1> QED BY <1>2, <1>3, <1>4 DEF StrictOrder

Follows(key, i, j) == key[i] < key[j] \/ (key[i] = key[j] /\ i < j)

LEMMA RowsInOrder ==
  ASSUME NEW key, DOMAIN key \subseteq Int, \A i \in DOMAIN key : key[i] \in Int,
         NEW rows \in SUBSET (DOMAIN key), IsFiniteSet(rows)
  PROVE  LET N == Cardinality(rows)
             o == InOrder(key, rows)
         IN  /\ N \in Nat /\ o \in [1..N -> rows]
             /\ \A m, n \in 1..N : m < n => Follows(key, o[m], o[n]) /\ o[m] # o[n]
             /\ \A i \in rows : \E n \in 1..N : o[n] = i
<1>1. StrictOrder(Ascending(key), rows)
  BY AscendingIsAnOrder DEF StrictOrder
<1>2. \A i, j \in rows : <<i, j>> \in Ascending(key) => Follows(key, i, j)
  BY DEF Ascending, Follows
<1>3. InOrder(key, rows) = Sorted(Ascending(key), rows)
  BY DEF InOrder
<1> DEFINE o == InOrder(key, rows)
           N == Cardinality(rows)
<1>4. /\ N \in Nat /\ o \in [1..N -> rows]
      /\ \A m, n \in 1..N : m < n => <<o[m], o[n]>> \in Ascending(key) /\ o[m] # o[n]
      /\ \A i \in rows : \E n \in 1..N : o[n] = i
  BY <1>1, <1>3, SortedHasEveryMember
<1> HIDE DEF o, N
<1>5. \A m, n \in 1..N : m < n => Follows(key, o[m], o[n]) /\ o[m] # o[n]
  BY <1>2, <1>4
<1> QED BY <1>4, <1>5 DEF o, N

Lists(key, g, M, rows) ==
  /\ M \in Nat /\ g \in [1..M -> rows]
  /\ \A m, n \in 1..M : m < n => Follows(key, g[m], g[n])
  /\ \A i \in rows : \E n \in 1..M : g[n] = i

LEMMA OnlyRowsInOrder ==
  ASSUME NEW key, DOMAIN key \subseteq Int, \A i \in DOMAIN key : key[i] \in Int,
         NEW rows \in SUBSET (DOMAIN key), NEW M, NEW g, Lists(key, g, M, rows)
  PROVE  g = InOrder(key, rows)
<1> USE DEF Lists
<1>1. StrictOrder(Ascending(key), rows)
  BY AscendingIsAnOrder DEF StrictOrder
<1>2. \A i, j \in rows : Follows(key, i, j) => <<i, j>> \in Ascending(key)
  BY DEF Ascending, Follows
<1>3. \A m, n \in 1..M : m < n => <<g[m], g[n]>> \in Ascending(key)
  BY <1>2
<1> QED BY <1>1, <1>3, OnlyOneOrder DEF InOrder

\* A finite set of integers has its extremes.
LEMMA Extremes ==
  ASSUME NEW S \in SUBSET Int, IsFiniteSet(S), S # {}
  PROVE  /\ Min(S) \in S /\ \A x \in S : Min(S) <= x
         /\ Max(S) \in S /\ \A x \in S : x <= Max(S)
<1> DEFINE key == [i \in S |-> i]
           o == InOrder(key, S)
           N == Cardinality(S)
<1>1. DOMAIN key = S /\ \A i \in S : key[i] = i
  OBVIOUS
<1> HIDE DEF key
<1>2. /\ N \in Nat /\ o \in [1..N -> S]
      /\ \A m, n \in 1..N : m < n => Follows(key, o[m], o[n])
      /\ \A i \in S : \E n \in 1..N : o[n] = i
  <2>1. DOMAIN key \subseteq Int /\ S \in SUBSET (DOMAIN key) /\ \A i \in DOMAIN key : key[i] \in Int
    BY <1>1
  <2> QED BY <2>1, RowsInOrder
<1> HIDE DEF o, N
<1>3. \A m, n \in 1..N : m <= n => o[m] <= o[n]
  <2> SUFFICES ASSUME NEW m \in 1..N, NEW n \in 1..N, m <= n PROVE o[m] <= o[n]
    OBVIOUS
  <2>1. o[m] \in S /\ o[n] \in S /\ o[m] \in Int /\ o[n] \in Int
    BY <1>2
  <2>2. CASE m = n
    BY <2>1, <2>2
  <2>3. CASE m # n
    <3>1. m < n
      BY <2>3
    <3>2. Follows(key, o[m], o[n])
      BY <1>2, <3>1
    <3> QED BY <1>1, <2>1, <3>2 DEF Follows
  <2> QED BY <2>2, <2>3
<1>4. 1 \in 1..N /\ N \in 1..N
  <2>1. PICK x \in S : TRUE
    OBVIOUS
  <2>2. PICK n \in 1..N : o[n] = x
    BY <1>2
  <2> QED BY <1>2, <2>2
<1>5. \A x \in S : o[1] <= x /\ x <= o[N]
  <2> SUFFICES ASSUME NEW x \in S PROVE o[1] <= x /\ x <= o[N]
    OBVIOUS
  <2>1. PICK n \in 1..N : o[n] = x
    BY <1>2
  <2> QED BY <1>2, <1>3, <1>4, <2>1
<1>6. o[1] \in S /\ o[N] \in S
  BY <1>2, <1>4
<1>7. Min(S) \in S /\ \A x \in S : Min(S) <= x
  BY <1>5, <1>6 DEF Min
<1>8. Max(S) \in S /\ \A x \in S : x <= Max(S)
  <2>1. \E x \in S : \A y \in S : x >= y
    BY <1>5, <1>6
  <2>2. Max(S) \in S /\ \A y \in S : Max(S) >= y
    BY <2>1 DEF Max
  <2> QED BY <2>2
<1> QED BY <1>7, <1>8

-----------------------------------------------------------------------------
(* Occurrences and partitions.                                             *)

InTime(times) == \E n \in Nat : times \in [1..n -> Int]

\* Occurrences that share no moment with each other, the earlier first.
InTurn(times, occ) ==
  /\ Len(occ) \in Nat /\ DOMAIN occ = 1..Len(occ)
  /\ \A k \in 1..Len(occ) : occ[k] \in SUBSET (DOMAIN times) /\ IsFiniteSet(occ[k]) /\ occ[k] # {}
  /\ \A j, k \in 1..Len(occ) : j < k => \A a \in occ[j], b \in occ[k] : times[a] <= times[b]

LEMMA IsSequence ==
  ASSUME NEW n \in Nat, NEW S, NEW f \in [1..n -> S]
  PROVE  f \in Seq(S) /\ Len(f) = n /\ DOMAIN f = 1..n
OBVIOUS

LEMMA InTimeIsFinite ==
  ASSUME NEW times, InTime(times), NEW rows \in SUBSET (DOMAIN times)
  PROVE  /\ IsFiniteSet(rows) /\ DOMAIN times \subseteq Int
         /\ \A i \in DOMAIN times : times[i] \in Int
<1>1. PICK n \in Nat : times \in [1..n -> Int]
  BY DEF InTime
<1>2. DOMAIN times = 1..n /\ IsFiniteSet(1..n)
  BY <1>1, FS_Interval
<1>3. IsFiniteSet(rows)
  BY <1>2, FS_Subset
<1> QED BY <1>1, <1>2, <1>3

\* A count that grows from place to place and takes every value up to K.
Counts(ord, N, K) ==
  /\ ord \in [1..N -> Nat] /\ K \in Nat
  /\ \A m, n \in 1..N : m <= n => ord[m] <= ord[n]
  /\ \A k \in 1..K : \E n \in 1..N : ord[n] = k

CutBy(occ, rows, ord, N, K) ==
  /\ Len(occ) = K /\ DOMAIN occ = 1..K
  /\ \A k \in 1..K : \A a : a \in occ[k] <=> \E n \in 1..N : a = rows[n] /\ ord[n] = k

NeverBack(times, rows, N) ==
  /\ rows \in [1..N -> DOMAIN times]
  /\ \A m, n \in 1..N : m < n => times[rows[m]] <= times[rows[n]]

CountOf(heads, N) == [n \in 1..N |-> Cardinality({h \in heads : h <= n})]

\* As one goes through places, the number of heads grows and takes every value.
LEMMA HeadsAreCounted ==
  ASSUME NEW N \in Nat, NEW heads \in SUBSET (1..N)
  PROVE  Counts(CountOf(heads, N), N, Cardinality(heads))
<1> PICK ord : ord = CountOf(heads, N)
  OBVIOUS
<1> DEFINE Upto(n) == {h \in heads : h <= n}
           K == Cardinality(heads)
<1>0. IsFiniteSet(1..N)
  BY FS_Interval
<1>1. IsFiniteSet(heads) /\ K \in Nat
  BY <1>0, FS_Subset, FS_CardinalityType
<1>2. DOMAIN ord = 1..N /\ \A n \in 1..N : ord[n] = Cardinality(Upto(n))
  BY DEF CountOf
<1>a. ord = [n \in 1..N |-> ord[n]]
  BY DEF CountOf
<1>3. \A n \in 1..N : IsFiniteSet(Upto(n))
  <2>1. \A n \in 1..N : Upto(n) \in SUBSET heads
    OBVIOUS
  <2> HIDE DEF Upto
  <2> QED BY <1>1, <2>1, FS_Subset
<1>4. ASSUME NEW m \in 1..N, NEW n \in 1..N, m <= n
      PROVE  ord[m] \in Nat /\ ord[m] <= ord[n]
  <2>1. Upto(m) \in SUBSET Upto(n)
    <3>1. \A h \in heads : h \in Int /\ (h <= m => h <= n)
      BY <1>4
    <3> QED BY <3>1
  <2> HIDE DEF Upto
  <2> QED BY <1>2, <1>3, <2>1, FS_Subset, FS_CardinalityType
<1>5. ASSUME NEW k \in 1..K PROVE \E n \in 1..N : ord[n] = k
  <2> DEFINE key == [h \in heads |-> h]
             R == Ascending(key)
  <2>1. DOMAIN key = heads /\ \A h \in heads : key[h] = h
    OBVIOUS
  <2> HIDE DEF key
  <2>2. \A i, j \in heads : <<i, j>> \in R <=> i < j
    <3> SUFFICES ASSUME NEW i \in heads, NEW j \in heads PROVE <<i, j>> \in R <=> i < j
      OBVIOUS
    <3>1. <<i, j>> \in R <=> key[i] < key[j] \/ (key[i] = key[j] /\ i < j)
      BY <2>1 DEF Ascending
    <3> QED BY <2>1, <3>1
  <2>3. StrictOrder(R, heads)
    <3>1. \A i \in heads : i \in Int
      OBVIOUS
    <3>2. DOMAIN key \subseteq Int /\ \A i \in DOMAIN key : key[i] \in Int
      BY <2>1, <3>1
    <3> QED BY <2>1, <3>2, AscendingIsAnOrder
  <2> HIDE DEF R
  <2>4. PICK f : f = Sorted(R, heads)
    OBVIOUS
  <2>5. f \in [1..K -> heads] /\ \A n \in 1..K : PlaceOf(R, heads, f[n]) = n - 1
    BY <1>1, <2>3, <2>4, SortedHasEveryMember
  <2>6. PICK g : g = f[k]
    OBVIOUS
  <2>7. g \in heads /\ PlaceOf(R, heads, g) = k - 1 /\ g \in 1..N
    BY <2>5, <2>6
  <2>8. \A h \in heads : h <= g <=> <<h, g>> \in R \/ h = g
    <3> SUFFICES ASSUME NEW h \in heads PROVE h <= g <=> <<h, g>> \in R \/ h = g
      OBVIOUS
    <3>1. <<h, g>> \in R <=> h < g
      BY <2>2, <2>7
    <3>2. h \in Int /\ g \in Int
      BY <2>7
    <3> QED BY <3>1, <3>2
  <2>9. Upto(g) = Preceding(R, heads, g) \cup {g}
    <3>1. \A h : h \in Preceding(R, heads, g) <=> h \in heads /\ <<h, g>> \in R
      BY DEF Preceding
    <3> QED BY <2>7, <2>8, <3>1
  <2>10. ~(<<g, g>> \in R)
    BY <2>3, <2>7 DEF StrictOrder
  <2>11. g \notin Preceding(R, heads, g) /\ Preceding(R, heads, g) \in SUBSET heads
    BY <2>10 DEF Preceding
  <2>12. IsFiniteSet(Preceding(R, heads, g)) /\ Cardinality(Preceding(R, heads, g)) = k - 1
    BY <1>1, <2>7, <2>11, FS_Subset DEF PlaceOf
  <2> HIDE DEF Upto
  <2>13. Cardinality(Upto(g)) = k - 1 + 1
    BY <2>9, <2>11, <2>12, FS_AddElement
  <2>14. ord[g] = k
    BY <1>2, <2>7, <2>13
  <2> QED BY <2>7, <2>14
<1>6. ord \in [1..N -> Nat]
  <2>1. \A n \in 1..N : Cardinality(Upto(n)) \in Nat
    BY <1>3, FS_CardinalityType
  <2>2. \A n \in 1..N : ord[n] \in Nat
    BY <1>2, <2>1
  <2> QED BY <1>a, <2>2
<1> QED BY <1>1, <1>4, <1>5, <1>6 DEF Counts

\* Rows in order, cut by such a count, make occurrences that are not empty and
\* follow each other.
LEMMA CutsAreInTurn ==
  ASSUME NEW times, InTime(times), NEW N \in Nat, NEW rows, NeverBack(times, rows, N),
         NEW K, NEW ord, Counts(ord, N, K), NEW occ, CutBy(occ, rows, ord, N, K)
  PROVE  InTurn(times, occ)
<1> USE DEF NeverBack, Counts, CutBy
<1>1. ASSUME NEW k \in 1..K
      PROVE  occ[k] \in SUBSET (DOMAIN times) /\ IsFiniteSet(occ[k]) /\ occ[k] # {}
  <2>1. occ[k] # {}
    <3>1. PICK n \in 1..N : ord[n] = k
      OBVIOUS
    <3>2. rows[n] \in occ[k]
      BY <3>1
    <3> QED BY <3>2
  <2>2. \A a \in occ[k] : a \in DOMAIN times
    <3> SUFFICES ASSUME NEW a \in occ[k] PROVE a \in DOMAIN times
      OBVIOUS
    <3>1. PICK n \in 1..N : a = rows[n]
      OBVIOUS
    <3> QED BY <3>1
  <2> QED BY <2>1, <2>2, InTimeIsFinite
<1>2. ASSUME NEW j \in 1..K, NEW k \in 1..K, j < k, NEW a \in occ[j], NEW b \in occ[k]
      PROVE  times[a] <= times[b]
  <2>1. PICK m \in 1..N : a = rows[m] /\ ord[m] = j
    OBVIOUS
  <2>2. PICK n \in 1..N : b = rows[n] /\ ord[n] = k
    OBVIOUS
  <2>3. m < n
    <3> SUFFICES ASSUME n <= m PROVE FALSE
      OBVIOUS
    <3>1. ord[n] <= ord[m]
      OBVIOUS
    <3> QED BY <1>2, <2>1, <2>2, <3>1
  <2> QED BY <2>1, <2>2, <2>3
<1> QED BY <1>1, <1>2 DEF InTurn

LEMMA OccurrencesAreInTurn ==
  ASSUME NEW times, InTime(times), NEW selected \in SUBSET (DOMAIN times), NEW gap
  PROVE  InTurn(times, Occurrences(times, InOrder(times, selected), gap))
<1> DEFINE rows == InOrder(times, selected)
           N == Cardinality(selected)
           heads == Heads(times, rows, gap)
           occ == Occurrences(times, rows, gap)
<1>1. /\ IsFiniteSet(selected) /\ DOMAIN times \subseteq Int
      /\ \A i \in DOMAIN times : times[i] \in Int
  BY InTimeIsFinite
<1>2. /\ N \in Nat /\ rows \in [1..N -> selected]
      /\ \A m, n \in 1..N : m < n => Follows(times, rows[m], rows[n])
  BY <1>1, RowsInOrder
<1> HIDE DEF rows, N
<1>3. \A m, n \in 1..N : m < n => times[rows[m]] <= times[rows[n]]
  <2> SUFFICES ASSUME NEW m \in 1..N, NEW n \in 1..N, m < n
               PROVE  times[rows[m]] <= times[rows[n]]
    OBVIOUS
  <2>1. rows[m] \in DOMAIN times /\ rows[n] \in DOMAIN times /\ Follows(times, rows[m], rows[n])
    BY <1>2
  <2>2. times[rows[m]] \in Int /\ times[rows[n]] \in Int
    BY <1>1, <2>1
  <2> QED BY <2>1, <2>2 DEF Follows
<1>4. DOMAIN rows = 1..N /\ rows \in [1..N -> DOMAIN times]
  BY <1>2
<1>5. heads \in SUBSET (1..N)
  BY <1>4 DEF Heads
<1> DEFINE K == Cardinality(heads)
           ord == [n \in 1..N |-> Cardinality({h \in heads : h <= n})]
<1>6. occ = [k \in 1..K |->
               {rows[n] : n \in {m \in 1..N : Cardinality({h \in heads : h <= m}) = k}}]
  BY <1>4 DEF Occurrences
<1> HIDE DEF heads, occ
<1>7. Counts(ord, N, K)
  BY <1>2, <1>5, HeadsAreCounted DEF CountOf
<1>8. \A m \in 1..N : Cardinality({h \in heads : h <= m}) = ord[m]
  OBVIOUS
<1>9. \A k \in 1..K : {m \in 1..N : Cardinality({h \in heads : h <= m}) = k}
                        = {m \in 1..N : ord[m] = k}
  BY <1>8
<1>10. occ = [k \in 1..K |-> {rows[n] : n \in {m \in 1..N : ord[m] = k}}]
  BY <1>6, <1>9
<1> HIDE DEF ord, K
<1>11. /\ \A k \in 1..K : \A a : a \in occ[k] <=> \E n \in 1..N : a = rows[n] /\ ord[n] = k
       /\ DOMAIN occ = 1..K
  BY <1>10
<1>12. Len(occ) = K
  BY <1>7, <1>10 DEF Counts
<1>13. CutBy(occ, rows, ord, N, K)
  BY <1>11, <1>12 DEF CutBy
<1>14. N \in Nat /\ NeverBack(times, rows, N)
  BY <1>2, <1>3, <1>4 DEF NeverBack
<1>15. InTurn(times, occ)
  BY <1>7, <1>13, <1>14, CutsAreInTurn
<1> QED BY <1>15 DEF occ, rows

LEMMA ImageIsFinite ==
  ASSUME NEW f, NEW S, IsFiniteSet(S), S \subseteq DOMAIN f
  PROVE  IsFiniteSet({f[x] : x \in S})
<1> DEFINE T == {f[x] : x \in S}
           g == [x \in S |-> f[x]]
<1>1. g \in [S -> T]
  OBVIOUS
<1>2. \A t \in T : \E s \in S : g[s] = t
  OBVIOUS
<1> HIDE DEF g, T
<1>3. g \in Surjection(S, T)
  BY <1>1, <1>2 DEF Surjection
<1>4. IsFiniteSet(T)
  BY <1>3, FS_Surjection
<1> QED BY <1>4 DEF T

Span(times, occ) ==
  \A k \in 1..Len(occ) :
    /\ StartOf(times, occ[k]) \in Int /\ EndOf(times, occ[k]) \in Int
    /\ \A a \in occ[k] : StartOf(times, occ[k]) <= times[a] /\ times[a] <= EndOf(times, occ[k])
    /\ \A j \in 1..Len(occ) : j <= k => /\ StartOf(times, occ[j]) <= StartOf(times, occ[k])
                                        /\ EndOf(times, occ[j]) <= EndOf(times, occ[k])

LEMMA OccurrencesSpan ==
  ASSUME NEW times, InTime(times), NEW occ, InTurn(times, occ)
  PROVE  Span(times, occ)
<1>1. ASSUME NEW k \in 1..Len(occ)
      PROVE  /\ \E a \in occ[k] : StartOf(times, occ[k]) = times[a]
             /\ \E a \in occ[k] : EndOf(times, occ[k]) = times[a]
             /\ \A a \in occ[k] : /\ times[a] \in Int /\ StartOf(times, occ[k]) <= times[a]
                                  /\ times[a] <= EndOf(times, occ[k])
  <2>1. occ[k] \subseteq DOMAIN times /\ occ[k] # {} /\ IsFiniteSet(occ[k])
    BY DEF InTurn
  <2>2. \A a \in DOMAIN times : times[a] \in Int
    BY InTimeIsFinite
  <2> DEFINE S == {times[i] : i \in occ[k]}
  <2>3. S \in SUBSET Int /\ S # {} /\ IsFiniteSet(S)
    BY <2>1, <2>2, ImageIsFinite
  <2>4. /\ Min(S) \in S /\ \A x \in S : Min(S) <= x
        /\ Max(S) \in S /\ \A x \in S : x <= Max(S)
    <3> HIDE DEF S
    <3> QED BY <2>3, Extremes
  <2>5. StartOf(times, occ[k]) = Min(S) /\ EndOf(times, occ[k]) = Max(S)
    BY DEF StartOf, EndOf
  <2>6. PICK low, high : low = Min(S) /\ high = Max(S)
    OBVIOUS
  <2>7. /\ low \in S /\ \A x \in S : low <= x
        /\ high \in S /\ \A x \in S : x <= high
    BY <2>4, <2>6
  <2> QED BY <2>1, <2>2, <2>5, <2>6, <2>7
<1>2. ASSUME NEW k \in 1..Len(occ), NEW j \in 1..Len(occ), j <= k
      PROVE  /\ StartOf(times, occ[j]) <= StartOf(times, occ[k])
             /\ EndOf(times, occ[j]) <= EndOf(times, occ[k])
  <2>1. PICK a \in occ[k] : StartOf(times, occ[k]) = times[a]
    BY <1>1
  <2>2. PICK b \in occ[j] : EndOf(times, occ[j]) = times[b]
    BY <1>1
  <2>3. CASE j = k
    BY <1>1, <2>3
  <2>4. CASE j # k
    <3>1. j < k
      BY <1>2, <2>4 DEF InTurn
    <3>2. PICK c \in occ[j] : StartOf(times, occ[j]) = times[c]
      BY <1>1
    <3>3. PICK d \in occ[k] : EndOf(times, occ[k]) = times[d]
      BY <1>1
    <3>4. times[c] <= times[a] /\ times[b] <= times[d]
      BY <3>1 DEF InTurn
    <3> QED BY <2>1, <2>2, <3>2, <3>3, <3>4
  <2> QED BY <2>3, <2>4
<1>3. \A k \in 1..Len(occ) : StartOf(times, occ[k]) \in Int /\ EndOf(times, occ[k]) \in Int
  BY <1>1
<1> QED BY <1>1, <1>2, <1>3 DEF Span

\* The boundary lies where it is looked for.
LEMMA BoundaryIsWithin ==
  ASSUME NEW times, InTime(times), NEW occ, InTurn(times, occ), NEW share \in Int,
         NEW first \in Int, NEW last \in Int, 1 <= first, first <= last, last <= Len(occ)
  PROVE  NearestBoundary(occ, share, first, last) \in first..last
<1>1. ASSUME NEW b \in Int, b <= Len(occ) PROVE Cumulative(occ, b) \in Int
  <2> DEFINE U == UNION {occ[n] : n \in 1..b}
  <2>1. U \in SUBSET (DOMAIN times)
    <3>1. \A n \in 1..b : n \in 1..Len(occ)
      BY <1>1 DEF InTurn
    <3>2. \A n \in 1..b : occ[n] \subseteq DOMAIN times
      BY <3>1 DEF InTurn
    <3> QED BY <3>2
  <2>2. IsFiniteSet(U)
    <3> HIDE DEF U
    <3> QED BY <2>1, InTimeIsFinite
  <2> QED BY <2>2, FS_CardinalityType DEF Cumulative
<1> DEFINE aim == share * Cumulative(occ, Len(occ))
           D(b) == Parts * Cumulative(occ, b) - aim
           miss == [b \in first..last |-> IF D(b) < 0 THEN -D(b) ELSE D(b)]
<1>2. aim \in Int
  BY <1>1 DEF InTurn
<1>3. DOMAIN miss = first..last /\ \A b \in first..last : miss[b] \in Int
  <2> HIDE DEF aim
  <2>1. \A b \in first..last : D(b) \in Int
    <3> SUFFICES ASSUME NEW b \in first..last PROVE D(b) \in Int
      OBVIOUS
    <3>1. Cumulative(occ, b) \in Int
      BY <1>1 DEF InTurn
    <3> QED BY <1>2, <3>1 DEF Parts
  <2> QED BY <2>1
<1>4. NearestBoundary(occ, share, first, last) = InOrder(miss, first..last)[1]
  BY DEF NearestBoundary
<1> HIDE DEF miss
<1>5. IsFiniteSet(first..last) /\ Cardinality(first..last) = last - first + 1
  BY FS_Interval
<1>6. /\ Cardinality(first..last) \in Nat
      /\ InOrder(miss, first..last) \in [1..Cardinality(first..last) -> first..last]
  BY <1>3, <1>5, RowsInOrder
<1>7. 1 \in 1..Cardinality(first..last)
  BY <1>5
<1> QED BY <1>4, <1>6, <1>7

\* Where a stream is divided: after the first and the second boundary, and
\* without the occurrences too near the next partition.
DividedAt(times, occ, split, first, second, gap) ==
  /\ first \in 1..Len(occ) /\ second \in 1..Len(occ) /\ first < second /\ second < Len(occ)
  /\ DOMAIN split = 1..Len(occ)
  /\ \A n \in 1..Len(occ) :
       /\ n > second => split[n] = "test"
       /\ split[n] = "test" => n > second
       /\ split[n] = "validation" => n > first /\ ~Purged(times, occ, n, second, Max({gap, 0}))
       /\ split[n] = "train" => n <= first /\ ~Purged(times, occ, n, first, Max({gap, 0}))
  /\ \E n \in 1..Len(occ) : split[n] = "train"
  /\ \E n \in 1..Len(occ) : split[n] = "validation"

LEMMA SplitIsDivided ==
  ASSUME NEW times, InTime(times), NEW occ, InTurn(times, occ), NEW gap,
         Split(times, occ, gap) # NoSplit
  PROVE  \E first, second \in 1..Len(occ) :
           DividedAt(times, occ, Split(times, occ, gap), first, second, gap)
<1>0. Len(occ) \in Nat /\ DOMAIN occ = 1..Len(occ)
  BY DEF InTurn
<1>1. Len(occ) >= 3
  BY <1>0 DEF Split
<1> DEFINE first == NearestBoundary(occ, TrainShare, 1, Len(occ) - 2)
           second == NearestBoundary(occ, TrainAndValidationShare, first + 1, Len(occ) - 1)
           least == Max({gap, 0})
           split == [n \in DOMAIN occ |->
                       CASE n > second -> "test"
                         [] n > first /\ n <= second ->
                              IF Purged(times, occ, n, second, least) THEN "purge" ELSE "validation"
                         [] OTHER -> IF Purged(times, occ, n, first, least) THEN "purge" ELSE "train"]
<1>2. first \in 1..Len(occ) - 2
  BY <1>0, <1>1, BoundaryIsWithin DEF TrainShare
<1> HIDE DEF first
<1>3. second \in first + 1..Len(occ) - 1
  <2>1. /\ first + 1 \in Int /\ Len(occ) - 1 \in Int /\ 1 <= first + 1 /\ first + 1 <= Len(occ) - 1
        /\ Len(occ) - 1 <= Len(occ) /\ TrainAndValidationShare \in Int
    BY <1>0, <1>1, <1>2 DEF TrainAndValidationShare
  <2> QED BY <2>1, BoundaryIsWithin
<1> HIDE DEF second, least
<1>4. first \in Int /\ second \in Int /\ first < second
  BY <1>0, <1>2, <1>3
<1>5. /\ Split(times, occ, gap) = IF {"train", "validation"} \subseteq ToSet(split) THEN split ELSE NoSplit
  BY <1>0, <1>1 DEF Split, first, second, least
<1>6. Split(times, occ, gap) = split /\ "train" \in ToSet(split) /\ "validation" \in ToSet(split)
  BY <1>5
<1>7. DOMAIN split = 1..Len(occ)
  BY <1>0
<1>8. ASSUME NEW n \in 1..Len(occ)
      PROVE  split[n] = IF n > second THEN "test"
                        ELSE IF n > first
                        THEN IF Purged(times, occ, n, second, least) THEN "purge" ELSE "validation"
                        ELSE IF Purged(times, occ, n, first, least) THEN "purge" ELSE "train"
  <2>1. n \in DOMAIN occ /\ n \in Int
    BY <1>0
  <2>2. split[n] = CASE n > second -> "test"
                     [] n > first /\ n <= second ->
                          IF Purged(times, occ, n, second, least) THEN "purge" ELSE "validation"
                     [] OTHER -> IF Purged(times, occ, n, first, least) THEN "purge" ELSE "train"
    BY <2>1
  <2> HIDE DEF split
  <2>3. CASE n > second
    <3>1. ~(n > first /\ n <= second)
      BY <1>4, <2>1, <2>3
    <3> QED BY <2>2, <2>3, <3>1
  <2>4. CASE n > first /\ n <= second
    <3>1. ~(n > second)
      BY <1>4, <2>1, <2>4
    <3> QED BY <2>2, <2>4, <3>1
  <2>5. CASE ~(n > second) /\ ~(n > first /\ n <= second)
    <3>1. ~(n > first)
      BY <1>4, <2>1, <2>5
    <3> QED BY <2>2, <2>5, <3>1
  <2> QED BY <2>3, <2>4, <2>5
<1> HIDE DEF split
<1>9. \A p \in ToSet(split) : \E n \in 1..Len(occ) : split[n] = p
  BY <1>7 DEF ToSet
<1>10. ASSUME NEW n \in 1..Len(occ)
       PROVE  /\ n > second => split[n] = "test"
              /\ split[n] = "test" => n > second
              /\ split[n] = "validation" => n > first /\ ~Purged(times, occ, n, second, least)
              /\ split[n] = "train" => n <= first /\ ~Purged(times, occ, n, first, least)
  <2>1. n \in Int /\ (n <= first <=> ~(n > first))
    BY <1>0, <1>4
  <2> QED BY <1>8, <2>1
<1>11. first \in 1..Len(occ) /\ second \in 1..Len(occ) /\ second < Len(occ)
  BY <1>0, <1>2, <1>3
<1>12. DividedAt(times, occ, split, first, second, gap)
  BY <1>4, <1>6, <1>7, <1>9, <1>10, <1>11 DEF DividedAt, least
<1> QED BY <1>6, <1>11, <1>12

Members(occ, split, p) == UNION {occ[n] : n \in {m \in DOMAIN split : split[m] = p}}

\* An occurrence that was not purged is clear of the next partition.
LEMMA KeptIsClear ==
  ASSUME NEW times, InTime(times), NEW occ, InTurn(times, occ), NEW gap \in Int,
         NEW n \in 1..Len(occ), NEW end \in 1..Len(occ) - 1, NEW m \in 1..Len(occ),
         n <= end, end < m, ~Purged(times, occ, n, end, Max({gap, 0})),
         NEW a \in occ[n], NEW b \in occ[m]
  PROVE  times[b] > times[a] /\ Parts * (times[b] - times[a]) >= gap
<1>1. Span(times, occ) /\ Len(occ) \in Nat
  BY OccurrencesSpan DEF InTurn
<1>2. PICK least : least = Max({gap, 0})
  OBVIOUS
<1>3. least \in Int /\ least >= gap
  <2>1. {gap, 0} \in SUBSET Int /\ {gap, 0} # {} /\ IsFiniteSet({gap, 0})
    <3>1. IsFiniteSet({gap} \cup {0})
      BY FS_Singleton, FS_AddElement
    <3>2. {gap, 0} = {gap} \cup {0}
      OBVIOUS
    <3> QED BY <3>1, <3>2
  <2>2. Max({gap, 0}) \in {gap, 0} /\ \A x \in {gap, 0} : x <= Max({gap, 0})
    BY <2>1, Extremes
  <2> QED BY <1>2, <2>2
<1>4. PICK q \in n..end : Clear(StartOf(times, occ[end + 1]) - EndOf(times, occ[q]), least)
  BY <1>2 DEF Purged
<1>5. q \in 1..Len(occ) /\ end + 1 \in 1..Len(occ) /\ n <= q /\ end + 1 <= m
  BY <1>1, <1>4
<1>6. PICK x, y : x = StartOf(times, occ[end + 1]) /\ y = EndOf(times, occ[q])
  OBVIOUS
<1>7. x \in Int /\ y \in Int /\ times[a] <= y /\ x <= times[b] /\ times[a] \in Int /\ times[b] \in Int
  <2>1. /\ StartOf(times, occ[m]) \in Int /\ StartOf(times, occ[m]) <= times[b]
        /\ EndOf(times, occ[n]) \in Int /\ times[a] <= EndOf(times, occ[n])
        /\ x \in Int /\ y \in Int
    BY <1>1, <1>5, <1>6 DEF Span
  <2>2. x <= StartOf(times, occ[m]) /\ EndOf(times, occ[n]) <= y
    BY <1>1, <1>5, <1>6 DEF Span
  <2>3. times[a] \in Int /\ times[b] \in Int
    <3>1. a \in DOMAIN times /\ b \in DOMAIN times
      BY DEF InTurn
    <3> QED BY <3>1, InTimeIsFinite
  <2> QED BY <2>1, <2>2, <2>3
<1>8. x - y > 0 /\ Parts * (x - y) >= least
  BY <1>4, <1>6 DEF Clear
<1> QED BY <1>3, <1>7, <1>8 DEF Parts

LEMMA PartitionsAreApart ==
  ASSUME NEW times, InTime(times), NEW occ, InTurn(times, occ), NEW gap \in Int,
         NEW split, split = Split(times, occ, gap), split # NoSplit
  PROVE  /\ \A p \in {"train", "validation", "test"} : Members(occ, split, p) # {}
         /\ \A a \in Members(occ, split, "train"), b \in Members(occ, split, "validation") :
              times[b] > times[a] /\ Parts * (times[b] - times[a]) >= gap
         /\ \A a \in Members(occ, split, "validation"), b \in Members(occ, split, "test") :
              times[b] > times[a] /\ Parts * (times[b] - times[a]) >= gap
<1>1. PICK first, second \in 1..Len(occ) : DividedAt(times, occ, split, first, second, gap)
  BY SplitIsDivided
<1>2. Len(occ) \in Nat /\ DOMAIN split = 1..Len(occ)
  BY <1>1 DEF DividedAt, InTurn
<1>3. first \in 1..Len(occ) - 1 /\ second \in 1..Len(occ) - 1 /\ first < second
  BY <1>1, <1>2 DEF DividedAt
<1>4. \A n \in 1..Len(occ) :
        /\ split[n] = "test" => n > second
        /\ split[n] = "validation" => n > first /\ n <= second
        /\ split[n] = "train" => n <= first
  <2> SUFFICES ASSUME NEW n \in 1..Len(occ)
               PROVE  /\ split[n] = "test" => n > second
                      /\ split[n] = "validation" => n > first /\ n <= second
                      /\ split[n] = "train" => n <= first
    OBVIOUS
  <2>1. split[n] = "validation" => ~(n > second)
    BY <1>1 DEF DividedAt
  <2>2. ~(n > second) => n <= second
    BY <1>2, <1>3
  <2> QED BY <1>1, <2>1, <2>2 DEF DividedAt
<1>5. \A p : \A a : a \in Members(occ, split, p) <=> \E n \in 1..Len(occ) : split[n] = p /\ a \in occ[n]
  BY <1>2 DEF Members
<1>6. ASSUME NEW p \in {"train", "validation", "test"} PROVE Members(occ, split, p) # {}
  <2>1. \E n \in 1..Len(occ) : split[n] = p
    <3>1. CASE p = "test"
      <4>1. Len(occ) \in 1..Len(occ) /\ Len(occ) > second
        BY <1>2, <1>3
      <4> QED BY <1>1, <3>1, <4>1 DEF DividedAt
    <3> QED BY <1>1, <3>1 DEF DividedAt
  <2>2. PICK n \in 1..Len(occ) : split[n] = p
    BY <2>1
  <2>3. PICK a : a \in occ[n]
    BY DEF InTurn
  <2> QED BY <1>5, <2>2, <2>3
<1>7. ASSUME NEW a \in Members(occ, split, "train"), NEW b \in Members(occ, split, "validation")
      PROVE  times[b] > times[a] /\ Parts * (times[b] - times[a]) >= gap
  <2>1. PICK n \in 1..Len(occ) : split[n] = "train" /\ a \in occ[n]
    BY <1>5
  <2>2. PICK m \in 1..Len(occ) : split[m] = "validation" /\ b \in occ[m]
    BY <1>5
  <2>3. n <= first /\ first < m /\ ~Purged(times, occ, n, first, Max({gap, 0}))
    BY <1>1, <1>4, <2>1, <2>2 DEF DividedAt
  <2> QED BY <1>3, <2>1, <2>2, <2>3, KeptIsClear
<1>8. ASSUME NEW a \in Members(occ, split, "validation"), NEW b \in Members(occ, split, "test")
      PROVE  times[b] > times[a] /\ Parts * (times[b] - times[a]) >= gap
  <2>1. PICK n \in 1..Len(occ) : split[n] = "validation" /\ a \in occ[n]
    BY <1>5
  <2>2. PICK m \in 1..Len(occ) : split[m] = "test" /\ b \in occ[m]
    BY <1>5
  <2>3. n <= second /\ second < m /\ ~Purged(times, occ, n, second, Max({gap, 0}))
    BY <1>1, <1>4, <2>1, <2>2 DEF DividedAt
  <2> QED BY <1>3, <2>1, <2>2, <2>3, KeptIsClear
<1> QED BY <1>6, <1>7, <1>8

LEMMA ExtremesOfTwo ==
  ASSUME NEW a \in Int, NEW b \in Int
  PROVE  /\ Min({a, b}) \in Int /\ Min({a, b}) <= a /\ Min({a, b}) <= b
         /\ Max({a, b}) \in Int /\ Max({a, b}) >= a /\ Max({a, b}) >= b
         /\ Min({a, b}) \in {a, b} /\ Max({a, b}) \in {a, b}
<1>1. {a, b} \in SUBSET Int /\ {a, b} # {} /\ IsFiniteSet({a, b})
  <2>1. IsFiniteSet({a} \cup {b})
    BY FS_Singleton, FS_AddElement
  <2>2. {a, b} = {a} \cup {b}
    OBVIOUS
  <2> QED BY <2>1, <2>2
<1>2. /\ Min({a, b}) \in {a, b} /\ \A x \in {a, b} : Min({a, b}) <= x
      /\ Max({a, b}) \in {a, b} /\ \A x \in {a, b} : x <= Max({a, b})
  BY <1>1, Extremes
<1> QED BY <1>2

LEMMA QuantileIsInt ==
  ASSUME NEW L \in Nat \ {0}, NEW seq \in [1..L -> Int], NEW p \in {5, 10, 15, 19}
  PROVE  Quantile(seq, p) \in Int
<1> DEFINE position == (L - 1) * p
           lower == position \div 20 + 1
<1>1. Len(seq) = L
  OBVIOUS
<1>2. position \in Nat /\ position <= 19 * (L - 1)
  <2>1. CASE p = 5
    BY <2>1
  <2>2. CASE p = 10
    BY <2>2
  <2>3. CASE p = 15
    BY <2>3
  <2>4. CASE p = 19
    BY <2>4
  <2> QED BY <2>1, <2>2, <2>3, <2>4
<1> HIDE DEF position
<1>3. lower \in 1..L /\ position % 20 \in Int
  BY <1>2
<1> HIDE DEF lower
<1>4. PICK upper : upper = Min({lower + 1, L})
  OBVIOUS
<1>5. upper \in 1..L
  <2>1. PICK next : next = lower + 1
    OBVIOUS
  <2>2. next \in Int /\ next >= 1 /\ L \in Int /\ upper = Min({next, L})
    BY <1>3, <1>4, <2>1
  <2>3. upper \in {next, L} /\ upper <= L /\ upper \in Int
    BY <2>2, ExtremesOfTwo
  <2> QED BY <2>2, <2>3
<1>6. Quantile(seq, p) = 20 * seq[lower] + (seq[upper] - seq[lower]) * (position % 20)
  BY <1>1, <1>4 DEF Quantile, position, lower, Parts
<1>7. seq[lower] \in Int /\ seq[upper] \in Int
  BY <1>3, <1>5
<1> QED BY <1>3, <1>6, <1>7

LEMMA GapIsInt ==
  ASSUME NEW times, InTime(times), NEW N \in Nat, NEW rows \in [1..N -> DOMAIN times]
  PROVE  GapOf(times, rows) \in Int
<1> DEFINE deltas == [n \in 1..N - 1 |-> times[rows[n + 1]] - times[rows[n]]]
           apart == {n \in DOMAIN deltas : deltas[n] > 0}
           order == InOrder(deltas, apart)
           M == Cardinality(apart)
           found == [n \in DOMAIN order |-> deltas[order[n]]]
<1>1. DOMAIN deltas = 1..N - 1 /\ \A n \in 1..N - 1 : deltas[n] \in Int
  <2>1. \A n \in 1..N - 1 : times[rows[n + 1]] \in Int /\ times[rows[n]] \in Int
    <3>1. \A n \in 1..N - 1 : rows[n + 1] \in DOMAIN times /\ rows[n] \in DOMAIN times
      OBVIOUS
    <3> QED BY <3>1, InTimeIsFinite
  <2> QED BY <2>1
<1>2. Len(rows) = N
  OBVIOUS
<1>3. PositiveDeltas(times, rows) = found
  BY <1>2 DEF PositiveDeltas, Increasing
<1> HIDE DEF deltas
<1>4. apart \in SUBSET (1..N - 1) /\ IsFiniteSet(apart) /\ apart \in SUBSET (DOMAIN deltas)
  <2>1. apart \in SUBSET (1..N - 1) /\ IsFiniteSet(1..N - 1)
    BY <1>1, FS_Interval
  <2> HIDE DEF apart
  <2> QED BY <1>1, <2>1, FS_Subset
<1> HIDE DEF apart
<1>5. M \in Nat /\ order \in [1..M -> apart]
  <2>1. DOMAIN deltas \subseteq Int /\ \A n \in DOMAIN deltas : deltas[n] \in Int
    BY <1>1
  <2> QED BY <1>4, <2>1, RowsInOrder
<1> HIDE DEF order, M
<1>6. found \in [1..M -> Int]
  BY <1>1, <1>4, <1>5
<1> HIDE DEF found
<1>7. CASE found = <<>>
  BY <1>3, <1>7 DEF GapOf
<1>8. CASE found # <<>>
  <2>1. M # 0
    BY <1>5, <1>6, <1>8
  <2>2. Quantile(found, 10) \in Int /\ Quantile(found, 19) \in Int
    BY <1>5, <1>6, <2>1, QuantileIsInt
  <2>3. Parts \div 2 = 10 /\ GapQuantile = 19 /\ GapMultiplier = 5
    BY DEF Parts, GapQuantile, GapMultiplier
  <2>4. PICK a, b : a = Quantile(found, 10) /\ b = Quantile(found, 19)
    OBVIOUS
  <2>5. GapOf(times, rows) = Max({5 * a, b})
    BY <1>3, <1>8, <2>3, <2>4 DEF GapOf
  <2>6. PICK c : c = 5 * a
    OBVIOUS
  <2>7. c \in Int /\ b \in Int
    BY <2>2, <2>4, <2>6
  <2> QED BY <2>5, <2>6, <2>7, ExtremesOfTwo
<1> QED BY <1>7, <1>8

LEMMA TextsAreInTime ==
  ASSUME NEW times, InTime(times)
  PROVE  InTime(Texts(times)) /\ DOMAIN Texts(times) = DOMAIN times
<1>1. PICK n \in Nat : times \in [1..n -> Int]
  BY DEF InTime
<1>2. \A i \in 1..n : TextRank(times[i]) \in Int
  BY <1>1 DEF TextRank
<1>3. Texts(times) \in [1..n -> Int] /\ DOMAIN Texts(times) = DOMAIN times
  BY <1>1, <1>2 DEF Texts
<1> QED BY <1>3 DEF InTime

\* Rows in time that never go back as texts are in the order of their texts.
LEMMA TimeOrderIsTextOrder ==
  ASSUME NEW times, InTime(times), NEW selected \in SUBSET (DOMAIN times),
         NEW rows, rows = InOrder(times, selected),
         \A m, n \in DOMAIN rows : m < n => ~EarlierAsText(times, rows[n], rows[m])
  PROVE  rows = InTextOrder(times, selected)
<1> DEFINE N == Cardinality(selected)
<1>1. IsFiniteSet(selected) /\ DOMAIN times \subseteq Int /\ \A i \in DOMAIN times : times[i] \in Int
  BY InTimeIsFinite
<1>2. /\ N \in Nat /\ rows \in [1..N -> selected] /\ DOMAIN rows = 1..N
      /\ \A m, n \in 1..N : m < n => rows[m] # rows[n]
      /\ \A i \in selected : \E n \in 1..N : rows[n] = i
  <2>1. /\ N \in Nat /\ rows \in [1..N -> selected]
        /\ \A m, n \in 1..N : m < n => rows[m] # rows[n]
        /\ \A i \in selected : \E n \in 1..N : rows[n] = i
    BY <1>1, RowsInOrder
  <2> QED BY <2>1
<1>3. PICK texts : texts = Texts(times)
  OBVIOUS
<1>4. /\ DOMAIN texts = DOMAIN times
      /\ \A i \in DOMAIN texts : texts[i] \in Int
  BY <1>3, TextsAreInTime, InTimeIsFinite
<1>5. \A m, n \in 1..N : m < n => Follows(texts, rows[m], rows[n])
  <2> SUFFICES ASSUME NEW m \in 1..N, NEW n \in 1..N, m < n
               PROVE  Follows(texts, rows[m], rows[n])
    OBVIOUS
  <2>1. rows[m] \in DOMAIN texts /\ rows[n] \in DOMAIN texts /\ rows[m] # rows[n]
    BY <1>2, <1>4
  <2>2. ~(<<rows[n], rows[m]>> \in Ascending(texts))
    BY <1>2, <1>3 DEF EarlierAsText
  <2>3. StrictOrder(Ascending(texts), DOMAIN texts)
    BY <1>1, <1>4, AscendingIsAnOrder
  <2>4. <<rows[m], rows[n]>> \in Ascending(texts)
    BY <2>1, <2>2, <2>3 DEF StrictOrder
  <2> QED BY <2>4 DEF Ascending, Follows
<1> HIDE DEF N
<1>6. rows = InOrder(texts, selected)
  <2>1. DOMAIN texts \subseteq Int /\ selected \in SUBSET (DOMAIN texts)
    BY <1>1, <1>4
  <2>2. Lists(texts, rows, N, selected)
    BY <1>2, <1>5 DEF Lists
  <2> QED BY <1>4, <2>1, <2>2, OnlyRowsInOrder
<1> QED BY <1>3, <1>6 DEF InTextOrder

-----------------------------------------------------------------------------
(* The build.                                                              *)

IsRecord(r) ==
  /\ r = [time |-> r.time, id |-> r.id, value |-> r.value, paired |-> r.paired, label |-> r.label]
  /\ r.time \in Int /\ r.value \in Int
IsSource(s) == \E n \in Nat : DOMAIN s = 1..n /\ \A i \in 1..n : IsRecord(s[i])

\* A dataset is the turn of its own gap.
Own(s, d) ==
  \E gap \in Int : /\ Turn(s, gap).split # NoSplit /\ Turn(s, gap).gap = gap
                   /\ d = Fitting(s, Turn(s, gap))

Slots == {"phase", "gap", "seen", "data"}
BuildOK ==
  /\ DOMAIN source = Versions /\ DOMAIN build = Versions
  /\ \A v \in Versions :
       /\ IsSource(source[v])
       /\ DOMAIN build[v] = Slots
       /\ build[v].phase \in {"fitted", "built"} => Own(source[v], build[v].data)

LEMMA SourceIsInTime == ASSUME NEW s, IsSource(s) PROVE InTime(Times(s)) /\ DOMAIN Times(s) = DOMAIN s
<1>1. PICK n \in Nat : DOMAIN s = 1..n /\ \A i \in 1..n : s[i].time \in Int
  BY DEF IsSource, IsRecord
<1>2. Times(s) \in [1..n -> Int] /\ DOMAIN Times(s) = DOMAIN s
  BY <1>1 DEF Times
<1> QED BY <1>2 DEF InTime

\* What a turn is made of.
LEMMA TurnIsSplit ==
  ASSUME NEW s, IsSource(s), NEW gap, Turn(s, gap).split # NoSplit
  PROVE  LET occ == Cut(s, gap)
             split == Split(Times(s), occ, gap)
         IN  /\ InTurn(Times(s), occ)
             /\ Turn(s, gap).occurrences = occ /\ Turn(s, gap).split = split /\ split # NoSplit
             /\ \A p : /\ Members(occ, split, p) \in SUBSET (DOMAIN s)
                       /\ RowsOf(Times(s), occ, split, p) = InOrder(Times(s), Members(occ, split, p))
             /\ Turn(s, gap).fit = RowsOf(Times(s), occ, split, "train")
             /\ Turn(s, gap).gap = GapOf(Times(s), Turn(s, gap).fit) /\ Turn(s, gap).gap \in Int
<1> PICK times : times = Times(s)
  OBVIOUS
<1> PICK occ : occ = Cut(s, gap)
  OBVIOUS
<1> PICK split : split = Split(times, occ, gap)
  OBVIOUS
<1>1. InTime(times) /\ DOMAIN times = DOMAIN s
  BY SourceIsInTime
<1>2. InTurn(times, occ)
  <2>1. Eligible(s) \in SUBSET (DOMAIN times)
    BY <1>1 DEF Eligible
  <2> QED BY <1>1, <2>1, OccurrencesAreInTurn DEF Cut
<1>3. Turn(s, gap) = [occurrences |-> occ, split |-> split, fit |-> RowsOf(times, occ, split, "train"),
                      gap |-> GapOf(times, RowsOf(times, occ, split, "train"))]
  BY DEF Turn
<1>4. split # NoSplit
  BY <1>3
<1>5. DOMAIN split = 1..Len(occ)
  <2>1. \E first, second \in 1..Len(occ) : DividedAt(times, occ, split, first, second, gap)
    BY <1>1, <1>2, <1>4, SplitIsDivided
  <2> QED BY <2>1 DEF DividedAt
<1>6. ASSUME NEW p
      PROVE  /\ Members(occ, split, p) \in SUBSET (DOMAIN s)
             /\ RowsOf(times, occ, split, p) = InOrder(times, Members(occ, split, p))
  BY <1>1, <1>2, <1>5 DEF Members, RowsOf, InTurn
<1> PICK fit : fit = RowsOf(times, occ, split, "train")
  OBVIOUS
<1>7. GapOf(times, fit) \in Int
  <2> PICK train : train = Members(occ, split, "train")
    OBVIOUS
  <2>1. train \in SUBSET (DOMAIN times) /\ fit = InOrder(times, train)
    BY <1>1, <1>6
  <2>2. IsFiniteSet(train) /\ DOMAIN times \subseteq Int /\ \A i \in DOMAIN times : times[i] \in Int
    BY <1>1, <2>1, InTimeIsFinite
  <2>3. Cardinality(train) \in Nat /\ fit \in [1..Cardinality(train) -> train]
    BY <2>1, <2>2, RowsInOrder
  <2>4. fit \in [1..Cardinality(train) -> DOMAIN times]
    BY <2>1, <2>3
  <2> QED BY <1>1, <2>3, <2>4, GapIsInt
<1>8. /\ Turn(s, gap).occurrences = occ /\ Turn(s, gap).split = split
      /\ Turn(s, gap).fit = fit /\ Turn(s, gap).gap = GapOf(times, fit)
  BY <1>3
<1> QED BY <1>2, <1>4, <1>6, <1>7, <1>8

Three == {"train", "validation", "test"}

\* What its own dataset holds.
OwnFit(s, d) ==
  /\ d.gap \in Int
  /\ d.occurrences = Cut(s, d.gap) /\ InTurn(Times(s), d.occurrences)
  /\ d.split = Split(Times(s), d.occurrences, d.gap) /\ d.split # NoSplit
  /\ d.fit = RowsOf(Times(s), d.occurrences, d.split, "train")
  /\ d.gap = GapOf(Times(s), d.fit)
  /\ d.fences = FencesOf(s, d.fit)
  /\ \A p \in Three : /\ Members(d.occurrences, d.split, p) \in SUBSET (DOMAIN s)
                      /\ d.rows[p] = RowsOf(Times(s), d.occurrences, d.split, p)
                      /\ d.rows[p] = InOrder(Times(s), Members(d.occurrences, d.split, p))

LEMMA OwnIsOwnFit == ASSUME NEW s, IsSource(s), NEW d, Own(s, d) PROVE OwnFit(s, d)
<1>1. PICK gap \in Int : /\ Turn(s, gap).split # NoSplit /\ Turn(s, gap).gap = gap
                         /\ d = Fitting(s, Turn(s, gap))
  BY DEF Own
<1> PICK turn : turn = Turn(s, gap)
  OBVIOUS
<1>2. /\ d.occurrences = turn.occurrences /\ d.split = turn.split /\ d.fit = turn.fit
      /\ d.gap = turn.gap /\ d.fences = FencesOf(s, turn.fit)
      /\ \A p \in Three : d.rows[p] = RowsOf(Times(s), turn.occurrences, turn.split, p)
  BY <1>1 DEF Fitting, Three
<1>3. LET occ == Cut(s, gap)
          split == Split(Times(s), occ, gap)
      IN  /\ InTurn(Times(s), occ)
          /\ turn.occurrences = occ /\ turn.split = split /\ split # NoSplit
          /\ \A p : /\ Members(occ, split, p) \in SUBSET (DOMAIN s)
                    /\ RowsOf(Times(s), occ, split, p) = InOrder(Times(s), Members(occ, split, p))
          /\ turn.fit = RowsOf(Times(s), occ, split, "train")
          /\ turn.gap = GapOf(Times(s), turn.fit) /\ turn.gap \in Int
  BY <1>1, TurnIsSplit
<1> QED BY <1>1, <1>2, <1>3 DEF OwnFit

\* Only the order of texts can refuse it.
LEMMA OwnFitPassesGates ==
  ASSUME NEW s, IsSource(s), NEW d, OwnFit(s, d)
  PROVE  /\ \A p \in Three : RowsIn(d, p) # <<>>
         /\ TemporalOrder(s, d) /\ PurgeGap(s, d)
         /\ LET train == RowsIn(d, "train")
            IN  \/ StatisticsTrainOnly(s, d, [gap |-> d.gap, rows |-> d.fit])
                \/ \E m, n \in DOMAIN train : m < n /\ EarlierAsText(Times(s), train[n], train[m])
<1> PICK times : times = Times(s)
  OBVIOUS
<1> PICK occ, split, gap : occ = d.occurrences /\ split = d.split /\ gap = d.gap
  OBVIOUS
<1>1. InTime(times) /\ DOMAIN times = DOMAIN s /\ \A i \in DOMAIN s : times[i] = s[i].time
  BY SourceIsInTime DEF Times
<1>2. \A i \in DOMAIN times : times[i] \in Int
  BY <1>1, InTimeIsFinite
<1>3. /\ \A p \in Three : Members(occ, split, p) # {}
      /\ \A a \in Members(occ, split, "train"), b \in Members(occ, split, "validation") :
           times[b] > times[a] /\ Parts * (times[b] - times[a]) >= gap
      /\ \A a \in Members(occ, split, "validation"), b \in Members(occ, split, "test") :
           times[b] > times[a] /\ Parts * (times[b] - times[a]) >= gap
  <2>1. InTurn(times, occ) /\ gap \in Int /\ split = Split(times, occ, gap) /\ split # NoSplit
    BY DEF OwnFit
  <2> QED BY <1>1, <2>1, PartitionsAreApart DEF Three
<1>4. ASSUME NEW p \in Three
      PROVE  /\ RowsIn(d, p) = InOrder(times, Members(occ, split, p))
             /\ ToSet(RowsIn(d, p)) = Members(occ, split, p)
             /\ Members(occ, split, p) \in SUBSET (DOMAIN s)
             /\ RowsIn(d, p) # <<>>
  <2> PICK members, rows : members = Members(occ, split, p) /\ rows = RowsIn(d, p)
    OBVIOUS
  <2>1. rows = InOrder(times, members) /\ members \in SUBSET (DOMAIN times)
    BY <1>1 DEF OwnFit, RowsIn
  <2>2. IsFiniteSet(members) /\ DOMAIN times \subseteq Int
    BY <1>1, <2>1, InTimeIsFinite
  <2>3. /\ Cardinality(members) \in Nat /\ rows \in [1..Cardinality(members) -> members]
        /\ \A i \in members : \E n \in 1..Cardinality(members) : rows[n] = i
    BY <1>2, <2>1, <2>2, RowsInOrder
  <2>4. ToSet(rows) = members
    BY <2>3 DEF ToSet
  <2>5. rows # <<>>
    <3>1. PICK i \in members : TRUE
      BY <1>3
    <3>2. \E n \in DOMAIN rows : TRUE
      BY <2>3
    <3> QED BY <3>2
  <2> QED BY <1>1, <2>1, <2>4, <2>5
<1> DEFINE T(p) == {s[i].time : i \in ToSet(RowsIn(d, p))}
<1>5. ASSUME NEW p \in Three
      PROVE  /\ T(p) = TimesIn(s, d, p)
             /\ \E i \in Members(occ, split, p) : Max(T(p)) = times[i]
             /\ \E i \in Members(occ, split, p) : Min(T(p)) = times[i]
  <2> PICK members : members = Members(occ, split, p)
    OBVIOUS
  <2>1. members \in SUBSET (DOMAIN times) /\ members # {} /\ IsFiniteSet(members)
    BY <1>1, <1>3, <1>4, InTimeIsFinite
  <2> PICK S : S = {times[i] : i \in members}
    OBVIOUS
  <2>2. T(p) = S
    BY <1>1, <1>4, <2>1
  <2>3. S \in SUBSET Int /\ S # {} /\ IsFiniteSet(S)
    BY <1>2, <2>1, ImageIsFinite
  <2>4. Min(S) \in S /\ Max(S) \in S
    BY <2>3, Extremes
  <2>5. (\E i \in members : Max(S) = times[i]) /\ \E i \in members : Min(S) = times[i]
    <3> PICK low, high : low = Min(S) /\ high = Max(S)
      OBVIOUS
    <3> QED BY <2>4
  <2> QED BY <2>2, <2>5 DEF TimesIn
<1> HIDE DEF T
<1>6. ASSUME NEW p \in Three, NEW q \in Three,
             \A a \in Members(occ, split, p), b \in Members(occ, split, q) :
               times[b] > times[a] /\ Parts * (times[b] - times[a]) >= gap
      PROVE  Max(T(p)) < Min(T(q)) /\ Parts * (Min(T(q)) - Max(T(p))) >= gap
  <2>1. PICK a \in Members(occ, split, p) : Max(T(p)) = times[a]
    BY <1>5
  <2>2. PICK b \in Members(occ, split, q) : Min(T(q)) = times[b]
    BY <1>5
  <2>3. times[b] > times[a] /\ Parts * (times[b] - times[a]) >= gap
    BY <1>6
  <2>4. times[a] \in Int /\ times[b] \in Int
    BY <1>1, <1>2, <1>4
  <2> QED BY <2>1, <2>2, <2>3, <2>4
<1>7. TemporalOrder(s, d) /\ PurgeGap(s, d)
  BY <1>3, <1>5, <1>6 DEF TemporalOrder, PurgeGap, Three
<1>8. LET train == RowsIn(d, "train")
      IN  \/ StatisticsTrainOnly(s, d, [gap |-> d.gap, rows |-> d.fit])
          \/ \E m, n \in DOMAIN train : m < n /\ EarlierAsText(Times(s), train[n], train[m])
  <2> PICK train, members : train = RowsIn(d, "train") /\ members = Members(occ, split, "train")
    OBVIOUS
  <2> SUFFICES ASSUME \A m, n \in DOMAIN train : m < n => ~EarlierAsText(times, train[n], train[m])
               PROVE  StatisticsTrainOnly(s, d, [gap |-> d.gap, rows |-> d.fit])
    OBVIOUS
  <2>1. train = InOrder(times, members) /\ ToSet(train) = members /\ members \in SUBSET (DOMAIN times)
    BY <1>1, <1>4 DEF Three
  <2>2. train = InTextOrder(times, members)
    BY <1>1, <2>1, TimeOrderIsTextOrder
  <2>3. d.fit = train
    BY DEF OwnFit, RowsIn, Three
  <2> QED BY <2>1, <2>2, <2>3 DEF StatisticsTrainOnly
<1> QED BY <1>4, <1>7, <1>8

\* A table of the contract has the columns that are read.
LEMMA ContractNamesColumns ==
  ASSUME NEW f, f.columns \in Seq(STRING), Report(f) = {}
  PROVE  Declared \subseteq ToSet(f.columns)
<1> PICK columns : columns = f.columns
  OBVIOUS
<1> PICK catalog : catalog = Catalog
  OBVIOUS
<1>1. StructureFindings(f) = {}
  BY DEF Report
<1>2. Declared = ToSet(catalog) /\ DOMAIN catalog = 1..Len(catalog)
  <2>1. Declared = ToSet(catalog)
    BY DEF Declared
  <2>2. DOMAIN catalog = 1..5 /\ Len(catalog) = 5
    BY DEF Catalog
  <2> QED BY <2>1, <2>2
<1>3. CASE columns = catalog
  BY <1>2, <1>3
<1>4. CASE columns # catalog /\ Len(columns) = Len(catalog)
  <2>1. CASE ToSet(columns) = Declared
    BY <1>1, <1>4, <2>1 DEF StructureFindings
  <2>2. CASE ToSet(columns) # Declared
    <3>1. {Finding("column_name_mismatch", catalog[n]) :
             n \in {m \in DOMAIN catalog : catalog[m] # columns[m]}} = {}
      BY <1>1, <1>4, <2>2 DEF StructureFindings
    <3>2. \A m \in DOMAIN catalog : catalog[m] = columns[m]
      BY <3>1
    <3>3. DOMAIN catalog = DOMAIN columns
      BY <1>2, <1>4
    <3> QED BY <1>2, <3>2, <3>3 DEF ToSet
  <2> QED BY <2>1, <2>2
<1>5. CASE Len(columns) # Len(catalog)
  <2>1. {Finding("column_missing", c) : c \in Declared \ ToSet(columns)} = {}
    BY <1>1, <1>5 DEF StructureFindings
  <2> QED BY <2>1
<1> QED BY <1>3, <1>4, <1>5

LEMMA LoadedIsSource ==
  ASSUME NEW f, f.columns \in Seq(STRING), f.rows \in Seq([ToSet(f.columns) -> Int]),
         Report(f) = {}, NEW labels
  PROVE  IsSource(RecordsOf(f, labels))
<1> PICK rows, names : rows = f.rows /\ names = ToSet(f.columns)
  OBVIOUS
<1>1. Len(rows) \in Nat /\ DOMAIN rows = 1..Len(rows) /\ \A n \in 1..Len(rows) : rows[n] \in [names -> Int]
  OBVIOUS
<1>2. "created_at" \in names /\ "left" \in names
  <2>1. "created_at" \in Declared /\ "left" \in Declared
    <3>1. PICK catalog : catalog = Catalog
      OBVIOUS
    <3>2. 2 \in DOMAIN catalog /\ catalog[2] = "created_at" /\ 3 \in DOMAIN catalog /\ catalog[3] = "left"
      BY <3>1 DEF Catalog
    <3> QED BY <3>1, <3>2 DEF Declared, ToSet
  <2> QED BY <2>1, ContractNamesColumns
<1> DEFINE Record(n) ==
     [time |-> rows[n]["created_at"], id |-> rows[n]["id"], value |-> rows[n]["left"],
      paired |-> Paired(rows[n]),
      label |-> IF rows[n]["fault"] \in labels THEN LabelOf(rows[n]["fault"]) ELSE UnknownLabel]
<1>3. \A n \in 1..Len(rows) : IsRecord(Record(n))
  <2> SUFFICES ASSUME NEW n \in 1..Len(rows) PROVE IsRecord(Record(n))
    OBVIOUS
  <2>1. rows[n]["created_at"] \in Int /\ rows[n]["left"] \in Int
    BY <1>1, <1>2
  <2> QED BY <2>1 DEF IsRecord
<1>4. RecordsOf(f, labels) = [n \in 1..Len(rows) |-> Record(n)]
  BY <1>1 DEF RecordsOf
<1> HIDE DEF Record
<1> QED BY <1>1, <1>3, <1>4 DEF IsSource

LEMMA OriginsAreSources ==
  ASSUME NEW o \in Origins, NEW v \in Versions PROVE IsSource(o[v]) /\ DOMAIN o = Versions
<1>1. DOMAIN o = Versions
  BY PipelineAssumption
<1> DEFINE R == [time : Nat, id : Int, value : Int, paired : BOOLEAN, label : Nat]
<1>2. o[v] \in Seq(R)
  BY <1>1, OriginAssumption
<1> PICK s : s = o[v]
  OBVIOUS
<1>3. Len(s) \in Nat /\ DOMAIN s = 1..Len(s) /\ \A i \in 1..Len(s) : s[i] \in R
  <2> HIDE DEF R
  <2> QED BY <1>2
<1>4. \A r \in R : IsRecord(r)
  BY DEF IsRecord
<1> QED BY <1>1, <1>3, <1>4 DEF IsSource

LEMMA BuildsBegin == ASSUME Init PROVE BuildOK
<1>1. \A v \in Versions : /\ DOMAIN Build0("fitting") = Slots /\ Build0("fitting").phase = "fitting"
                          /\ DOMAIN Build0("waiting") = Slots /\ Build0("waiting").phase = "waiting"
  BY DEF Build0, Slots
<1>2. ASSUME NEW o \in Origins, BuildStarts(o, "fitting") PROVE BuildOK
  <2>1. DOMAIN o = Versions /\ source = o /\ build = [v \in Versions |-> Build0("fitting")]
    BY <1>2, PipelineAssumption DEF BuildStarts
  <2>2. \A v \in Versions : build[v] = Build0("fitting") /\ IsSource(source[v])
    BY <2>1, OriginsAreSources
  <2> QED BY <1>1, <2>1, <2>2 DEF BuildOK
<1>3. ASSUME BuildStarts(NoSource, "waiting") PROVE BuildOK
  <2>1. IsSource(<<>>)
    <3>1. DOMAIN <<>> = 1..0
      OBVIOUS
    <3> QED BY <3>1 DEF IsSource
  <2> QED BY <1>1, <1>3, <2>1 DEF BuildStarts, BuildOK, NoSource
<1> QED BY <1>2, <1>3 DEF Init

LEMMA LoadingKeepsBuilds ==
  ASSUME BuildOK, AuditInv, NEW v \in Versions, Load(v) PROVE BuildOK'
<1> PICK labels, w : labels = KnownLabels(v) /\ w = runner["build"].rounds[1].read
  OBVIOUS
<1>1. "build" \in DOMAIN runner /\ Report(TableOf(w)) = {} /\ Runs("build", "read")
  BY DEF Load, LoadTable, Runs, LoadRefusal
<1>2. AuditIsSound
  BY <1>1 DEF AuditInv, AuditIsOver
<1>3. w \in DOMAIN audit.table
  <2> PICK rounds : rounds = runner["build"].rounds
    OBVIOUS
  <2>1. /\ rounds \in Seq([digest : DOMAIN audit.table, read : DOMAIN audit.table])
        /\ Len(rounds) = RoundsOf("build")
    BY <1>1, <1>2 DEF AuditIsSound, ProcessOK, ReaderIsSound, Going, Phases, Runs
  <2> PICK D : D = [digest : DOMAIN audit.table, read : DOMAIN audit.table]
    OBVIOUS
  <2>2. rounds \in Seq(D) /\ Len(rounds) = 1
    BY <2>1 DEF RoundsOf
  <2>3. rounds[1] \in D
    BY <2>2, FirstElement
  <2> QED BY <2>3
<1>4. IsSource(RecordsOf(TableOf(w), labels))
  <2>1. audit \in Audits
    BY <1>2 DEF AuditIsSound, DiskOK
  <2> PICK f : f = TableOf(w)
    OBVIOUS
  <2>2. f.columns \in Seq(STRING) /\ f.rows \in Seq([ToSet(f.columns) -> Int])
    BY <1>3, <2>1, AuditAssumption DEF TableOf
  <2> QED BY <1>1, <2>2, LoadedIsSource
<1>5. /\ source' = [source EXCEPT ![v] = RecordsOf(TableOf(w), labels)]
      /\ build' = [build EXCEPT ![v] = Build0("fitting")]
  BY DEF Load
<1>6. DOMAIN Build0("fitting") = Slots /\ Build0("fitting").phase = "fitting"
  BY DEF Build0, Slots
<1> QED BY <1>4, <1>5, <1>6 DEF BuildOK

\* What a build becomes that refuses.
LEMMA RefusingShape ==
  ASSUME BuildOK, NEW v \in Versions, NEW reason, reason \notin {"fitted", "built", "leaking"},
         Refuse(v, reason), UNCHANGED source
  PROVE  BuildOK' /\ \A w \in Versions : ~Reaches(w, "leaking") /\ ~Reaches(w, "built")
<1> PICK b : b = [phase |-> reason, gap |-> 0, seen |-> {}, data |-> NoData]
  OBVIOUS
<1>1. build' = [build EXCEPT ![v] = b] /\ DOMAIN b = Slots /\ b.phase = reason
  BY DEF Refuse, Slots
<1> QED BY <1>1 DEF BuildOK, Reaches

LEMMA FittingKeepsBuilds ==
  ASSUME BuildOK, NEW v \in Versions, Fit(v)
  PROVE  BuildOK' /\ \A w \in Versions : ~Reaches(w, "leaking") /\ ~Reaches(w, "built")
<1> PICK s, gap : s = source[v] /\ gap = build[v].gap
  OBVIOUS
<1> PICK turn : turn = Turn(s, gap)
  OBVIOUS
<1>1. /\ RefuseSource(v, turn) \/ Refit(v, turn) \/ Settle(v, turn)
      /\ build[v].phase = "fitting" /\ UNCHANGED source /\ IsSource(s)
      /\ DOMAIN build = Versions /\ DOMAIN build[v] = Slots
  BY DEF Fit, BuildOK
<1>2. CASE RefuseSource(v, turn)
  BY <1>1, <1>2, RefusingShape DEF RefuseSource
<1>3. CASE Refit(v, turn)
  <2>1. CASE Refuse(v, "not_converged")
    BY <1>1, <2>1, RefusingShape
  <2>2. CASE ~Refuse(v, "not_converged")
    <3> PICK old : old = build[v]
      OBVIOUS
    <3> PICK b : b = [old EXCEPT !.gap = turn.gap, !.seen = @ \union {<<turn.gap, turn.fit>>}]
      OBVIOUS
    <3>1. build' = [build EXCEPT ![v] = b]
      BY <1>3, <2>2 DEF Refit
    <3>2. DOMAIN b = Slots /\ b.phase = "fitting"
      BY <1>1 DEF Slots
    <3> QED BY <1>1, <3>1, <3>2 DEF BuildOK, Reaches
  <2> QED BY <2>1, <2>2
<1>4. CASE Settle(v, turn)
  <2> PICK d : d = Fitting(s, turn)
    OBVIOUS
  <2> PICK b : b = [phase |-> "fitted", gap |-> turn.gap, seen |-> {}, data |-> d]
    OBVIOUS
  <2>1. build' = [build EXCEPT ![v] = b] /\ DOMAIN b = Slots /\ b.phase = "fitted" /\ b.data = d
    BY <1>4 DEF Settle, Slots
  <2>2. turn.gap = gap /\ turn.split # NoSplit
    BY <1>4 DEF Settle, Settled
  <2>3. Own(s, d)
    BY <1>1, <2>2, TurnIsSplit DEF Own
  <2>4. source' = source /\ source[v] = s
    BY <1>1
  <2>5. BuildOK'
    BY <1>1, <2>1, <2>3, <2>4 DEF BuildOK
  <2> QED BY <1>1, <2>1, <2>5 DEF Reaches
<1> QED BY <1>1, <1>2, <1>3, <1>4

\* The verdict of a build: what it is on depends on its own data only.
LEMMA GatingKeepsBuilds ==
  ASSUME BuildOK, NEW v \in Versions, PassGates(v)
  PROVE  /\ BuildOK' /\ \A w \in Versions \ {v} : build'[w] = build[w]
         /\ build'[v].data = build[v].data /\ Own(source[v], build[v].data)
         /\ \/ build'[v].phase = "unlabelled"
            \/ /\ build'[v].phase = "built"
               /\ LET d == build[v].data
                  IN  Gates(source[v], d, [gap |-> d.gap, rows |-> d.fit])
            \/ /\ build'[v].phase = "leaking"
               /\ LET d == build[v].data
                  IN  ~Gates(source[v], d, [gap |-> d.gap, rows |-> d.fit])
<1> PICK old : old = build[v]
  OBVIOUS
<1> PICK d : d = old.data
  OBVIOUS
<1> PICK passes \in BOOLEAN : passes = Gates(source[v], d, [gap |-> d.gap, rows |-> d.fit])
  BY DEF Gates
<1> PICK phase : phase = IF Unlabelled(v) THEN "unlabelled" ELSE IF passes THEN "built" ELSE "leaking"
  OBVIOUS
<1> PICK b : b = [old EXCEPT !.phase = phase]
  OBVIOUS
<1>1. old.phase = "fitted" /\ DOMAIN build = Versions /\ DOMAIN old = Slots /\ Own(source[v], d)
      /\ source' = source
  BY DEF PassGates, BuildOK
<1>2. build' = [build EXCEPT ![v].phase = phase]
  BY DEF PassGates
<1>3. build' = [build EXCEPT ![v] = b]
  BY <1>2
<1>4. DOMAIN b = Slots /\ b.phase = phase /\ b.data = d
  BY <1>1 DEF Slots
<1>5. BuildOK'
  BY <1>1, <1>3, <1>4 DEF BuildOK
<1>6. build'[v] = b /\ \A w \in Versions \ {v} : build'[w] = build[w]
  BY <1>1, <1>3
<1> QED BY <1>1, <1>4, <1>5, <1>6

\* What a step does to the builds.
LEMMA NextBuilds ==
  ASSUME [Next]_pipelineVars
  PROVE  \/ \E v \in Versions : Load(v) \/ Fit(v) \/ PassGates(v)
         \/ UNCHANGED <<source, build>>
<1>1. CASE Audit
  BY <1>1 DEF Audit
<1>2. CASE \E v \in Versions : Load(v) \/ Build(v) \/ \E k \in Kinds : Publish(k, v)
  BY <1>2 DEF Build, BuildStep, Publish
<1>3. CASE Chain
  BY <1>3 DEF Chain
<1>4. CASE \E query \in Queries, k \in TopKs : Analyze(query, k)
  BY <1>4 DEF Analyze
<1>5. CASE \E row \in Rows : Evaluate(row)
  BY <1>5 DEF Evaluate
<1>6. CASE UNCHANGED pipelineVars
  BY <1>6 DEF pipelineVars
<1> QED BY <1>1, <1>2, <1>3, <1>4, <1>5, <1>6 DEF Next

LEMMA NextKeepsBuilds ==
  ASSUME BuildOK, AuditInv, [Next]_pipelineVars PROVE BuildOK'
<1>1. CASE UNCHANGED <<source, build>>
  BY <1>1 DEF BuildOK
<1> QED BY <1>1, NextBuilds, LoadingKeepsBuilds, FittingKeepsBuilds, GatingKeepsBuilds

\* Whoever reaches a verdict of the gates passed them in this step.
LEMMA VerdictsAreReached ==
  ASSUME BuildOK, [Next]_pipelineVars, NEW v \in Versions,
         Reaches(v, "leaking") \/ Reaches(v, "built")
  PROVE  PassGates(v)
<1>1. ASSUME NEW w \in Versions, Load(w) PROVE FALSE
  <2>1. build' = [build EXCEPT ![w] = Build0("fitting")] /\ DOMAIN build = Versions
    BY <1>1 DEF Load, BuildOK
  <2>2. Build0("fitting").phase = "fitting"
    BY DEF Build0
  <2> QED BY <2>1, <2>2 DEF Reaches
<1>2. ASSUME NEW w \in Versions, Fit(w) PROVE FALSE
  BY <1>2, FittingKeepsBuilds
<1>3. ASSUME NEW w \in Versions, PassGates(w) PROVE w = v
  BY <1>3, GatingKeepsBuilds DEF Reaches
<1>4. ASSUME UNCHANGED <<source, build>> PROVE FALSE
  BY <1>4 DEF Reaches
<1> QED BY <1>1, <1>2, <1>3, <1>4, NextBuilds

\* A dataset fails the gates only where the texts of two train records are
\* not in the order of their times.
LEMMA OnlyTextOrderRefuses ==
  ASSUME BuildOK, [Next]_pipelineVars, NEW v \in Versions, Reaches(v, "leaking")
  PROVE  TextsOutOfOrder(source[v], build[v].data)
<1> PICK s, d : s = source[v] /\ d = build[v].data
  OBVIOUS
<1>1. Own(s, d) /\ ~Gates(s, d, [gap |-> d.gap, rows |-> d.fit]) /\ IsSource(s)
  <2>1. build'[v].phase = "leaking"
    BY DEF Reaches
  <2> QED BY <2>1, VerdictsAreReached, GatingKeepsBuilds DEF BuildOK
<1>2. /\ \A p \in Three : RowsIn(d, p) # <<>>
      /\ TemporalOrder(s, d) /\ PurgeGap(s, d)
      /\ LET train == RowsIn(d, "train")
         IN  \/ StatisticsTrainOnly(s, d, [gap |-> d.gap, rows |-> d.fit])
             \/ \E m, n \in DOMAIN train : m < n /\ EarlierAsText(Times(s), train[n], train[m])
  BY <1>1, OwnIsOwnFit, OwnFitPassesGates
<1>3. ~StatisticsTrainOnly(s, d, [gap |-> d.gap, rows |-> d.fit])
  BY <1>1, <1>2 DEF Gates, Three
<1> QED BY <1>2, <1>3 DEF TextsOutOfOrder

\* Settling is what makes the gap of a published dataset the fit of its own
\* train records, and the occurrences and partitions those it cuts.
LEMMA PublishedFitIsItsOwn ==
  ASSUME BuildOK, [Next]_pipelineVars, NEW v \in Versions, Reaches(v, "built")
  PROVE  FitIsItsOwn(source[v], build[v].data)
<1>1. Own(source[v], build[v].data) /\ IsSource(source[v])
  BY VerdictsAreReached, GatingKeepsBuilds DEF BuildOK
<1>2. OwnFit(source[v], build[v].data)
  BY <1>1, OwnIsOwnFit
<1> QED BY <1>2 DEF OwnFit, FitIsItsOwn

\* Whatever the sources are, the gates refuse a dataset whose fit settled only
\* for the order of texts, and what they let pass is its own fit: occurrences
\* follow each other, the boundaries lie between them, and the purge leaves
\* the gap between partitions.
THEOREM GatesAlwaysJudgeTheFit == Spec => GatesJudgeTheFit
<1> DEFINE Judged(v) == /\ Reaches(v, "leaking") => TextsOutOfOrder(source[v], build[v].data)
                        /\ Reaches(v, "built") => FitIsItsOwn(source[v], build[v].data)
<1>1. BuildOK /\ [Next]_pipelineVars => \A v \in Versions : Judged(v)
  BY OnlyTextOrderRefuses, PublishedFitIsItsOwn
<1>2. BuildOK /\ [Next]_pipelineVars =>
        [\A v \in Versions :
           /\ Reaches(v, "leaking") => TextsOutOfOrder(source[v], build[v].data)
           /\ Reaches(v, "built") => FitIsItsOwn(source[v], build[v].data)]_pipelineVars
  BY <1>1
<1>3. BuildOK /\ AuditInv /\ [Next]_pipelineVars => (BuildOK /\ AuditInv)'
  BY NextKeepsBuilds, NextKeepsAudit
<1>4. Init => BuildOK /\ AuditInv
  BY BuildsBegin, AuditsBeginSound
<1> QED BY <1>2, <1>3, <1>4, PTL DEF Spec, GatesJudgeTheFit

-----------------------------------------------------------------------------
(* The turns of a fit, and that labels have no part in them.               *)

\* The gaps a fit had, one after the other, from that of its first turn on; it
\* went on from all but the last.
SeenOn(s, g, k) == {<<Turn(s, g[i]).gap, Turn(s, g[i]).fit>> : i \in 0..k - 1}
GivesUp(s, g, k) ==
  \/ <<Turn(s, g[k]).gap, Turn(s, g[k]).fit>> \in SeenOn(s, g, k)
  \/ Cardinality(SeenOn(s, g, k)) = IterationLimit - 1
GoesOn(s, g, k) ==
  Turn(s, g[k]).split # NoSplit /\ Turn(s, g[k]).gap # g[k] /\ ~GivesUp(s, g, k)
Path(s, g, k) ==
  /\ g = [i \in 0..k |-> g[i]] /\ g[0] = -Parts
  /\ \A i \in 0..k - 1 : g[i + 1] = Turn(s, g[i]).gap /\ GoesOn(s, g, i)

LEMMA SeenOnFirst ==
  ASSUME NEW s, NEW g, NEW h, NEW k \in Nat, \A i \in 0..k : g[i] = h[i]
  PROVE  GoesOn(s, g, k) <=> GoesOn(s, h, k)
<1>1. \A i \in 0..k - 1 : g[i] = h[i]
  OBVIOUS
<1>2. SeenOn(s, g, k) = SeenOn(s, h, k)
  BY <1>1 DEF SeenOn
<1>3. g[k] = h[k]
  OBVIOUS
<1> QED BY <1>2, <1>3 DEF GoesOn, GivesUp

LEMMA LeastOf ==
  ASSUME NEW T \in SUBSET Nat, T # {}
  PROVE  \E n \in T : \A m \in T : n <= m
<1> DEFINE R == OpToRel(<, Nat)
<1>1. IsWellFoundedOn(R, Nat)
  BY NatLessThanWellFounded
<1>2. \A m, n \in Nat : m < n => <<m, n>> \in R
  BY DEF OpToRel
<1> HIDE DEF R
<1>3. PICK n \in T : \A m \in T : ~(<<m, n>> \in R)
  BY <1>1, WFMin
<1>4. ASSUME NEW m \in T PROVE n <= m
  <2>1. m \in Nat /\ n \in Nat
    OBVIOUS
  <2>2. ~(m < n)
    BY <1>2, <1>3, <2>1
  <2> QED BY <2>1, <2>2
<1> QED BY <1>4

\* Two fits of one source take the same turns.
LEMMA PathsAgree ==
  ASSUME NEW s, NEW g, NEW h, NEW k \in Nat, NEW l \in Nat, Path(s, g, k), Path(s, h, l),
         NEW i \in Nat, i <= k, i <= l
  PROVE  g[i] = h[i]
<1> DEFINE T == {j \in Nat : j <= k /\ j <= l /\ g[j] # h[j]}
<1> SUFFICES ASSUME T # {} PROVE FALSE
  OBVIOUS
<1>1. PICK n \in T : \A m \in T : n <= m
  BY LeastOf
<1>2. n # 0
  BY <1>1 DEF Path
<1>3. n - 1 \in Nat /\ n - 1 <= k /\ n - 1 <= l /\ n - 1 \notin T /\ n - 1 \in 0..k - 1 /\ n - 1 \in 0..l - 1
  BY <1>1, <1>2
<1>4. g[n - 1] = h[n - 1]
  BY <1>3
<1>5. g[n - 1 + 1] = Turn(s, g[n - 1]).gap /\ h[n - 1 + 1] = Turn(s, h[n - 1]).gap
  BY <1>3 DEF Path
<1>6. n - 1 + 1 = n
  BY <1>1
<1> QED BY <1>1, <1>4, <1>5, <1>6

LEMMA PathsEndTogether ==
  ASSUME NEW s, NEW g, NEW h, NEW k \in Nat, NEW l \in Nat, Path(s, g, k), Path(s, h, l),
         ~GoesOn(s, g, k), ~GoesOn(s, h, l)
  PROVE  k = l /\ g[k] = h[l]
<1>1. \A i \in Nat : i <= k /\ i <= l => g[i] = h[i]
  BY PathsAgree
<1>2. ASSUME k < l PROVE FALSE
  <2>1. k \in 0..l - 1 /\ \A i \in 0..k : g[i] = h[i]
    BY <1>1, <1>2
  <2>2. GoesOn(s, h, k)
    BY <2>1 DEF Path
  <2> QED BY <2>1, <2>2, SeenOnFirst
<1>3. ASSUME l < k PROVE FALSE
  <2>1. l \in 0..k - 1 /\ \A i \in 0..l : g[i] = h[i]
    BY <1>1, <1>3
  <2>2. GoesOn(s, g, l)
    BY <2>1 DEF Path
  <2> QED BY <2>1, <2>2, SeenOnFirst
<1>4. k = l
  BY <1>2, <1>3
<1> QED BY <1>1, <1>4

LEMMA PathGoesOn ==
  ASSUME NEW s, NEW g, NEW k \in Nat, Path(s, g, k), GoesOn(s, g, k)
  PROVE  \E h : /\ Path(s, h, k + 1) /\ h[k + 1] = Turn(s, g[k]).gap
                /\ SeenOn(s, h, k + 1) =
                     SeenOn(s, g, k) \union {<<Turn(s, g[k]).gap, Turn(s, g[k]).fit>>}
<1> DEFINE h == [i \in 0..k + 1 |-> IF i = k + 1 THEN Turn(s, g[k]).gap ELSE g[i]]
<1>1. /\ h = [i \in 0..k + 1 |-> h[i]] /\ h[k + 1] = Turn(s, g[k]).gap
      /\ \A i \in 0..k : h[i] = g[i]
  OBVIOUS
<1> HIDE DEF h
<1>2. h[0] = -Parts
  BY <1>1 DEF Path
<1>3. ASSUME NEW i \in 0..k PROVE h[i + 1] = Turn(s, h[i]).gap /\ GoesOn(s, h, i)
  <2>1. \A j \in 0..i : h[j] = g[j]
    <3>1. \A j \in 0..i : j \in 0..k
      OBVIOUS
    <3>2. \A j \in 0..k : h[j] = g[j]
      BY <1>1
    <3> QED BY <3>1, <3>2
  <2>2. GoesOn(s, g, i)
    BY DEF Path
  <2>3. GoesOn(s, h, i)
    BY <2>1, <2>2, SeenOnFirst
  <2>4. h[i + 1] = Turn(s, g[i]).gap
    <3>1. CASE i = k
      BY <1>1, <3>1
    <3>2. CASE i # k
      <4>1. i + 1 \in 0..k /\ i \in 0..k - 1
        BY <3>2
      <4> QED BY <1>1, <4>1 DEF Path
    <3> QED BY <3>1, <3>2
  <2> QED BY <1>1, <2>3, <2>4
<1>4. Path(s, h, k + 1)
  <2>1. \A i \in 0..k + 1 - 1 : i \in 0..k
    OBVIOUS
  <2> QED BY <1>1, <1>2, <1>3, <2>1 DEF Path
<1>5. SeenOn(s, h, k + 1) = SeenOn(s, g, k) \union {<<Turn(s, g[k]).gap, Turn(s, g[k]).fit>>}
  <2> DEFINE P(i) == <<Turn(s, g[i]).gap, Turn(s, g[i]).fit>>
  <2>0. \A i \in 0..k + 1 - 1 : i \in 0..k
    OBVIOUS
  <2>1. ASSUME NEW i \in 0..k + 1 - 1 PROVE <<Turn(s, h[i]).gap, Turn(s, h[i]).fit>> = P(i)
    <3>1. h[i] = g[i]
      BY <1>1, <2>0
    <3>2. Turn(s, h[i]) = Turn(s, g[i])
      BY <3>1
    <3> QED BY <3>2
  <2>2. SeenOn(s, h, k + 1) = {P(i) : i \in 0..k + 1 - 1}
    BY <2>1 DEF SeenOn
  <2>3. SeenOn(s, g, k) = {P(i) : i \in 0..k - 1}
    BY DEF SeenOn
  <2> HIDE DEF P
  <2>4. \A i : i \in 0..k + 1 - 1 <=> i \in 0..k - 1 \/ i = k
    OBVIOUS
  <2>5. {P(i) : i \in 0..k + 1 - 1} = {P(i) : i \in 0..k - 1} \union {P(k)}
    BY <2>4
  <2> QED BY <2>2, <2>3, <2>5 DEF P
<1> QED BY <1>1, <1>4, <1>5

\* What a source is before its labels are read.
LEMMA LabelsDoNotTell ==
  ASSUME NEW s, NEW r, IsSource(s), IsSource(r), SameButLabels(s, r)
  PROVE  /\ DOMAIN s = DOMAIN r /\ Times(s) = Times(r) /\ Eligible(s) = Eligible(r)
         /\ \A i \in DOMAIN s : /\ s[i].value = r[i].value /\ s[i].paired = r[i].paired
                                /\ Twins(s, i) = Twins(r, i)
                                /\ Conflicting(s, i) = Conflicting(r, i)
         /\ \A gap : Turn(s, gap) = Turn(r, gap)
<1>1. /\ DOMAIN s = DOMAIN r
      /\ \A i \in DOMAIN s : /\ s[i].time = r[i].time /\ s[i].id = r[i].id
                             /\ s[i].value = r[i].value /\ s[i].paired = r[i].paired
  <2> SUFFICES ASSUME NEW i \in DOMAIN s
               PROVE  /\ s[i].time = r[i].time /\ s[i].id = r[i].id
                      /\ s[i].value = r[i].value /\ s[i].paired = r[i].paired
    BY DEF SameButLabels
  <2> PICK a, b : a = s[i] /\ b = r[i]
    OBVIOUS
  <2>0. [s[i] EXCEPT !.label = r[i].label] = r[i]
    BY DEF SameButLabels
  <2>1. IsRecord(a) /\ [a EXCEPT !.label = b.label] = b
    <3>1. IsRecord(s[i])
      BY DEF IsSource
    <3> QED BY <2>0, <3>1
  <2> PICK time, id, value, paired, label :
        a = [time |-> time, id |-> id, value |-> value, paired |-> paired, label |-> label]
    BY <2>1 DEF IsRecord
  <2>2. b = [time |-> time, id |-> id, value |-> value, paired |-> paired, label |-> b.label]
    BY <2>1
  <2> QED BY <2>2
<1>2. \A q, t : (q = s \/ q = r) => \A j, k \in DOMAIN q :
        SameRow(q[j], q[k]) <=> /\ q[j].time = q[k].time /\ q[j].id = q[k].id
                                /\ q[j].value = q[k].value /\ q[j].paired = q[k].paired
  <2> SUFFICES ASSUME NEW q, q = s \/ q = r, NEW j \in DOMAIN q, NEW k \in DOMAIN q
               PROVE  SameRow(q[j], q[k]) <=> /\ q[j].time = q[k].time /\ q[j].id = q[k].id
                                              /\ q[j].value = q[k].value /\ q[j].paired = q[k].paired
    OBVIOUS
  <2> PICK a, b : a = q[j] /\ b = q[k]
    OBVIOUS
  <2>1. IsRecord(a) /\ IsRecord(b)
    BY DEF IsSource
  <2> PICK time, id, value, paired, label :
        a = [time |-> time, id |-> id, value |-> value, paired |-> paired, label |-> label]
    BY <2>1 DEF IsRecord
  <2> PICK time2, id2, value2, paired2, label2 :
        b = [time |-> time2, id |-> id2, value |-> value2, paired |-> paired2, label |-> label2]
    BY <2>1 DEF IsRecord
  <2>2. [a EXCEPT !.label = b.label] =
          [time |-> time, id |-> id, value |-> value, paired |-> paired, label |-> label2]
    OBVIOUS
  <2>3. SameRow(a, b) <=> time = time2 /\ id = id2 /\ value = value2 /\ paired = paired2
    BY <2>2 DEF SameRow
  <2> QED BY <2>3
<1>3. \A j, k \in DOMAIN s : SameRow(s[j], s[k]) <=> SameRow(r[j], r[k])
  BY <1>1, <1>2
<1>4. \A i \in DOMAIN s : Twins(s, i) = Twins(r, i) /\ Twins(s, i) \in SUBSET (DOMAIN s)
  BY <1>1 DEF Twins
<1>5. \A group \in SUBSET (DOMAIN s) : Conflicts(s, group) = Conflicts(r, group)
  BY <1>3 DEF Conflicts
<1>6. \A i \in DOMAIN s : Conflicting(s, i) = Conflicting(r, i)
  BY <1>4, <1>5 DEF Conflicting
<1>7. Eligible(s) = Eligible(r)
  <2>1. {Twins(s, i) : i \in DOMAIN s} = {Twins(r, i) : i \in DOMAIN r}
    BY <1>1, <1>4
  <2>2. \A group \in {Twins(s, i) : i \in DOMAIN s} : Conflicts(s, group) = Conflicts(r, group)
    BY <1>4, <1>5
  <2> QED BY <1>1, <2>1, <2>2 DEF Eligible
<1>8. Times(s) = Times(r)
  BY <1>1 DEF Times
<1>9. \A gap : Cut(s, gap) = Cut(r, gap)
  BY <1>7, <1>8 DEF Cut
<1>10. \A gap : Turn(s, gap) = Turn(r, gap)
  BY <1>8, <1>9 DEF Turn
<1> QED BY <1>1, <1>4, <1>6, <1>7, <1>8, <1>10

LEMMA PathsAreOfTimes ==
  ASSUME NEW s, NEW r, IsSource(s), IsSource(r), SameButLabels(s, r), NEW g, NEW k \in Nat
  PROVE  /\ Path(s, g, k) <=> Path(r, g, k)
         /\ GoesOn(s, g, k) <=> GoesOn(r, g, k)
<1>1. \A gap : Turn(s, gap) = Turn(r, gap)
  BY LabelsDoNotTell
<1>2. \A j : SeenOn(s, g, j) = SeenOn(r, g, j)
  BY <1>1 DEF SeenOn
<1>3. \A j : GoesOn(s, g, j) <=> GoesOn(r, g, j)
  BY <1>1, <1>2 DEF GoesOn, GivesUp
<1> QED BY <1>1, <1>3 DEF Path

\* What a build has come to is where the turns of its source end.
Verdicts == {"not_partitioned", "not_converged", "fitted", "built", "leaking"}
Ended(s, b, g, k) ==
  /\ Path(s, g, k) /\ ~GoesOn(s, g, k)
  /\ LET turn == Turn(s, g[k])
         gates == Gates(s, b.data, [gap |-> b.data.gap, rows |-> b.data.fit])
     IN  /\ b.phase = "not_partitioned" => turn.split = NoSplit
         /\ b.phase = "not_converged" => turn.split # NoSplit /\ turn.gap # g[k]
         /\ b.phase \in {"fitted", "built", "leaking"} =>
              turn.split # NoSplit /\ turn.gap = g[k] /\ b.data = Fitting(s, turn)
         /\ b.phase = "built" => gates
         /\ b.phase = "leaking" => ~gates
TraceOf(s, b) ==
  /\ b.phase = "fitting" =>
       \E k \in Nat : \E g : Path(s, g, k) /\ b.gap = g[k] /\ b.seen = SeenOn(s, g, k)
  /\ b.phase \in Verdicts => \E k \in Nat : \E g : Ended(s, b, g, k)
TraceOK == \A v \in Versions : TraceOf(source[v], build[v])

LEMMA TraceStarts == ASSUME NEW s PROVE TraceOf(s, Build0("fitting")) /\ TraceOf(s, Build0("waiting"))
<1> DEFINE g == [i \in 0..0 |-> -Parts]
<1>1. g = [i \in 0..0 |-> g[i]] /\ g[0] = -Parts
  OBVIOUS
<1> HIDE DEF g
<1>2. 0..0 - 1 = {}
  OBVIOUS
<1>3. Path(s, g, 0) /\ SeenOn(s, g, 0) = {}
  BY <1>1, <1>2 DEF Path, SeenOn
<1> QED BY <1>1, <1>3 DEF TraceOf, Build0, Verdicts

\* A change of one build, and of no source.
LEMMA TraceOfOne ==
  ASSUME BuildOK, TraceOK, NEW v \in Versions, NEW b, build' = [build EXCEPT ![v] = b],
         UNCHANGED source, TraceOf(source[v], b)
  PROVE  TraceOK'
BY DEF BuildOK, TraceOK

LEMMA FittingKeepsTrace ==
  ASSUME BuildOK, TraceOK, NEW v \in Versions, Fit(v)
  PROVE  TraceOK'
<1> PICK s, b : s = source[v] /\ b = build[v]
  OBVIOUS
<1>0. PICK k \in Nat : \E g : Path(s, g, k) /\ b.gap = g[k] /\ b.seen = SeenOn(s, g, k)
  BY DEF TraceOK, TraceOf, Fit
<1>1. PICK g : Path(s, g, k) /\ b.gap = g[k] /\ b.seen = SeenOn(s, g, k)
  BY <1>0
<1> PICK turn : turn = Turn(s, g[k])
  OBVIOUS
<1>2. /\ RefuseSource(v, turn) \/ Refit(v, turn) \/ Settle(v, turn)
      /\ b.phase = "fitting" /\ UNCHANGED source
      /\ DOMAIN build = Versions /\ DOMAIN b = Slots
  BY <1>1 DEF Fit, BuildOK
<1> DEFINE Refused5(reason) == [phase |-> reason, gap |-> 0, seen |-> {}, data |-> NoData]
<1>3. CASE RefuseSource(v, turn)
  <2> PICK c : c = Refused5("not_partitioned")
    OBVIOUS
  <2>1. build' = [build EXCEPT ![v] = c] /\ c.phase = "not_partitioned" /\ turn.split = NoSplit
    BY <1>3 DEF RefuseSource, Refuse
  <2>2. ~GoesOn(s, g, k)
    BY <2>1 DEF GoesOn
  <2>3. TraceOf(s, c)
    BY <1>1, <2>1, <2>2 DEF TraceOf, Ended
  <2> QED BY <1>2, <2>1, <2>3, TraceOfOne
<1>4. CASE Refit(v, turn) /\ GivesUp(s, g, k)
  <2> PICK c : c = Refused5("not_converged")
    OBVIOUS
  <2>1. Seen(v, turn) \/ Cardinality(build[v].seen) = IterationLimit - 1
    BY <1>1, <1>4 DEF GivesUp, Seen
  <2>2. /\ build' = [build EXCEPT ![v] = c] /\ c.phase = "not_converged"
        /\ turn.split # NoSplit /\ turn.gap # g[k]
    BY <1>1, <1>4, <2>1 DEF Refit, Refuse, Settled
  <2>3. ~GoesOn(s, g, k)
    BY <1>4 DEF GoesOn
  <2>4. TraceOf(s, c)
    BY <1>1, <2>2, <2>3 DEF TraceOf, Ended
  <2> QED BY <1>2, <2>2, <2>4, TraceOfOne
<1>5. CASE Refit(v, turn) /\ ~GivesUp(s, g, k)
  <2> PICK c : c = [b EXCEPT !.gap = turn.gap, !.seen = @ \union {<<turn.gap, turn.fit>>}]
    OBVIOUS
  <2>1. ~(Seen(v, turn) \/ Cardinality(build[v].seen) = IterationLimit - 1)
    BY <1>1, <1>5 DEF GivesUp, Seen
  <2>2. /\ build' = [build EXCEPT ![v].gap = turn.gap, ![v].seen = @ \union {<<turn.gap, turn.fit>>}]
        /\ turn.split # NoSplit /\ turn.gap # g[k]
    BY <1>1, <1>5, <2>1 DEF Refit, Settled
  <2>3. build' = [build EXCEPT ![v] = c]
    BY <2>2
  <2>4. c.phase = "fitting" /\ c.gap = turn.gap /\ c.seen = b.seen \union {<<turn.gap, turn.fit>>}
    BY <1>2 DEF Slots
  <2>5. GoesOn(s, g, k)
    BY <1>5, <2>2 DEF GoesOn
  <2>6. PICK h : /\ Path(s, h, k + 1) /\ h[k + 1] = turn.gap
                 /\ SeenOn(s, h, k + 1) = SeenOn(s, g, k) \union {<<turn.gap, turn.fit>>}
    BY <1>1, <2>5, PathGoesOn
  <2>7. k + 1 \in Nat /\ Path(s, h, k + 1) /\ c.gap = h[k + 1] /\ c.seen = SeenOn(s, h, k + 1)
    BY <1>1, <2>4, <2>6
  <2>8. TraceOf(s, c)
    BY <2>4, <2>7 DEF TraceOf, Verdicts
  <2> QED BY <1>2, <2>3, <2>8, TraceOfOne
<1>6. CASE Settle(v, turn)
  <2> PICK d : d = Fitting(s, turn)
    OBVIOUS
  <2> PICK c : c = [phase |-> "fitted", gap |-> turn.gap, seen |-> {}, data |-> d]
    OBVIOUS
  <2>1. /\ build' = [build EXCEPT ![v] = c] /\ c.phase = "fitted" /\ c.data = d
        /\ turn.split # NoSplit /\ turn.gap = g[k]
    BY <1>1, <1>6 DEF Settle, Settled
  <2>2. ~GoesOn(s, g, k)
    BY <2>1 DEF GoesOn
  <2>3. TraceOf(s, c)
    BY <1>1, <2>1, <2>2 DEF TraceOf, Ended
  <2> QED BY <1>2, <2>1, <2>3, TraceOfOne
<1> QED BY <1>2, <1>3, <1>4, <1>5, <1>6

LEMMA GatingKeepsTrace ==
  ASSUME BuildOK, TraceOK, NEW v \in Versions, PassGates(v)
  PROVE  TraceOK'
<1> PICK s, old, b : s = source[v] /\ old = build[v] /\ b = build'[v]
  OBVIOUS
<1>1. old.phase = "fitted" /\ UNCHANGED source
  BY DEF PassGates
<1>0. PICK k \in Nat : \E g : Ended(s, old, g, k)
  BY <1>1 DEF TraceOK, TraceOf, Verdicts
<1>2. PICK g : Ended(s, old, g, k)
  BY <1>0
<1>3. /\ b.data = old.data
      /\ LET gates == Gates(s, b.data, [gap |-> b.data.gap, rows |-> b.data.fit])
         IN  \/ b.phase = "unlabelled"
             \/ b.phase = "built" /\ gates
             \/ b.phase = "leaking" /\ ~gates
  BY GatingKeepsBuilds
<1>4. TraceOf(s, b)
  <2>1. CASE b.phase = "unlabelled"
    BY <2>1 DEF TraceOf, Verdicts
  <2>2. CASE b.phase # "unlabelled"
    <3>1. Ended(s, b, g, k)
      BY <1>1, <1>2, <1>3, <2>2 DEF Ended
    <3> QED BY <1>3, <2>2, <3>1 DEF TraceOf
  <2> QED BY <2>1, <2>2
<1>5. \A w \in Versions \ {v} : build'[w] = build[w]
  BY GatingKeepsBuilds
<1> QED BY <1>1, <1>4, <1>5 DEF TraceOK

LEMMA NextKeepsTrace ==
  ASSUME BuildOK, TraceOK, [Next]_pipelineVars
  PROVE  TraceOK'
<1>1. ASSUME NEW v \in Versions, Load(v) PROVE TraceOK'
  <2>1. PICK r : /\ source' = [source EXCEPT ![v] = r]
                 /\ build' = [build EXCEPT ![v] = Build0("fitting")]
    BY <1>1 DEF Load
  <2> QED BY <2>1, TraceStarts DEF BuildOK, TraceOK
<1>2. CASE UNCHANGED <<source, build>>
  BY <1>2 DEF TraceOK
<1> QED BY <1>1, <1>2, NextBuilds, FittingKeepsTrace, GatingKeepsTrace

LEMMA TraceBegins == ASSUME Init PROVE TraceOK
<1>1. ASSUME NEW o \in Origins, BuildStarts(o, "fitting") PROVE TraceOK
  BY <1>1, PipelineAssumption, TraceStarts DEF BuildStarts, TraceOK
<1>2. ASSUME BuildStarts(NoSource, "waiting") PROVE TraceOK
  BY <1>2, TraceStarts DEF BuildStarts, TraceOK, NoSource
<1> QED BY <1>1, <1>2 DEF Init

\* What a dataset and its gates take from a source does not tell its labels.
LEMMA FitDoesNotTell ==
  ASSUME NEW s, NEW r, IsSource(s), IsSource(r), SameButLabels(s, r), NEW gap,
         Turn(s, gap).split # NoSplit, Turn(s, gap).gap = gap
  PROVE  LET d == Fitting(s, Turn(s, gap))
             fit == [gap |-> d.gap, rows |-> d.fit]
         IN  /\ Fitting(r, Turn(s, gap)) = d
             /\ OwnFit(s, d)
             /\ Gates(s, d, fit) <=> Gates(r, d, fit)
             /\ \A i \in DOMAIN s : /\ Destination(s, d, i) = Destination(r, d, i)
                                    /\ Disposition(s, d, i) = Disposition(r, d, i)
<1> PICK turn, d : turn = Turn(s, gap) /\ d = Fitting(s, turn)
  OBVIOUS
<1> PICK fit : fit = [gap |-> d.gap, rows |-> d.fit]
  OBVIOUS
<1>1. /\ DOMAIN s = DOMAIN r /\ Times(s) = Times(r) /\ Eligible(s) = Eligible(r)
      /\ \A i \in DOMAIN s : /\ s[i].value = r[i].value /\ s[i].paired = r[i].paired
                             /\ Twins(s, i) = Twins(r, i)
                             /\ Conflicting(s, i) = Conflicting(r, i)
  BY LabelsDoNotTell
<1>2. OwnFit(s, d)
  <2>1. gap \in Int
    BY TurnIsSplit
  <2>2. Own(s, d)
    BY <2>1 DEF Own
  <2> QED BY <2>2, OwnIsOwnFit
<1>3. ASSUME NEW p \in Three PROVE \A i \in ToSet(RowsIn(d, p)) : i \in DOMAIN s
  <2> PICK members, rows : members = Members(d.occurrences, d.split, p) /\ rows = RowsIn(d, p)
    OBVIOUS
  <2>1. rows = InOrder(Times(s), members) /\ members \in SUBSET (DOMAIN s)
    BY <1>2 DEF OwnFit, RowsIn
  <2>2. InTime(Times(s)) /\ DOMAIN Times(s) = DOMAIN s
    BY SourceIsInTime
  <2>3. IsFiniteSet(members) /\ DOMAIN Times(s) \subseteq Int /\ \A i \in DOMAIN Times(s) : Times(s)[i] \in Int
    BY <2>1, <2>2, InTimeIsFinite
  <2>4. rows \in [1..Cardinality(members) -> members]
    BY <2>1, <2>2, <2>3, RowsInOrder
  <2> QED BY <2>1, <2>4 DEF ToSet
<1>4. d.fit = RowsIn(d, "train") /\ turn.fit = d.fit /\ "train" \in Three
  BY <1>2 DEF OwnFit, RowsIn, Three, Fitting
<1>5. FencesOf(s, turn.fit) = FencesOf(r, turn.fit)
  <2> PICK rows : rows = turn.fit
    OBVIOUS
  <2>1. \A n \in DOMAIN rows : rows[n] \in DOMAIN s
    BY <1>3, <1>4 DEF ToSet
  <2>2. \A n \in DOMAIN rows : s[rows[n]].value = r[rows[n]].value
    BY <1>1, <2>1
  <2>3. [n \in DOMAIN rows |-> s[rows[n]].value] = [n \in DOMAIN rows |-> r[rows[n]].value]
    BY <2>2
  <2> QED BY <2>3 DEF FencesOf
<1>6. Fitting(r, turn) = d
  BY <1>1, <1>5 DEF Fitting
<1>7. ASSUME NEW p \in Three PROVE TimesIn(s, d, p) = TimesIn(r, d, p)
  <2>1. \A i \in ToSet(RowsIn(d, p)) : s[i].time = r[i].time
    <3>1. \A i \in DOMAIN s : Times(s)[i] = s[i].time /\ Times(r)[i] = r[i].time
      BY <1>1 DEF Times
    <3> QED BY <1>1, <1>3, <3>1
  <2> QED BY <2>1 DEF TimesIn
<1>8. Gates(s, d, fit) <=> Gates(r, d, fit)
  <2>1. /\ TimesIn(s, d, "train") = TimesIn(r, d, "train")
        /\ TimesIn(s, d, "validation") = TimesIn(r, d, "validation")
        /\ TimesIn(s, d, "test") = TimesIn(r, d, "test")
    BY <1>7 DEF Three
  <2>2. /\ TemporalOrder(s, d) <=> TemporalOrder(r, d)
        /\ PurgeGap(s, d) <=> PurgeGap(r, d)
    BY <2>1 DEF TemporalOrder, PurgeGap
  <2>3. StatisticsTrainOnly(s, d, fit) <=> StatisticsTrainOnly(r, d, fit)
    BY <1>1 DEF StatisticsTrainOnly
  <2> QED BY <2>2, <2>3 DEF Gates
<1>9. ASSUME NEW i \in DOMAIN s
      PROVE  /\ Destination(s, d, i) = Destination(r, d, i)
             /\ Disposition(s, d, i) = Disposition(r, d, i)
  <2>1. /\ Conflicting(s, i) = Conflicting(r, i) /\ Twins(s, i) = Twins(r, i)
        /\ s[i].value = r[i].value /\ s[i].paired = r[i].paired
    BY <1>1
  <2>2. Outlying(s, i, d.fences) = Outlying(r, i, d.fences)
    BY <2>1 DEF Outlying
  <2>3. Destination(s, d, i) = Destination(r, d, i)
    BY <2>1 DEF Destination
  <2>4. Disposition(s, d, i) = Disposition(r, d, i)
    BY <1>1, <2>1, <2>2 DEF Disposition
  <2> QED BY <2>3, <2>4
<1> QED BY <1>2, <1>6, <1>8, <1>9

\* Where a build was published, one whose source differs in labels only is
\* published with the same dataset, or has not come to its end.
LEMMA VerdictsDoNotTell ==
  ASSUME NEW s, NEW r, IsSource(s), IsSource(r), SameButLabels(s, r),
         NEW b, NEW c, TraceOf(s, b), TraceOf(r, c), b.phase = "built"
  PROVE  /\ c.phase \notin Refusals
         /\ c.phase = "built" =>
              \A i \in DOMAIN s : /\ Destination(s, b.data, i) = Destination(r, c.data, i)
                                  /\ Disposition(s, b.data, i) = Disposition(r, c.data, i)
<1> SUFFICES ASSUME c.phase \in Refusals \union {"built"}
             PROVE  /\ c.phase = "built"
                    /\ \A i \in DOMAIN s : /\ Destination(s, b.data, i) = Destination(r, c.data, i)
                                           /\ Disposition(s, b.data, i) = Disposition(r, c.data, i)
  BY DEF Refusals
<1>91. PICK k \in Nat : \E g : Ended(s, b, g, k)
  BY DEF TraceOf, Verdicts
<1>1. PICK g : Ended(s, b, g, k)
  BY <1>91
<1>92. PICK l \in Nat : \E h : Ended(r, c, h, l)
  BY DEF TraceOf, Verdicts, Refusals
<1>2. PICK h : Ended(r, c, h, l)
  BY <1>92
<1>3. Path(s, g, k) /\ ~GoesOn(s, g, k) /\ Path(s, h, l) /\ ~GoesOn(s, h, l)
  BY <1>1, <1>2, PathsAreOfTimes DEF Ended
<1>4. k = l /\ g[k] = h[l]
  BY <1>3, PathsEndTogether
<1> PICK gap : gap = g[k]
  OBVIOUS
<1> PICK turn, d : turn = Turn(s, gap) /\ d = Fitting(s, turn)
  OBVIOUS
<1> PICK fit : fit = [gap |-> d.gap, rows |-> d.fit]
  OBVIOUS
<1>5. Turn(r, gap) = turn
  BY LabelsDoNotTell
<1>6. turn.split # NoSplit /\ turn.gap = gap /\ b.data = d /\ Gates(s, d, fit)
  BY <1>1 DEF Ended
<1>7. /\ Fitting(r, turn) = d
      /\ Gates(s, d, fit) <=> Gates(r, d, fit)
      /\ \A i \in DOMAIN s : /\ Destination(s, d, i) = Destination(r, d, i)
                             /\ Disposition(s, d, i) = Disposition(r, d, i)
  BY <1>6, FitDoesNotTell
<1>8. /\ c.phase # "not_partitioned" /\ c.phase # "not_converged"
      /\ c.phase \in {"built", "leaking"} => c.data = d
      /\ c.phase # "leaking"
  <2>1. /\ c.phase = "not_partitioned" => turn.split = NoSplit
        /\ c.phase = "not_converged" => turn.split # NoSplit /\ turn.gap # gap
        /\ c.phase \in {"fitted", "built", "leaking"} => c.data = Fitting(r, turn)
        /\ c.phase = "leaking" => ~Gates(r, c.data, [gap |-> c.data.gap, rows |-> c.data.fit])
    BY <1>2, <1>4, <1>5 DEF Ended
  <2> QED BY <1>6, <1>7, <2>1
<1> QED BY <1>6, <1>7, <1>8 DEF Refusals

\* Two sources that differ in labels only take the same turns of the fit, end
\* in the same one, and come to one dataset that passes the gates for both or
\* for neither.
THEOREM LabelsNeverDecide == Spec => TargetsDoNotDecide
<1> DEFINE Alike(v, w) ==
      /\ Reaches(v, "built") \/ (build'[v].phase = "built" /\ build[w].phase # build'[w].phase)
      /\ SameButLabels(source[v], source[w])
      => /\ build'[w].phase \notin Refusals
         /\ build'[w].phase = "built" =>
              \A i \in DOMAIN source[v] :
                LET d == build'[v].data  e == build'[w].data
                IN  /\ Destination(source[v], d, i) = Destination(source[w], e, i)
                    /\ Disposition(source[v], d, i) = Disposition(source[w], e, i)
<1>1. ASSUME BuildOK, TraceOK, [Next]_pipelineVars, NEW v \in Versions, NEW w \in Versions
      PROVE  Alike(v, w)
  <2> SUFFICES ASSUME Reaches(v, "built") \/ (build'[v].phase = "built" /\ build[w].phase # build'[w].phase),
                      SameButLabels(source[v], source[w])
               PROVE  Alike(v, w)
    OBVIOUS
  <2>1. IsSource(source[v]) /\ IsSource(source[w]) /\ build'[v].phase = "built"
    BY <1>1 DEF BuildOK, Reaches
  <2>2. CASE UNCHANGED source
    <3>1. TraceOK'
      BY <1>1, NextKeepsTrace
    <3>2. TraceOf(source[v], build'[v]) /\ TraceOf(source[w], build'[w])
      BY <2>2, <3>1 DEF TraceOK
    <3> PICK s, r, b, c : s = source[v] /\ r = source[w] /\ b = build'[v] /\ c = build'[w]
      OBVIOUS
    <3>3. /\ c.phase \notin Refusals
          /\ c.phase = "built" =>
               \A i \in DOMAIN s : /\ Destination(s, b.data, i) = Destination(r, c.data, i)
                                   /\ Disposition(s, b.data, i) = Disposition(r, c.data, i)
      BY <2>1, <3>2, VerdictsDoNotTell
    <3> QED BY <3>3
  <2>3. ASSUME NEW x \in Versions, Load(x) PROVE Alike(v, w)
    <3>1. build' = [build EXCEPT ![x] = Build0("fitting")] /\ DOMAIN build = Versions
      BY <1>1, <2>3 DEF Load, BuildOK
    <3>2. Build0("fitting").phase = "fitting"
      BY DEF Build0
    <3>3. ~Reaches(v, "built")
      BY <3>1, <3>2 DEF Reaches
    <3>4. x = w
      BY <3>1, <3>3
    <3>5. build'[w].phase = "fitting"
      BY <3>1, <3>2, <3>4
    <3> QED BY <3>5 DEF Refusals
  <2>4. ASSUME NEW x \in Versions, Fit(x) \/ PassGates(x) PROVE UNCHANGED source
    BY <2>4 DEF Fit, PassGates
  <2> QED BY <1>1, <2>2, <2>3, <2>4, NextBuilds
<1> HIDE DEF Alike
<1>2. BuildOK /\ TraceOK /\ [Next]_pipelineVars => [\A v, w \in Versions : Alike(v, w)]_pipelineVars
  BY <1>1
<1>3. BuildOK /\ TraceOK /\ AuditInv /\ [Next]_pipelineVars => (BuildOK /\ TraceOK /\ AuditInv)'
  BY NextKeepsBuilds, NextKeepsAudit, NextKeepsTrace
<1>4. Init => BuildOK /\ TraceOK /\ AuditInv
  BY BuildsBegin, AuditsBeginSound, TraceBegins
<1>5. BuildOK /\ TraceOK /\ [Next]_pipelineVars =>
  [\A v, w \in Versions :
       /\ Reaches(v, "built") \/ (build'[v].phase = "built" /\ build[w].phase # build'[w].phase)
       /\ SameButLabels(source[v], source[w])
       => /\ build'[w].phase \notin Refusals
          /\ build'[w].phase = "built" =>
               \A i \in DOMAIN source[v] :
                 LET d == build'[v].data  e == build'[w].data
                 IN  /\ Destination(source[v], d, i) = Destination(source[w], e, i)
                     /\ Disposition(source[v], d, i) = Disposition(source[w], e, i)]_pipelineVars
  BY <1>2 DEF Alike
<1> QED BY <1>3, <1>4, <1>5, PTL DEF Spec, TargetsDoNotDecide

-----------------------------------------------------------------------------
(* Rankings.                                                               *)

Closer(d, a, b) == d[a] < d[b] \/ (d[a] = d[b] /\ RefOrder[a] < RefOrder[b])

LEMMA NearerIsAnOrder ==
  ASSUME NEW rows \in SUBSET (DOMAIN RefOrder), NEW d, \A n \in rows : d[n] \in Int
  PROVE  /\ StrictOrder(Nearer(rows, d), rows)
         /\ \A a, b \in rows : <<a, b>> \in Nearer(rows, d) <=> Closer(d, a, b)
<1> DEFINE R == Nearer(rows, d)
<1>1. \A a, b \in rows : <<a, b>> \in R <=> Closer(d, a, b)
  BY DEF Nearer, Closer
<1>2. \A n \in rows : RefOrder[n] \in Nat /\ d[n] \in Int
  BY DecisionAssumption
<1>3. \A a, b \in rows : RefOrder[a] = RefOrder[b] => a = b
  BY DecisionAssumption
<1> HIDE DEF R
<1>4. \A a \in rows : <<a, a>> \notin R
  BY <1>1, <1>2 DEF Closer
<1>5. ASSUME NEW a \in rows, NEW b \in rows PROVE a = b \/ <<a, b>> \in R \/ <<b, a>> \in R
  <2>1. d[a] \in Int /\ d[b] \in Int /\ RefOrder[a] \in Nat /\ RefOrder[b] \in Nat
    BY <1>2
  <2>2. a = b \/ RefOrder[a] # RefOrder[b]
    BY <1>3
  <2>3. a = b \/ Closer(d, a, b) \/ Closer(d, b, a)
    BY <2>1, <2>2 DEF Closer
  <2> QED BY <1>1, <2>3
<1>6. \A a, b, c \in rows : <<a, b>> \in R /\ <<b, c>> \in R => <<a, c>> \in R
  BY <1>1, <1>2 DEF Closer
<1> QED BY <1>1, <1>4, <1>5, <1>6 DEF StrictOrder, R

\* Two orders that agree on some members list these alike.
LEMMA SortedAgrees ==
  ASSUME NEW A, NEW R, NEW Q, \A a, b \in A : <<a, b>> \in R <=> <<a, b>> \in Q
  PROVE  Sorted(R, A) = Sorted(Q, A)
<1>1. \A m \in A : {k \in A : <<k, m>> \in R} = {k \in A : <<k, m>> \in Q}
  OBVIOUS
<1> DEFINE P(m) == Cardinality({k \in A : <<k, m>> \in R})
           O(m) == Cardinality({k \in A : <<k, m>> \in Q})
<1>2. \A m \in A : P(m) = O(m)
  BY <1>1
<1>3. Sorted(R, A) = [n \in 1..Cardinality(A) |-> CHOOSE m \in A : P(m) = n - 1]
  BY DEF Sorted
<1>4. Sorted(Q, A) = [n \in 1..Cardinality(A) |-> CHOOSE m \in A : O(m) = n - 1]
  BY DEF Sorted
<1> HIDE DEF P, O
<1>5. \A n : (CHOOSE m \in A : P(m) = n - 1) = (CHOOSE m \in A : O(m) = n - 1)
  BY <1>2
<1> QED BY <1>3, <1>4, <1>5

\* A member that follows the same ones in two orders has one place in both.
AgreeAt(R, Q, S, n, m) ==
  /\ IsFiniteSet(S) /\ StrictOrder(R, S) /\ StrictOrder(Q, S)
  /\ n \in 1..Cardinality(S) /\ m \in S /\ Sorted(R, S)[n] = m
  /\ \A b \in S : <<m, b>> \in R <=> <<m, b>> \in Q

LEMMA SamePlace ==
  ASSUME NEW S, NEW R, NEW Q, NEW n, NEW m, AgreeAt(R, Q, S, n, m) PROVE Sorted(Q, S)[n] = m
<1>0. /\ IsFiniteSet(S) /\ StrictOrder(R, S) /\ StrictOrder(Q, S)
      /\ n \in 1..Cardinality(S) /\ m \in S /\ Sorted(R, S)[n] = m
      /\ \A b \in S : <<m, b>> \in R <=> <<m, b>> \in Q
  BY DEF AgreeAt
<1>1. \A b \in S : <<b, m>> \in R <=> <<b, m>> \in Q
  BY <1>0 DEF StrictOrder
<1>2. PlaceOf(Q, S, m) = PlaceOf(R, S, m)
  BY <1>1 DEF PlaceOf, Preceding
<1>3. /\ Sorted(R, S) \in [1..Cardinality(S) -> S]
      /\ \A i \in 1..Cardinality(S) : PlaceOf(R, S, Sorted(R, S)[i]) = i - 1
  BY <1>0, SortedHasEveryMember
<1>4. /\ Sorted(Q, S) \in [1..Cardinality(S) -> S]
      /\ \A i \in 1..Cardinality(S) : PlaceOf(Q, S, Sorted(Q, S)[i]) = i - 1
  BY <1>0, SortedHasEveryMember
<1> QED BY <1>0, <1>2, <1>3, <1>4, PlacesDiffer

Least(k, N) == IF k < N THEN k ELSE N

LEMMA FirstOfTakes ==
  ASSUME NEW N \in Nat, NEW f, f = [n \in 1..N |-> f[n]], NEW k \in Nat
  PROVE  /\ FirstOf(f, k) = [n \in 1..Least(k, N) |-> f[n]] /\ Least(k, N) \in 0..N
         /\ \A n \in 1..N : n <= k <=> n \in 1..Least(k, N)
<1> DEFINE S == {f[n] : n \in 1..N}
<1>1. f \in [1..N -> S]
  OBVIOUS
<1> HIDE DEF S
<1>2. Len(f) = N
  BY <1>1, IsSequence
<1> PICK M : M = Min({k, N})
  OBVIOUS
<1>3. M \in {k, N} /\ M <= k /\ M <= N
  BY ExtremesOfTwo
<1>4. M = Least(k, N)
  BY <1>3 DEF Least
<1> QED BY <1>2, <1>3, <1>4 DEF FirstOf

-----------------------------------------------------------------------------
(* The model and the index.                                                *)

\* A model of N train rows, each with a reference.
IsModel(model, N) ==
  /\ N \in Nat /\ 1..N \subseteq DOMAIN RefOrder
  /\ model.vectors \in [1..N -> Int]

Ranks(model, f, N, d) ==
  /\ f \in [1..N -> 1..N] /\ f = ByDistance(1..N, d)
  /\ \A n \in 1..N : PlaceOf(Nearer(1..N, d), 1..N, f[n]) = n - 1
  /\ \A r \in 1..N : \E n \in 1..N : f[n] = r

LEMMA RowsAreRanked ==
  ASSUME NEW model, NEW N, IsModel(model, N), NEW d \in [1..N -> Int]
  PROVE  /\ Ranks(model, ByDistance(1..N, d), N, d)
         /\ StrictOrder(Nearer(1..N, d), 1..N)
         /\ IsFiniteSet(1..N) /\ Cardinality(1..N) = N
<1>1. IsFiniteSet(1..N) /\ Cardinality(1..N) = N
  BY FS_Interval DEF IsModel
<1>2. StrictOrder(Nearer(1..N, d), 1..N)
  BY NearerIsAnOrder DEF IsModel
<1>0. PICK S, R : S = 1..N /\ R = Nearer(1..N, d)
  OBVIOUS
<1>3. IsFiniteSet(S) /\ StrictOrder(R, S)
  BY <1>0, <1>1, <1>2
<1> DEFINE M == Cardinality(S)
           f == Sorted(R, S)
<1>4. /\ M \in Nat /\ f \in [1..M -> S]
      /\ \A n \in 1..M : PlaceOf(R, S, f[n]) = n - 1
      /\ \A m, n \in 1..M : m < n => <<f[m], f[n]>> \in R /\ f[m] # f[n]
      /\ \A s \in S : \E n \in 1..M : f[n] = s
  BY <1>3, SortedHasEveryMember
<1>5. M = N /\ f = ByDistance(1..N, d)
  BY <1>0, <1>1 DEF ByDistance
<1> HIDE DEF M, f
<1> QED BY <1>0, <1>1, <1>2, <1>4, <1>5 DEF Ranks

LEMMA DistancesAreIntegers ==
  ASSUME NEW model, NEW N, IsModel(model, N), NEW query \in Int
  PROVE  /\ AllRows(model) = 1..N
         /\ DistancesTo(model, query) \in [1..N -> Int]
         /\ \A n \in 1..N : DistancesTo(model, query)[n] >= 0
         /\ SinglesTo(model, query) \in [1..N -> Int]
<1>1. AllRows(model) = 1..N
  BY DEF AllRows, IsModel
<1>2. \A x, y \in Int : Distance(x, y) \in Int /\ Distance(x, y) >= 0
  BY DEF Distance
<1>3. \A x \in Int : Single(x) \in Int
  <2>1. Grid \in Nat /\ Grid > 0
    BY DecisionAssumption
  <2>2. Grid \div 2 \in Int
    BY <2>1
  <2>3. \A y \in Int : y \div Grid \in Int
    BY <2>1
  <2>4. \A y \in Int : Grid * y \in Int
    BY <2>1
  <2> QED BY <2>2, <2>3, <2>4 DEF Single
<1>4. \A n \in 1..N : model.vectors[n] \in Int
  BY DEF IsModel
<1> QED BY <1>1, <1>2, <1>3, <1>4 DEF DistancesTo, SinglesTo

\* Where rounding does not matter, the first of the model's ranking are the
\* first by rounded distances.
LEMMA RoundingKeepsTheFirst ==
  ASSUME NEW model, NEW N, IsModel(model, N), NEW query \in Int, NEW k \in Nat,
         ~RoundingMatters(model, query, k)
  PROVE  LET d == DistancesTo(model, query)
             e == SinglesTo(model, query)
         IN  \A n \in 1..N : n <= k =>
               /\ ByDistance(1..N, e)[n] = ByDistance(1..N, d)[n]
               /\ Distance(d[ByDistance(1..N, d)[n]], e[ByDistance(1..N, d)[n]]) <= Tolerance
<1> PICK d, e : d = DistancesTo(model, query) /\ e = SinglesTo(model, query)
  OBVIOUS
<1>1. AllRows(model) = 1..N /\ d \in [1..N -> Int] /\ e \in [1..N -> Int]
  BY DistancesAreIntegers
<1> PICK f : f = ByDistance(1..N, d)
  OBVIOUS
<1>2. /\ Ranks(model, f, N, d) /\ StrictOrder(Nearer(1..N, d), 1..N)
      /\ IsFiniteSet(1..N) /\ Cardinality(1..N) = N /\ StrictOrder(Nearer(1..N, e), 1..N)
  BY <1>1, RowsAreRanked
<1>3. ASSUME NEW n \in 1..N, n <= k
      PROVE  ByDistance(1..N, e)[n] = f[n] /\ Distance(d[f[n]], e[f[n]]) <= Tolerance
  <2>1. N \in Nat /\ f \in [1..N -> 1..N]
    BY <1>2 DEF IsModel, Ranks
  <2>2. f[n] \in ToSet(Nearest(model, query, k))
    <3> PICK M : M = Least(k, N)
      OBVIOUS
    <3>1. f = [i \in 1..N |-> f[i]]
      BY <2>1
    <3>2. n \in 1..M /\ FirstOf(f, k) = [i \in 1..M |-> f[i]]
      BY <1>3, <2>1, <3>1, FirstOfTakes
    <3>3. Nearest(model, query, k) = [i \in 1..M |-> f[i]]
      BY <1>1, <3>2 DEF Nearest
    <3> QED BY <3>2, <3>3 DEF ToSet
  <2>3. /\ ~(Distance(d[f[n]], e[f[n]]) > Tolerance)
        /\ \A b \in 1..N : <<f[n], b>> \in Nearer(1..N, d) <=> <<f[n], b>> \in Nearer(1..N, e)
    BY <1>1, <2>2 DEF RoundingMatters
  <2>4. ByDistance(1..N, e)[n] = f[n]
    <3> PICK m \in 1..N : m = f[n]
      BY <2>1
    <3>1. Sorted(Nearer(1..N, d), 1..N)[n] = m
      BY DEF ByDistance
    <3> PICK S, R, Q : S = 1..N /\ R = Nearer(1..N, d) /\ Q = Nearer(1..N, e)
      OBVIOUS
    <3>3. AgreeAt(R, Q, S, n, m)
      BY <1>2, <2>3, <3>1 DEF AgreeAt
    <3>2. Sorted(Q, S)[n] = m
      BY <3>3, SamePlace
    <3> QED BY <3>2 DEF ByDistance
  <2>5. Distance(d[f[n]], e[f[n]]) \in Int /\ Tolerance \in Int
    <3>1. d[f[n]] \in Int /\ e[f[n]] \in Int
      BY <1>1, <2>1
    <3> QED BY <3>1, DecisionAssumption DEF Distance
  <2> QED BY <2>3, <2>4, <2>5
<1> QED BY <1>3

-----------------------------------------------------------------------------
\* The index has every row once.
LEMMA RowsAreFiled ==
  ASSUME NEW model, NEW N, IsModel(model, N)
  PROVE  /\ Filed(model) \in [1..N -> 1..N]
         /\ \A m, n \in 1..N : Filed(model)[m] = Filed(model)[n] => m = n
         /\ \A r \in 1..N : \E n \in 1..N : Filed(model)[n] = r
<1>1. /\ DOMAIN RefOrder \subseteq Int /\ \A i \in DOMAIN RefOrder : RefOrder[i] \in Int
      /\ 1..N \in SUBSET (DOMAIN RefOrder) /\ N \in Nat
  BY DecisionAssumption DEF IsModel
<1>2. IsFiniteSet(1..N) /\ Cardinality(1..N) = N
  BY <1>1, FS_Interval
<1>3. PICK rows : rows = 1..N
  OBVIOUS
<1>4. rows \in SUBSET (DOMAIN RefOrder) /\ IsFiniteSet(rows)
  BY <1>1, <1>2, <1>3
<1> DEFINE M == Cardinality(rows)
           o == InOrder(RefOrder, rows)
<1>5. /\ M \in Nat /\ o \in [1..M -> rows]
      /\ \A m, n \in 1..M : m < n => Follows(RefOrder, o[m], o[n]) /\ o[m] # o[n]
      /\ \A i \in rows : \E n \in 1..M : o[n] = i
  BY <1>1, <1>4, RowsInOrder
<1>6. M = N /\ Filed(model) = o
  BY <1>2, <1>3 DEF Filed, AllRows, IsModel
<1> HIDE DEF M, o
<1>7. \A m, n \in 1..M : o[m] = o[n] => m = n
  <2> SUFFICES ASSUME NEW m \in 1..M, NEW n \in 1..M, o[m] = o[n], m # n PROVE FALSE
    OBVIOUS
  <2>1. m < n \/ n < m
    BY <1>5
  <2> QED BY <1>5, <2>1
<1> QED BY <1>3, <1>5, <1>6, <1>7

\* An order of the places of the rows is an order of the rows.
Renames(Q, R, N, h) ==
  /\ h \in [1..N -> 1..N]
  /\ \A m, n \in 1..N : h[m] = h[n] => m = n
  /\ \A r \in 1..N : \E n \in 1..N : h[n] = r
  /\ \A m, n \in 1..N : <<m, n>> \in Q <=> <<h[m], h[n]>> \in R

LEMMA RenamedOrder ==
  ASSUME NEW N \in Nat, NEW R, StrictOrder(R, 1..N), NEW Q, NEW h, Renames(Q, R, N, h)
  PROVE  /\ Sorted(Q, 1..N) \in [1..N -> 1..N]
         /\ \A n \in 1..N : h[Sorted(Q, 1..N)[n]] = Sorted(R, 1..N)[n]
<1>1. /\ h \in [1..N -> 1..N]
      /\ \A m, n \in 1..N : h[m] = h[n] => m = n
      /\ \A r \in 1..N : \E n \in 1..N : h[n] = r
      /\ \A m, n \in 1..N : <<m, n>> \in Q <=> <<h[m], h[n]>> \in R
  BY DEF Renames
<1>2. IsFiniteSet(1..N) /\ Cardinality(1..N) = N
  BY FS_Interval
<1>3. PICK S : S = 1..N
  OBVIOUS
<1>4. /\ h \in [S -> S]
      /\ \A m, n \in S : h[m] = h[n] => m = n
      /\ \A r \in S : \E n \in S : h[n] = r
      /\ \A m, n \in S : <<m, n>> \in Q <=> <<h[m], h[n]>> \in R
  BY <1>1, <1>3
<1>12. StrictOrder(R, S) /\ IsFiniteSet(S)
  BY <1>2, <1>3
<1>5. StrictOrder(Q, S) /\ IsFiniteSet(S)
  <2>1. \A m \in S : <<m, m>> \notin Q
    BY <1>4, <1>12 DEF StrictOrder
  <2>2. ASSUME NEW m \in S, NEW n \in S PROVE m = n \/ <<m, n>> \in Q \/ <<n, m>> \in Q
    <3>1. h[m] \in S /\ h[n] \in S
      BY <1>4
    <3>2. h[m] = h[n] \/ <<h[m], h[n]>> \in R \/ <<h[n], h[m]>> \in R
      BY <1>12, <3>1 DEF StrictOrder
    <3> QED BY <1>4, <3>2
  <2>3. ASSUME NEW a \in S, NEW b \in S, NEW c \in S, <<a, b>> \in Q, <<b, c>> \in Q
        PROVE  <<a, c>> \in Q
    <3>1. h[a] \in S /\ h[b] \in S /\ h[c] \in S
      BY <1>4
    <3>2. <<h[a], h[b]>> \in R /\ <<h[b], h[c]>> \in R
      BY <1>4, <2>3
    <3>3. <<h[a], h[c]>> \in R
      BY <1>12, <3>1, <3>2 DEF StrictOrder
    <3> QED BY <1>4, <3>3
  <2> QED BY <1>12, <2>1, <2>2, <2>3 DEF StrictOrder
<1> DEFINE M == Cardinality(S)
           f == Sorted(Q, S)
<1>6. /\ M \in Nat /\ f \in [1..M -> S]
      /\ \A n \in 1..M : PlaceOf(Q, S, f[n]) = n - 1
      /\ \A m, n \in 1..M : m < n => <<f[m], f[n]>> \in Q /\ f[m] # f[n]
      /\ \A s \in S : \E n \in 1..M : f[n] = s
  BY <1>5, SortedHasEveryMember
<1>7. M = N
  BY <1>2, <1>3
<1> HIDE DEF M, f
<1> DEFINE g == [n \in 1..M |-> h[f[n]]]
<1>8. /\ g \in [1..M -> S]
      /\ \A m, n \in 1..M : m < n => <<g[m], g[n]>> \in R
  BY <1>4, <1>6
<1>9. ASSUME NEW s \in S PROVE \E n \in 1..M : g[n] = s
  <2>1. PICK r \in S : h[r] = s
    BY <1>4
  <2>2. PICK n \in 1..M : f[n] = r
    BY <1>6
  <2> QED BY <2>1, <2>2
<1>10. \A n \in 1..M : g[n] = h[f[n]]
  OBVIOUS
<1> HIDE DEF g
<1>11. g = Sorted(R, S)
  <2>1. \A s \in S : \E n \in 1..M : g[n] = s
    BY <1>9
  <2>2. M \in Nat /\ StrictOrder(R, S)
    BY <1>6, <1>12
  <2> QED BY <1>8, <2>1, <2>2, OnlyOneOrder
<1> QED BY <1>3, <1>6, <1>7, <1>10, <1>11 DEF f

\* What the index answers: the first rows by rounded distances.
FromIndex(model, g, e, M) ==
  [n \in 1..M |-> [ref |-> RefOrder[g[n]], code |-> <<"fault", model.labels[g[n]]>>,
                   distance |-> e[g[n]]]]

LEMMA IndexAnswers ==
  ASSUME NEW model, NEW N, IsModel(model, N), NEW query \in Int, NEW k \in Nat
  PROVE  IndexQuery(Indexed(model), query, k) =
           FromIndex(model, ByDistance(1..N, SinglesTo(model, query)), SinglesTo(model, query),
                     Least(k, N))
<1>1. PICK h : h = Filed(model)
  OBVIOUS
<1>2. /\ h \in [1..N -> 1..N] /\ N \in Nat /\ AllRows(model) = 1..N
      /\ \A m, n \in 1..N : h[m] = h[n] => m = n
      /\ \A r \in 1..N : \E n \in 1..N : h[n] = r
  BY <1>1, RowsAreFiled, DistancesAreIntegers DEF IsModel
<1>3. PICK e : e = SinglesTo(model, query)
  OBVIOUS
<1>4. /\ e \in [1..N -> Int] /\ StrictOrder(Nearer(1..N, e), 1..N)
      /\ \A r \in 1..N : e[r] = Distance(Single(model.vectors[r]), Single(query))
  <2>1. e \in [1..N -> Int]
    BY <1>3, DistancesAreIntegers
  <2>2. StrictOrder(Nearer(1..N, e), 1..N)
    BY <2>1, RowsAreRanked
  <2> QED BY <1>2, <1>3, <2>1, <2>2 DEF SinglesTo
<1>5. PICK index : index = Indexed(model)
  OBVIOUS
<1>6. index = [r \in 1..N |-> [ref |-> RefOrder[h[r]], code |-> <<"fault", model.labels[h[r]]>>,
                               vector |-> Single(model.vectors[h[r]])]]
  <2>1. DOMAIN h = 1..N
    BY <1>2
  <2> QED BY <1>1, <1>5, <2>1 DEF Indexed
<1> DEFINE distance == [r \in DOMAIN index |-> Distance(index[r].vector, Single(query))]
           before == {p \in (DOMAIN index) \X (DOMAIN index) :
                        \/ distance[p[1]] < distance[p[2]]
                        \/ distance[p[1]] = distance[p[2]] /\ index[p[1]].ref < index[p[2]].ref}
           found == FirstOf(Sorted(before, DOMAIN index), k)
<1>7. IndexQuery(index, query, k) =
        [n \in DOMAIN found |-> [ref |-> index[found[n]].ref, code |-> index[found[n]].code,
                                 distance |-> distance[found[n]]]]
  BY DEF IndexQuery
<1>8. /\ DOMAIN index = 1..N
      /\ \A r \in 1..N : /\ index[r].ref = RefOrder[h[r]]
                         /\ index[r].code = <<"fault", model.labels[h[r]]>>
                         /\ distance[r] = e[h[r]]
  <2>1. /\ DOMAIN index = 1..N
        /\ \A r \in 1..N : /\ index[r].ref = RefOrder[h[r]]
                           /\ index[r].code = <<"fault", model.labels[h[r]]>>
                           /\ index[r].vector = Single(model.vectors[h[r]])
    BY <1>6
  <2>2. \A r \in 1..N : distance[r] = Distance(index[r].vector, Single(query))
    BY <2>1
  <2>3. \A r \in 1..N : h[r] \in 1..N
    BY <1>2
  <2> QED BY <1>4, <2>1, <2>2, <2>3
<1> HIDE DEF distance
<1>9. \A m, n \in 1..N : <<m, n>> \in before <=> <<h[m], h[n]>> \in Nearer(1..N, e)
  <2> SUFFICES ASSUME NEW m \in 1..N, NEW n \in 1..N
               PROVE  <<m, n>> \in before <=> <<h[m], h[n]>> \in Nearer(1..N, e)
    OBVIOUS
  <2>1. <<m, n>> \in before <=> Closer(e, h[m], h[n])
    BY <1>8 DEF Closer
  <2>2. h[m] \in 1..N /\ h[n] \in 1..N
    BY <1>2
  <2>3. <<h[m], h[n]>> \in Nearer(1..N, e) <=> Closer(e, h[m], h[n])
    BY <2>2 DEF Nearer, Closer
  <2> QED BY <2>1, <2>3
<1>10. PICK Q, R : Q = before /\ R = Nearer(1..N, e)
  OBVIOUS
<1>11. N \in Nat /\ StrictOrder(R, 1..N) /\ Renames(Q, R, N, h)
  BY <1>2, <1>4, <1>9, <1>10 DEF Renames
<1>12. PICK f : f = Sorted(Q, 1..N)
  OBVIOUS
<1>13. PICK g : g = Sorted(R, 1..N)
  OBVIOUS
<1>14. f \in [1..N -> 1..N] /\ \A n \in 1..N : h[f[n]] = g[n]
  BY <1>11, <1>12, <1>13, RenamedOrder
<1>15. PICK M : M = Least(k, N)
  OBVIOUS
<1>16. found = [n \in 1..M |-> f[n]] /\ M \in 0..N
  <2>1. f = [n \in 1..N |-> f[n]]
    BY <1>14
  <2>2. FirstOf(f, k) = [n \in 1..M |-> f[n]] /\ M \in 0..N
    BY <1>2, <1>15, <2>1, FirstOfTakes
  <2> QED BY <1>8, <1>10, <1>12, <2>2
<1> HIDE DEF found
<1>17. DOMAIN found = 1..M /\ \A n \in 1..M : found[n] \in 1..N /\ h[found[n]] = g[n]
  <2>1. \A n \in 1..M : n \in 1..N /\ found[n] = f[n]
    BY <1>2, <1>16
  <2> QED BY <1>14, <1>16, <2>1
<1>18. \A n \in 1..M :
         [ref |-> index[found[n]].ref, code |-> index[found[n]].code, distance |-> distance[found[n]]] =
         [ref |-> RefOrder[g[n]], code |-> <<"fault", model.labels[g[n]]>>, distance |-> e[g[n]]]
  BY <1>8, <1>17
<1>19. IndexQuery(index, query, k) =
         [n \in 1..M |-> [ref |-> RefOrder[g[n]], code |-> <<"fault", model.labels[g[n]]>>,
                          distance |-> e[g[n]]]]
  BY <1>7, <1>17, <1>18
<1>20. g = ByDistance(1..N, e)
  BY <1>10, <1>13 DEF ByDistance
<1> QED BY <1>3, <1>5, <1>15, <1>19, <1>20 DEF FromIndex

\* What the model shows of its ranking.
LEMMA ModelShows ==
  ASSUME NEW model, NEW N, IsModel(model, N), NEW query \in Int, NEW k \in Nat
  PROVE  LET d == DistancesTo(model, query)
             f == ByDistance(1..N, d)
         IN  /\ Nearest(model, query, k) = [n \in 1..Least(k, N) |-> f[n]]
             /\ PredictCandidate(model, query, k).neighbors = [n \in 1..Least(k, N) |-> f[n]]
             /\ Prediction(model, query, k).neighbors =
                  [n \in 1..Least(k, N) |->
                     [ref |-> RefOrder[f[n]], code |-> ConditionCode(model.labels[f[n]]),
                      distance |-> d[f[n]]]]
<1>1. PICK d : d = DistancesTo(model, query)
  OBVIOUS
<1>2. PICK f : f = ByDistance(1..N, d)
  OBVIOUS
<1>3. /\ AllRows(model) = 1..N /\ d \in [1..N -> Int] /\ N \in Nat
      /\ \A n \in 1..N : d[n] = Distance(model.vectors[n], query)
  <2>1. AllRows(model) = 1..N /\ d \in [1..N -> Int]
    BY <1>1, DistancesAreIntegers
  <2> QED BY <1>1, <2>1 DEF DistancesTo, IsModel
<1>4. f \in [1..N -> 1..N]
  <2>1. Ranks(model, f, N, d)
    BY <1>2, <1>3, RowsAreRanked
  <2> QED BY <2>1 DEF Ranks
<1>5. PICK K : K = Max({DefaultTopK, k})
  OBVIOUS
<1>6. K \in Nat /\ k <= K
  <2>1. DefaultTopK \in Int /\ DefaultTopK >= 0
    BY DecisionAssumption
  <2>2. K \in {DefaultTopK, k} /\ k <= K
    <3>1. k \in Int
      OBVIOUS
    <3> QED BY <1>5, <2>1, <3>1, ExtremesOfTwo
  <2> QED BY <2>1, <2>2
<1>7. PICK M, L : M = Least(k, N) /\ L = Least(K, N)
  OBVIOUS
<1>8. f = [n \in 1..N |-> f[n]]
  BY <1>4
<1>9. Nearest(model, query, k) = [n \in 1..M |-> f[n]] /\ M \in 0..N
  <2>1. FirstOf(f, k) = [n \in 1..M |-> f[n]] /\ M \in 0..N
    BY <1>3, <1>7, <1>8, FirstOfTakes
  <2> QED BY <1>1, <1>2, <1>3, <2>1 DEF Nearest
<1>10. PICK near : near = Nearest(model, query, K)
  OBVIOUS
<1>11. near = [n \in 1..L |-> f[n]] /\ L \in 0..N
  <2>1. FirstOf(f, K) = [n \in 1..L |-> f[n]] /\ L \in 0..N
    BY <1>3, <1>6, <1>7, <1>8, FirstOfTakes
  <2> QED BY <1>1, <1>2, <1>3, <1>10, <2>1 DEF Nearest
<1>12. FirstOf(near, k) = [n \in 1..M |-> f[n]]
  <2>1. near = [n \in 1..L |-> near[n]] /\ L \in Nat
    BY <1>3, <1>11
  <2>2. FirstOf(near, k) = [n \in 1..Least(k, L) |-> near[n]] /\ Least(k, L) \in 0..L
    BY <2>1, FirstOfTakes
  <2>3. Least(k, L) = M
    BY <1>3, <1>6, <1>7 DEF Least
  <2>4. \A n \in 1..M : near[n] = f[n]
    BY <1>3, <1>11, <2>2, <2>3
  <2> QED BY <2>2, <2>3, <2>4
<1>13. PredictCandidate(model, query, k).neighbors = [n \in 1..M |-> f[n]]
  BY <1>5, <1>10, <1>12 DEF PredictCandidate, CandidateFrom
<1>14. PICK c : c = PredictCandidate(model, query, k)
  OBVIOUS
<1>15. Prediction(model, query, k).neighbors =
         [n \in DOMAIN c.neighbors |->
            [ref |-> RefOrder[c.neighbors[n]], code |-> ConditionCode(model.labels[c.neighbors[n]]),
             distance |-> Distance(model.vectors[c.neighbors[n]], query)]]
  BY <1>14 DEF Prediction
<1>16. DOMAIN c.neighbors = 1..M /\ \A n \in 1..M : c.neighbors[n] = f[n]
  BY <1>13, <1>14
<1>17. \A n \in 1..M : Distance(model.vectors[f[n]], query) = d[f[n]]
  BY <1>3, <1>4, <1>9
<1>18. Prediction(model, query, k).neighbors =
         [n \in 1..M |-> [ref |-> RefOrder[f[n]], code |-> ConditionCode(model.labels[f[n]]),
                          distance |-> d[f[n]]]]
  BY <1>15, <1>16, <1>17
<1> QED BY <1>1, <1>2, <1>7, <1>9, <1>13, <1>18

\* The runtime answers wherever its exceptions do not apply.
LEMMA RuntimeAgrees ==
  ASSUME NEW model, NEW N, IsModel(model, N), NEW query \in Int, NEW k \in Nat,
         ~OperatingNeighbor(model, query, k), ~RoundingMatters(model, query, k)
  PROVE  Checked(model, query, k) # "unavailable"
<1>1. PICK d, e : d = DistancesTo(model, query) /\ e = SinglesTo(model, query)
  OBVIOUS
<1>2. PICK f, g : f = ByDistance(1..N, d) /\ g = ByDistance(1..N, e)
  OBVIOUS
<1>3. PICK M : M = Least(k, N)
  OBVIOUS
<1>4. PICK ours, theirs : /\ ours = Prediction(model, query, k).neighbors
                          /\ theirs = IndexQuery(Indexed(model), query, k)
  OBVIOUS
<1>5. /\ Nearest(model, query, k) = [n \in 1..M |-> f[n]]
      /\ ours = [n \in 1..M |-> [ref |-> RefOrder[f[n]], code |-> ConditionCode(model.labels[f[n]]),
                                 distance |-> d[f[n]]]]
  <2>1. LET a == DistancesTo(model, query)
            b == ByDistance(1..N, a)
        IN  /\ Nearest(model, query, k) = [n \in 1..Least(k, N) |-> b[n]]
            /\ PredictCandidate(model, query, k).neighbors = [n \in 1..Least(k, N) |-> b[n]]
            /\ Prediction(model, query, k).neighbors =
                 [n \in 1..Least(k, N) |->
                    [ref |-> RefOrder[b[n]], code |-> ConditionCode(model.labels[b[n]]),
                     distance |-> a[b[n]]]]
    BY ModelShows
  <2> QED BY <1>1, <1>2, <1>3, <1>4, <2>1
<1>6. theirs = [n \in 1..M |-> [ref |-> RefOrder[g[n]], code |-> <<"fault", model.labels[g[n]]>>,
                                distance |-> e[g[n]]]]
  <2>1. IndexQuery(Indexed(model), query, k) =
          FromIndex(model, ByDistance(1..N, SinglesTo(model, query)), SinglesTo(model, query),
                    Least(k, N))
    BY IndexAnswers
  <2> QED BY <1>1, <1>2, <1>3, <1>4, <2>1 DEF FromIndex
<1>7. \A n \in 1..M : n \in 1..N /\ n <= k
  BY <1>3 DEF Least, IsModel
<1>8. \A n \in 1..M : g[n] = f[n] /\ Distance(d[f[n]], e[f[n]]) <= Tolerance
  BY <1>1, <1>2, <1>7, RoundingKeepsTheFirst
<1>9. \A n \in 1..M : ConditionCode(model.labels[f[n]]) = <<"fault", model.labels[f[n]]>>
  <2> SUFFICES ASSUME NEW n \in 1..M
               PROVE  ConditionCode(model.labels[f[n]]) = <<"fault", model.labels[f[n]]>>
    OBVIOUS
  <2>1. f[n] \in ToSet(Nearest(model, query, k))
    BY <1>5 DEF ToSet
  <2>2. model.labels[f[n]] \notin Operating
    BY <2>1 DEF OperatingNeighbor
  <2> QED BY <2>2 DEF ConditionCode
<1>10. RankingsMatch(ours, theirs)
  <2>1. DOMAIN ours = 1..M /\ DOMAIN theirs = 1..M
    BY <1>5, <1>6
  <2>2. ASSUME NEW n \in 1..M
        PROVE  /\ ours[n].ref = theirs[n].ref
               /\ ours[n].code = theirs[n].code
               /\ Distance(ours[n].distance, theirs[n].distance) <= Tolerance
    <3>1. /\ ours[n].ref = RefOrder[f[n]] /\ ours[n].code = ConditionCode(model.labels[f[n]])
          /\ ours[n].distance = d[f[n]]
      BY <1>5
    <3>2. /\ theirs[n].ref = RefOrder[f[n]] /\ theirs[n].code = <<"fault", model.labels[f[n]]>>
          /\ theirs[n].distance = e[f[n]]
      BY <1>6, <1>8
    <3> QED BY <1>8, <1>9, <3>1, <3>2
  <2> QED BY <2>1, <2>2 DEF RankingsMatch
<1>11. Prediction(model, query, k).disposition \in {"out_of_distribution", "normal", "fault"}
  BY DEF Prediction
<1>12. Checked(model, query, k) = Prediction(model, query, k).disposition
  BY <1>4, <1>10 DEF Checked
<1> QED BY <1>11, <1>12

-----------------------------------------------------------------------------
(* The evaluation.                                                         *)

\* A batch is wrong by the slip at most.
Batched(model, N, query, batch) ==
  /\ batch \in [1..N -> Int]
  /\ LET d == DistancesTo(model, query)
     IN  \A n \in 1..N : d[n] - Slip <= batch[n] /\ batch[n] <= d[n] + Slip

LEMMA BatchesAreClose ==
  ASSUME NEW model, NEW N, IsModel(model, N), NEW query \in Int, NEW batch \in Batches(model, query)
  PROVE  Batched(model, N, query, batch)
<1>1. PICK d : d = DistancesTo(model, query)
  OBVIOUS
<1>2. AllRows(model) = 1..N /\ d \in [1..N -> Int] /\ (\A n \in 1..N : d[n] >= 0) /\ Slip \in Nat
  BY <1>1, DistancesAreIntegers, DecisionAssumption
<1>3. PICK error \in [1..N -> {-Slip, Slip}] : batch = [n \in 1..N |-> Max({0, d[n] + error[n]})]
  BY <1>1, <1>2 DEF Batches
<1>4. ASSUME NEW n \in 1..N
      PROVE  batch[n] \in Int /\ d[n] - Slip <= batch[n] /\ batch[n] <= d[n] + Slip
  <2>1. PICK x : x = d[n] + error[n]
    OBVIOUS
  <2>2. d[n] \in Int /\ d[n] >= 0 /\ error[n] \in {-Slip, Slip} /\ batch[n] = Max({0, x})
    BY <1>2, <1>3, <2>1
  <2>3. x \in Int /\ d[n] - Slip <= x /\ x <= d[n] + Slip
    BY <1>2, <2>1, <2>2
  <2>4. 0 \in Int /\ x \in Int
    BY <2>3
  <2>5. Max({0, x}) \in {0, x} /\ Max({0, x}) >= x
    BY <2>4, ExtremesOfTwo
  <2> QED BY <1>2, <2>2, <2>3, <2>5
<1> QED BY <1>1, <1>3, <1>4 DEF Batched

\* Rows that are repaired include the first by exact distances.
LEMMA GuardCovers ==
  ASSUME NEW model, NEW N, IsModel(model, N), NEW query \in Int, NEW batch,
         Batched(model, N, query, batch), NEW k \in 1..N, NEW n \in 1..k
  PROVE  batch[ByDistance(1..N, DistancesTo(model, query))[n]] <= Guarded(Increasing(batch, 1..N)[k])
<1>1. PICK d : d = DistancesTo(model, query)
  OBVIOUS
<1>2. PICK f : f = ByDistance(1..N, d)
  OBVIOUS
<1>3. /\ d \in [1..N -> Int] /\ batch \in [1..N -> Int] /\ Slip \in Nat /\ N \in Nat
      /\ \A r \in 1..N : d[r] - Slip <= batch[r] /\ batch[r] <= d[r] + Slip
  BY <1>1, DistancesAreIntegers, DecisionAssumption DEF Batched, IsModel
<1>4. PICK R : R = Nearer(1..N, d)
  OBVIOUS
<1>5. /\ f \in [1..N -> 1..N]
      /\ PlaceOf(R, 1..N, f[n]) = n - 1
      /\ IsFiniteSet(1..N) /\ Cardinality(1..N) = N
  <2>1. Ranks(model, f, N, d) /\ IsFiniteSet(1..N) /\ Cardinality(1..N) = N
    BY <1>2, <1>3, RowsAreRanked
  <2>2. n \in 1..N
    BY <1>3
  <2> QED BY <1>4, <2>1, <2>2 DEF Ranks
<1>6. PICK o : o = InOrder(batch, 1..N)
  OBVIOUS
<1>7. /\ o \in [1..N -> 1..N]
      /\ \A i, j \in 1..N : i < j => Follows(batch, o[i], o[j]) /\ o[i] # o[j]
  <2>1. PICK S : S = 1..N
    OBVIOUS
  <2>2. /\ DOMAIN batch \subseteq Int /\ \A i \in DOMAIN batch : batch[i] \in Int
        /\ S \in SUBSET (DOMAIN batch) /\ IsFiniteSet(S)
    BY <1>3, <1>5, <2>1
  <2> DEFINE M == Cardinality(S)
             p == InOrder(batch, S)
  <2>3. /\ M \in Nat /\ p \in [1..M -> S]
        /\ \A i, j \in 1..M : i < j => Follows(batch, p[i], p[j]) /\ p[i] # p[j]
        /\ \A i \in S : \E j \in 1..M : p[j] = i
    BY <2>2, RowsInOrder
  <2>4. M = N /\ p = o
    BY <1>5, <1>6, <2>1
  <2> HIDE DEF M, p
  <2> QED BY <2>1, <2>3, <2>4
<1>8. Increasing(batch, 1..N)[k] = batch[o[k]]
  BY <1>3, <1>6, <1>7 DEF Increasing
<1> SUFFICES ASSUME ~(batch[f[n]] <= batch[o[k]] + 2 * Slip) PROVE FALSE
  BY <1>1, <1>2, <1>8 DEF Guarded
<1>12. k \in 1..N /\ n \in 1..N /\ k \in Nat /\ n <= k /\ \A i \in 1..k : i \in 1..N /\ i \in Int /\ i <= k
  BY <1>3
<1>9. f[n] \in 1..N /\ o[k] \in 1..N /\ batch[f[n]] \in Int /\ batch[o[k]] \in Int
  <2>1. f[n] \in 1..N /\ o[k] \in 1..N
    BY <1>5, <1>7, <1>12
  <2> QED BY <1>3, <2>1
<1>10. ASSUME NEW i \in 1..k PROVE o[i] \in Preceding(R, 1..N, f[n])
  <2>1. i \in 1..N /\ o[i] \in 1..N
    BY <1>7, <1>12
  <2>2. batch[o[i]] \in Int /\ d[o[i]] \in Int /\ d[f[n]] \in Int
    BY <1>3, <1>9, <2>1
  <2>3. batch[o[i]] <= batch[o[k]]
    <3>1. CASE i = k
      BY <1>9, <3>1
    <3>2. CASE i # k
      <4>1. i < k
        BY <1>12, <3>2
      <4>2. Follows(batch, o[i], o[k])
        BY <1>7, <1>12, <2>1, <4>1
      <4> QED BY <1>9, <2>2, <4>2 DEF Follows
    <3> QED BY <3>1, <3>2
  <2>4. d[o[i]] - Slip <= batch[o[i]] /\ batch[f[n]] <= d[f[n]] + Slip /\ Slip \in Int
    <3>1. Slip \in Int
      BY <1>3
    <3>2. \A r \in 1..N : d[r] - Slip <= batch[r] /\ batch[r] <= d[r] + Slip
      BY <1>3
    <3> QED BY <1>9, <2>1, <3>1, <3>2
  <2>5. d[o[i]] < d[f[n]]
    BY <1>9, <2>2, <2>3, <2>4
  <2>6. <<o[i], f[n]>> \in R
    BY <1>4, <1>9, <2>1, <2>5 DEF Nearer
  <2> QED BY <2>1, <2>6 DEF Preceding
<1>11. k <= PlaceOf(R, 1..N, f[n])
  <2>1. PICK A, B : A = 1..k /\ B = Preceding(R, 1..N, f[n])
    OBVIOUS
  <2>2. IsFiniteSet(A) /\ IsFiniteSet(B) /\ Cardinality(A) = k
    <3>1. B \in SUBSET (1..N)
      BY <2>1 DEF Preceding
    <3>2. IsFiniteSet(1..k) /\ Cardinality(1..k) = k
      <4>1. 1 \in Int /\ k \in Int /\ 1 <= k
        BY <1>12
      <4>2. IsFiniteSet(1..k) /\ Cardinality(1..k) = IF 1 > k THEN 0 ELSE k - 1 + 1
        BY ONLY <4>1, FS_Interval, Zenon
      <4> QED BY ONLY <4>1, <4>2, SMT
    <3> QED BY <1>5, <2>1, <3>1, <3>2, FS_Subset
  <2>3. PICK g : g = [i \in A |-> o[i]]
    OBVIOUS
  <2>4. g \in [A -> B] /\ \A i, j \in A : g[i] = g[j] => i = j
    <3>1. \A i \in A : g[i] = o[i] /\ g[i] \in B /\ i \in 1..N /\ i \in Int
      BY <1>10, <1>12, <2>1, <2>3
    <3>2. ASSUME NEW i \in A, NEW j \in A, g[i] = g[j], i # j PROVE FALSE
      <4>1. i < j \/ j < i
        BY <3>1, <3>2
      <4> QED BY <1>7, <3>1, <3>2, <4>1
    <3> QED BY <2>3, <3>1, <3>2
  <2>5. Cardinality(A) <= Cardinality(B)
    <3>1. g \in Injection(A, B)
      BY <2>4 DEF Injection, IsInjective
    <3> QED BY <2>2, <3>1, FS_Injection
  <2> QED BY <2>1, <2>2, <2>5 DEF PlaceOf
<1> QED BY <1>3, <1>5, <1>11

\* The evaluation ranks like the model, and its parity audit passes.
LEMMA EvaluationAgrees ==
  ASSUME NEW model, NEW N, IsModel(model, N), NEW query \in Int,
         NEW batch, Batched(model, N, query, batch), NEW k \in 1..N
  PROVE  BatchRanking(model, query, batch, k) = Nearest(model, query, k)
<1>1. PICK d : d = DistancesTo(model, query)
  OBVIOUS
<1>2. AllRows(model) = 1..N /\ d \in [1..N -> Int] /\ batch \in [1..N -> Int] /\ N \in Nat
  BY <1>1, DistancesAreIntegers DEF Batched, IsModel
<1>3. PICK A : A = {n \in 1..N : batch[n] <= Guarded(Increasing(batch, 1..N)[k])}
  OBVIOUS
<1>4. BatchRanking(model, query, batch, k) = FirstOf(ByDistance(A, d), k)
  BY <1>1, <1>2, <1>3 DEF BatchRanking
<1>5. PICK S, R : S = 1..N /\ R = Nearer(1..N, d)
  OBVIOUS
<1>6. IsFiniteSet(S) /\ StrictOrder(R, S) /\ Cardinality(S) = N
  BY <1>2, <1>5, RowsAreRanked
<1>7. A \in SUBSET S /\ k \in 0..Cardinality(S)
  BY <1>2, <1>3, <1>5, <1>6
<1>8. PICK f : f = Sorted(R, S)
  OBVIOUS
<1>9. f = ByDistance(1..N, d) /\ f \in [1..N -> 1..N]
  <2>1. f = ByDistance(1..N, d)
    BY <1>5, <1>8 DEF ByDistance
  <2>2. Ranks(model, ByDistance(1..N, d), N, d)
    BY <1>2, RowsAreRanked
  <2> QED BY <2>1, <2>2 DEF Ranks
<1>10. \A n \in 1..k : f[n] \in A
  <2>1. \A n \in 1..k : batch[f[n]] <= Guarded(Increasing(batch, 1..N)[k])
    BY <1>1, <1>9, GuardCovers
  <2>2. \A n \in 1..k : n \in 1..N
    BY <1>2
  <2> QED BY <1>3, <1>9, <2>1, <2>2
<1>11. PICK g : g = Sorted(R, A)
  OBVIOUS
<1>12. k <= Cardinality(A) /\ \A n \in 1..k : g[n] = f[n]
  <2>1. \A n \in 1..k : Sorted(R, S)[n] \in A
    BY <1>8, <1>10
  <2>2. /\ k <= Cardinality(A)
        /\ \A n \in 1..k : Sorted(R, A)[n] = Sorted(R, S)[n]
    BY <1>6, <1>7, <2>1, FirstPlacesStay
  <2> QED BY <1>8, <1>11, <2>2
<1>13. g = ByDistance(A, d)
  <2>1. \A a, b \in A : <<a, b>> \in R <=> <<a, b>> \in Nearer(A, d)
    BY <1>5, <1>7 DEF Nearer
  <2>2. Sorted(R, A) = Sorted(Nearer(A, d), A)
    BY <2>1, SortedAgrees
  <2> QED BY <1>11, <2>2 DEF ByDistance
<1>14. FirstOf(g, k) = [n \in 1..k |-> g[n]]
  <2>1. PICK M : M = Cardinality(A)
    OBVIOUS
  <2>2. M \in Nat /\ g = [n \in 1..M |-> g[n]]
    <3>1. M \in Nat
      BY <1>6, <1>7, <2>1, FS_Subset, FS_CardinalityType
    <3> DEFINE Member(i) == CHOOSE m \in A : Cardinality({j \in A : <<j, m>> \in R}) = i - 1
    <3>2. g = [i \in 1..M |-> Member(i)]
      BY <1>11, <2>1 DEF Sorted
    <3> HIDE DEF Member
    <3>3. g = [i \in 1..M |-> g[i]]
      BY <3>2
    <3> QED BY <3>1, <3>3
  <2>3. k \in Nat
    BY <1>2
  <2>4. FirstOf(g, k) = [n \in 1..Least(k, M) |-> g[n]]
    BY <2>2, <2>3, FirstOfTakes
  <2>5. Least(k, M) = k
    BY <1>12, <2>1, <2>2, <2>3 DEF Least
  <2> QED BY <2>4, <2>5
<1>15. Nearest(model, query, k) = [n \in 1..k |-> f[n]]
  <2>1. f = [n \in 1..N |-> f[n]] /\ k \in Nat
    BY <1>2, <1>9
  <2>2. FirstOf(f, k) = [n \in 1..Least(k, N) |-> f[n]]
    BY <1>2, <2>1, FirstOfTakes
  <2>3. Least(k, N) = k
    BY <1>2 DEF Least
  <2> QED BY <1>1, <1>2, <1>9, <2>2, <2>3 DEF Nearest
<1> QED BY <1>4, <1>12, <1>13, <1>14, <1>15

LEMMA ParityAgrees ==
  ASSUME NEW model, NEW query
  PROVE  ParityHolds(model, query, RowOutcome(model, query, Nearest(model, query, DefaultTopK)))
<1>1. Max({DefaultTopK, DefaultTopK}) = DefaultTopK
  <2>1. DefaultTopK \in Int
    BY DecisionAssumption
  <2> QED BY <2>1, ExtremesOfTwo
<1>2. PICK c : c = RowOutcome(model, query, Nearest(model, query, DefaultTopK))
  OBVIOUS
<1>3. PredictCandidate(model, query, DefaultTopK) = c
  BY <1>1, <1>2 DEF PredictCandidate, RowOutcome
<1> QED BY <1>2, <1>3 DEF ParityHolds

-----------------------------------------------------------------------------
(* What is built stays, and what is held was built.                        *)

\* One table is loaded, and nothing is built before.
LoadIsDone == "build" \in DOMAIN runner => Runs("build", "loaded")
LoadedOnce == LoadIsDone \/ \A v \in Versions : build[v].phase = "waiting"

IsBuilt(c) == c \in Versions /\ build[c].phase = "built"

WriterPhases == {"idle", "copying", "staged", "placing", "ended"}
ChainTyped ==
  /\ directory \in [Kinds -> [of : Versions \cup {Nothing}, whole : BOOLEAN]]
  /\ writer \in [Kinds -> [Versions -> [phase : WriterPhases, holds : Versions \cup {Nothing}]]]

\* Directories, writers at work and the reader have versions that are built.
PlacedIsBuilt == \A k \in Kinds : directory[k] # Absent => IsBuilt(directory[k].of)
WrittenIsBuilt ==
  \A k \in Kinds, v \in Versions : writer[k][v].phase # "idle" => IsBuilt(writer[k][v].holds)
HeldIsBuilt == \A n \in Names : reader.held[n] # Nothing => IsBuilt(reader.held[n])
ModelIsHeld ==
  reader.step \in Steps \ {"begun", "bound", "failed"} => reader.held.model # Nothing

SuppliedInv ==
  /\ LoadedOnce /\ ChainTyped /\ PlacedIsBuilt /\ WrittenIsBuilt /\ HeldIsBuilt /\ ModelIsHeld

LEMMA LoadingIsTheEnd ==
  ASSUME AuditStep, Runs("build", "loaded") PROVE Runs("build", "loaded")'
<1>1. "build" \in DOMAIN runner /\ runner["build"].phase = "loaded"
  BY DEF Runs
<1>2. CASE UNCHANGED runner
  BY <1>1, <1>2 DEF Runs
<1>3. CASE \E p \in DOMAIN runner : \E r : ~Runs(p, "loaded") /\ Stands(p, r)
  BY <1>1, <1>3 DEF Runs, Stands
<1>4. (\E v \in DOMAIN audit.table : EditInPlace(v) \/ ReplaceFile(v) \/ ApproveVersion(v))
        => UNCHANGED runner
  BY DEF EditInPlace, ReplaceFile, ApproveVersion, Disturb
<1>5. ASSUME NEW p \in DOMAIN runner,
             \/ Read(p) \/ CompareOutput(p) \/ PlaceOutput(p) \/ LoseThePlace(p)
             \/ BeginBaseline(p) \/ FinishBaseline(p)
      PROVE  \E r : ~Runs(p, "loaded") /\ Stands(p, r)
  BY <1>5 DEF Read, AskManifest, OpenSource, Consume, Recheck, CompareOutput, PlaceOutput,
     LoseThePlace, BeginBaseline, FinishBaseline, Runs, Refused
<1>6. ASSUME BeginInventory \/ FinishInventory \/ BeginBuild \/ RefuseTable
      PROVE  \E p \in DOMAIN runner : \E r : ~Runs(p, "loaded") /\ Stands(p, r)
  BY <1>6 DEF BeginInventory, FinishInventory, BeginBuild, RefuseTable, Runs, Refused
<1> QED BY <1>2, <1>3, <1>4, <1>5, <1>6 DEF AuditStep

LEMMA AuditKeepsProcesses == ASSUME AuditStep PROVE DOMAIN runner' = DOMAIN runner
<1>1. (\E v \in DOMAIN audit.table : EditInPlace(v) \/ ReplaceFile(v) \/ ApproveVersion(v))
        => UNCHANGED runner
  BY DEF EditInPlace, ReplaceFile, ApproveVersion, Disturb
<1>2. ASSUME NEW p \in DOMAIN runner,
             \/ Read(p) \/ CompareOutput(p) \/ PlaceOutput(p) \/ LoseThePlace(p)
             \/ BeginBaseline(p) \/ FinishBaseline(p)
      PROVE  \E q, r : Stands(q, r)
  BY <1>2 DEF Read, AskManifest, OpenSource, Consume, Recheck, CompareOutput, PlaceOutput,
     LoseThePlace, BeginBaseline, FinishBaseline, Refused
<1>3. ASSUME BeginInventory \/ FinishInventory \/ BeginBuild \/ RefuseTable
      PROVE  \E q, r : Stands(q, r)
  BY <1>3 DEF BeginInventory, FinishInventory, BeginBuild, RefuseTable, Refused
<1>4. ASSUME NEW q, NEW r, Stands(q, r) PROVE DOMAIN runner' = DOMAIN runner
  BY <1>4 DEF Stands
<1> QED BY <1>1, <1>2, <1>3, <1>4 DEF AuditStep

\* What is built is never built again.
WillBeBuilt(c) == c \in Versions /\ build'[c].phase = "built"
BuiltStays == \A c : IsBuilt(c) => WillBeBuilt(c) /\ source'[c] = source[c] /\ build'[c] = build[c]

LEMMA NextKeepsWhatIsBuilt ==
  ASSUME BuildOK, LoadedOnce, [Next]_pipelineVars PROVE BuiltStays
<1>1. ASSUME NEW v \in Versions, Load(v) PROVE BuiltStays
  <2>1. Runs("build", "read")
    BY <1>1 DEF Load, LoadTable
  <2>2. \A w \in Versions : build[w].phase = "waiting"
    BY <2>1 DEF LoadedOnce, LoadIsDone, Runs
  <2> QED BY <2>2 DEF BuiltStays, IsBuilt, WillBeBuilt
<1>2. ASSUME NEW v \in Versions, Fit(v) PROVE BuiltStays
  <2>1. build[v].phase = "fitting" /\ UNCHANGED source /\ DOMAIN build = Versions
    BY <1>2 DEF Fit, BuildOK
  <2>2. \E b : build' = [build EXCEPT ![v] = b]
    <3>1. PICK turn : RefuseSource(v, turn) \/ Refit(v, turn) \/ Settle(v, turn)
      BY <1>2 DEF Fit
    <3>2. CASE Refit(v, turn) /\ ~Refuse(v, "not_converged")
      <4>1. build' = [build EXCEPT ![v].gap = turn.gap, ![v].seen = @ \union {<<turn.gap, turn.fit>>}]
        BY <3>2 DEF Refit
      <4> PICK old : old = build[v]
        OBVIOUS
      <4> PICK b : b = [old EXCEPT !.gap = turn.gap, !.seen = @ \union {<<turn.gap, turn.fit>>}]
        OBVIOUS
      <4>2. build' = [build EXCEPT ![v] = b]
        BY <4>1
      <4> QED BY <4>2
    <3>3. CASE RefuseSource(v, turn) \/ Settle(v, turn) \/ Refuse(v, "not_converged")
      BY <3>3 DEF RefuseSource, Settle, Refuse
    <3> QED BY <3>1, <3>2, <3>3
  <2>3. \A w \in Versions \ {v} : build'[w] = build[w]
    BY <2>1, <2>2
  <2> QED BY <2>1, <2>3 DEF BuiltStays, IsBuilt, WillBeBuilt
<1>3. ASSUME NEW v \in Versions, PassGates(v) PROVE BuiltStays
  <2>1. build[v].phase = "fitted" /\ UNCHANGED source
    BY <1>3 DEF PassGates
  <2>2. \A w \in Versions \ {v} : build'[w] = build[w]
    BY <1>3, GatingKeepsBuilds
  <2> QED BY <2>1, <2>2 DEF BuiltStays, IsBuilt, WillBeBuilt
<1>4. ASSUME UNCHANGED <<source, build>> PROVE BuiltStays
  BY <1>4 DEF BuiltStays, IsBuilt, WillBeBuilt
<1> QED BY <1>1, <1>2, <1>3, <1>4, NextBuilds

LEMMA NextLoadsOnce ==
  ASSUME AuditInv, LoadedOnce, [Next]_pipelineVars PROVE LoadedOnce'
<1>1. CASE LoadIsDone
  <2>1. AuditStep => LoadIsDone'
    BY <1>1, LoadingIsTheEnd, AuditKeepsProcesses DEF LoadIsDone
  <2>2. \A v \in Versions : ~LoadTable(v)
    BY <1>1 DEF LoadIsDone, LoadTable, Runs
  <2>3. UNCHANGED auditVars => LoadIsDone'
    BY <1>1 DEF auditVars, LoadIsDone, Runs
  <2> QED BY <2>1, <2>2, <2>3, NextAudits DEF LoadedOnce
<1>2. CASE ~LoadIsDone
  <2>1. \A v \in Versions : build[v].phase = "waiting"
    BY <1>2 DEF LoadedOnce
  <2>2. ASSUME NEW v \in Versions, Load(v) PROVE LoadIsDone'
    <3>1. Stands("build", [runner["build"] EXCEPT !.phase = "loaded"]) /\ Runs("build", "read")
      BY <2>2 DEF Load, LoadTable
    <3>2. PICK old : old = runner["build"]
      OBVIOUS
    <3>3. "build" \in DOMAIN runner /\ AuditIsSound
      BY <3>1 DEF Runs, AuditInv, AuditIsOver
    <3>4. IsProcess(old)
      BY <3>2, <3>3 DEF AuditIsSound, ProcessOK, ReaderIsSound
    <3>5. [old EXCEPT !.phase = "loaded"].phase = "loaded"
      BY <3>4 DEF IsProcess
    <3> QED BY <3>1, <3>2, <3>3, <3>5 DEF Stands, LoadIsDone, Runs
  <2>3. \A v \in Versions : ~Fit(v) /\ ~PassGates(v)
    BY <2>1 DEF Fit, PassGates
  <2>4. UNCHANGED <<source, build>> => LoadedOnce'
    BY <2>1 DEF LoadedOnce
  <2> QED BY <2>2, <2>3, <2>4, NextBuilds DEF LoadedOnce
<1> QED BY <1>1, <1>2

-----------------------------------------------------------------------------
LEMMA BuiltWasSupplied ==
  ASSUME BuiltStays, NEW c, IsBuilt(c) PROVE WillBeBuilt(c) /\ c # Nothing
BY ChainAssumption DEF BuiltStays, IsBuilt, Nothing

\* Writers place what they hold, and they hold what they were given.
LEMMA WritingKeepsBuilt ==
  ASSUME ChainTyped, PlacedIsBuilt, WrittenIsBuilt, BuiltStays,
         NEW k \in Kinds, NEW v \in Versions,
         (Stage(k, v) /\ IsBuilt(v)) \/ WriterStep(k, v) \/ IndexStep(v)
  PROVE  ChainTyped' /\ PlacedIsBuilt' /\ WrittenIsBuilt' /\ UNCHANGED reader
<1> DEFINE Full(d) == d # Absent => IsBuilt(d.of)
<1>1. /\ directory \in [Kinds -> [of : Versions \cup {Nothing}, whole : BOOLEAN]]
      /\ writer \in [Kinds -> [Versions -> [phase : WriterPhases, holds : Versions \cup {Nothing}]]]
      /\ "model" \in Kinds /\ "index" \in Kinds
  BY DEF ChainTyped, Kinds
\* One writer moves to a phase with what is built.
<1>2. ASSUME NEW j \in Kinds, NEW phase \in WriterPhases, NEW c, IsBuilt(c), Writer(j, v, phase, c)
      PROVE  /\ writer' \in [Kinds -> [Versions -> [phase : WriterPhases, holds : Versions \cup {Nothing}]]]
             /\ WrittenIsBuilt'
  <2>1. PICK w : w = [phase |-> phase, holds |-> c]
    OBVIOUS
  <2>2. w \in [phase : WriterPhases, holds : Versions \cup {Nothing}] /\ w.holds = c
    BY <1>2, <2>1 DEF IsBuilt
  <2>3. writer' = [writer EXCEPT ![j][v] = w]
    BY <1>2, <2>1 DEF Writer
  <2>4. \A i \in Kinds, u \in Versions : writer'[i][u] = IF i = j /\ u = v THEN w ELSE writer[i][u]
    BY <1>1, <2>3
  <2>5. ASSUME NEW i \in Kinds, NEW u \in Versions, writer'[i][u].phase # "idle"
        PROVE  WillBeBuilt(writer'[i][u].holds)
    <3>1. CASE i = j /\ u = v
      BY <1>2, <2>2, <2>4, <3>1, BuiltWasSupplied
    <3>2. CASE ~(i = j /\ u = v)
      BY <2>4, <2>5, <3>2, BuiltWasSupplied DEF WrittenIsBuilt
    <3> QED BY <3>1, <3>2
  <2>6. WrittenIsBuilt'
    BY <2>5 DEF WrittenIsBuilt, IsBuilt, WillBeBuilt
  <2> QED BY <1>1, <2>2, <2>3, <2>6
<1>3. UNCHANGED directory => PlacedIsBuilt'
  BY BuiltWasSupplied DEF PlacedIsBuilt, IsBuilt, WillBeBuilt
<1>4. CASE Stage(k, v) /\ IsBuilt(v)
  BY <1>1, <1>2, <1>3, <1>4 DEF Stage, ChainTyped, WriterPhases
<1>5. CASE WriterStep(k, v)
  <2>1. writer[k][v].phase \in {"staged", "placing"} /\ UNCHANGED reader
    BY <1>5 DEF WriterStep, Compare, Place
  <2>2. PICK c : c = writer[k][v].holds
    OBVIOUS
  <2>3. IsBuilt(c)
    BY <2>1, <2>2 DEF WrittenIsBuilt
  <2>4. \E phase \in WriterPhases : Writer(k, v, phase, c)
    <3>1. CASE Compare(k, v)
      <4>1. PICK phase \in WriterPhases : phase = IF directory[k] = Absent THEN "placing" ELSE "ended"
        BY DEF WriterPhases
      <4> QED BY <2>2, <3>1, <4>1 DEF Compare
    <3>2. CASE Place(k, v)
      BY <2>2, <3>2 DEF Place, WriterPhases
    <3> QED BY <1>5, <3>1, <3>2 DEF WriterStep
  <2>5. UNCHANGED directory \/ directory' = [directory EXCEPT ![k] = Whole(c)]
    BY <1>5, <2>2 DEF WriterStep, Compare, Place
  <2>6. directory' = [directory EXCEPT ![k] = Whole(c)] =>
          /\ directory' \in [Kinds -> [of : Versions \cup {Nothing}, whole : BOOLEAN]]
          /\ PlacedIsBuilt'
    <3> SUFFICES ASSUME directory' = [directory EXCEPT ![k] = Whole(c)]
                 PROVE  /\ directory' \in [Kinds -> [of : Versions \cup {Nothing}, whole : BOOLEAN]]
                        /\ PlacedIsBuilt'
      OBVIOUS
    <3>1. Whole(c) \in [of : Versions \cup {Nothing}, whole : BOOLEAN] /\ Whole(c).of = c
      BY <2>3 DEF Whole, IsBuilt
    <3>2. directory'[k] = Whole(c) /\ \A j \in Kinds \ {k} : directory'[j] = directory[j]
      BY <1>1
    <3>3. ASSUME NEW j \in Kinds, directory'[j] # Absent PROVE WillBeBuilt(directory'[j].of)
      <4>1. CASE j = k
        BY <2>3, <3>1, <3>2, <4>1, BuiltWasSupplied
      <4>2. CASE j # k
        BY <3>2, <3>3, <4>2, BuiltWasSupplied DEF PlacedIsBuilt
      <4> QED BY <4>1, <4>2
    <3>4. PlacedIsBuilt'
      BY <3>3 DEF PlacedIsBuilt, IsBuilt, WillBeBuilt
    <3> QED BY <1>1, <3>1, <3>4
  <2> QED BY <1>1, <1>2, <1>3, <2>1, <2>3, <2>4, <2>5, <2>6 DEF ChainTyped
<1>6. CASE IndexStep(v)
  <2>1. UNCHANGED <<directory, reader>>
    BY <1>6 DEF IndexStep, SnapshotModelManifest, SnapshotModelArrays
  <2>2. CASE SnapshotModelManifest(v)
    <3>1. IsBuilt(directory["model"].of) /\ Writer("index", v, "copying", directory["model"].of)
      BY <1>1, <2>2 DEF SnapshotModelManifest, PlacedIsBuilt
    <3> QED BY <1>1, <1>2, <1>3, <2>1, <3>1 DEF ChainTyped, WriterPhases
  <2>3. CASE SnapshotModelArrays(v)
    <3>1. PICK c : c = writer["index"][v].holds
      OBVIOUS
    <3>2. IsBuilt(c) /\ \E phase \in WriterPhases : Writer("index", v, phase, c)
      BY <1>1, <2>3, <3>1 DEF SnapshotModelArrays, WrittenIsBuilt, WriterPhases
    <3> QED BY <1>1, <1>2, <1>3, <2>1, <3>2 DEF ChainTyped
  <2> QED BY <1>6, <2>2, <2>3 DEF IndexStep
<1> QED BY <1>4, <1>5, <1>6

\* The operator only takes away.
LEMMA RemovalKeepsBuilt ==
  ASSUME ChainTyped, PlacedIsBuilt, WrittenIsBuilt, BuiltStays, NEW k \in Kinds, OperatorStep(k)
  PROVE  ChainTyped' /\ PlacedIsBuilt' /\ WrittenIsBuilt' /\ UNCHANGED reader
<1>1. /\ directory \in [Kinds -> [of : Versions \cup {Nothing}, whole : BOOLEAN]]
      /\ writer' = writer /\ reader' = reader
  BY DEF ChainTyped, OperatorStep, StartRemoval, EndRemoval
<1>2. PICK d : d = directory[k]
  OBVIOUS
<1>3. d \in [of : Versions \cup {Nothing}, whole : BOOLEAN]
  BY <1>1, <1>2
<1>4. PICK e : /\ directory' = [directory EXCEPT ![k] = e]
               /\ e = Absent \/ (e = [d EXCEPT !.whole = FALSE] /\ d.whole)
  BY <1>1, <1>2 DEF OperatorStep, StartRemoval, EndRemoval
<1>5. e \in [of : Versions \cup {Nothing}, whole : BOOLEAN] /\ (e # Absent => IsBuilt(e.of))
  <2>1. CASE e = Absent
    BY <2>1 DEF Absent
  <2>2. CASE e = [d EXCEPT !.whole = FALSE] /\ d.whole
    <3>1. d # Absent
      BY <2>2 DEF Absent
    <3> QED BY <1>2, <1>3, <2>2, <3>1 DEF PlacedIsBuilt
  <2> QED BY <1>4, <2>1, <2>2
<1>6. directory'[k] = e /\ \A j \in Kinds \ {k} : directory'[j] = directory[j]
  BY <1>1, <1>4
<1>7. ASSUME NEW j \in Kinds, directory'[j] # Absent PROVE WillBeBuilt(directory'[j].of)
  <2>1. CASE j = k
    BY <1>5, <1>6, <1>7, <2>1, BuiltWasSupplied
  <2>2. CASE j # k
    BY <1>6, <1>7, <2>2, BuiltWasSupplied DEF PlacedIsBuilt
  <2> QED BY <2>1, <2>2
<1>8. PlacedIsBuilt'
  BY <1>7 DEF PlacedIsBuilt, IsBuilt, WillBeBuilt
<1>9. WrittenIsBuilt'
  BY <1>1, BuiltWasSupplied DEF WrittenIsBuilt, IsBuilt, WillBeBuilt
<1> QED BY <1>1, <1>4, <1>5, <1>8, <1>9 DEF ChainTyped

\* Whoever reads takes a version from a directory.
LEMMA ReadingTakesBuilt ==
  ASSUME ReaderOK, ChainTyped, PlacedIsBuilt, HeldIsBuilt, BuiltStays, NEW k \in Kinds,
         NEW accepted \in SUBSET (Versions \cup {Nothing}), NEW name \in Names, NEW step \in Steps,
         Reads(k, accepted, name, step)
  PROVE  HeldIsBuilt' /\ (Fails \/ Took(name, step, accepted))
<1>1. Fails \/ Took(name, step, accepted)
  BY ReadsTakeOnePart
<1>2. CASE Fails
  <2>1. reader' = [reader EXCEPT !.step = "failed", !.held = NothingHeld]
    BY <1>2 DEF Fails, Goes
  <2>2. reader'.held = NothingHeld
    BY <2>1 DEF ReaderOK
  <2> QED BY <1>1, <2>2 DEF HeldIsBuilt, NothingHeld, Names
<1>3. CASE \E c \in accepted : Has(k, c) /\ Goes(step, [reader.held EXCEPT ![name] = c])
  <2>1. PICK c \in accepted : Has(k, c) /\ Goes(step, [reader.held EXCEPT ![name] = c])
    BY <1>3
  <2>2. PICK h : h = [reader.held EXCEPT ![name] = c]
    OBVIOUS
  <2>3. reader.held \in Held
    BY DEF ReaderOK
  <2>4. h[name] = c /\ \A n \in Names \ {name} : h[n] = reader.held[n]
    BY <2>2, <2>3 DEF Held, Names
  <2>5. reader' = [reader EXCEPT !.step = step, !.held = h]
    BY <2>1, <2>2 DEF Goes
  <2>6. reader'.held = h
    BY <2>5 DEF ReaderOK
  <2>7. c # Nothing => IsBuilt(c)
    BY <2>1 DEF Has, PlacedIsBuilt, Absent
  <2>8. ASSUME NEW n \in Names, h[n] # Nothing PROVE WillBeBuilt(h[n])
    BY <2>4, <2>7, <2>8, BuiltWasSupplied DEF HeldIsBuilt
  <2>9. HeldIsBuilt'
    BY <2>6, <2>8 DEF HeldIsBuilt, IsBuilt, WillBeBuilt
  <2> QED BY <1>1, <2>9
<1> QED BY <1>1, <1>2, <1>3 DEF Reads

-----------------------------------------------------------------------------
\* A read that leaves a reader past its first manifests with a model.
LateSteps == Steps \ {"begun", "bound", "failed"}
KeepsModel(k, name, step, accepted) ==
  /\ Reads(k, accepted, name, step)
  /\ \/ step = "bound"
     \/ name = "model" /\ Nothing \notin accepted
     \/ name # "model" /\ reader.step \in LateSteps

LEMMA ReaderKeepsBuilt ==
  ASSUME ChainInv, ChainTyped, PlacedIsBuilt, HeldIsBuilt, ModelIsHeld, BuiltStays, ReaderStep
  PROVE  HeldIsBuilt' /\ ModelIsHeld' /\ UNCHANGED <<directory, writer>>
<1> DEFINE Kept == Versions \cup {Nothing}
<1>1. /\ ReaderOK /\ reader.held \in Held
      /\ reader.held.model \in Kept /\ reader.held.dataset \in Kept /\ reader.held.index \in Kept
      /\ reader.pin.model \in Kept /\ reader.pin.index \in Kept
      /\ {"dataset", "model", "index"} \subseteq Kinds
      /\ {"dataset", "model", "vectors", "refs", "index", "holdout"} \subseteq Names
      /\ {"bound", "described", "hashed", "half_read", "read", "index_verified", "index_described",
          "index_read", "ready", "failed"} \subseteq Steps
      /\ Nothing \notin Versions
  BY ChainAssumption DEF ChainInv, ReaderOK, Held, Kinds, Names, Steps, Nothing
<1>2. UNCHANGED <<directory, writer>>
  BY DEF ReaderStep, VerifyModelManifest, BindDataset, ReadModelManifest, HashArrays, LoadVectors,
     LoadRefs, AcceptModel, VerifyIndexManifest, ReadIndexManifest, ReadIndexFiles, JoinChain,
     ReadHoldout, Reads, Fails, Goes
<1> SUFFICES HeldIsBuilt' /\ ModelIsHeld'
  BY <1>2
<1>3. Fails => HeldIsBuilt' /\ ModelIsHeld'
  <2> SUFFICES ASSUME Fails PROVE HeldIsBuilt' /\ ModelIsHeld'
    OBVIOUS
  <2>1. reader' = [reader EXCEPT !.step = "failed", !.held = NothingHeld]
    BY DEF Fails, Goes
  <2>2. reader'.held = NothingHeld /\ reader'.step = "failed"
    BY <1>1, <2>1 DEF ReaderOK
  <2> QED BY <2>2 DEF HeldIsBuilt, NothingHeld, Names, ModelIsHeld
\* A read of a part.
<1>4. ASSUME NEW k \in Kinds, NEW name \in Names, NEW step \in Steps, NEW accepted \in SUBSET Kept,
             KeepsModel(k, name, step, accepted)
      PROVE  HeldIsBuilt' /\ ModelIsHeld'
  <2>1. HeldIsBuilt' /\ (Fails \/ Took(name, step, accepted))
    <3>1. Reads(k, accepted, name, step)
      BY <1>4 DEF KeepsModel
    <3> QED BY <1>1, <3>1, ReadingTakesBuilt
  <2>2. CASE Took(name, step, accepted)
    <3>1. /\ reader'.step = step /\ reader'.held[name] \in accepted
          /\ \A n \in Names \ {name} : reader'.held[n] = reader.held[n]
      BY <2>2 DEF Took
    <3>2. reader.step \in LateSteps => reader.held["model"] # Nothing
      BY DEF ModelIsHeld, LateSteps
    <3>3. "model" \in Names
      BY <1>1
    <3>4. step = "bound" \/ reader'.held["model"] # Nothing
      BY <1>4, <3>1, <3>2, <3>3 DEF KeepsModel
    <3> QED BY <2>1, <3>1, <3>4 DEF ModelIsHeld
  <2> QED BY <1>3, <2>1, <2>2
<1>5. CASE VerifyModelManifest \/ BindDataset
  <2>1. \E k \in Kinds, accepted \in SUBSET Kept : Reads(k, accepted, "dataset", "bound")
    BY <1>1, <1>5 DEF VerifyModelManifest, BindDataset
  <2>2. \E k \in Kinds, accepted \in SUBSET Kept : KeepsModel(k, "dataset", "bound", accepted)
    BY <2>1 DEF KeepsModel
  <2>3. "dataset" \in Names /\ "bound" \in Steps
    BY <1>1
  <2> QED BY <1>4, <2>2, <2>3
<1>6. CASE ReadModelManifest
  <2>1. Reads("model", Versions, "model", "described")
    BY <1>6 DEF ReadModelManifest
  <2>2. KeepsModel("model", "model", "described", Versions)
    BY <1>1, <2>1 DEF KeepsModel
  <2>3. "model" \in Kinds /\ "model" \in Names /\ "described" \in Steps /\ Versions \in SUBSET Kept
    BY <1>1
  <2> QED BY <1>4, <2>2, <2>3
<1>7. CASE HashArrays
  <2>1. Reads("model", {reader.held.model}, "model", "hashed") /\ reader.step = "described"
    BY <1>7 DEF HashArrays, At
  <2>2. reader.held.model # Nothing
    BY <2>1 DEF ModelIsHeld, Steps
  <2>3. KeepsModel("model", "model", "hashed", {reader.held.model})
    BY <2>1, <2>2 DEF KeepsModel
  <2>4. /\ "model" \in Kinds /\ "model" \in Names /\ "hashed" \in Steps
        /\ {reader.held.model} \in SUBSET Kept
    BY <1>1
  <2> QED BY <1>4, <2>3, <2>4
<1>8. CASE \/ LoadVectors \/ LoadRefs \/ VerifyIndexManifest \/ ReadIndexManifest
           \/ ReadIndexFiles \/ ReadHoldout
  <2>1. reader.step \in LateSteps
    BY <1>8 DEF LoadVectors, LoadRefs, VerifyIndexManifest, ReadIndexManifest, ReadIndexFiles,
       ReadHoldout, At, Steps, LateSteps
  <2>2. {c \in Versions : Compatible(c)} \in SUBSET Kept
    OBVIOUS
  <2>3. \E k \in Kinds, name \in Names \ {"model"}, step \in Steps, accepted \in SUBSET Kept :
          Reads(k, accepted, name, step)
    BY <1>1, <1>8, <2>2 DEF LoadVectors, LoadRefs, VerifyIndexManifest, ReadIndexManifest,
       ReadIndexFiles, ReadHoldout
  <2>4. \E k \in Kinds, name \in Names, step \in Steps, accepted \in SUBSET Kept :
          KeepsModel(k, name, step, accepted)
    BY <2>1, <2>3 DEF KeepsModel
  <2> QED BY <1>4, <2>4
<1>9. CASE AcceptModel \/ JoinChain
  <2>1. Fails \/ \E step \in LateSteps : Goes(step, reader.held)
    BY <1>9 DEF AcceptModel, JoinChain, Steps, LateSteps
  <2>2. reader.step \in LateSteps
    BY <1>9 DEF AcceptModel, JoinChain, At, Steps, LateSteps
  <2>3. ASSUME NEW step \in LateSteps, Goes(step, reader.held) PROVE HeldIsBuilt' /\ ModelIsHeld'
    <3>1. reader' = [reader EXCEPT !.step = step, !.held = reader.held]
      BY <2>3 DEF Goes
    <3>2. reader'.held = reader.held
      BY <1>1, <3>1 DEF ReaderOK
    <3>3. reader'.held.model # Nothing
      BY <2>2, <3>2 DEF ModelIsHeld, LateSteps
    <3>4. HeldIsBuilt'
      BY <3>2, BuiltWasSupplied DEF HeldIsBuilt, IsBuilt, WillBeBuilt
    <3> QED BY <3>3, <3>4 DEF ModelIsHeld
  <2> QED BY <1>3, <2>1, <2>3
<1> QED BY <1>5, <1>6, <1>7, <1>8, <1>9 DEF ReaderStep

LEMMA ReaderAtRestKeepsBuilt ==
  ASSUME HeldIsBuilt, ModelIsHeld, BuiltStays, UNCHANGED reader PROVE HeldIsBuilt' /\ ModelIsHeld'
<1>1. HeldIsBuilt'
  BY BuiltWasSupplied DEF HeldIsBuilt, IsBuilt, WillBeBuilt
<1> QED BY <1>1 DEF ModelIsHeld

LEMMA DirectoriesAtRestKeepBuilt ==
  ASSUME ChainTyped, PlacedIsBuilt, WrittenIsBuilt, BuiltStays, UNCHANGED <<directory, writer>>
  PROVE  ChainTyped' /\ PlacedIsBuilt' /\ WrittenIsBuilt'
<1>1. PlacedIsBuilt'
  BY BuiltWasSupplied DEF PlacedIsBuilt, IsBuilt, WillBeBuilt
<1>2. WrittenIsBuilt'
  BY BuiltWasSupplied DEF WrittenIsBuilt, IsBuilt, WillBeBuilt
<1> QED BY <1>1, <1>2 DEF ChainTyped

LEMMA NextKeepsSupplied ==
  ASSUME AuditInv, BuildOK, ChainInv, SuppliedInv, [Next]_pipelineVars
  PROVE  SuppliedInv' /\ BuiltStays
<1>1. /\ LoadedOnce /\ ChainTyped /\ PlacedIsBuilt /\ WrittenIsBuilt /\ HeldIsBuilt /\ ModelIsHeld
  BY DEF SuppliedInv
<1>2. LoadedOnce' /\ BuiltStays
  BY <1>1, NextLoadsOnce, NextKeepsWhatIsBuilt
<1> SUFFICES ChainTyped' /\ PlacedIsBuilt' /\ WrittenIsBuilt' /\ HeldIsBuilt' /\ ModelIsHeld'
  BY <1>2 DEF SuppliedInv
<1>3. CASE UNCHANGED chainVars
  BY <1>1, <1>2, <1>3, ReaderAtRestKeepsBuilt, DirectoriesAtRestKeepBuilt DEF chainVars
<1>4. CASE ReaderStep
  BY <1>1, <1>2, <1>4, ReaderKeepsBuilt, DirectoriesAtRestKeepBuilt
<1>5. ASSUME NEW k \in Kinds, NEW v \in Versions,
             (Stage(k, v) /\ IsBuilt(v)) \/ WriterStep(k, v) \/ IndexStep(v)
      PROVE  ChainTyped' /\ PlacedIsBuilt' /\ WrittenIsBuilt' /\ HeldIsBuilt' /\ ModelIsHeld'
  BY <1>1, <1>2, <1>5, WritingKeepsBuilt, ReaderAtRestKeepsBuilt
<1>6. ASSUME NEW k \in Kinds, OperatorStep(k)
      PROVE  ChainTyped' /\ PlacedIsBuilt' /\ WrittenIsBuilt' /\ HeldIsBuilt' /\ ModelIsHeld'
  BY <1>1, <1>2, <1>6, RemovalKeepsBuilt, ReaderAtRestKeepsBuilt
<1>7. "model" \in Kinds
  BY DEF Kinds
<1>8. \/ UNCHANGED chainVars \/ ReaderStep
      \/ \E k \in Kinds, v \in Versions :
           (Stage(k, v) /\ IsBuilt(v)) \/ WriterStep(k, v) \/ IndexStep(v)
      \/ \E k \in Kinds : OperatorStep(k)
  <2>1. CASE Chain
    BY <1>7, <2>1 DEF Chain
  <2>2. CASE \E v \in Versions, k \in Kinds : Publish(k, v)
    BY <2>2 DEF Publish, IsBuilt
  <2>3. [Next]_pipelineVars =>
          Chain \/ (\E v \in Versions, k \in Kinds : Publish(k, v)) \/ UNCHANGED chainVars
    BY DEF Next, Audit, Load, Build, Analyze, Evaluate, pipelineVars
  <2> QED BY <2>1, <2>2, <2>3
<1> QED BY <1>3, <1>4, <1>5, <1>6, <1>8

LEMMA SupplyBegins == ASSUME Init PROVE SuppliedInv /\ ChainInv
<1>1. /\ directory = [k \in Kinds |-> Absent]
      /\ writer = [k \in Kinds |-> [v \in Versions |-> [phase |-> "idle", holds |-> v]]]
      /\ reader \in Readers
  BY DEF Init, ChainInit
<1>2. ChainInv
  BY <1>1, ChainAssumption DEF Readers, NoPin, NothingHeld, ChainInv, ReaderOK, ModelIsWhole,
     ChainIsJoined, HoldoutIsOwn, At, Held, Steps
<1>3. ChainTyped /\ PlacedIsBuilt /\ WrittenIsBuilt
  BY <1>1 DEF ChainTyped, PlacedIsBuilt, WrittenIsBuilt, Absent, WriterPhases
<1>4. HeldIsBuilt /\ ModelIsHeld
  BY <1>1 DEF Readers, HeldIsBuilt, NothingHeld, Names, ModelIsHeld
<1>5. LoadedOnce
  <2>1. CASE AuditStarts(NoAudit)
    BY <2>1 DEF AuditStarts, NoAudit, LoadedOnce, LoadIsDone
  <2>2. CASE BuildStarts(NoSource, "waiting")
    BY <2>2 DEF BuildStarts, NoSource, Build0, LoadedOnce
  <2> QED BY <2>1, <2>2 DEF Init
<1> QED BY <1>2, <1>3, <1>4, <1>5 DEF SuppliedInv

-----------------------------------------------------------------------------
(* The answers.                                                            *)

\* A partition of a dataset lists some of the rows of its source.
LEMMA PartitionIsListed ==
  ASSUME NEW s, IsSource(s), NEW d, Own(s, d), NEW p \in Three
  PROVE  \E N \in Nat : /\ d.rows[p] \in [1..N -> DOMAIN s]
                        /\ IsFiniteSet(DOMAIN s) /\ N <= Cardinality(DOMAIN s)
<1>1. PICK rows : rows = Members(d.occurrences, d.split, p)
  OBVIOUS
<1>2. rows \in SUBSET (DOMAIN s) /\ d.rows[p] = InOrder(Times(s), rows)
  BY <1>1, OwnIsOwnFit DEF OwnFit
<1>3. PICK times : times = Times(s)
  OBVIOUS
<1>4. InTime(times) /\ DOMAIN times = DOMAIN s
  BY <1>3, SourceIsInTime
<1>5. /\ rows \in SUBSET (DOMAIN times) /\ IsFiniteSet(rows)
      /\ DOMAIN times \subseteq Int /\ \A i \in DOMAIN times : times[i] \in Int
  BY <1>2, <1>4, InTimeIsFinite
<1> DEFINE N == Cardinality(rows)
           o == InOrder(times, rows)
<1>6. /\ N \in Nat /\ o \in [1..N -> rows]
      /\ \A m, n \in 1..N : m < n => Follows(times, o[m], o[n]) /\ o[m] # o[n]
      /\ \A i \in rows : \E n \in 1..N : o[n] = i
  BY <1>5, RowsInOrder
<1>7. IsFiniteSet(DOMAIN s)
  BY FS_Interval DEF IsSource
<1>8. N <= Cardinality(DOMAIN s)
  BY <1>2, <1>7, FS_Subset
<1>9. o = d.rows[p]
  BY <1>2, <1>3
<1> HIDE DEF N, o
<1>10. o \in [1..N -> DOMAIN s]
  BY <1>2, <1>6
<1> QED BY <1>6, <1>7, <1>8, <1>9, <1>10

LEMMA ServedModels ==
  ASSUME BuildOK, source \in Served, NEW v, IsBuilt(v)
  PROVE  /\ \E N : IsModel(ModelOf(v), N) /\ Len(ModelOf(v).vectors) = N
         /\ \A row \in ToSet(RowsIn(build[v].data, "test")) : source[v][row].value \in Int
<1>1. PICK s, d : s = source[v] /\ d = build[v].data
  OBVIOUS
<1>2. PICK n \in Nat : DOMAIN s = 1..n /\ \A i \in 1..n : s[i].value \in Int
  <2>1. IsSource(s)
    BY <1>1 DEF BuildOK, IsBuilt
  <2> QED BY <2>1 DEF IsSource, IsRecord
<1>3. IsSource(s) /\ Own(s, d) /\ 1..n \subseteq DOMAIN RefOrder
  <2>1. DOMAIN source[v] \subseteq DOMAIN RefOrder
    BY PipelineAssumption DEF IsBuilt
  <2> QED BY <1>1, <1>2, <2>1 DEF BuildOK, IsBuilt
<1>4. Cardinality(DOMAIN s) = n
  BY <1>2, FS_Interval
<1>5. PICK train, test : train = d.rows["train"] /\ test = d.rows["test"]
  OBVIOUS
<1>6. PICK N \in Nat : train \in [1..N -> 1..n] /\ N <= n
  BY <1>2, <1>3, <1>4, <1>5, PartitionIsListed DEF Three
<1>7. PICK M \in Nat : test \in [1..M -> 1..n]
  BY <1>2, <1>3, <1>5, PartitionIsListed DEF Three
<1>8. PICK vectors : vectors = [i \in DOMAIN train |-> s[train[i]].value]
  OBVIOUS
<1>9. vectors \in [1..N -> Int] /\ Len(vectors) = N
  <2>1. vectors \in [1..N -> Int]
    BY <1>2, <1>6, <1>8
  <2> QED BY <2>1, IsSequence
<1>10. ModelOf(v).vectors = vectors
  BY <1>1, <1>5, <1>8 DEF ModelOf, RowsIn, Fitted
<1>11. \E K : IsModel(ModelOf(v), K) /\ Len(ModelOf(v).vectors) = K
  <2>1. 1..N \subseteq DOMAIN RefOrder
    BY <1>3, <1>6
  <2> QED BY <1>9, <1>10, <2>1 DEF IsModel
<1>12. \A row \in ToSet(test) : s[row].value \in Int
  BY <1>2, <1>7 DEF ToSet
<1> QED BY <1>1, <1>5, <1>11, <1>12 DEF RowsIn

\* What RankingsAgree says of one answer of one model.
AnswerAgrees(model, a) ==
  /\ a.kind = "analysis" /\ a.outcome = "unavailable" =>
       OperatingNeighbor(model, a.query, a.top_k) \/ RoundingMatters(model, a.query, a.top_k)
  /\ a.kind = "evaluation" => a.ranking = Nearest(model, a.query, a.top_k) /\ a.parity

AnswerOK == answer # NoAnswer => At("ready") /\ AnswerAgrees(ModelOf(reader.held.model), answer)

LEMMA ReadyHoldsBuilt ==
  ASSUME ChainInv, HeldIsBuilt, ModelIsHeld, At("ready")
  PROVE  /\ IsBuilt(reader.held.model)
         /\ ~Runtime => reader.held.dataset = reader.held.model
<1>1. reader.held["model"] # Nothing /\ "model" \in Names
  BY DEF ModelIsHeld, At, Steps, Names
<1> QED BY <1>1 DEF HeldIsBuilt, ChainInv, ChainIsJoined, At

LEMMA AnalysesAgree ==
  ASSUME BuildOK, ChainInv, SuppliedInv, NEW query \in Queries, NEW k \in TopKs, Analyze(query, k)
  PROVE  AnswerOK'
<1>1. PICK model : model = ModelOf(reader.held.model)
  OBVIOUS
<1>2. At("ready") /\ source \in Served /\ IsBuilt(reader.held.model)
  BY ReadyHoldsBuilt DEF Analyze, Asked, SuppliedInv
<1>3. PICK N : IsModel(model, N)
  BY <1>1, <1>2, ServedModels
<1>4. query \in Int /\ k \in Nat
  BY PipelineAssumption
<1>5. Checked(model, query, k) = "unavailable" =>
        OperatingNeighbor(model, query, k) \/ RoundingMatters(model, query, k)
  BY <1>3, <1>4, RuntimeAgrees
<1>6. PICK a : a = [kind |-> "analysis", query |-> query, top_k |-> k,
                    outcome |-> Checked(model, query, k)]
  OBVIOUS
<1>7. AnswerAgrees(model, a)
  BY <1>5, <1>6 DEF AnswerAgrees
<1>8. answer' = a /\ UNCHANGED <<reader, source, build>>
  BY <1>1, <1>6 DEF Analyze, chainVars
<1>9. ModelOf(reader.held.model)' = model
  BY <1>1, <1>8 DEF ModelOf, RowsIn
<1> QED BY <1>2, <1>7, <1>8, <1>9 DEF AnswerOK, At

LEMMA EvaluationsAgree ==
  ASSUME BuildOK, ChainInv, SuppliedInv, NEW row, Evaluate(row)
  PROVE  AnswerOK'
<1>1. PICK model, query : /\ model = ModelOf(reader.held.model)
                          /\ query = source[reader.held.model][row].value
  OBVIOUS
<1>2. /\ At("ready") /\ source \in Served /\ IsBuilt(reader.held.model)
      /\ reader.held.dataset = reader.held.model
  BY ReadyHoldsBuilt DEF Evaluate, Asked, SuppliedInv
<1>3. PICK N : IsModel(model, N) /\ Len(model.vectors) = N
  BY <1>1, <1>2, ServedModels
<1>4. /\ row \in ToSet(RowsIn(build[reader.held.model].data, "test"))
      /\ Len(model.vectors) >= DefaultTopK
      /\ \E batch \in Batches(model, query) :
           Evaluated(model, query, BatchRanking(model, query, batch, DefaultTopK))
      /\ UNCHANGED <<source, build, reader>>
  BY <1>1, <1>2 DEF Evaluate, chainVars
<1>5. query \in Int
  BY <1>1, <1>2, <1>4, ServedModels
<1>6. DefaultTopK \in 1..N
  BY <1>3, <1>4, DecisionAssumption DEF IsModel
<1>7. PICK batch \in Batches(model, query) :
        Evaluated(model, query, BatchRanking(model, query, batch, DefaultTopK))
  BY <1>4
<1>8. PICK ranking : ranking = BatchRanking(model, query, batch, DefaultTopK)
  OBVIOUS
<1>9. ranking = Nearest(model, query, DefaultTopK)
  <2>1. Batched(model, N, query, batch)
    BY <1>3, <1>5, BatchesAreClose
  <2> QED BY <1>3, <1>5, <1>6, <1>8, <2>1, EvaluationAgrees
<1>10. PICK a : a = [kind |-> "evaluation", query |-> query, top_k |-> DefaultTopK,
                     ranking |-> ranking,
                     parity |-> ParityHolds(model, query, RowOutcome(model, query, ranking))]
  OBVIOUS
<1>11. answer' = a
  BY <1>7, <1>8, <1>10 DEF Evaluated
<1>12. AnswerAgrees(model, a)
  <2>1. ParityHolds(model, query, RowOutcome(model, query, ranking))
    BY <1>9, ParityAgrees
  <2> QED BY <1>9, <1>10, <2>1 DEF AnswerAgrees
<1>13. ModelOf(reader.held.model)' = model
  BY <1>1, <1>4 DEF ModelOf, RowsIn
<1> QED BY <1>2, <1>4, <1>11, <1>12, <1>13 DEF AnswerOK, At

\* An answer stays true of what it was given by.
LEMMA AnswersStay ==
  ASSUME AuditInv, BuildOK, ChainInv, SuppliedInv, BuiltStays, AnswerOK, UNCHANGED answer,
         [Next]_pipelineVars
  PROVE  AnswerOK'
<1> SUFFICES ASSUME answer # NoAnswer PROVE AnswerOK'
  BY DEF AnswerOK, NoAnswer
<1>1. At("ready") /\ AnswerAgrees(ModelOf(reader.held.model), answer)
  BY DEF AnswerOK
<1>2. IsBuilt(reader.held.model)
  BY <1>1, ReadyHoldsBuilt DEF SuppliedInv
<1>3. UNCHANGED reader
  <2>1. ~ReaderStep
    BY <1>1 DEF ReaderStep, VerifyModelManifest, BindDataset, ReadModelManifest, HashArrays,
       LoadVectors, LoadRefs, AcceptModel, VerifyIndexManifest, ReadIndexManifest,
       ReadIndexFiles, JoinChain, ReadHoldout, At
  <2>2. CASE Chain
    BY <2>1, <2>2, OthersLeaveReader DEF Chain
  <2>3. CASE \E v \in Versions, k \in Kinds : Publish(k, v)
    BY <2>3, OthersLeaveReader DEF Publish
  <2>4. [Next]_pipelineVars =>
          Chain \/ (\E v \in Versions, k \in Kinds : Publish(k, v)) \/ UNCHANGED chainVars
    BY DEF Next, Audit, Load, Build, Analyze, Evaluate, pipelineVars
  <2> QED BY <2>2, <2>3, <2>4 DEF chainVars
<1>4. PICK m : m = reader.held.model
  OBVIOUS
<1>5. source'[m] = source[m] /\ build'[m] = build[m] /\ reader'.held.model = m
  BY <1>2, <1>3, <1>4 DEF BuiltStays
<1>6. ModelOf(reader.held.model)' = ModelOf(reader.held.model)
  BY <1>4, <1>5 DEF ModelOf, RowsIn
<1> QED BY <1>1, <1>3, <1>6 DEF AnswerOK, At

LEMMA NextAnswers ==
  ASSUME [Next]_pipelineVars
  PROVE  \/ UNCHANGED answer
         \/ \E query \in Queries, k \in TopKs : Analyze(query, k)
         \/ \E row \in Rows : Evaluate(row)
BY DEF Next, Audit, Load, Build, Publish, Chain, pipelineVars

\* The index and the batched evaluation rank like the model for any number of
\* train rows, whatever the batches confuse within the slip; float32 and
\* operating states are all that makes an analysis unavailable.
THEOREM RankingsAlwaysAgree == Spec => []RankingsAgree
<1> DEFINE All == AuditInv /\ BuildOK /\ ChainInv /\ SuppliedInv /\ AnswerOK
<1>1. Init => All
  <2>1. Init => AnswerOK
    BY DEF Init, AnswerOK
  <2> QED BY <2>1, AuditsBeginSound, BuildsBegin, SupplyBegins
<1>2. All /\ [ChainNext]_chainVars /\ [Next]_pipelineVars => All'
  <2> SUFFICES ASSUME AuditInv, BuildOK, ChainInv, SuppliedInv, AnswerOK, [ChainNext]_chainVars,
                      [Next]_pipelineVars
               PROVE  All'
    OBVIOUS
  <2>1. AuditInv' /\ BuildOK' /\ SuppliedInv' /\ BuiltStays
    BY NextKeepsAudit, NextKeepsBuilds, NextKeepsSupplied
  <2>2. ChainInv'
    BY EarlyReadsKeepInv, LateReadsKeepInv, ComparisonsKeepInv, OthersKeepInv, OthersLeaveReader
    DEF ChainNext, ReaderStep
  <2>3. AnswerOK'
    BY <2>1, NextAnswers, AnalysesAgree, EvaluationsAgree, AnswersStay
  <2> QED BY <2>1, <2>2, <2>3
<1>3. All => RankingsAgree
  <2>1. AnswerAgrees(ModelOf(reader.held.model), answer) => RankingsAgree
    BY DEF AnswerAgrees, RankingsAgree, RankingsDisagreeOnlyByRounding, EvaluationRanksLikeTheModel
  <2>2. answer = NoAnswer => RankingsAgree
    BY DEF NoAnswer, RankingsAgree, RankingsDisagreeOnlyByRounding, EvaluationRanksLikeTheModel
  <2> QED BY <2>1, <2>2 DEF AnswerOK
<1> HIDE DEF All
<1>4. Spec => [][ChainNext]_chainVars
  BY PipelineKeepsTheChain, PTL DEF ChainSpec
<1> QED BY <1>1, <1>2, <1>3, <1>4, PTL DEF Spec

=============================================================================
