------------------------- MODULE DocumentRegistryProofs -------------------------
(***************************************************************************)
(* The services that share one stored document, in three steps: the store  *)
(* that executes one whole command at a time, the governance service that  *)
(* implements it with a read, a computation and a compare-and-swap, and    *)
(* the registry on top of that, which writes metadata as well.             *)
(***************************************************************************)
EXTENDS DocumentRegistry, DocumentAuditProofs

-----------------------------------------------------------------------------
(* The atomic store.                                                        *)

AtomicInv == StoreTypeOK /\ Consistent

(* The stored document is always well typed and consistent: at most one     *)
(* approved version, the current one; at most one active candidate, the     *)
(* latest; distinct content; every version valid; audited time in order. *)
THEOREM StoreStaysConsistent == AtomicSpec => []AtomicInv
<1>1. AtomicInit => AtomicInv
  BY SeedsAreConsistent DEF AtomicInit, AtomicInv, StoreTypeOK, Snapshots, Consistent
<1>2. AtomicInv /\ [AtomicNext]_store => AtomicInv'
  <2> SUFFICES ASSUME AtomicInv, [AtomicNext]_store PROVE AtomicInv'
    OBVIOUS
  <2>1. ASSUME NEW c \in Commands, NEW at \in Instants, Execute(c, at)
        PROVE  AtomicInv'
    <3>1. WellFormedCommand(c) /\ at \in Nat
      BY CommandsAreWellFormed, InstantsAreNaturals
    <3>2. store.document \in Documents /\ store.revision \in Nat
          /\ ConsistentDocument(store.document)
      BY DEF AtomicInv, StoreTypeOK, Snapshots, Consistent
    <3>3. /\ c.action # "registered" => store.document # NoDocument
          /\ ErrorOf(store.document, c, at) = None
      BY <2>1 DEF Execute
    <3> DEFINE r == ResultOf(store.document, c, at)
    <3>4. r \in Documents /\ ConsistentDocument(r)
      BY <3>1, <3>2, <3>3, CommandsKeepConsistency
    <3>5. store' = [document |-> r, revision |-> store.revision + 1]
      BY <2>1 DEF Execute
    <3> HIDE DEF r
    <3> QED BY <3>2, <3>4, <3>5 DEF AtomicInv, StoreTypeOK, Snapshots, Consistent
  <2>2. CASE UNCHANGED store
    BY <2>2 DEF AtomicInv, StoreTypeOK, Snapshots, Consistent
  <2> QED BY <2>1, <2>2 DEF AtomicNext
<1> QED BY <1>1, <1>2, PTL DEF AtomicSpec

AuditInv == AtomicInv /\ StoreIsAudited /\ EventsAreCommands(store.document)

LEMMA AuditIsTrust == AuditInv <=> Trusted(store)
BY DEF AuditInv, AtomicInv, StoreTypeOK, Consistent, StoreIsAudited, Trusted

LEMMA StepExecutes ==
  ASSUME NEW c \in Commands, NEW at \in Instants, Execute(c, at)
  PROVE  Executes(store, store', c, at) /\ WellFormedCommand(c)
<1>1. WellFormedCommand(c) /\ at \in Nat
  BY CommandsAreWellFormed, InstantsAreNaturals
<1> QED BY <1>1 DEF Execute, Executes

LEMMA ExecutionKeepsAudit ==
  ASSUME AuditInv, NEW c \in Commands, NEW at \in Instants, Execute(c, at)
  PROVE  AuditInv'
<1>1. Trusted(store) /\ Executes(store, store', c, at)
  BY AuditIsTrust, StepExecutes
<1>2. Trusted(store')
  BY <1>1, ExecutionKeepsTrust
<1> QED BY <1>2 DEF AuditInv, AtomicInv, StoreTypeOK, Consistent, StoreIsAudited, Trusted

(* A step of the store only adds to the document.                           *)
LEMMA StepsOnlyAdd ==
  ASSUME StoreTypeOK, Consistent, NEW c \in Commands, NEW at \in Instants, Execute(c, at)
  PROVE  /\ store'.document \in Documents /\ ConsistentDocument(store'.document)
         /\ Extends(store'.document.history, store.document.history)
         /\ \A n \in DOMAIN store.document.versions :
              store'.document.versions[n].sha256 = store.document.versions[n].sha256
         /\ store'.document.current >= store.document.current
<1>1. store \in Snapshots /\ ConsistentDocument(store.document)
  BY DEF StoreTypeOK, Consistent
<1>2. Executes(store, store', c, at)
  BY StepExecutes
<1> QED BY <1>1, <1>2, ExecutionsOnlyAdd

(* The stored snapshot passes the audit, whatever was executed on it: its   *)
(* history, replayed from nothing, is all there is to it. *)
THEOREM StoreStaysAudited == AtomicSpec => []AuditInv
<1>1. AtomicInit => AuditInv
  BY SeedsAreConsistent, SeedsAreAudited
  DEF AtomicInit, AuditInv, AtomicInv, StoreTypeOK, Snapshots, Consistent, StoreIsAudited
<1>2. AuditInv /\ [AtomicNext]_store => AuditInv'
  <2> SUFFICES ASSUME AuditInv, [AtomicNext]_store PROVE AuditInv'
    OBVIOUS
  <2>1. CASE AtomicNext
    BY <2>1, ExecutionKeepsAudit DEF AtomicNext
  <2>2. CASE UNCHANGED store
    BY <2>2 DEF AuditInv, AtomicInv, StoreTypeOK, Snapshots, Consistent, StoreIsAudited
  <2> QED BY <2>1, <2>2
<1> QED BY <1>1, <1>2, PTL DEF AtomicSpec

(* An audited document holds, for the version retrieval may use, the events *)
(* of its extraction, its indexing and its approval, in that order and with *)
(* no start from nothing in between.                                        *)
LEMMA AuditShowsApproval == AuditInv => ApprovedWasProcessed
<1> SUFFICES ASSUME AuditInv, EligibleVersion(store.document) # 0
             PROVE  WasApproved(store.document.history, EligibleVersion(store.document))
  BY DEF ApprovedWasProcessed, WasApproved
<1> DEFINE d == store.document
<1>1. d \in Documents /\ ConsistentDocument(d)
      /\ store \in [document : Documents, revision : Nat]
  BY DEF AuditInv, AtomicInv, StoreTypeOK, Snapshots, Consistent
<1>2. GatesAreRecorded(d)
  BY <1>1, AuditShowsHistory DEF AuditInv, StoreIsAudited
<1>3. EligibleVersion(d) = d.current /\ d.current # 0
  BY <1>1, EligibleIsCurrent
<1>4. d.current \in DOMAIN d.versions /\ d.versions[d.current].status = "approved"
  <2>1. /\ d.current \in Nat /\ d.current <= Latest(d) /\ DOMAIN d.versions = 1..Latest(d)
        /\ Latest(d) \in Nat
    BY <1>1 DEF Documents, Latest, ConsistentDocument, CurrentIsApproved
  <2>2. d.current \in DOMAIN d.versions
    BY <1>3, <2>1
  <2> QED BY <1>1, <2>2 DEF ConsistentDocument, CurrentIsApproved
<1> QED BY <1>2, <1>3, <1>4 DEF GatesAreRecorded

THEOREM ApprovalsAreJustified == AtomicSpec => []ApprovedWasProcessed
BY AuditShowsApproval, StoreStaysAudited, PTL

-----------------------------------------------------------------------------
(* The governance service.  A revision number identifies a snapshot,        *)
(* because revisions only grow and every change takes a new one; so the     *)
(* draft a successful swap publishes was computed from the very document it *)
(* replaces.                                                                *)

(* What a call in flight holds.  The last conjunct says where a draft came *)
(* from; nothing else about it is ever needed. *)
HoldsSnapshot(p) ==
  LET b == call[p].base
  IN  /\ b.revision = call[p].expected
      /\ b.revision <= store.revision
      /\ b.revision = store.revision => b = store
      /\ ConsistentDocument(b.document)
      /\ call[p].command.action # "registered" => b.document # NoDocument

HoldsDraft(p) ==
  \E at \in Instants :
    /\ ErrorOf(call[p].base.document, call[p].command, at) = None
    /\ call[p].draft = ResultOf(call[p].base.document, call[p].command, at)

CallOK(p) ==
  /\ call[p].phase \in {"mutate", "compare_and_swap"} => HoldsSnapshot(p)
  /\ call[p].phase = "compare_and_swap" => HoldsDraft(p)
  /\ call[p].outcome # None => call[p].phase = "done"
  /\ call[p].outcome = "applied" => call[p].expected < store.revision

GovernanceInv ==
  /\ TypeOK
  /\ Consistent
  /\ \A p \in Callers : CallOK(p)
  /\ OneWinnerPerRevision

-----------------------------------------------------------------------------

LEMMA EmptyValues == NoDocument \in Documents /\ NothingStored \in Snapshots
BY DEF NoDocument, NothingStored, Documents, Snapshots

LEMMA IdleCallIsTyped == IdleCall \in Calls /\ IdleCall.phase = "idle" /\ IdleCall.outcome = None
<1>1. (CHOOSE c \in Commands : TRUE) \in Commands
  BY SomebodyAsks
<1> QED BY <1>1, EmptyValues DEF IdleCall, Calls, Phases, None

(* Ending a call touches no other call and leaves it with its outcome only. *)
LEMMA FinishedCall ==
  ASSUME TypeOK, NEW p \in Callers, NEW o \in Outcomes, NEW n \in Nat, Finish(p, o, n)
  PROVE  /\ call' \in [Callers -> Calls]
         /\ \A q \in Callers : q # p => call'[q] = call[q]
         /\ call'[p].phase = "done" /\ call'[p].outcome = o
         /\ call'[p].expected = call[p].expected /\ call'[p].command = call[p].command
<1>1. call \in [Callers -> Calls] /\ call[p] \in Calls
  BY DEF TypeOK
<1> DEFINE d == [call[p] EXCEPT !.phase = "done", !.outcome = o, !.answer = n,
                                !.base = NothingStored, !.draft = NoDocument]
<1>2. d \in Calls /\ d.phase = "done" /\ d.outcome = o /\ d.expected = call[p].expected
      /\ d.command = call[p].command
  BY <1>1, EmptyValues DEF Calls, Phases
<1>3. call' = [call EXCEPT ![p] = d]
  BY DEF Finish
<1> HIDE DEF d
<1> QED BY <1>1, <1>2, <1>3

(* The invariant survives a step that ends one call and leaves the store. *)
LEMMA FinishingKeepsInv ==
  ASSUME GovernanceInv, UNCHANGED store, NEW p \in Callers,
         NEW o \in Outcomes \ {"applied"}, NEW n \in Nat, Finish(p, o, n)
  PROVE  GovernanceInv'
<1>1. /\ call' \in [Callers -> Calls]
      /\ \A q \in Callers : q # p => call'[q] = call[q]
      /\ call'[p].phase = "done" /\ call'[p].outcome = o
  BY FinishedCall DEF GovernanceInv
<1>2. TypeOK' /\ Consistent'
  BY <1>1 DEF GovernanceInv, TypeOK, StoreTypeOK, Snapshots, Consistent
<1>3. \A q \in Callers : CallOK(q)'
  BY <1>1 DEF GovernanceInv, CallOK, HoldsSnapshot, HoldsDraft
<1>4. OneWinnerPerRevision'
  BY <1>1 DEF GovernanceInv, OneWinnerPerRevision
<1> QED BY <1>2, <1>3, <1>4 DEF GovernanceInv

(* And one that moves a call on to a phase with no outcome. *)
LEMMA MovingOnKeepsInv ==
  ASSUME GovernanceInv, UNCHANGED store, NEW p \in Callers, NEW k \in Calls,
         call' = [call EXCEPT ![p] = k], k.outcome = None, CallOK(p)'
  PROVE  GovernanceInv'
<1>1. /\ call' \in [Callers -> Calls]
      /\ \A q \in Callers : q # p => call'[q] = call[q]
      /\ call'[p].outcome = None
  BY DEF GovernanceInv, TypeOK
<1>2. TypeOK' /\ Consistent'
  BY <1>1 DEF GovernanceInv, TypeOK, StoreTypeOK, Snapshots, Consistent
<1>3. \A q \in Callers : CallOK(q)'
  BY <1>1 DEF GovernanceInv, CallOK, HoldsSnapshot, HoldsDraft
<1>4. OneWinnerPerRevision'
  BY <1>1 DEF GovernanceInv, OneWinnerPerRevision, None
<1> QED BY <1>2, <1>3, <1>4 DEF GovernanceInv

LEMMA BeginKeepsInv == ASSUME GovernanceInv, NEW p \in Callers, Begin(p) PROVE GovernanceInv'
<1>1. PICK c \in Commands, e \in Revisions :
        call' = [call EXCEPT ![p] = [call[p] EXCEPT !.phase = "get", !.command = c,
                                                    !.expected = e]]
  BY DEF Begin
<1> DEFINE k == [call[p] EXCEPT !.phase = "get", !.command = c, !.expected = e]
<1>2. call[p] \in Calls /\ call[p].phase = "idle" /\ call[p].outcome = None /\ UNCHANGED store
  BY DEF GovernanceInv, TypeOK, CallOK, Begin, At
<1>3. k \in Calls /\ k.outcome = None /\ k.phase = "get"
  BY <1>2, BoundsAreNaturals DEF Calls, Phases
<1>4. call' = [call EXCEPT ![p] = k]
  BY <1>1
<1> HIDE DEF k
<1>5. call'[p] = k
  BY <1>4 DEF GovernanceInv, TypeOK
<1>6. CallOK(p)'
  BY <1>3, <1>5 DEF CallOK, None
<1> QED BY <1>2, <1>3, <1>4, <1>6, MovingOnKeepsInv

LEMMA GetKeepsInv == ASSUME GovernanceInv, NEW p \in Callers, Get(p) PROVE GovernanceInv'
<1>1. call[p] \in Calls /\ call[p].phase = "get" /\ call[p].outcome = None /\ UNCHANGED store
      /\ store \in Snapshots /\ store.revision \in Nat
  BY DEF GovernanceInv, TypeOK, StoreTypeOK, CallOK, Get, At, Snapshots
<1>2. CASE Finish(p, "not_found", 0)
  BY <1>1, <1>2, FinishingKeepsInv DEF Outcomes
<1>3. CASE Finish(p, "replayed", store.revision)
  BY <1>1, <1>3, FinishingKeepsInv DEF Outcomes
<1>4. CASE Finish(p, "concurrency", 0)
  BY <1>1, <1>4, FinishingKeepsInv DEF Outcomes
<1>5. CASE /\ ~(store.document = NoDocument /\ call[p].command.action # "registered")
           /\ store.revision = call[p].expected
           /\ call' = [call EXCEPT ![p] = [call[p] EXCEPT !.phase = "mutate", !.base = store]]
  <2> DEFINE k == [call[p] EXCEPT !.phase = "mutate", !.base = store]
  <2>1. k \in Calls /\ k.outcome = None /\ k.phase = "mutate" /\ k.base = store
        /\ k.expected = call[p].expected /\ k.command = call[p].command
    BY <1>1 DEF Calls, Phases
  <2>2. call' = [call EXCEPT ![p] = k]
    BY <1>5
  <2> HIDE DEF k
  <2>3. call'[p] = k
    BY <2>2 DEF GovernanceInv, TypeOK
  <2>4. CallOK(p)'
    <3>1. ConsistentDocument(store.document)
      BY DEF GovernanceInv, Consistent
    <3> QED BY <1>1, <1>5, <2>1, <2>3, <3>1 DEF CallOK, HoldsSnapshot, None
  <2> QED BY <1>1, <2>1, <2>2, <2>4, MovingOnKeepsInv
<1> QED BY <1>2, <1>3, <1>4, <1>5 DEF Get

(* The error a command raises is one a call can end with. *)
LEMMA ErrorIsOutcome ==
  ASSUME NEW d, NEW c, WellFormedCommand(c), NEW at, ErrorOf(d, c, at) # None
  PROVE  ErrorOf(d, c, at) \in Outcomes \ {"applied", "replayed", "concurrency"}
<1> DEFINE good == Outcomes \ {"applied", "replayed", "concurrency"}
<1>1. /\ RegisterError(d, c, at) \in good \cup {None}
      /\ StartProcessingError(d, c, at) \in good \cup {None}
  BY DEF RegisterError, StartProcessingError, Outcomes, None
<1>2. ReprocessError(d, c, at) \in good \cup {None}
  BY <1>1 DEF ReprocessError, Outcomes, None
<1>3. /\ RecordStepError(d, c, at) \in good \cup {None}
      /\ ApproveError(d, c, at) \in good \cup {None}
      /\ RejectError(d, c, at) \in good \cup {None}
  BY DEF RecordStepError, ApproveError, RejectError, Outcomes, None
<1>4. c.action \in Actions \ {"superseded"}
  BY DEF WellFormedCommand, CommandShapes
<1> HIDE DEF good
<1>5. ErrorOf(d, c, at) \in good \cup {None}
  BY <1>1, <1>2, <1>3, <1>4 DEF ErrorOf, Actions
<1> QED BY <1>5 DEF good

LEMMA MutateKeepsInv == ASSUME GovernanceInv, NEW p \in Callers, Mutate(p) PROVE GovernanceInv'
<1> DEFINE c == call[p].command
           d == call[p].base.document
<1>1. call[p] \in Calls /\ call[p].phase = "mutate" /\ call[p].outcome = None /\ UNCHANGED store
      /\ HoldsSnapshot(p) /\ c \in Commands /\ d \in Documents
  BY DEF GovernanceInv, TypeOK, CallOK, Mutate, At, Calls, Snapshots
<1>2. PICK at \in Instants :
        IF ErrorOf(d, c, at) # None THEN Finish(p, ErrorOf(d, c, at), 0)
        ELSE call' = [call EXCEPT ![p] = [call[p] EXCEPT !.phase = "compare_and_swap",
                                                         !.draft = ResultOf(d, c, at)]]
  BY DEF Mutate
<1>3. CASE ErrorOf(d, c, at) # None
  BY <1>1, <1>2, <1>3, CommandsAreWellFormed, ErrorIsOutcome, FinishingKeepsInv
<1>4. CASE ErrorOf(d, c, at) = None
  <2> DEFINE r == ResultOf(d, c, at)
             k == [call[p] EXCEPT !.phase = "compare_and_swap", !.draft = r]
  <2>1. r \in Documents
    <3>1. WellFormedCommand(c) /\ at \in Nat
      BY <1>1, CommandsAreWellFormed, InstantsAreNaturals
    <3>2. ConsistentDocument(d) /\ (c.action # "registered" => d # NoDocument)
      BY <1>1 DEF HoldsSnapshot
    <3> QED BY <1>1, <1>4, <3>1, <3>2, CommandsKeepConsistency
  <2>2. k \in Calls /\ k.outcome = None /\ k.phase = "compare_and_swap" /\ k.draft = r
        /\ k.base = call[p].base /\ k.command = c /\ k.expected = call[p].expected
    <3> HIDE DEF r
    <3> QED BY <1>1, <2>1 DEF Calls, Phases
  <2>3. call' = [call EXCEPT ![p] = k]
    BY <1>2, <1>4
  <2> HIDE DEF k
  <2>4. call'[p] = k
    BY <2>3 DEF GovernanceInv, TypeOK
  <2>5. HoldsSnapshot(p)'
    BY <1>1, <2>2, <2>4 DEF HoldsSnapshot
  <2>6. HoldsDraft(p)'
    <3>1. k.base.document = d /\ k.draft = ResultOf(k.base.document, k.command, at)
          /\ ErrorOf(k.base.document, k.command, at) = None
      BY <1>4, <2>2
    <3> QED BY <2>4, <3>1 DEF HoldsDraft
  <2>7. CallOK(p)'
    BY <2>2, <2>4, <2>5, <2>6 DEF CallOK, None
  <2> QED BY <1>1, <2>2, <2>3, <2>7, MovingOnKeepsInv
<1> QED BY <1>3, <1>4

(* A swap that succeeds replaces the document its draft was computed from. *)
LEMMA SwapExecutes ==
  ASSUME GovernanceInv, NEW p \in Callers, At(p, "compare_and_swap"), RevisionMatches(p),
         ExtendsAudit(store.document, call[p].draft, call[p].command), store' = Published(p)
  PROVE  call[p].command \in Commands /\ \E at \in Instants : Execute(call[p].command, at)
<1> DEFINE c == call[p].command
<1>1. HoldsSnapshot(p) /\ HoldsDraft(p) /\ c \in Commands
  BY DEF GovernanceInv, TypeOK, CallOK, At, Calls
<1>2. call[p].base = store
  BY <1>1 DEF HoldsSnapshot, RevisionMatches
<1>3. PICK at \in Instants : /\ ErrorOf(store.document, c, at) = None
                            /\ call[p].draft = ResultOf(store.document, c, at)
  BY <1>1, <1>2 DEF HoldsDraft
<1>4. c.action # "registered" => store.document # NoDocument
  BY <1>1, <1>2 DEF HoldsSnapshot
<1>5. call[p].draft # store.document
  <2>1. Len(store.document.history) \in Nat
    BY DEF GovernanceInv, TypeOK, StoreTypeOK, Snapshots, Documents
  <2> QED BY <2>1 DEF ExtendsAudit
<1>6. Execute(c, at)
  BY <1>3, <1>4, <1>5 DEF Execute, Published
<1> QED BY <1>1, <1>6

LEMMA SwapIsAtomic ==
  ASSUME GovernanceInv, NEW p \in Callers, At(p, "compare_and_swap"), RevisionMatches(p),
         ExtendsAudit(store.document, call[p].draft, call[p].command), store' = Published(p)
  PROVE  AtomicNext
BY SwapExecutes DEF AtomicNext

LEMMA SwapKeepsInv ==
  ASSUME GovernanceInv, NEW p \in Callers, CompareAndSwap(p)
  PROVE  GovernanceInv'
<1>1. call[p] \in Calls /\ call[p].phase = "compare_and_swap" /\ call[p].outcome = None
      /\ store.revision \in Nat /\ call \in [Callers -> Calls]
  BY DEF GovernanceInv, TypeOK, StoreTypeOK, Snapshots, CallOK, CompareAndSwap, At
<1>2. CASE ~RevisionMatches(p)
  <2> DEFINE k == [call[p] EXCEPT !.phase = "reread"]
  <2>1. call' = [call EXCEPT ![p] = k] /\ UNCHANGED store
    BY <1>2 DEF CompareAndSwap, Proceed
  <2>2. k \in Calls /\ k.outcome = None /\ k.phase = "reread"
    BY <1>1 DEF Calls, Phases
  <2> HIDE DEF k
  <2>3. CallOK(p)'
    BY <1>1, <2>1, <2>2 DEF CallOK, None
  <2> QED BY <2>1, <2>2, <2>3, MovingOnKeepsInv
<1>3. CASE Finish(p, "audit_conflict", 0) /\ UNCHANGED store
  BY <1>3, FinishingKeepsInv DEF Outcomes
<1>4. CASE /\ RevisionMatches(p) /\ store' = Published(p) /\ Finish(p, "applied", store.revision + 1)
           /\ ExtendsAudit(store.document, call[p].draft, call[p].command)
  <2>1. store' = [document |-> call[p].draft, revision |-> store.revision + 1]
        /\ store.revision = call[p].expected
    BY <1>4 DEF Published, RevisionMatches
  <2>2. /\ call' \in [Callers -> Calls]
        /\ \A q \in Callers : q # p => call'[q] = call[q]
        /\ call'[p].phase = "done" /\ call'[p].outcome = "applied"
        /\ call'[p].expected = call[p].expected
    BY <1>1, <1>4, FinishedCall DEF GovernanceInv, Outcomes
  <2>3. TypeOK' /\ Consistent'
    <3>1. AtomicNext
      BY <1>1, <1>4, SwapIsAtomic DEF At
    <3>2. PICK c \in Commands, at \in Instants : Execute(c, at)
      BY <3>1 DEF AtomicNext
    <3>3. WellFormedCommand(c) /\ at \in Nat /\ store.document \in Documents
          /\ ConsistentDocument(store.document)
      BY CommandsAreWellFormed, InstantsAreNaturals
      DEF GovernanceInv, TypeOK, StoreTypeOK, Snapshots, Consistent
    <3>4. call[p].draft \in Documents /\ ConsistentDocument(call[p].draft)
      BY <2>1, <3>2, <3>3, CommandsKeepConsistency DEF Execute
    <3> QED BY <1>1, <2>1, <2>2, <3>4 DEF TypeOK, StoreTypeOK, Snapshots, Consistent
  <2>4. ASSUME NEW q \in Callers, q # p PROVE CallOK(q)'
    <3>1. CallOK(q) /\ call[q] \in Calls /\ call'[q] = call[q] /\ store'.revision = store.revision + 1
      BY <1>1, <2>1, <2>2, <2>4 DEF GovernanceInv
    <3>2. call[q].base.revision \in Nat /\ call[q].expected \in Nat
      BY <3>1 DEF Calls, Snapshots
    <3> QED BY <1>1, <3>1, <3>2 DEF CallOK, HoldsSnapshot, HoldsDraft
  <2>5. CallOK(p)'
    BY <1>1, <2>1, <2>2 DEF CallOK
  <2>6. OneWinnerPerRevision'
    <3>1. \A q \in Callers : q # p /\ call'[q].outcome = "applied" => call'[q].expected < store.revision
      BY <2>2 DEF GovernanceInv, CallOK
    <3>2. \A q \in Callers : q # p /\ call'[q].outcome = "applied" => call'[q].expected # call'[p].expected
      BY <1>1, <2>1, <2>2, <3>1 DEF Calls
    <3>3. \A q, r \in Callers :
            /\ q # p /\ r # p
            /\ call'[q].outcome = "applied" /\ call'[r].outcome = "applied"
            /\ call'[q].expected = call'[r].expected
            => q = r
      BY <2>2 DEF GovernanceInv, OneWinnerPerRevision
    <3> QED BY <3>2, <3>3 DEF OneWinnerPerRevision
  <2> QED BY <2>3, <2>4, <2>5, <2>6 DEF GovernanceInv
<1> QED BY <1>2, <1>3, <1>4 DEF CompareAndSwap

LEMMA RereadKeepsInv == ASSUME GovernanceInv, NEW p \in Callers, Reread(p) PROVE GovernanceInv'
<1>1. UNCHANGED store /\ store.revision \in Nat
  BY DEF GovernanceInv, TypeOK, StoreTypeOK, Snapshots, Reread
<1>2. CASE Finish(p, "replayed", store.revision)
  BY <1>1, <1>2, FinishingKeepsInv DEF Outcomes
<1>3. CASE Finish(p, "concurrency", 0)
  BY <1>1, <1>3, FinishingKeepsInv DEF Outcomes
<1> QED BY <1>2, <1>3 DEF Reread

LEMMA ReturnKeepsInv == ASSUME GovernanceInv, NEW p \in Callers, Return(p) PROVE GovernanceInv'
<1>1. UNCHANGED store /\ call' = [call EXCEPT ![p] = IdleCall] /\ call \in [Callers -> Calls]
  BY DEF Return, GovernanceInv, TypeOK
<1>2. call'[p] = IdleCall
  BY <1>1
<1>3. CallOK(p)'
  BY <1>2, IdleCallIsTyped DEF CallOK, None
<1> QED BY <1>1, <1>3, IdleCallIsTyped, MovingOnKeepsInv

-----------------------------------------------------------------------------

LEMMA InitSatisfiesInv == Init => GovernanceInv
<1> SUFFICES ASSUME Init PROVE GovernanceInv
  OBVIOUS
<1>1. StoreTypeOK /\ Consistent
  BY SeedsAreConsistent DEF Init, AtomicInit, StoreTypeOK, Snapshots, Consistent
<1>2. \A p \in Callers : call[p] = IdleCall
  BY DEF Init
<1>3. TypeOK
  BY <1>1, IdleCallIsTyped DEF Init, TypeOK
<1>4. \A p \in Callers : CallOK(p)
  BY <1>2, IdleCallIsTyped DEF CallOK, None
<1>5. OneWinnerPerRevision
  BY <1>2, IdleCallIsTyped DEF OneWinnerPerRevision, None
<1> QED BY <1>1, <1>3, <1>4, <1>5 DEF GovernanceInv

LEMMA NextKeepsInv == GovernanceInv /\ [Next]_vars => GovernanceInv'
<1> SUFFICES ASSUME GovernanceInv, [Next]_vars PROVE GovernanceInv'
  OBVIOUS
<1>1. ASSUME NEW p \in Callers, Begin(p) \/ Serve(p) PROVE GovernanceInv'
  BY <1>1, BeginKeepsInv, GetKeepsInv, MutateKeepsInv, SwapKeepsInv, RereadKeepsInv,
     ReturnKeepsInv DEF Serve
<1>2. CASE UNCHANGED vars
  BY <1>2 DEF vars, GovernanceInv, TypeOK, StoreTypeOK, Snapshots, Consistent, CallOK, HoldsSnapshot,
              HoldsDraft, OneWinnerPerRevision
<1> QED BY <1>1, <1>2 DEF Next

THEOREM GovernanceInvariant == Spec => []GovernanceInv
BY InitSatisfiesInv, NextKeepsInv, PTL DEF Spec

(* Every reachable state is well typed, whatever the callers send. *)
THEOREM GovernanceTypeOK == Spec => []TypeOK
<1>1. GovernanceInv => TypeOK
  BY DEF GovernanceInv
<1> QED BY <1>1, GovernanceInvariant, PTL

(* A revision number identifies one snapshot: no ABA, no lost update. *)
THEOREM NoLostUpdate == Spec => []RevisionIdentifiesSnapshot
<1>1. GovernanceInv => RevisionIdentifiesSnapshot
  BY DEF GovernanceInv, CallOK, HoldsSnapshot, RevisionIdentifiesSnapshot
<1> QED BY <1>1, GovernanceInvariant, PTL

(* Of the calls that expected one revision, at most one is applied. *)
THEOREM RevisionsHaveOneAuthor == Spec => []OneWinnerPerRevision
<1>1. GovernanceInv => OneWinnerPerRevision
  BY DEF GovernanceInv
<1> QED BY <1>1, GovernanceInvariant, PTL

(* Whatever the interleaving, the stored document is consistent. *)
THEOREM GovernedDocumentIsConsistent == Spec => []Consistent
<1>1. GovernanceInv => Consistent
  BY DEF GovernanceInv
<1> QED BY <1>1, GovernanceInvariant, PTL

(* The concurrent service implements the atomic one: each of its steps      *)
(* leaves the store alone or executes one whole command on it. *)
THEOREM GovernanceIsAtomic == Spec => AtomicSpec
<1>1. Init => AtomicInit
  BY DEF Init
<1>2. GovernanceInv /\ [Next]_vars => [AtomicNext]_store
  <2> SUFFICES ASSUME GovernanceInv, [Next]_vars PROVE [AtomicNext]_store
    OBVIOUS
  <2>1. ASSUME NEW p \in Callers, Begin(p) \/ Serve(p) PROVE [AtomicNext]_store
    <3>1. CASE CompareAndSwap(p)
      BY <3>1, SwapIsAtomic DEF CompareAndSwap
    <3>2. CASE Begin(p) \/ Get(p) \/ Mutate(p) \/ Reread(p) \/ Return(p)
      BY <3>2 DEF Begin, Get, Mutate, Reread, Return
    <3> QED BY <2>1, <3>1, <3>2 DEF Serve
  <2>2. CASE UNCHANGED vars
    BY <2>2 DEF vars
  <2> QED BY <2>1, <2>2 DEF Next
<1> QED BY <1>1, <1>2, GovernanceInvariant, PTL DEF Spec, AtomicSpec

(* History is append-only and the content of a version never changes, at    *)
(* any step of any caller. *)
THEOREM HistoryIsAppendOnly == Spec => AppendOnly
<1>1. StoreTypeOK /\ Consistent /\ [AtomicNext]_store =>
        [ /\ Len(store.document.history) <= Len(store'.document.history)
          /\ SubSeq(store'.document.history, 1, Len(store.document.history))
               = store.document.history
          /\ \A n \in DOMAIN store.document.versions :
               store'.document.versions[n].sha256 = store.document.versions[n].sha256
        ]_store
  BY StepsOnlyAdd DEF AtomicNext, Extends
<1>2. GovernanceInv => StoreTypeOK /\ Consistent
  BY DEF GovernanceInv, TypeOK
<1> QED BY <1>1, <1>2, GovernanceInvariant, GovernanceIsAtomic, PTL DEF AtomicSpec, AppendOnly

(* Once a version is eligible for retrieval there is always one, and it     *)
(* only moves to a newer version. *)
THEOREM KnowledgeOnlyMovesForward == Spec => KnowledgeIsNeverWithdrawn
<1>1. StoreTypeOK /\ Consistent /\ [AtomicNext]_store =>
        [EligibleVersion(store'.document) >= EligibleVersion(store.document)]_store
  <2> SUFFICES ASSUME StoreTypeOK, Consistent, NEW c \in Commands, NEW at \in Instants,
                      Execute(c, at)
               PROVE  EligibleVersion(store'.document) >= EligibleVersion(store.document)
    BY DEF AtomicNext
  <2>1. EligibleVersion(store.document) = store.document.current
    BY EligibleIsCurrent DEF StoreTypeOK, Snapshots, Consistent
  <2>2. EligibleVersion(store'.document) = store'.document.current
    BY StepsOnlyAdd, EligibleIsCurrent
  <2> QED BY <2>1, <2>2, StepsOnlyAdd
<1>2. GovernanceInv => StoreTypeOK /\ Consistent
  BY DEF GovernanceInv, TypeOK
<1> QED BY <1>1, <1>2, GovernanceInvariant, GovernanceIsAtomic, PTL
        DEF AtomicSpec, KnowledgeIsNeverWithdrawn

(* So the document only ever grows.                                         *)
THEOREM DocumentAlwaysGrows == Spec => DocumentOnlyGrows
BY HistoryIsAppendOnly, KnowledgeOnlyMovesForward DEF DocumentOnlyGrows

-----------------------------------------------------------------------------
(* What a caller is told is true of the store.                              *)

(* A success stays recorded, and a lost race stays lost; before it is       *)
(* answered, a call knows only that its revision is not a future one.       *)
AnswerOK(p) ==
  LET c == call[p].command
      d == store.document
      e == call[p].expected
  IN  /\ e <= store.revision
      /\ call[p].phase = "reread" => e < store.revision
      /\ call[p].outcome \in {"applied", "replayed"} =>
           IF c.action = "registered"
           THEN \E i \in DOMAIN d.history : Records(d, d.history[i], c)
           ELSE RecordedAt(d, e + 1, c)
      /\ call[p].outcome = "concurrency" =>
           /\ store.revision > e
           /\ store.revision = e + 1 => ~RecordedAt(d, store.revision, c)

AnswersInv == GovernanceInv /\ AuditInv /\ \A p \in Callers : AnswerOK(p)

(* A step of one call that leaves the store leaves the other answers true.  *)
LEMMA AnswersOfOthers ==
  ASSUME AnswersInv, GovernanceInv', UNCHANGED store, NEW p \in Callers,
         \A q \in Callers : q # p => call'[q] = call[q], AnswerOK(p)'
  PROVE  AnswersInv'
<1>1. AuditInv'
  BY DEF AnswersInv, AuditInv, AtomicInv, StoreTypeOK, Snapshots, Consistent, StoreIsAudited
<1>2. ASSUME NEW q \in Callers PROVE AnswerOK(q)'
  <2>1. CASE q = p
    BY <2>1
  <2>2. CASE q # p
    <3>1. AnswerOK(q) /\ call'[q] = call[q]
      BY <2>2 DEF AnswersInv
    <3> QED BY <3>1 DEF AnswerOK
  <2> QED BY <2>1, <2>2
<1> QED BY <1>1, <1>2 DEF AnswersInv

LEMMA FinishingKeepsAnswers ==
  ASSUME AnswersInv, UNCHANGED store, NEW p \in Callers,
         NEW o \in Outcomes \ {"applied"}, NEW n \in Nat, Finish(p, o, n),
         LET c == call[p].command
             d == store.document
             e == call[p].expected
         IN  /\ o = "replayed" =>
                  IF c.action = "registered"
                  THEN \E i \in DOMAIN d.history : Records(d, d.history[i], c)
                  ELSE RecordedAt(d, e + 1, c)
             /\ o = "concurrency" =>
                  /\ store.revision > e
                  /\ store.revision = e + 1 => ~RecordedAt(d, store.revision, c)
  PROVE  AnswersInv'
<1>1. GovernanceInv' /\ AnswerOK(p)
  BY FinishingKeepsInv DEF AnswersInv
<1>2. /\ \A q \in Callers : q # p => call'[q] = call[q]
      /\ call'[p].phase = "done" /\ call'[p].outcome = o
      /\ call'[p].expected = call[p].expected /\ call'[p].command = call[p].command
  BY FinishedCall DEF AnswersInv, GovernanceInv
<1>3. AnswerOK(p)'
  BY <1>1, <1>2 DEF AnswerOK
<1> QED BY <1>1, <1>2, <1>3, AnswersOfOthers

LEMMA MovingOnKeepsAnswers ==
  ASSUME AnswersInv, GovernanceInv', UNCHANGED store, NEW p \in Callers, NEW k \in Calls,
         call' = [call EXCEPT ![p] = k], k.outcome = None, k.expected <= store.revision,
         k.phase = "reread" => k.expected < store.revision
  PROVE  AnswersInv'
<1>1. call'[p] = k /\ \A q \in Callers : q # p => call'[q] = call[q]
  BY DEF AnswersInv, GovernanceInv, TypeOK
<1>2. AnswerOK(p)'
  BY <1>1 DEF AnswerOK, None
<1> QED BY <1>1, <1>2, AnswersOfOthers

(* Whether the repository is read first or after a lost race, the answer    *)
(* given from what was read is true.                                        *)
LEMMA ReadAnswersAreTrue ==
  ASSUME AnswersInv, UNCHANGED store, NEW p \in Callers,
         \/ /\ AlreadyExecuted(store, call[p].command, call[p].expected)
            /\ Finish(p, "replayed", store.revision)
         \/ /\ ~AlreadyExecuted(store, call[p].command, call[p].expected)
            /\ store.revision > call[p].expected
            /\ Finish(p, "concurrency", 0)
  PROVE  AnswersInv'
<1>1. /\ call[p] \in Calls /\ call[p].command \in Commands /\ call[p].expected \in Nat
      /\ store.revision \in Nat /\ AuditInv
  BY DEF AnswersInv, GovernanceInv, TypeOK, StoreTypeOK, Snapshots, Calls
<1>2. "replayed" \in Outcomes \ {"applied"} /\ "concurrency" \in Outcomes \ {"applied"}
  BY DEF Outcomes
<1>3. CASE /\ AlreadyExecuted(store, call[p].command, call[p].expected)
           /\ Finish(p, "replayed", store.revision)
  <2>1. Trusted(store) /\ WellFormedCommand(call[p].command)
    BY <1>1, AuditIsTrust, CommandsAreWellFormed
  <2> QED BY <1>1, <1>2, <1>3, <2>1, ReplayIsRecorded, FinishingKeepsAnswers
<1>4. CASE /\ ~AlreadyExecuted(store, call[p].command, call[p].expected)
           /\ store.revision > call[p].expected
           /\ Finish(p, "concurrency", 0)
  <2>1. store.revision = call[p].expected + 1
          => ~RecordedAt(store.document, store.revision, call[p].command)
    BY <1>1, <1>4, AuditIsTrust, CommandsAreWellFormed, RecordedIsRecognised
  <2> QED BY <1>1, <1>2, <1>4, <2>1, FinishingKeepsAnswers
<1> QED BY <1>3, <1>4

LEMMA GetKeepsAnswers == ASSUME AnswersInv, NEW p \in Callers, Get(p) PROVE AnswersInv'
<1>1. /\ call[p] \in Calls /\ call[p].outcome = None /\ call[p].expected <= store.revision
      /\ UNCHANGED store /\ store.revision \in Nat /\ call[p].expected \in Nat
      /\ store \in Snapshots
  BY DEF AnswersInv, GovernanceInv, TypeOK, StoreTypeOK, CallOK, AnswerOK, Get, At, Calls,
         Snapshots
<1>2. CASE Finish(p, "not_found", 0)
  BY <1>1, <1>2, FinishingKeepsAnswers DEF Outcomes
<1>3. CASE /\ AlreadyExecuted(store, call[p].command, call[p].expected)
           /\ Finish(p, "replayed", store.revision)
  BY <1>1, <1>3, ReadAnswersAreTrue
<1>4. CASE /\ ~AlreadyExecuted(store, call[p].command, call[p].expected)
           /\ store.revision # call[p].expected
           /\ Finish(p, "concurrency", 0)
  BY <1>1, <1>4, ReadAnswersAreTrue
<1>5. CASE call' = [call EXCEPT ![p] = [call[p] EXCEPT !.phase = "mutate", !.base = store]]
  <2> DEFINE k == [call[p] EXCEPT !.phase = "mutate", !.base = store]
  <2>1. k \in Calls /\ k.outcome = None /\ k.phase = "mutate" /\ k.expected = call[p].expected
    BY <1>1 DEF Calls, Phases
  <2>2. call' = [call EXCEPT ![p] = k]
    BY <1>5
  <2>3. GovernanceInv'
    BY GetKeepsInv DEF AnswersInv
  <2> HIDE DEF k
  <2> QED BY <1>1, <2>1, <2>2, <2>3, MovingOnKeepsAnswers
<1> QED BY <1>2, <1>3, <1>4, <1>5 DEF Get

LEMMA BeginKeepsAnswers == ASSUME AnswersInv, NEW p \in Callers, Begin(p) PROVE AnswersInv'
<1>1. PICK c \in Commands, e \in Revisions :
        /\ e <= store.revision
        /\ call' = [call EXCEPT ![p] = [call[p] EXCEPT !.phase = "get", !.command = c,
                                                       !.expected = e]]
  BY DEF Begin
<1> DEFINE k == [call[p] EXCEPT !.phase = "get", !.command = c, !.expected = e]
<1>2. call[p] \in Calls /\ call[p].phase = "idle" /\ call[p].outcome = None /\ UNCHANGED store
  BY DEF AnswersInv, GovernanceInv, TypeOK, CallOK, Begin, At
<1>3. k \in Calls /\ k.outcome = None /\ k.phase = "get" /\ k.expected = e
  BY <1>2, BoundsAreNaturals DEF Calls, Phases
<1>4. call' = [call EXCEPT ![p] = k]
  BY <1>1
<1>5. GovernanceInv'
  BY BeginKeepsInv DEF AnswersInv
<1> HIDE DEF k
<1> QED BY <1>1, <1>2, <1>3, <1>4, <1>5, MovingOnKeepsAnswers

LEMMA MutateKeepsAnswers == ASSUME AnswersInv, NEW p \in Callers, Mutate(p) PROVE AnswersInv'
<1> DEFINE c == call[p].command
           d == call[p].base.document
<1>1. /\ call[p] \in Calls /\ call[p].outcome = None /\ call[p].expected <= store.revision
      /\ UNCHANGED store /\ HoldsSnapshot(p) /\ c \in Commands
  BY DEF AnswersInv, GovernanceInv, TypeOK, CallOK, AnswerOK, Mutate, At, Calls
<1>2. PICK at \in Instants :
        IF ErrorOf(d, c, at) # None THEN Finish(p, ErrorOf(d, c, at), 0)
        ELSE call' = [call EXCEPT ![p] = [call[p] EXCEPT !.phase = "compare_and_swap",
                                                         !.draft = ResultOf(d, c, at)]]
  BY DEF Mutate
<1>3. GovernanceInv'
  BY MutateKeepsInv DEF AnswersInv
<1>4. CASE ErrorOf(d, c, at) # None
  <2> DEFINE o == ErrorOf(d, c, at)
  <2>1. o \in Outcomes \ {"applied"} /\ o # "replayed" /\ o # "concurrency" /\ Finish(p, o, 0)
    BY <1>1, <1>2, <1>4, CommandsAreWellFormed, ErrorIsOutcome
  <2> HIDE DEF o
  <2> QED BY <1>1, <2>1, FinishingKeepsAnswers
<1>5. CASE ErrorOf(d, c, at) = None
  <2> DEFINE k == [call[p] EXCEPT !.phase = "compare_and_swap", !.draft = ResultOf(d, c, at)]
  <2>1. call' = [call EXCEPT ![p] = k]
    BY <1>2, <1>5
  <2>2. k.outcome = None /\ k.phase = "compare_and_swap" /\ k.expected = call[p].expected
    BY <1>1 DEF Calls
  <2> HIDE DEF k
  <2>3. k \in Calls
    BY <1>3, <2>1 DEF AnswersInv, GovernanceInv, TypeOK
  <2> QED BY <1>1, <1>3, <2>1, <2>2, <2>3, MovingOnKeepsAnswers
<1> QED BY <1>4, <1>5

LEMMA SwapKeepsAnswers ==
  ASSUME AnswersInv, NEW p \in Callers, CompareAndSwap(p)
  PROVE  AnswersInv'
<1>1. /\ call[p] \in Calls /\ call[p].outcome = None /\ call[p].expected <= store.revision
      /\ call[p].expected \in Nat /\ store.revision \in Nat /\ GovernanceInv
      /\ At(p, "compare_and_swap")
  BY DEF AnswersInv, GovernanceInv, TypeOK, StoreTypeOK, Snapshots, CallOK, AnswerOK, CompareAndSwap, At, Calls
<1>2. GovernanceInv'
  BY SwapKeepsInv DEF AnswersInv
<1>3. CASE ~RevisionMatches(p)
  <2> DEFINE k == [call[p] EXCEPT !.phase = "reread"]
  <2>1. call' = [call EXCEPT ![p] = k] /\ UNCHANGED store
    BY <1>3 DEF CompareAndSwap, Proceed
  <2>2. k \in Calls /\ k.outcome = None /\ k.expected = call[p].expected
    BY <1>1 DEF Calls, Phases
  <2>3. call[p].expected < store.revision
    BY <1>1, <1>3 DEF RevisionMatches
  <2> HIDE DEF k
  <2> QED BY <1>1, <1>2, <2>1, <2>2, <2>3, MovingOnKeepsAnswers
<1>4. CASE Finish(p, "audit_conflict", 0) /\ UNCHANGED store
  BY <1>4, FinishingKeepsAnswers DEF Outcomes
<1>5. CASE /\ RevisionMatches(p) /\ store' = Published(p) /\ Finish(p, "applied", store.revision + 1)
           /\ ExtendsAudit(store.document, call[p].draft, call[p].command)
  <2> DEFINE c == call[p].command
  <2>1. c \in Commands /\ \E at \in Instants : Execute(c, at)
    BY <1>1, <1>5, SwapExecutes
  <2>2. PICK at \in Instants : Execute(c, at)
    BY <2>1
  <2>3. AuditInv /\ AuditInv' /\ store'.revision = store.revision + 1
        /\ store.revision = call[p].expected
    BY <1>5, <2>1, <2>2, ExecutionKeepsAudit DEF AnswersInv, Execute, RevisionMatches
  <2>4. /\ \A q \in Callers : q # p => call'[q] = call[q]
        /\ call'[p].phase = "done" /\ call'[p].outcome = "applied"
        /\ call'[p].expected = call[p].expected /\ call'[p].command = c
    BY <1>1, <1>5, FinishedCall DEF GovernanceInv, Outcomes
  <2>5. RecordedAt(store'.document, store.revision + 1, c)
    BY <2>1, <2>2, <2>3, AuditIsTrust, StepExecutes, ExecutedIsRecorded
  <2>6. AnswerOK(p)'
    <3>1. \E i \in DOMAIN store'.document.history :
            Records(store'.document, store'.document.history[i], c)
      BY <2>5 DEF RecordedAt
    <3> QED BY <1>1, <2>3, <2>4, <2>5, <3>1 DEF AnswerOK
  <2>7. ASSUME NEW q \in Callers, q # p PROVE AnswerOK(q)'
    <3>1. /\ call'[q] = call[q] /\ AnswerOK(q) /\ call[q].command \in Commands
          /\ call[q].expected \in Nat
      BY <2>4, <2>7 DEF AnswersInv, GovernanceInv, TypeOK, Calls
    <3>2. /\ call[q].expected <= store'.revision
          /\ call[q].phase = "reread" => call[q].expected < store'.revision
      BY <1>1, <2>3, <3>1 DEF AnswerOK
    <3>3. call[q].outcome \in {"applied", "replayed"} =>
            IF call[q].command.action = "registered"
            THEN \E i \in DOMAIN store'.document.history :
                   Records(store'.document, store'.document.history[i], call[q].command)
            ELSE RecordedAt(store'.document, call[q].expected + 1, call[q].command)
      <4>1. Trusted(store) /\ Executes(store, store', c, at)
        BY <2>1, <2>2, <2>3, AuditIsTrust, StepExecutes
      <4> QED BY <3>1, <4>1, RecordsStay DEF AnswerOK
    <3>4. call[q].outcome = "concurrency" =>
            store'.revision > call[q].expected /\ store'.revision # call[q].expected + 1
      BY <1>1, <2>3, <3>1 DEF AnswerOK
    <3> QED BY <3>1, <3>2, <3>3, <3>4 DEF AnswerOK
  <2> QED BY <1>2, <2>3, <2>6, <2>7 DEF AnswersInv
<1> QED BY <1>3, <1>4, <1>5 DEF CompareAndSwap

LEMMA RereadKeepsAnswers == ASSUME AnswersInv, NEW p \in Callers, Reread(p) PROVE AnswersInv'
<1>1. UNCHANGED store /\ call[p].expected < store.revision
      /\ call[p].expected \in Nat /\ store.revision \in Nat
  BY DEF AnswersInv, GovernanceInv, TypeOK, StoreTypeOK, Snapshots, AnswerOK, Reread, At, Calls
<1> QED BY <1>1, ReadAnswersAreTrue DEF Reread

LEMMA ReturnKeepsAnswers == ASSUME AnswersInv, NEW p \in Callers, Return(p) PROVE AnswersInv'
<1>1. UNCHANGED store /\ call' = [call EXCEPT ![p] = IdleCall] /\ store.revision \in Nat
  BY DEF Return, AnswersInv, GovernanceInv, TypeOK, StoreTypeOK, Snapshots
<1>2. IdleCall \in Calls /\ IdleCall.outcome = None /\ IdleCall.phase = "idle" /\ IdleCall.expected = 0
  BY IdleCallIsTyped DEF IdleCall
<1>3. GovernanceInv'
  BY ReturnKeepsInv DEF AnswersInv
<1>4. PICK k \in Calls : k = IdleCall
  BY <1>2
<1>5. /\ k.outcome = None /\ k.phase = "idle" /\ k.expected <= store.revision
      /\ k.phase = "reread" => k.expected < store.revision
      /\ call' = [call EXCEPT ![p] = k]
  BY <1>1, <1>2, <1>4
<1> QED BY <1>1, <1>3, <1>5, MovingOnKeepsAnswers

LEMMA AnswersStayTrue == Spec => []AnswersInv
<1>1. Init => AnswersInv
  <2> SUFFICES ASSUME Init PROVE AnswersInv
    OBVIOUS
  <2>1. GovernanceInv
    BY InitSatisfiesInv
  <2>2. AuditInv
    BY SeedsAreConsistent, SeedsAreAudited
    DEF Init, AtomicInit, AuditInv, AtomicInv, StoreTypeOK, Snapshots, Consistent, StoreIsAudited
  <2>3. ASSUME NEW p \in Callers PROVE AnswerOK(p)
    <3>1. call[p] = IdleCall /\ store.revision \in Nat
      BY <2>1 DEF Init, GovernanceInv, TypeOK, StoreTypeOK, Snapshots
    <3> QED BY <3>1 DEF AnswerOK, IdleCall, None
  <2> QED BY <2>1, <2>2, <2>3 DEF AnswersInv
<1>2. AnswersInv /\ [Next]_vars => AnswersInv'
  <2> SUFFICES ASSUME AnswersInv, [Next]_vars PROVE AnswersInv'
    OBVIOUS
  <2>1. ASSUME NEW p \in Callers, Begin(p) \/ Serve(p) PROVE AnswersInv'
    BY <2>1, BeginKeepsAnswers, GetKeepsAnswers, MutateKeepsAnswers, SwapKeepsAnswers,
       RereadKeepsAnswers, ReturnKeepsAnswers DEF Serve
  <2>2. CASE UNCHANGED vars
    BY <2>2 DEF vars, AnswersInv, GovernanceInv, TypeOK, StoreTypeOK, Snapshots, Consistent, CallOK,
                HoldsSnapshot, HoldsDraft, OneWinnerPerRevision, AuditInv, AtomicInv,
                StoreIsAudited, AnswerOK
  <2> QED BY <2>1, <2>2 DEF Next
<1> QED BY <1>1, <1>2, PTL DEF Spec

(* The stored snapshot passes the audit in every reachable state, so no     *)
(* reader ever has to reject it. *)
THEOREM SnapshotsAreAudited == Spec => []StoreIsAudited
<1>1. AnswersInv => StoreIsAudited
  BY DEF AnswersInv, AuditInv
<1> QED BY <1>1, AnswersStayTrue, PTL

(* The version retrieval may use was extracted, indexed and approved, in    *)
(* that order, in the attempt that led to its approval. *)
THEOREM ApprovedVersionsWereProcessed == Spec => []ApprovedWasProcessed
BY ApprovalsAreJustified, GovernanceIsAtomic, PTL

(* Whatever a caller is told of its command is true of the store, however   *)
(* many calls were in flight and whichever answers were lost. *)
THEOREM CallersAreToldTheTruth == Spec => []AnswersAreTrue
<1>1. AnswersInv => AnswersAreTrue
  BY DEF AnswersInv, AnswerOK, AnswersAreTrue, AcknowledgedIsStored, ConflictIsReal
<1> QED BY <1>1, AnswersStayTrue, PTL

-----------------------------------------------------------------------------
(* The registry.  Metadata and document of a registration are written by    *)
(* two kinds of compare-and-swap, of which only one knows the metadata.     *)
(* They agree all the same: a registration appends one version and the row  *)
(* for it, and nothing else adds a version or changes the content of one.   *)

(* What a client in flight holds, so far as the proof needs it.            *)

DraftFollows(a) ==
  /\ a.read.metadata \in Seq(Metadata)
  /\ a.draft.metadata = Append(a.read.metadata,
                               [sha256 |-> a.request.sha256, size |-> a.request.size])

CallFields == {"phase", "command", "expected", "base", "draft", "outcome", "answer"}

ClientOK(a, k) ==
  /\ {"phase", "request", "read", "draft", "answer"} \subseteq DOMAIN a
  /\ CallFields \subseteq DOMAIN k
  /\ a.request \in Requests
  /\ a.phase = "locate" => a.request.route # "register"
  /\ a.phase = "register" => DraftFollows(a)
  /\ a.phase = "govern" => /\ a.request.route \in Decisions
                           /\ k.command = DecisionCommand(a.request)

ClientsOK ==
  /\ DOMAIN api = Callers /\ DOMAIN call = Callers
  /\ \A p \in Callers : ClientOK(api[p], call[p])

RegistrationOK ==
  /\ VersionsOK(store.document)
  /\ metadata \in Seq(Metadata)
  /\ RegistrationIsWhole

RegistryInv == RegistrationOK /\ ClientsOK

\* Only the client that moves has to be looked at.
LEMMA OneClientMoves ==
  ASSUME ClientsOK, NEW p \in Callers,
         DOMAIN api' = DOMAIN api, DOMAIN call' = DOMAIN call,
         \A q \in Callers : q # p => api'[q] = api[q] /\ call'[q] = call[q],
         ClientOK(api'[p], call'[p])
  PROVE  ClientsOK'
<1>1. \A q \in Callers : ClientOK(api'[q], call'[q])
  BY DEF ClientsOK
<1> QED
  BY <1>1 DEF ClientsOK

\* An answered request is as good as none.
LEMMA AnsweringKeepsClients ==
  ASSUME ClientsOK, NEW p \in Callers, NEW read, NEW answer, Answer(p, read, answer),
         DOMAIN call' = DOMAIN call, CallFields \subseteq DOMAIN call'[p],
         \A q \in Callers : q # p => call'[q] = call[q]
  PROVE  ClientsOK'
<1> DEFINE a == [api[p] EXCEPT !.phase = "answered", !.read = read,
                               !.draft = NothingRegistered, !.answer = answer]
<1>1. api' = [api EXCEPT ![p] = a]
  BY DEF Answer
<1>2. /\ DOMAIN api' = DOMAIN api /\ api'[p] = a
      /\ \A q \in Callers : q # p => api'[q] = api[q]
  <2> HIDE DEF a
  <2> QED
    BY <1>1 DEF ClientsOK
<1>3. ClientOK(api[p], call[p])
  BY DEF ClientsOK
<1>4. DOMAIN a = DOMAIN api[p] /\ a.phase = "answered" /\ a.request = api[p].request
  BY <1>3 DEF ClientOK
<1> HIDE DEF a
<1>5. ClientOK(a, call'[p])
  BY <1>3, <1>4 DEF ClientOK
<1> QED
  BY <1>2, <1>5, OneClientMoves

LEMMA AnsweringLeavesCalls ==
  ASSUME ClientsOK, NEW p \in Callers, NEW read, NEW answer, Answer(p, read, answer),
         UNCHANGED call
  PROVE  ClientsOK'
<1>1. CallFields \subseteq DOMAIN call[p]
  BY DEF ClientsOK, ClientOK
<1> QED
  BY <1>1, AnsweringKeepsClients

-----------------------------------------------------------------------------
(* The steps of the routes.                                                *)

LEMMA RegistrationUnmoved == RegistrationOK /\ UNCHANGED <<store, metadata>> => RegistrationOK'
BY DEF RegistrationOK, RegistrationIsWhole

LEMMA RequestsAreTyped ==
  ASSUME NEW r \in Requests
  PROVE  /\ r.route \in Routes /\ r.number \in Nat
         /\ [sha256 |-> r.sha256, size |-> r.size] \in Metadata /\ r.sha256 \in Hashes
BY RequestsAreWellFormed DEF RequestShapes, Metadata

LEMMA IssueKeepsInv == ASSUME RegistryInv, NEW p \in Callers, Issue(p) PROVE RegistryInv'
<1>1. PICK r \in Requests :
        api' = [api EXCEPT ![p].phase = IF r.route = "register" THEN "lookup" ELSE "locate",
                           ![p].request = r]
  BY DEF Issue
<1>2. ClientsOK /\ ClientOK(api[p], call[p]) /\ UNCHANGED <<store, call, metadata>>
  BY DEF RegistryInv, ClientsOK, Issue
<1>3. /\ DOMAIN api' = DOMAIN api /\ \A q \in Callers : q # p => api'[q] = api[q]
      /\ DOMAIN api'[p] = DOMAIN api[p]
      /\ api'[p].request = r
      /\ api'[p].phase = IF r.route = "register" THEN "lookup" ELSE "locate"
  BY <1>1, <1>2 DEF ClientsOK, ClientOK
<1>4. ClientOK(api'[p], call'[p])
  BY <1>2, <1>3 DEF ClientOK
<1>5. ClientsOK'
  BY <1>2, <1>3, <1>4, OneClientMoves
<1> QED
  BY <1>2, <1>5, RegistrationUnmoved DEF RegistryInv

LEMMA LookupKeepsInv == ASSUME RegistryInv, NEW p \in Callers, Lookup(p) PROVE RegistryInv'
<1> DEFINE r == api[p].request
           draft(at) == [document |-> Registered(store.document, RegisterCommand(Stored, r), at),
                         metadata |-> Append(metadata, [sha256 |-> r.sha256, size |-> r.size]),
                         revision |-> store.revision]
           held(at) == [api[p] EXCEPT !.phase = "register", !.read = Stored, !.draft = draft(at)]
<1>1. ClientsOK /\ ClientOK(api[p], call[p]) /\ UNCHANGED <<store, call, metadata>>
  BY DEF RegistryInv, ClientsOK, Lookup
<1>2. \/ \E answer : Answer(p, Stored, answer)
      \/ \E at \in Instants : api' = [api EXCEPT ![p] = held(at)]
  BY DEF Lookup
<1>3. ASSUME NEW at \in Instants, api' = [api EXCEPT ![p] = held(at)] PROVE ClientsOK'
  <2> DEFINE a == held(at)
  <2>1. /\ DOMAIN a = DOMAIN api[p] /\ a.phase = "register" /\ a.request = r
        /\ a.read = Stored /\ a.draft = draft(at)
    BY <1>1 DEF ClientOK
  <2>2. Stored.metadata \in Seq(Metadata)
    BY DEF Stored, RegistryInv, RegistrationOK
  <2>3. draft(at).metadata = Append(Stored.metadata, [sha256 |-> r.sha256, size |-> r.size])
    BY DEF Stored
  <2>4. api' = [api EXCEPT ![p] = a]
    BY <1>3
  <2> HIDE DEF a, draft
  <2>5. ClientOK(a, call[p])
    BY <1>1, <2>1, <2>2, <2>3 DEF ClientOK, DraftFollows
  <2>6. DOMAIN api' = DOMAIN api /\ api'[p] = a /\ \A q \in Callers : q # p => api'[q] = api[q]
    BY <1>1, <2>4 DEF ClientsOK
  <2> QED
    BY <1>1, <2>5, <2>6, OneClientMoves
<1>4. ClientsOK'
  BY <1>1, <1>2, <1>3, AnsweringLeavesCalls
<1> QED
  BY <1>1, <1>4, RegistrationUnmoved DEF RegistryInv

LEMMA RereadRegistrationKeepsInv ==
  ASSUME RegistryInv, NEW p \in Callers, RereadRegistration(p) PROVE RegistryInv'
<1>1. \E answer : Answer(p, api[p].read, answer)
  BY DEF RereadRegistration
<1>2. ClientsOK /\ UNCHANGED <<store, call, metadata>>
  BY DEF RegistryInv, RereadRegistration
<1> QED
  BY <1>1, <1>2, AnsweringLeavesCalls, RegistrationUnmoved DEF RegistryInv

LEMMA RespondKeepsInv == ASSUME RegistryInv, NEW p \in Callers, Respond(p) PROVE RegistryInv'
<1>1. ClientsOK /\ UNCHANGED <<store, metadata>>
  BY DEF RegistryInv, Respond
<1>2. /\ api' = [api EXCEPT ![p] = IdleApi] /\ call' = [call EXCEPT ![p] = IdleCall]
  BY DEF Respond
<1>3. ClientOK(IdleApi, IdleCall)
  BY RequestsAreWellFormed DEF ClientOK, CallFields, IdleApi, IdleCall
<1>4. /\ DOMAIN api' = DOMAIN api /\ DOMAIN call' = DOMAIN call
      /\ api'[p] = IdleApi /\ call'[p] = IdleCall
      /\ \A q \in Callers : q # p => api'[q] = api[q] /\ call'[q] = call[q]
  BY <1>1, <1>2 DEF ClientsOK
<1> QED
  BY <1>1, <1>3, <1>4, OneClientMoves, RegistrationUnmoved DEF RegistryInv

LEMMA LocateKeepsInv == ASSUME RegistryInv, NEW p \in Callers, Locate(p) PROVE RegistryInv'
<1> DEFINE r == api[p].request
           a == [api[p] EXCEPT !.phase = "govern", !.read = Stored]
           k == [call[p] EXCEPT !.phase = "get", !.command = DecisionCommand(r),
                                !.expected = ExpectedRevision(Stored, r)]
<1>1. ClientsOK /\ ClientOK(api[p], call[p]) /\ UNCHANGED <<store, metadata>>
  BY DEF RegistryInv, ClientsOK, Locate
<1>2. \/ UNCHANGED call /\ \E answer : Answer(p, Stored, answer)
      \/ /\ r.route # "get"
         /\ api' = [api EXCEPT ![p].phase = "govern", ![p].read = Stored]
         /\ call' = [call EXCEPT ![p] = k]
  BY DEF Locate
<1>3. ASSUME r.route # "get", call' = [call EXCEPT ![p] = k],
             api' = [api EXCEPT ![p].phase = "govern", ![p].read = Stored]
      PROVE  ClientsOK'
  <2>1. r.route \in Decisions
    BY <1>1, <1>3, RequestsAreTyped DEF Locate, InPhase, ClientOK, Routes, Decisions
  <2>2. /\ DOMAIN api' = DOMAIN api /\ \A q \in Callers : q # p => api'[q] = api[q]
        /\ DOMAIN api'[p] = DOMAIN api[p]
        /\ api'[p].phase = "govern" /\ api'[p].request = r
    BY <1>1, <1>3 DEF ClientsOK, ClientOK
  <2>3. DOMAIN k = DOMAIN call[p] /\ k.command = DecisionCommand(r)
    BY <1>1 DEF ClientOK
  <2> HIDE DEF k
  <2>4. DOMAIN call' = DOMAIN call /\ call'[p] = k /\ \A q \in Callers : q # p => call'[q] = call[q]
    BY <1>1, <1>3 DEF ClientsOK
  <2>5. ClientOK(api'[p], k)
    BY <1>1, <2>1, <2>2, <2>3 DEF ClientOK
  <2> QED
    BY <1>1, <2>2, <2>4, <2>5, OneClientMoves
<1>4. ClientsOK'
  BY <1>1, <1>2, <1>3, AnsweringLeavesCalls
<1> QED
  BY <1>1, <1>4, RegistrationUnmoved DEF RegistryInv

\* The swap appends the row to the very metadata the version is appended to:
\* what a draft starts from has to be a prefix of its own length.
LEMMA AppendedToWhatIsStored ==
  ASSUME NEW m \in Seq(Metadata), NEW n \in Seq(Metadata), NEW row \in Metadata,
         Len(Append(n, row)) = Len(m) + 1,
         SubSeq(Append(n, row), 1, Len(m)) = m
  PROVE  n = m
<1>1. Len(n) = Len(m)
  OBVIOUS
<1>2. \A i \in 1..Len(m) : SubSeq(Append(n, row), 1, Len(m))[i] = n[i]
  BY <1>1
<1> QED
  BY <1>1, <1>2

LEMMA SwapRegistrationKeepsInv ==
  ASSUME RegistryInv, NEW p \in Callers, CompareAndSwapRegistration(p) PROVE RegistryInv'
<1> DEFINE a == api[p]
           draft == a.draft
           r == a.request
           c == RegisterCommand(a.read, r)
           row == [sha256 |-> r.sha256, size |-> r.size]
<1>1. /\ ClientsOK /\ ClientOK(a, call[p]) /\ RegistrationOK /\ UNCHANGED call
      /\ a.phase = "register"
  BY DEF RegistryInv, ClientsOK, CompareAndSwapRegistration, InPhase
<1>2. r \in Requests /\ DraftFollows(a)
  BY <1>1 DEF ClientOK
<1>3. CASE /\ UNCHANGED <<store, metadata>>
           /\ \E answer : Answer(p, a.read, answer)
  BY <1>1, <1>3, AnsweringLeavesCalls, RegistrationUnmoved DEF RegistryInv
<1>4. CASE /\ UNCHANGED <<store, metadata>>
           /\ api' = [api EXCEPT ![p].phase = "reread", ![p].draft = NothingRegistered]
  <2>1. /\ DOMAIN api' = DOMAIN api /\ \A q \in Callers : q # p => api'[q] = api[q]
        /\ DOMAIN api'[p] = DOMAIN api[p]
        /\ api'[p].phase = "reread" /\ api'[p].request = r
    BY <1>1, <1>4 DEF ClientsOK, ClientOK
  <2>2. ClientOK(api'[p], call'[p])
    BY <1>1, <2>1 DEF ClientOK
  <2> QED
    BY <1>1, <1>4, <2>1, <2>2, OneClientMoves, RegistrationUnmoved DEF RegistryInv
<1>5. CASE /\ ExtendsAudit(store.document, draft.document, c)
           /\ AppendsOneVersion(draft.metadata)
           /\ store' = [document |-> draft.document, revision |-> store.revision + 1]
           /\ metadata' = PublishedMetadata(p)
           /\ Answer(p, a.read, Receipt(c.version, store.revision + 1))
  <2> DEFINE d == store.document
             e == draft.document
  <2>1. row \in Metadata /\ r.sha256 \in Hashes
    BY <1>2, RequestsAreTyped
  <2>2. a.read.metadata \in Seq(Metadata) /\ draft.metadata = Append(a.read.metadata, row)
    BY <1>2 DEF DraftFollows
  <2>3. metadata \in Seq(Metadata) /\ VersionsOK(d) /\ Len(metadata) = Len(d.versions)
        /\ \A n \in DOMAIN metadata : metadata[n].sha256 = d.versions[n].sha256
    BY <1>1 DEF RegistrationOK, RegistrationIsWhole
  <2>4. a.read.metadata = metadata
    <3> HIDE DEF row
    <3> QED
      BY <1>5, <2>1, <2>2, <2>3, AppendedToWhatIsStored DEF AppendsOneVersion
  <2>5. /\ c.action = "registered" /\ c.sha256 = r.sha256
        /\ c.version = Len(d.versions) + 1
    BY <2>3, <2>4 DEF RegisterCommand
  <2>6. PICK at : e = ResultOf(d, c, at)
    BY <1>5 DEF ExtendsAudit
  <2> HIDE DEF c, d, e
  <2>7. /\ VersionsOK(e) /\ Len(e.versions) = Len(d.versions) + 1
        /\ \A n \in 1..Len(d.versions) : e.versions[n].sha256 = d.versions[n].sha256
        /\ e.versions[Len(d.versions) + 1].sha256 = r.sha256
    BY <2>1, <2>3, <2>5, <2>6, RegisteringAppends
  <2>8. metadata' = Append(metadata, row) /\ store'.document = e
    BY <1>5, <2>2, <2>4 DEF PublishedMetadata, e
  <2>9. /\ metadata' \in Seq(Metadata) /\ Len(metadata') = Len(metadata) + 1
        /\ \A n \in 1..Len(metadata) : metadata'[n] = metadata[n]
        /\ metadata'[Len(metadata) + 1] = row
        /\ DOMAIN metadata' = 1..(Len(metadata) + 1)
    <3> HIDE DEF row
    <3> QED
      BY <2>1, <2>3, <2>8
  <2>10. row.sha256 = r.sha256
    OBVIOUS
  <2>11. ASSUME NEW n \in DOMAIN metadata' PROVE metadata'[n].sha256 = e.versions[n].sha256
    <3> HIDE DEF row, r
    <3>1. CASE n \in 1..Len(metadata)
      BY <2>3, <2>7, <2>9, <3>1
    <3>2. CASE n = Len(metadata) + 1
      BY <2>3, <2>7, <2>9, <2>10, <3>2
    <3> QED
      BY <2>3, <2>9, <3>1, <3>2
  <2>12. RegistrationOK'
    BY <2>3, <2>7, <2>8, <2>9, <2>11 DEF RegistrationOK, RegistrationIsWhole
  <2> QED
    BY <1>1, <1>5, <2>12, AnsweringLeavesCalls DEF RegistryInv
<1> QED
  BY <1>3, <1>4, <1>5 DEF CompareAndSwapRegistration

\* A step of the governance service stays within its call, and what it
\* stores is what its command makes of the stored document.
LEMMA GovernanceStep ==
  ASSUME ClientsOK, NEW p \in Callers,
         Get(p) \/ Mutate(p) \/ CompareAndSwap(p) \/ Reread(p)
  PROVE  /\ DOMAIN call' = DOMAIN call
         /\ \A q \in Callers : q # p => call'[q] = call[q]
         /\ DOMAIN call'[p] = DOMAIN call[p]
         /\ call'[p].command = call[p].command
         /\ \/ UNCHANGED store
            \/ \E at : store'.document = ResultOf(store.document, call[p].command, at)
<1> DEFINE Moved == \E k : /\ call' = [call EXCEPT ![p] = k]
                           /\ DOMAIN k = DOMAIN call[p]
                           /\ k.command = call[p].command
<1>1. ClientOK(api[p], call[p]) /\ DOMAIN call = Callers
  BY DEF ClientsOK
<1>2. ASSUME NEW outcome, NEW revision, Finish(p, outcome, revision) PROVE Moved
  <2> DEFINE k == [call[p] EXCEPT !.phase = "done", !.outcome = outcome,
                                  !.answer = revision,
                                  !.base = NothingStored, !.draft = NoDocument]
  <2>1. call' = [call EXCEPT ![p] = k]
    BY <1>2 DEF Finish
  <2>2. DOMAIN k = DOMAIN call[p] /\ k.command = call[p].command
    BY <1>1 DEF ClientOK
  <2> HIDE DEF k
  <2> QED
    BY <2>1, <2>2
<1>3. Get(p) => Moved /\ UNCHANGED store
  <2> DEFINE k == [call[p] EXCEPT !.phase = "mutate", !.base = store]
  <2>1. DOMAIN k = DOMAIN call[p] /\ k.command = call[p].command
    BY <1>1 DEF ClientOK
  <2>2. Get(p) => \/ \E outcome, revision : Finish(p, outcome, revision)
                  \/ call' = [call EXCEPT ![p] = k]
    BY DEF Get
  <2> HIDE DEF k
  <2>3. call' = [call EXCEPT ![p] = k] => Moved
    BY <2>1
  <2> HIDE DEF Moved
  <2> QED
    BY <1>2, <2>2, <2>3 DEF Get
<1>4. Mutate(p) => Moved /\ UNCHANGED store
  <2> DEFINE k(draft) == [call[p] EXCEPT !.phase = "compare_and_swap", !.draft = draft]
  <2>1. ASSUME NEW draft PROVE DOMAIN k(draft) = DOMAIN call[p] /\ k(draft).command = call[p].command
    BY <1>1 DEF ClientOK
  <2>2. Mutate(p) => \/ \E outcome, revision : Finish(p, outcome, revision)
                     \/ \E draft : call' = [call EXCEPT ![p] = k(draft)]
    BY DEF Mutate
  <2> HIDE DEF k
  <2>3. ASSUME NEW draft, call' = [call EXCEPT ![p] = k(draft)] PROVE Moved
    BY <2>1, <2>3
  <2> HIDE DEF Moved
  <2> QED
    BY <1>2, <2>2, <2>3 DEF Mutate
<1>5. ASSUME NEW phase, Proceed(p, phase) PROVE Moved
  <2> DEFINE k == [call[p] EXCEPT !.phase = phase]
  <2>1. DOMAIN k = DOMAIN call[p] /\ k.command = call[p].command
    BY <1>1 DEF ClientOK
  <2>2. call' = [call EXCEPT ![p] = k]
    BY <1>5 DEF Proceed
  <2> HIDE DEF k
  <2> QED
    BY <2>1, <2>2
<1>6. Reread(p) => Moved /\ UNCHANGED store
  <2> HIDE DEF Moved
  <2> QED
    BY <1>2 DEF Reread
<1>7. CompareAndSwap(p) =>
        /\ Moved
        /\ \/ UNCHANGED store
           \/ \E at : store'.document = ResultOf(store.document, call[p].command, at)
  <2> HIDE DEF Moved
  <2>1. CompareAndSwap(p) =>
          \/ Proceed(p, "reread") /\ UNCHANGED store
          \/ \E outcome, revision : Finish(p, outcome, revision) /\ UNCHANGED store
          \/ /\ ExtendsAudit(store.document, call[p].draft, call[p].command)
             /\ store' = Published(p)
             /\ Finish(p, "applied", store.revision + 1)
    BY DEF CompareAndSwap
  <2>2. ExtendsAudit(store.document, call[p].draft, call[p].command) /\ store' = Published(p)
        => \E at : store'.document = ResultOf(store.document, call[p].command, at)
    BY DEF ExtendsAudit, Published
  <2> QED
    BY <1>2, <1>5, <2>1, <2>2
<1>8. /\ Moved
      /\ \/ UNCHANGED store
         \/ \E at : store'.document = ResultOf(store.document, call[p].command, at)
  <2> HIDE DEF Moved
  <2> QED
    BY <1>3, <1>4, <1>6, <1>7
<1>9. PICK k : /\ call' = [call EXCEPT ![p] = k]
               /\ DOMAIN k = DOMAIN call[p]
               /\ k.command = call[p].command
  BY <1>8
<1>10. /\ DOMAIN call' = DOMAIN call /\ call'[p] = k
       /\ \A q \in Callers : q # p => call'[q] = call[q]
  BY <1>1, <1>9
<1> QED
  BY <1>8, <1>9, <1>10

\* What a command that registers nothing does to a registration.
LEMMA DecisionKeepsRegistration ==
  ASSUME RegistrationOK, NEW c, NEW at, c.version \in Nat,
         \/ WellFormedCommand(c) /\ c.action # "registered"
         \/ c.action \in {"approved", "rejected", "reprocessing_started"},
         store'.document = ResultOf(store.document, c, at), UNCHANGED metadata
  PROVE  RegistrationOK'
<1> DEFINE d == store.document
           e == store'.document
<1>1. VersionsOK(d)
  BY DEF RegistrationOK
<1>2. VersionsOK(e) /\ SameContents(d, e)
  BY <1>1, DecidingKeepsContents
<1>3. /\ metadata \in Seq(Metadata) /\ Len(metadata) = Len(d.versions)
      /\ \A n \in DOMAIN metadata : metadata[n].sha256 = d.versions[n].sha256
  BY DEF RegistrationOK, RegistrationIsWhole
<1> HIDE DEF d, e
<1>4. /\ Len(metadata) = Len(e.versions)
      /\ \A n \in DOMAIN metadata : metadata[n].sha256 = e.versions[n].sha256
  BY <1>2, <1>3 DEF SameContents
<1> QED
  BY <1>2, <1>3, <1>4 DEF RegistrationOK, RegistrationIsWhole, e

LEMMA GovernKeepsInv == ASSUME RegistryInv, NEW p \in Callers, Govern(p) PROVE RegistryInv'
<1> DEFINE r == api[p].request
           c == call[p].command
<1>1. /\ ClientsOK /\ ClientOK(api[p], call[p]) /\ RegistrationOK
      /\ UNCHANGED metadata /\ api[p].phase = "govern"
  BY DEF RegistryInv, ClientsOK, Govern, InPhase
<1>2. r \in Requests /\ r.route \in Decisions /\ c = DecisionCommand(r)
  BY <1>1 DEF ClientOK
<1>3. /\ DOMAIN call' = DOMAIN call
      /\ \A q \in Callers : q # p => call'[q] = call[q]
      /\ DOMAIN call'[p] = DOMAIN call[p]
      /\ call'[p].command = c
      /\ UNCHANGED store \/ \E at : store'.document = ResultOf(store.document, c, at)
  BY <1>1, GovernanceStep DEF Govern
<1>4. c.version \in Nat /\ c.action \in {"approved", "rejected", "reprocessing_started"}
  <2>1. r.number \in Nat
    BY <1>2, RequestsAreTyped
  <2> HIDE DEF c, r
  <2> QED
    BY <1>2, <2>1 DEF DecisionCommand, ActionOf, Decisions
<1>5. RegistrationOK'
  <2> HIDE DEF c
  <2> QED
    BY <1>1, <1>3, <1>4, DecisionKeepsRegistration, RegistrationUnmoved
<1>6. UNCHANGED api \/ \E answer : Answer(p, api[p].read, answer)
  BY DEF Govern
<1>7. CASE UNCHANGED api
  <2>1. ClientOK(api'[p], call'[p])
    BY <1>1, <1>3, <1>7 DEF ClientOK
  <2>2. DOMAIN api' = DOMAIN api /\ \A q \in Callers : q # p => api'[q] = api[q] /\ call'[q] = call[q]
    BY <1>3, <1>7
  <2>3. ClientsOK'
    BY <1>1, <1>3, <2>1, <2>2, OneClientMoves
  <2> QED
    BY <1>5, <2>3 DEF RegistryInv
<1>8. CASE \E answer : Answer(p, api[p].read, answer)
  <2>1. CallFields \subseteq DOMAIN call'[p]
    BY <1>1, <1>3 DEF ClientOK
  <2>2. ClientsOK'
    BY <1>1, <1>3, <1>8, <2>1, AnsweringKeepsClients
  <2> QED
    BY <1>5, <2>2 DEF RegistryInv
<1> QED
  BY <1>6, <1>7, <1>8

LEMMA PipelineKeepsInv == ASSUME RegistryInv, Pipeline PROVE RegistryInv'
<1>1. PICK c \in PipelineCommands, at \in Instants : Execute(c, at)
  BY DEF Pipeline
<1>2. WellFormedCommand(c) /\ c.action # "registered" /\ c.version \in Nat
  BY PipelineDoesNotDecide, CommandsAreWellFormed DEF WellFormedCommand, CommandShapes
<1>3. store'.document = ResultOf(store.document, c, at)
  BY <1>1 DEF Execute
<1>4. RegistrationOK /\ UNCHANGED <<call, metadata, api>>
  BY DEF Pipeline, RegistryInv
<1>5. RegistrationOK'
  BY <1>2, <1>3, <1>4, DecisionKeepsRegistration
<1>6. ClientsOK'
  BY <1>4 DEF RegistryInv, ClientsOK
<1> QED
  BY <1>5, <1>6 DEF RegistryInv

LEMMA RegistryStartsWhole == RegistryInit => RegistryInv
<1> SUFFICES ASSUME RegistryInit PROVE RegistryInv
  OBVIOUS
<1> DEFINE d == store.document
           size == CHOOSE size \in Sizes : TRUE
<1>1. d \in Documents
  BY SeedsAreConsistent DEF RegistryInit, Init, AtomicInit, Snapshots
<1>2. VersionsOK(d)
  BY <1>1 DEF VersionsOK, Documents
<1>3. size \in Sizes
  BY RequestsAreWellFormed
<1>4. metadata = [n \in DOMAIN d.versions |-> [sha256 |-> d.versions[n].sha256, size |-> size]]
  BY DEF RegistryInit
<1> HIDE DEF d, size
<1>5. \A v \in Versions : [sha256 |-> v.sha256, size |-> size] \in Metadata
  BY <1>3 DEF Versions, Metadata
<1>6. /\ metadata \in Seq(Metadata) /\ Len(metadata) = Len(d.versions)
      /\ \A n \in DOMAIN metadata : metadata[n].sha256 = d.versions[n].sha256
  <2> DEFINE vs == d.versions
             row(v) == [sha256 |-> v.sha256, size |-> size]
  <2>1. vs \in Seq(Versions)
    BY <1>2 DEF VersionsOK
  <2>2. \A v \in Versions : row(v) \in Metadata /\ row(v).sha256 = v.sha256
    BY <1>5
  <2>3. metadata = [n \in DOMAIN vs |-> row(vs[n])]
    BY <1>4
  <2> HIDE DEF vs, row
  <2>4. \A n \in DOMAIN vs : vs[n] \in Versions
    BY <2>1
  <2>5. metadata = [n \in 1..Len(vs) |-> row(vs[n])]
    BY <2>1, <2>3
  <2>6. metadata \in Seq(Metadata) /\ Len(metadata) = Len(vs)
    BY <2>1, <2>2, <2>4, <2>5
  <2>7. \A n \in DOMAIN metadata : metadata[n].sha256 = vs[n].sha256
    BY <2>2, <2>3, <2>4
  <2> QED
    BY <2>6, <2>7 DEF vs
<1>7. RegistrationOK
  BY <1>2, <1>6 DEF RegistrationOK, RegistrationIsWhole, d
<1>8. ClientOK(IdleApi, IdleCall)
  BY RequestsAreWellFormed DEF ClientOK, CallFields, IdleApi, IdleCall
<1>9. ClientsOK
  BY <1>8 DEF ClientsOK, RegistryInit, Init
<1> QED
  BY <1>7, <1>9 DEF RegistryInv

LEMMA RegistryNextKeepsInv == RegistryInv /\ [RegistryNext]_registryVars => RegistryInv'
<1> SUFFICES ASSUME RegistryInv, [RegistryNext]_registryVars PROVE RegistryInv'
  OBVIOUS
<1>1. CASE UNCHANGED registryVars
  <2>1. UNCHANGED <<store, metadata, api, call>>
    BY <1>1 DEF registryVars
  <2>2. ClientsOK'
    BY <2>1 DEF RegistryInv, ClientsOK
  <2> QED
    BY <2>1, <2>2, RegistrationUnmoved DEF RegistryInv
<1>2. CASE Pipeline
  BY <1>2, PipelineKeepsInv
<1>3. ASSUME NEW p \in Callers, Issue(p) \/ Handle(p) PROVE RegistryInv'
  BY <1>3, IssueKeepsInv, LookupKeepsInv, SwapRegistrationKeepsInv, RereadRegistrationKeepsInv,
     LocateKeepsInv, GovernKeepsInv, RespondKeepsInv DEF Handle
<1> QED
  BY <1>1, <1>2, <1>3 DEF RegistryNext

(* GovernedDocumentLifecycleService, by any number of clients at once, and *)
(* the pipeline behind it keep one metadata row per version of a document, *)
(* each for the content of its version: DocumentRegistration is never      *)
(* built from parts that do not fit. *)
THEOREM RegistrationIsAlwaysWhole == RegistrySpec => []RegistrationIsWhole
<1>1. RegistryInv => RegistrationIsWhole
  BY DEF RegistryInv, RegistrationOK
<1> QED
  BY <1>1, RegistryStartsWhole, RegistryNextKeepsInv, PTL DEF RegistrySpec

-----------------------------------------------------------------------------
(* Repeating a request is harmless.  What an answer says of the store stays  *)
(* true because the store only executes commands and metadata only grows;    *)
(* that a retry is recognised rests on what its client read: a snapshot that *)
(* was stored, whose last command shows in it.  Values are passed as         *)
(* parameters: a client "x", its call "k", the store "s", the metadata "m".  *)

ReadOf(x) == [document |-> x.read.document, revision |-> x.read.revision]

WasRead(x, s) ==
  LET v == ReadOf(x)
  IN  /\ Trusted(v)
      /\ v.revision <= s.revision
      /\ v.revision = s.revision => v = s

ReadIsWhole(x) ==
  LET vs == x.read.document.versions
  IN  /\ Len(x.read.metadata) = Len(vs)
      /\ \A n \in DOMAIN vs : x.read.metadata[n].sha256 = vs[n].sha256

Row(r) == [sha256 |-> r.sha256, size |-> r.size]
NamesVersion(r, m) == r.number \in DOMAIN m /\ m[r.number].sha256 = r.sha256

IsRetry(x) ==
  /\ x.read.document # NoDocument
  /\ Located(x.read, x.request)
  /\ MatchesLatestCommand(x.read.document, DecisionCommand(x.request))

GoverningOK(x, k, s, m) ==
  /\ WasRead(x, s)
  /\ ReadIsWhole(x)
  /\ NamesVersion(x.request, m)
  /\ k.expected = ExpectedRevision(x.read, x.request)
  /\ k.phase = "mutate" => Trusted(k.base)
  /\ k.phase = "compare_and_swap" => k.draft \in Documents
  /\ k.phase \in {"mutate", "compare_and_swap", "reread"} => x.read.revision <= k.expected

AnsweredOK(x, k, s, m) ==
  LET r == x.request
      n == x.answer.version
  IN  /\ r.route = "register" /\ x.answer.error = None => n \in DOMAIN m /\ m[n] = Row(r)
      /\ r.route \in Decisions /\ x.answer.error = None =>
           NamesVersion(r, m) /\ RecordedAt(s.document, x.answer.revision, DecisionCommand(r))
      /\ r.route \in Decisions /\ IsRetry(x) =>
           /\ WasRead(x, s)
           /\ k.outcome # "applied"
           /\ x.answer.error # None => x.read.revision < s.revision

ClientHolds(x, k, s, m) ==
  /\ x.phase \in {"lookup", "register", "reread"} => x.request.route = "register"
  /\ x.phase = "register" => x.draft.document \in Documents
  /\ x.phase = "govern" => GoverningOK(x, k, s, m)
  /\ x.phase = "answered" => AnsweredOK(x, k, s, m)

HarmlessInv ==
  /\ RegistryInv
  /\ Trusted(store)
  /\ \A p \in Callers : ClientHolds(api[p], call[p], store, metadata)

(* How the store and the metadata may change under a client's feet.         *)
Moves(s, t) == t = s \/ \E c, at : Executes(s, t, c, at)
Grows(m, n) == /\ m \in Seq(Metadata) /\ n \in Seq(Metadata) /\ Len(m) <= Len(n)
               /\ \A i \in 1..Len(m) : n[i] = m[i]

-----------------------------------------------------------------------------

LEMMA MovesOnlyForward ==
  ASSUME NEW s, NEW t, Trusted(s), Moves(s, t)
  PROVE  /\ Trusted(t)
         /\ s.revision \in Nat /\ t.revision \in Nat /\ s.revision <= t.revision
         /\ t.revision = s.revision => t = s
         /\ \A c, k : RecordedAt(s.document, k, c) => RecordedAt(t.document, k, c)
<1>1. s.revision \in Nat
  BY DEF Trusted, Snapshots
<1>2. CASE t = s
  BY <1>1, <1>2
<1>3. ASSUME NEW c, NEW at, Executes(s, t, c, at)
      PROVE  /\ Trusted(t) /\ t.revision = s.revision + 1
             /\ \A b, k : RecordedAt(s.document, k, b) => RecordedAt(t.document, k, b)
  BY <1>3, ExecutionKeepsTrust, RecordsStay
<1> QED BY <1>1, <1>2, <1>3 DEF Moves

LEMMA WasReadStays ==
  ASSUME NEW s, NEW t, Trusted(s), Moves(s, t), NEW x, WasRead(x, s)
  PROVE  WasRead(x, t) /\ x.read.revision \in Nat
<1>1. /\ s.revision \in Nat /\ t.revision \in Nat /\ s.revision <= t.revision
      /\ t.revision = s.revision => t = s
  BY MovesOnlyForward
<1>2. ReadOf(x).revision \in Nat /\ ReadOf(x).revision = x.read.revision
  BY DEF WasRead, Trusted, Snapshots, ReadOf
<1> QED BY <1>1, <1>2 DEF WasRead

LEMMA ClientsOfOthersHold ==
  ASSUME NEW s, NEW t, NEW m, NEW n, Trusted(s), Moves(s, t), Grows(m, n),
         NEW x, NEW k, ClientHolds(x, k, s, m)
  PROVE  ClientHolds(x, k, t, n)
<1>1. /\ s.revision \in Nat /\ t.revision \in Nat /\ s.revision <= t.revision
      /\ t.revision = s.revision => t = s
      /\ \A c, j : RecordedAt(s.document, j, c) => RecordedAt(t.document, j, c)
  BY MovesOnlyForward
<1>2. WasRead(x, s) => WasRead(x, t) /\ x.read.revision \in Nat
  BY WasReadStays
<1>3. \A i \in DOMAIN m : i \in DOMAIN n /\ n[i] = m[i]
  BY DEF Grows
<1>4. GoverningOK(x, k, s, m) => GoverningOK(x, k, t, n)
  BY <1>2, <1>3 DEF GoverningOK, NamesVersion
<1>5. AnsweredOK(x, k, s, m) => AnsweredOK(x, k, t, n)
  <2> SUFFICES ASSUME AnsweredOK(x, k, s, m) PROVE AnsweredOK(x, k, t, n)
    OBVIOUS
  <2> DEFINE r == x.request
             i == x.answer.version
  <2>1. r.route = "register" /\ x.answer.error = None => i \in DOMAIN n /\ n[i] = Row(r)
    BY <1>3 DEF AnsweredOK
  <2>2. r.route \in Decisions /\ x.answer.error = None =>
          NamesVersion(r, n) /\ RecordedAt(t.document, x.answer.revision, DecisionCommand(r))
    BY <1>1, <1>3 DEF AnsweredOK, NamesVersion
  <2>3. r.route \in Decisions /\ IsRetry(x) =>
          /\ WasRead(x, t)
          /\ k.outcome # "applied"
          /\ x.answer.error # None => x.read.revision < t.revision
    BY <1>1, <1>2 DEF AnsweredOK
  <2> QED BY <2>1, <2>2, <2>3 DEF AnsweredOK
<1> QED BY <1>4, <1>5 DEF ClientHolds

LEMMA OneClientHolds ==
  ASSUME HarmlessInv, RegistryInv', NEW p \in Callers,
         Moves(store, store'), Grows(metadata, metadata'),
         \A q \in Callers : q # p => api'[q] = api[q] /\ call'[q] = call[q],
         ClientHolds(api'[p], call'[p], store', metadata')
  PROVE  HarmlessInv'
<1>1. Trusted(store)'
  BY MovesOnlyForward DEF HarmlessInv
<1>2. ASSUME NEW q \in Callers PROVE ClientHolds(api'[q], call'[q], store', metadata')
  <2>1. CASE q # p
    <3>1. ClientHolds(api[q], call[q], store', metadata')
      BY ClientsOfOthersHold DEF HarmlessInv
    <3> QED BY <2>1, <3>1
  <2> QED BY <2>1
<1> QED BY <1>1, <1>2 DEF HarmlessInv

LEMMA NothingMoves ==
  ASSUME RegistryInv, UNCHANGED <<store, metadata>>
  PROVE  Moves(store, store') /\ Grows(metadata, metadata')
BY DEF Moves, Grows, RegistryInv, RegistrationOK

(* What both kinds of swap publish is what their command makes of the       *)
(* stored document. *)
LEMMA PublishingExecutes ==
  ASSUME Trusted(store), NEW c, WellFormedCommand(c), NEW d \in Documents,
         ExtendsAudit(store.document, d, c),
         store' = [document |-> d, revision |-> store.revision + 1]
  PROVE  \E at : Executes(store, store', c, at)
<1> DEFINE b == store.document
           at == d.history[Len(d.history)].at
<1>1. b \in Documents /\ Len(b.history) \in Nat /\ d.history \in Seq(Events)
  BY DEF Trusted, Snapshots, Documents
<1>2. Len(b.history) < Len(d.history) /\ ErrorOf(b, c, at) = None /\ ResultOf(b, c, at) = d
  BY DEF ExtendsAudit
<1>3. d.history[Len(d.history)] \in Events
  BY <1>1, <1>2
<1>4. at \in Nat
  BY <1>3 DEF Events
<1>5. d # b
  BY <1>1, <1>2
<1>6. c.action # "registered" => b # NoDocument
  BY <1>2, OnlyRegistrationsBegin
<1> HIDE DEF at
<1>7. Executes(store, store', c, at)
  BY <1>2, <1>4, <1>5, <1>6 DEF Executes
<1> QED BY <1>7

LEMMA AnsweredClient ==
  ASSUME ClientsOK, NEW p \in Callers, NEW read, NEW answer, Answer(p, read, answer)
  PROVE  /\ api'[p].phase = "answered" /\ api'[p].request = api[p].request
         /\ api'[p].read = read /\ api'[p].answer = answer
         /\ \A q \in Callers : q # p => api'[q] = api[q]
<1> DEFINE a == [api[p] EXCEPT !.phase = "answered", !.read = read,
                               !.draft = NothingRegistered, !.answer = answer]
<1>1. {"phase", "request", "read", "draft", "answer"} \subseteq DOMAIN api[p]
      /\ DOMAIN api = Callers
  BY DEF ClientsOK, ClientOK
<1>2. /\ a.phase = "answered" /\ a.request = api[p].request
      /\ a.read = read /\ a.answer = answer
  BY <1>1
<1>3. api' = [api EXCEPT ![p] = a]
  BY DEF Answer
<1> HIDE DEF a
<1> QED BY <1>1, <1>2, <1>3

LEMMA FinishedClientCall ==
  ASSUME ClientsOK, NEW p \in Callers, NEW o, NEW n, Finish(p, o, n)
  PROVE  /\ call'[p].phase = "done" /\ call'[p].outcome = o
         /\ \A q \in Callers : q # p => call'[q] = call[q]
<1> DEFINE k == [call[p] EXCEPT !.phase = "done", !.outcome = o, !.answer = n,
                                !.base = NothingStored, !.draft = NoDocument]
<1>1. CallFields \subseteq DOMAIN call[p] /\ DOMAIN call = Callers
  BY DEF ClientsOK, ClientOK
<1>2. k.phase = "done" /\ k.outcome = o
  BY <1>1 DEF CallFields
<1>3. call' = [call EXCEPT ![p] = k]
  BY DEF Finish
<1> HIDE DEF k
<1> QED BY <1>1, <1>2, <1>3

-----------------------------------------------------------------------------
(* Registrations.                                                           *)

LEMMA RefusalsAreErrors ==
  /\ \A e : Refusal(e).error = e
  /\ \A o \in DOMAIN MappedErrors : MappedErrors[o] # None
  /\ \A n, j : Receipt(n, j).error = None /\ Receipt(n, j).version = n
BY DEF Refusal, NoAnswer, MappedErrors, Receipt, None

LEMMA ReceiptsAreTrue ==
  ASSUME RegistrationOK, NEW r \in Requests, SameContent(store.document, r) # {},
         Replayed(Stored, r).error = None
  PROVE  LET n == Replayed(Stored, r).version IN n \in DOMAIN metadata /\ metadata[n] = Row(r)
<1> DEFINE n == CHOOSE m \in SameContent(store.document, r) : TRUE
           vs == store.document.versions
<1>1. n \in SameContent(store.document, r)
  OBVIOUS
<1>2. n \in DOMAIN vs /\ vs[n].sha256 = r.sha256
  BY <1>1 DEF SameContent
<1>3. /\ vs \in Seq(Versions) /\ metadata \in Seq(Metadata) /\ Len(metadata) = Len(vs)
      /\ \A m \in DOMAIN metadata : metadata[m].sha256 = vs[m].sha256
  BY DEF RegistrationOK, RegistrationIsWhole, VersionsOK
<1>4. Stored.document = store.document /\ Stored.metadata = metadata
  BY DEF Stored
<1> HIDE DEF n, vs
<1>5. n \in DOMAIN metadata /\ metadata[n] \in Metadata /\ metadata[n].sha256 = r.sha256
  BY <1>2, <1>3
<1>6. Replayed(Stored, r) = IF SameMetadata(Stored, n, r) THEN Receipt(n, Stored.revision)
                            ELSE Refusal(RegistrationError("content_conflict"))
  BY <1>4 DEF Replayed, n
<1>7. RegistrationError("content_conflict") # None
  BY DEF RegistrationError, MappedErrors, None
<1>8. SameMetadata(Stored, n, r) /\ Replayed(Stored, r) = Receipt(n, Stored.revision)
  BY <1>6, <1>7, RefusalsAreErrors
<1>9. metadata[n] = Row(r)
  BY <1>4, <1>5, <1>8 DEF SameMetadata, Metadata, Row
<1> QED BY <1>5, <1>8, <1>9, RefusalsAreErrors

LEMMA RegistrationAnswersHold ==
  ASSUME HarmlessInv, RegistryInv', NEW p \in Callers, NEW read, NEW answer,
         Answer(p, read, answer), api[p].request.route = "register", UNCHANGED call,
         Moves(store, store'), Grows(metadata, metadata'),
         answer.error = None =>
           answer.version \in DOMAIN metadata' /\ metadata'[answer.version] = Row(api[p].request)
  PROVE  HarmlessInv'
<1>1. /\ api'[p].phase = "answered" /\ api'[p].request = api[p].request
      /\ api'[p].answer = answer
      /\ \A q \in Callers : q # p => api'[q] = api[q]
  BY AnsweredClient DEF HarmlessInv, RegistryInv
<1>2. api'[p].request.route = "register" /\ api'[p].request.route \notin Decisions
  BY <1>1 DEF Decisions
<1>3. ClientHolds(api'[p], call'[p], store', metadata')
  BY <1>1, <1>2 DEF ClientHolds, AnsweredOK
<1> QED BY <1>1, <1>3, OneClientHolds

LEMMA RegisterCommandIsWellFormed ==
  ASSUME NEW r \in Requests, NEW g, Len(g.metadata) \in Nat
  PROVE  /\ WellFormedCommand(RegisterCommand(g, r))
         /\ RegisterCommand(g, r).action = "registered"
         /\ RegisterCommand(g, r).version = Len(g.metadata) + 1
<1>1. r.sha256 \in Hashes /\ r.sha256 # None
  BY RequestsAreTyped, NoneIsNotData
<1> QED BY <1>1, RequestsAreWellFormed
        DEF WellFormedCommand, CommandShapes, RegisterCommand, Actions, None

LEMMA LookupIsHarmless == ASSUME HarmlessInv, NEW p \in Callers, Lookup(p) PROVE HarmlessInv'
<1> DEFINE r == api[p].request
           d == store.document
           c == RegisterCommand(Stored, r)
<1>1. /\ RegistryInv /\ RegistryInv' /\ UNCHANGED <<store, metadata, call>>
      /\ Moves(store, store') /\ Grows(metadata, metadata')
  BY LookupKeepsInv, NothingMoves DEF HarmlessInv, Lookup
<1>2. /\ ClientHolds(api[p], call[p], store, metadata) /\ api[p].phase = "lookup"
      /\ r.route = "register" /\ r \in Requests /\ RegistrationOK
      /\ {"phase", "request", "read", "draft", "answer"} \subseteq DOMAIN api[p]
      /\ DOMAIN api = Callers
  BY <1>1 DEF HarmlessInv, ClientHolds, Lookup, InPhase, RegistryInv, ClientsOK, ClientOK
<1>3. CASE SameContent(d, r) # {} /\ Answer(p, Stored, Replayed(Stored, r))
  BY <1>1, <1>2, <1>3, ReceiptsAreTrue, RegistrationAnswersHold
<1>4. ASSUME NEW at \in Instants, RegisterError(d, c, at) # None,
             Answer(p, Stored, Refusal(RegistrationError(RegisterError(d, c, at))))
      PROVE  HarmlessInv'
  <2>1. RegistrationError(RegisterError(d, c, at)) # None
    BY <1>4 DEF RegisterError, RegistrationError, MappedErrors, None
  <2>2. Refusal(RegistrationError(RegisterError(d, c, at))).error # None
    BY <2>1, RefusalsAreErrors
  <2> QED BY <1>1, <1>2, <1>4, <2>2, RegistrationAnswersHold
<1>5. ASSUME NEW at \in Instants, RegisterError(d, c, at) = None,
             NEW g, api' = [api EXCEPT ![p] = [api[p] EXCEPT !.phase = "register",
                                                              !.read = Stored, !.draft = g]],
             g.document = Registered(d, c, at)
      PROVE  HarmlessInv'
  <2> DEFINE x == [api[p] EXCEPT !.phase = "register", !.read = Stored, !.draft = g]
  <2>1. x.phase = "register" /\ x.request = r /\ x.draft = g
    BY <1>2
  <2>2. api' = [api EXCEPT ![p] = x]
    BY <1>5
  <2> HIDE DEF x
  <2>3. api'[p] = x /\ \A q \in Callers : q # p => api'[q] = api[q]
    BY <1>2, <2>2
  <2>4. Registered(d, c, at) \in Documents
    <3>1. Len(Stored.metadata) \in Nat
      BY <1>2 DEF Stored, RegistrationOK
    <3>2. WellFormedCommand(c) /\ c.action = "registered" /\ at \in Nat
      BY <1>2, <3>1, RegisterCommandIsWellFormed, InstantsAreNaturals
    <3>3. d \in Documents /\ ConsistentDocument(d)
      BY DEF HarmlessInv, Trusted, Snapshots
    <3> HIDE DEF c, d
    <3>4. ErrorOf(d, c, at) = None /\ ResultOf(d, c, at) = Registered(d, c, at)
      BY <1>5, <3>2 DEF ErrorOf, ResultOf
    <3> QED BY <3>2, <3>3, <3>4, CommandsKeepConsistency
  <2>5. ClientHolds(api'[p], call'[p], store', metadata')
    BY <1>2, <1>5, <2>1, <2>3, <2>4 DEF ClientHolds
  <2> QED BY <1>1, <2>3, <2>5, OneClientHolds
<1>6. SameContent(d, r) = {} => \E at \in Instants :
        \/ /\ RegisterError(d, c, at) # None
           /\ Answer(p, Stored, Refusal(RegistrationError(RegisterError(d, c, at))))
        \/ /\ RegisterError(d, c, at) = None
           /\ \E g : /\ api' = [api EXCEPT ![p] = [api[p] EXCEPT !.phase = "register",
                                                              !.read = Stored, !.draft = g]]
                     /\ g.document = Registered(d, c, at)
  <2> DEFINE g(at) == [document |-> Registered(d, c, at),
                       metadata |-> Append(metadata, [sha256 |-> r.sha256, size |-> r.size]),
                       revision |-> store.revision]
  <2>1. \A at : g(at).document = Registered(d, c, at)
    OBVIOUS
  <2>2. SameContent(d, r) = {} => \E at \in Instants :
          IF RegisterError(d, c, at) # None
          THEN Answer(p, Stored, Refusal(RegistrationError(RegisterError(d, c, at))))
          ELSE api' = [api EXCEPT ![p] = [api[p] EXCEPT !.phase = "register",
                                                          !.read = Stored, !.draft = g(at)]]
    BY DEF Lookup
  <2> HIDE DEF g, c, d
  <2> QED BY <2>1, <2>2
<1>7. SameContent(d, r) # {} => Answer(p, Stored, Replayed(Stored, r))
  BY DEF Lookup
<1> QED BY <1>3, <1>4, <1>5, <1>6, <1>7

LEMMA RereadRegistrationIsHarmless ==
  ASSUME HarmlessInv, NEW p \in Callers, RereadRegistration(p) PROVE HarmlessInv'
<1> DEFINE r == api[p].request
<1>1. /\ RegistryInv /\ RegistryInv' /\ UNCHANGED <<store, metadata, call>>
      /\ Moves(store, store') /\ Grows(metadata, metadata')
  BY RereadRegistrationKeepsInv, NothingMoves DEF HarmlessInv, RereadRegistration
<1>2. r.route = "register" /\ r \in Requests /\ RegistrationOK
  BY <1>1 DEF HarmlessInv, ClientHolds, RereadRegistration, InPhase, RegistryInv, ClientsOK,
              ClientOK
<1>3. CASE SameContent(store.document, r) # {} /\ Answer(p, api[p].read, Replayed(Stored, r))
  BY <1>1, <1>2, <1>3, ReceiptsAreTrue, RegistrationAnswersHold
<1>4. CASE Answer(p, api[p].read, Refusal(RegistrationError("concurrency")))
  <2>1. Refusal(RegistrationError("concurrency")).error # None
    BY RefusalsAreErrors DEF RegistrationError, MappedErrors, None
  <2> QED BY <1>1, <1>2, <1>4, <2>1, RegistrationAnswersHold
<1> QED BY <1>3, <1>4 DEF RereadRegistration

LEMMA SwapRegistrationIsHarmless ==
  ASSUME HarmlessInv, NEW p \in Callers, CompareAndSwapRegistration(p) PROVE HarmlessInv'
<1> DEFINE x == api[p]
           draft == x.draft
           r == x.request
           c == RegisterCommand(x.read, r)
<1>1. /\ RegistryInv /\ RegistryInv' /\ UNCHANGED call /\ Trusted(store)
      /\ ClientsOK /\ RegistrationOK
  BY SwapRegistrationKeepsInv DEF HarmlessInv, CompareAndSwapRegistration, RegistryInv
<1>2. /\ r.route = "register" /\ r \in Requests /\ draft.document \in Documents
      /\ DraftFollows(x)
      /\ {"phase", "request", "read", "draft", "answer"} \subseteq DOMAIN api[p]
      /\ DOMAIN api = Callers
  BY <1>1 DEF HarmlessInv, ClientHolds, CompareAndSwapRegistration, InPhase, ClientsOK, ClientOK
<1>3. ASSUME NEW e \in {"audit_conflict", "integrity"}, UNCHANGED <<store, metadata>>,
             Answer(p, x.read, Refusal(RegistrationError(e)))
      PROVE  HarmlessInv'
  <2>1. Refusal(RegistrationError(e)).error # None
    BY RefusalsAreErrors DEF RegistrationError, MappedErrors, None
  <2> QED BY <1>1, <1>2, <1>3, <2>1, NothingMoves, RegistrationAnswersHold
<1>4. CASE /\ UNCHANGED <<store, metadata>>
           /\ api' = [api EXCEPT ![p].phase = "reread", ![p].draft = NothingRegistered]
  <2>1. /\ api'[p].phase = "reread" /\ api'[p].request = r
        /\ \A q \in Callers : q # p => api'[q] = api[q]
    BY <1>2, <1>4
  <2>2. ClientHolds(api'[p], call'[p], store', metadata')
    BY <1>2, <2>1 DEF ClientHolds
  <2> QED BY <1>1, <1>4, <2>1, <2>2, NothingMoves, OneClientHolds
<1>5. CASE /\ ExtendsAudit(store.document, draft.document, c)
           /\ AppendsOneVersion(draft.metadata)
           /\ store' = [document |-> draft.document, revision |-> store.revision + 1]
           /\ metadata' = PublishedMetadata(p)
           /\ Answer(p, x.read, Receipt(c.version, store.revision + 1))
  <2>1. Row(r) \in Metadata
    BY <1>2, RequestsAreTyped DEF Row
  <2>2. x.read.metadata \in Seq(Metadata) /\ draft.metadata = Append(x.read.metadata, Row(r))
    BY <1>2 DEF DraftFollows, Row
  <2>3. metadata \in Seq(Metadata)
    BY <1>1 DEF RegistrationOK
  <2>4. x.read.metadata = metadata
    BY <1>5, <2>1, <2>2, <2>3, AppendedToWhatIsStored DEF AppendsOneVersion
  <2>5. metadata' = Append(metadata, Row(r))
    BY <1>5, <2>2, <2>4 DEF PublishedMetadata
  <2>6. /\ Grows(metadata, metadata')
        /\ Len(metadata) + 1 \in DOMAIN metadata' /\ metadata'[Len(metadata) + 1] = Row(r)
    BY <2>1, <2>3, <2>5 DEF Grows
  <2>7. WellFormedCommand(c) /\ c.version = Len(metadata) + 1
    <3>1. Len(x.read.metadata) \in Nat
      BY <2>2
    <3> QED BY <1>2, <2>4, <3>1, RegisterCommandIsWellFormed
  <2> HIDE DEF c
  <2>8. Moves(store, store')
    BY <1>1, <1>2, <1>5, <2>7, PublishingExecutes DEF Moves
  <2>9. Receipt(c.version, store.revision + 1).version = Len(metadata) + 1
    BY <2>7, RefusalsAreErrors
  <2> QED BY <1>1, <1>2, <1>5, <2>6, <2>8, <2>9, RegistrationAnswersHold
<1> QED BY <1>3, <1>4, <1>5 DEF CompareAndSwapRegistration

-----------------------------------------------------------------------------
(* Decisions.                                                               *)

LEMMA DecisionAnswers ==
  ASSUME NEW p, NEW o, o \in {"applied", "replayed"} \cup DOMAIN MappedErrors,
         DecisionAnswer(p, o).error = None
  PROVE  o \in {"applied", "replayed"} /\ DecisionAnswer(p, o).revision = store'.revision
<1> DEFINE r == api[p].request
           shown == Projection(Joined(p), r.number)
<1>1. DecisionAnswer(p, o) = IF o \notin {"applied", "replayed"} THEN Refusal(MappedErrors[o])
                             ELSE IF shown.shown # TargetOf[r.route]
                             THEN Refusal(MappedErrors["integrity"]) ELSE shown
  BY DEF DecisionAnswer
<1>2. "integrity" \in DOMAIN MappedErrors
  BY DEF MappedErrors
<1>3. shown.error = None => shown.revision = store'.revision
  BY <1>2, RefusalsAreErrors DEF Projection, Joined
<1> HIDE DEF shown
<1> QED BY <1>1, <1>2, <1>3, RefusalsAreErrors

(* A retry expects the revision before the one it finds.                    *)
LEMMA RetriesExpectTheirRevision ==
  ASSUME NEW x, NEW s, WasRead(x, s), IsRetry(x), x.request \in Requests,
         x.request.route \in Decisions
  PROVE  LET d == x.read.document
             r == x.request
         IN  /\ x.read.revision \in Nat
             /\ ExpectedRevision(x.read, r) + 1 = x.read.revision
             /\ r.number \in DOMAIN d.versions
             /\ d.versions[r.number].status = TargetOf[r.route]
             /\ d.history[Len(d.history)].version = r.number
             /\ d.history[Len(d.history)].action = ActionOf[r.route]
             /\ Len(d.history) \in DOMAIN d.history
<1> DEFINE d == x.read.document
           r == x.request
           e == d.history[Len(d.history)]
           v == ReadOf(x)
<1>1. /\ Trusted(v) /\ v.document = d /\ v.revision = x.read.revision /\ d # NoDocument
      /\ v.revision \in Nat
  BY DEF WasRead, ReadOf, IsRetry, Trusted, Snapshots
<1>2. e.action = ActionOf[r.route] /\ e.version = r.number
  BY DEF IsRetry, MatchesLatestCommand, EventMatchesCommand, DecisionCommand
<1> HIDE DEF v
<1>3. /\ e.action # "registered" => v.revision > 1
      /\ e.version \in DOMAIN d.versions
      /\ e.action = "approved" => d.versions[e.version].status = "approved"
      /\ e.action = "rejected" => d.versions[e.version].status = "rejected"
      /\ e.action = "reprocessing_started" => d.versions[e.version].status = "processing"
  BY <1>1, LastCommandShows
<1>4. Len(d.history) \in DOMAIN d.history
  BY <1>1, RevisionIsOfLastEvent
<1> HIDE DEF e, d, r
<1>5. d.versions[e.version].status = TargetOf[r.route] /\ v.revision > 1
  BY <1>2, <1>3 DEF ActionOf, TargetOf, Decisions, r
<1>6. ExpectedRevision(x.read, r) = x.read.revision - 1
  BY <1>1, <1>2, <1>5 DEF ExpectedRevision, e, d
<1>7. ExpectedRevision(x.read, r) + 1 = x.read.revision
  BY <1>1, <1>6
<1> QED BY <1>1, <1>2, <1>3, <1>4, <1>5, <1>7 DEF d, e, r

(* And a recognised retry can be shown what it did.                         *)
LEMMA RetriesAreShown ==
  ASSUME NEW p \in Callers, api[p].request \in Requests, api[p].request.route \in Decisions,
         WasRead(api[p], store'), ReadIsWhole(api[p]), IsRetry(api[p]),
         store' = ReadOf(api[p])
  PROVE  DecisionAnswer(p, "replayed").error = None
<1> DEFINE x == api[p]
           r == x.request
           n == r.number
           d == x.read.document
           g == Joined(p)
<1>1. g.document = d /\ g.metadata = x.read.metadata
  BY DEF Joined, ReadOf
<1>2. /\ n \in DOMAIN d.versions /\ d.versions[n].status = TargetOf[r.route]
      /\ d.history[Len(d.history)].version = n
      /\ d.history[Len(d.history)].action = ActionOf[r.route]
      /\ Len(d.history) \in DOMAIN d.history
  BY RetriesExpectTheirRevision
<1>3. /\ Len(x.read.metadata) = Len(d.versions)
      /\ \A m \in DOMAIN d.versions : x.read.metadata[m].sha256 = d.versions[m].sha256
  BY DEF ReadIsWhole
<1>4. \/ r.route = "approve" /\ TargetOf[r.route] = "approved"
      \/ r.route = "reject" /\ TargetOf[r.route] = "rejected" /\ ActionOf[r.route] = "rejected"
      \/ r.route = "reprocess" /\ TargetOf[r.route] = "processing"
  BY DEF Decisions, TargetOf, ActionOf
<1>5. d.versions[n].status \in {"approved", "rejected", "processing"}
  BY <1>2, <1>4
<1>6. d.versions[n].status = "rejected" => WasRecorded(d, n, "rejected")
  BY <1>2, <1>4 DEF WasRecorded
<1> HIDE DEF g, d, r
<1>7. Projectable(g, n)
  BY <1>1, <1>3, <1>5, <1>6 DEF Projectable
<1>8. Projection(g, n).error = None /\ Projection(g, n).shown = TargetOf[r.route]
  BY <1>1, <1>2, <1>7 DEF Projection
<1>9. DecisionAnswer(p, "replayed") = Projection(g, n)
  BY <1>8 DEF DecisionAnswer, g, r
<1> QED BY <1>8, <1>9

(* What is known of a client whose decision the governance service handles. *)
LEMMA GoverningClient ==
  ASSUME HarmlessInv, NEW p \in Callers, api[p].phase = "govern"
  PROVE  LET x == api[p]
             k == call[p]
         IN  /\ ClientsOK /\ RegistrationOK /\ Trusted(store) /\ store.revision \in Nat
             /\ x.request \in Requests /\ x.request.route \in Decisions
             /\ k.command = DecisionCommand(x.request)
             /\ WellFormedCommand(k.command) /\ k.command.action # "registered"
             /\ GoverningOK(x, k, store, metadata)
             /\ x.read.revision \in Nat /\ k.expected \in Nat
             /\ x.read.revision <= store.revision
             /\ IsRetry(x) => k.expected + 1 = x.read.revision
<1> DEFINE x == api[p]
           k == call[p]
           r == x.request
<1>1. /\ ClientsOK /\ RegistrationOK /\ Trusted(store) /\ store.revision \in Nat
      /\ r \in Requests /\ r.route \in Decisions
      /\ k.command = DecisionCommand(r)
      /\ GoverningOK(x, k, store, metadata)
  BY DEF HarmlessInv, RegistryInv, ClientsOK, ClientOK, ClientHolds, Trusted, Snapshots
<1>2. /\ x.read.revision \in Nat /\ WasRead(x, store) /\ x.read.revision <= store.revision
      /\ k.expected = ExpectedRevision(x.read, r)
  BY <1>1 DEF GoverningOK, WasRead, ReadOf, Trusted, Snapshots
<1>3. k.expected \in Nat
  BY <1>2 DEF ExpectedRevision
<1>4. IsRetry(x) => k.expected + 1 = x.read.revision
  BY <1>1, <1>2, RetriesExpectTheirRevision
<1>5. r.number \in Nat \ {0}
  <2>1. metadata \in Seq(Metadata) /\ r.number \in DOMAIN metadata
    BY <1>1 DEF RegistrationOK, GoverningOK, NamesVersion
  <2> QED BY <2>1
<1>6. WellFormedCommand(DecisionCommand(r)) /\ DecisionCommand(r).action # "registered"
  <2>1. /\ r.sha256 \in Hashes /\ r.sha256 # None /\ r.reason \in Reasons \cup {None}
        /\ RegistrationActor \in Actors
    BY <1>1, RequestsAreWellFormed, NoneIsNotData DEF RequestShapes
  <2>2. r.route \in {"approve", "reject"} => r.reason # None
    BY <1>1, DecisionsAreJustified
  <2>3. CASE r.route = "reprocess"
    BY <1>5, <2>1, <2>3 DEF DecisionCommand, WellFormedCommand, CommandShapes, ActionOf, Actions,
                            None
  <2>4. CASE r.route \in {"approve", "reject"}
    BY <1>5, <2>1, <2>2, <2>4 DEF DecisionCommand, WellFormedCommand, CommandShapes, ActionOf,
                                  Actions, None
  <2> QED BY <1>1, <2>3, <2>4 DEF Decisions
<1> QED BY <1>1, <1>2, <1>3, <1>4, <1>6

LEMMA GovernedAnswersHold ==
  ASSUME HarmlessInv, NEW p \in Callers, Govern(p), NEW o, NEW n, Finish(p, o, n),
         Moves(store, store'), o \in {"applied", "replayed"} \cup DOMAIN MappedErrors,
         o \in {"applied", "replayed"} =>
           RecordedAt(store'.document, store'.revision, call[p].command),
         IsRetry(api[p]) =>
           /\ o # "applied"
           /\ DecisionAnswer(p, o).error # None => api[p].read.revision < store'.revision
  PROVE  HarmlessInv'
<1> DEFINE x == api[p]
           r == x.request
           answer == DecisionAnswer(p, o)
<1>1. /\ RegistryInv' /\ UNCHANGED metadata /\ x.phase = "govern"
  BY GovernKeepsInv DEF HarmlessInv, Govern, InPhase
<1>2. /\ ClientsOK /\ RegistrationOK /\ r.route \in Decisions
      /\ call[p].command = DecisionCommand(r)
      /\ GoverningOK(x, call[p], store, metadata)
  BY <1>1, GoverningClient
<1>3. /\ call'[p].phase = "done" /\ call'[p].outcome = o
      /\ \A q \in Callers : q # p => call'[q] = call[q]
  BY <1>2, FinishedClientCall
<1>4. Answer(p, x.read, answer)
  BY <1>3 DEF Govern
<1>5. /\ api'[p].phase = "answered" /\ api'[p].request = r
      /\ api'[p].read = x.read /\ api'[p].answer = answer
      /\ \A q \in Callers : q # p => api'[q] = api[q]
  BY <1>2, <1>4, AnsweredClient
<1>6. Grows(metadata, metadata')
  BY <1>1, <1>2 DEF Grows, RegistrationOK
<1>7. answer.error = None =>
        NamesVersion(r, metadata') /\ RecordedAt(store'.document, answer.revision, DecisionCommand(r))
  <2> SUFFICES ASSUME answer.error = None
               PROVE  /\ NamesVersion(r, metadata')
                      /\ RecordedAt(store'.document, answer.revision, DecisionCommand(r))
    OBVIOUS
  <2>1. o \in {"applied", "replayed"} /\ answer.revision = store'.revision
    BY DecisionAnswers
  <2> HIDE DEF answer
  <2> QED BY <1>1, <1>2, <2>1 DEF GoverningOK
<1>8. WasRead(x, store')
  BY <1>2, MovesOnlyForward, WasReadStays DEF HarmlessInv, GoverningOK
<1>9. IsRetry(api'[p]) => IsRetry(x) /\ WasRead(api'[p], store')
  BY <1>5, <1>8 DEF IsRetry, WasRead, ReadOf
<1>10. r.route # "register"
  BY <1>2 DEF Decisions
<1> HIDE DEF answer
<1>11. AnsweredOK(api'[p], call'[p], store', metadata')
  BY <1>3, <1>5, <1>7, <1>9, <1>10 DEF AnsweredOK, answer
<1>12. ClientHolds(api'[p], call'[p], store', metadata')
  BY <1>5, <1>11 DEF ClientHolds
<1> QED BY <1>1, <1>3, <1>5, <1>6, <1>12, OneClientHolds

LEMMA GovernedCallGoesOn ==
  ASSUME HarmlessInv, NEW p \in Callers, Govern(p), UNCHANGED store,
         NEW k, call' = [call EXCEPT ![p] = k],
         k.phase # "done", k.expected = call[p].expected,
         k.phase = "mutate" => Trusted(k.base),
         k.phase = "compare_and_swap" => k.draft \in Documents,
         k.phase \in {"mutate", "compare_and_swap", "reread"} =>
           api[p].read.revision <= k.expected
  PROVE  HarmlessInv'
<1>1. /\ RegistryInv /\ RegistryInv' /\ UNCHANGED metadata /\ api[p].phase = "govern"
  BY GovernKeepsInv DEF HarmlessInv, Govern, InPhase
<1>2. ClientsOK /\ GoverningOK(api[p], call[p], store, metadata)
  BY <1>1, GoverningClient
<1>3. call'[p] = k /\ \A q \in Callers : q # p => call'[q] = call[q]
  BY <1>2 DEF ClientsOK
<1>4. UNCHANGED api
  BY <1>3 DEF Govern
<1>5. GoverningOK(api[p], k, store, metadata)
  BY <1>2 DEF GoverningOK
<1>6. ClientHolds(api'[p], call'[p], store', metadata')
  BY <1>1, <1>3, <1>4, <1>5 DEF ClientHolds
<1> QED BY <1>1, <1>3, <1>4, <1>6, NothingMoves, OneClientHolds

LEMMA GovernedGetIsHarmless ==
  ASSUME HarmlessInv, NEW p \in Callers, Govern(p), Get(p) PROVE HarmlessInv'
<1> DEFINE x == api[p]
           c == call[p].command
           e == call[p].expected
<1>1. UNCHANGED store /\ x.phase = "govern" /\ Moves(store, store')
  BY DEF Govern, Get, InPhase, Moves
<1>2. /\ ClientsOK /\ Trusted(store) /\ store.revision \in Nat
      /\ x.request \in Requests /\ x.request.route \in Decisions
      /\ WellFormedCommand(c) /\ c.action # "registered" /\ c = DecisionCommand(x.request)
      /\ WasRead(x, store) /\ ReadIsWhole(x)
      /\ x.read.revision \in Nat /\ e \in Nat /\ x.read.revision <= store.revision
      /\ IsRetry(x) => e + 1 = x.read.revision
  BY <1>1, GoverningClient DEF GoverningOK
<1>3. IsRetry(x) /\ ~(x.read.revision < store.revision) =>
        store = ReadOf(x) /\ store.document # NoDocument /\ AlreadyExecuted(store, c, e)
  <2> SUFFICES ASSUME IsRetry(x), ~(x.read.revision < store.revision)
               PROVE  store = ReadOf(x) /\ store.document # NoDocument
                      /\ AlreadyExecuted(store, c, e)
    OBVIOUS
  <2>1. store = ReadOf(x)
    BY <1>2 DEF WasRead, ReadOf
  <2>2. store.document = x.read.document /\ store.revision = e + 1
    BY <1>2, <2>1 DEF ReadOf
  <2> HIDE DEF c, e
  <2> QED BY <1>2, <2>1, <2>2 DEF IsRetry, AlreadyExecuted
<1>4. CASE store.document = NoDocument /\ Finish(p, "not_found", 0)
  BY <1>1, <1>3, <1>4, GovernedAnswersHold DEF MappedErrors
<1>5. CASE AlreadyExecuted(store, c, e) /\ Finish(p, "replayed", store.revision)
  <2>1. RecordedAt(store.document, store.revision, c)
    <3>1. store.revision = e + 1
      BY <1>2, <1>5 DEF AlreadyExecuted
    <3> QED BY <1>2, <1>5, <3>1, ReplayIsRecorded
  <2>2. IsRetry(x) /\ DecisionAnswer(p, "replayed").error # None
          => x.read.revision < store'.revision
    BY <1>1, <1>2, <1>3, RetriesAreShown
  <2> QED BY <1>1, <1>5, <2>1, <2>2, GovernedAnswersHold
<1>6. CASE ~AlreadyExecuted(store, c, e) /\ Finish(p, "concurrency", 0)
  BY <1>1, <1>3, <1>6, GovernedAnswersHold DEF MappedErrors
<1>7. CASE /\ store.revision = e
           /\ call' = [call EXCEPT ![p] = [call[p] EXCEPT !.phase = "mutate", !.base = store]]
  <2> DEFINE k == [call[p] EXCEPT !.phase = "mutate", !.base = store]
  <2>1. CallFields \subseteq DOMAIN call[p]
    BY <1>2 DEF ClientsOK, ClientOK
  <2>2. k.phase = "mutate" /\ k.base = store /\ k.expected = e
    BY <2>1 DEF CallFields
  <2>3. call' = [call EXCEPT ![p] = k]
    BY <1>7
  <2> HIDE DEF k
  <2> QED BY <1>1, <1>2, <1>7, <2>2, <2>3, GovernedCallGoesOn
<1> QED BY <1>4, <1>5, <1>6, <1>7 DEF Get

LEMMA GovernedMutateIsHarmless ==
  ASSUME HarmlessInv, NEW p \in Callers, Govern(p), Mutate(p) PROVE HarmlessInv'
<1> DEFINE x == api[p]
           c == call[p].command
           e == call[p].expected
           d == call[p].base.document
<1>1. /\ UNCHANGED store /\ x.phase = "govern" /\ Moves(store, store')
      /\ call[p].phase = "mutate"
  BY DEF Govern, Mutate, At, InPhase, Moves
<1>2. /\ ClientsOK /\ WellFormedCommand(c) /\ c.action # "registered"
      /\ Trusted(call[p].base) /\ x.read.revision <= e
      /\ x.read.revision \in Nat /\ e \in Nat
      /\ IsRetry(x) => e + 1 = x.read.revision
  BY <1>1, GoverningClient DEF GoverningOK
<1>3. ~IsRetry(x)
  BY <1>2
<1>4. ASSUME NEW at \in Instants, ErrorOf(d, c, at) # None, Finish(p, ErrorOf(d, c, at), 0)
      PROVE  HarmlessInv'
  <2> DEFINE o == ErrorOf(d, c, at)
  <2>1. o \in Outcomes \ {"applied", "replayed", "concurrency"}
    BY <1>2, <1>4, ErrorIsOutcome
  <2>2. Finish(p, o, 0)
    BY <1>4
  <2> HIDE DEF o
  <2>3. o \in DOMAIN MappedErrors /\ o \notin {"applied", "replayed"}
    BY <2>1 DEF Outcomes, MappedErrors
  <2> QED BY <1>1, <1>3, <2>2, <2>3, GovernedAnswersHold
<1>5. ASSUME NEW at \in Instants, ErrorOf(d, c, at) = None,
             call' = [call EXCEPT ![p] = [call[p] EXCEPT !.phase = "compare_and_swap",
                                                         !.draft = ResultOf(d, c, at)]]
      PROVE  HarmlessInv'
  <2> DEFINE f == ResultOf(d, c, at)
             k == [call[p] EXCEPT !.phase = "compare_and_swap", !.draft = f]
  <2>1. f \in Documents
    <3>1. d \in Documents /\ ConsistentDocument(d) /\ at \in Nat
      BY <1>2, InstantsAreNaturals DEF Trusted, Snapshots
    <3>2. d # NoDocument
      BY <1>2, <1>5, OnlyRegistrationsBegin
    <3> QED BY <1>2, <1>5, <3>1, <3>2, CommandsKeepConsistency
  <2> HIDE DEF f
  <2>2. CallFields \subseteq DOMAIN call[p]
    BY <1>2 DEF ClientsOK, ClientOK
  <2>3. k.phase = "compare_and_swap" /\ k.draft = f /\ k.expected = e
    BY <2>2 DEF CallFields
  <2>4. call' = [call EXCEPT ![p] = k]
    BY <1>5 DEF f
  <2> HIDE DEF k
  <2> QED BY <1>1, <1>2, <2>1, <2>3, <2>4, GovernedCallGoesOn
<1> QED BY <1>4, <1>5 DEF Mutate

LEMMA GovernedSwapIsHarmless ==
  ASSUME HarmlessInv, NEW p \in Callers, Govern(p), CompareAndSwap(p) PROVE HarmlessInv'
<1> DEFINE x == api[p]
           c == call[p].command
           e == call[p].expected
           d == call[p].draft
<1>1. x.phase = "govern" /\ call[p].phase = "compare_and_swap"
  BY DEF Govern, CompareAndSwap, At, InPhase
<1>2. /\ ClientsOK /\ Trusted(store) /\ WellFormedCommand(c) /\ d \in Documents
      /\ x.read.revision <= e /\ x.read.revision \in Nat /\ e \in Nat
      /\ IsRetry(x) => e + 1 = x.read.revision
  BY <1>1, GoverningClient DEF GoverningOK
<1>3. ~IsRetry(x)
  BY <1>2
<1>4. CASE Proceed(p, "reread") /\ UNCHANGED store
  <2> DEFINE k == [call[p] EXCEPT !.phase = "reread"]
  <2>1. CallFields \subseteq DOMAIN call[p]
    BY <1>2 DEF ClientsOK, ClientOK
  <2>2. k.phase = "reread" /\ k.expected = e
    BY <2>1 DEF CallFields
  <2>3. call' = [call EXCEPT ![p] = k]
    BY <1>4 DEF Proceed
  <2> HIDE DEF k
  <2> QED BY <1>2, <1>4, <2>2, <2>3, GovernedCallGoesOn
<1>5. CASE Finish(p, "audit_conflict", 0) /\ UNCHANGED store
  BY <1>3, <1>5, GovernedAnswersHold DEF MappedErrors, Moves
<1>6. CASE /\ ExtendsAudit(store.document, d, c) /\ store' = Published(p)
           /\ Finish(p, "applied", store.revision + 1)
  <2>1. store' = [document |-> d, revision |-> store.revision + 1]
    BY <1>6 DEF Published
  <2> HIDE DEF c, d
  <2>2. \E at : Executes(store, store', c, at)
    BY <1>2, <1>6, <2>1, PublishingExecutes
  <2>3. PICK at : Executes(store, store', c, at)
    BY <2>2
  <2>4. RecordedAt(store'.document, store'.revision, c)
    BY <1>2, <2>1, <2>3, ExecutedIsRecorded
  <2> QED BY <1>3, <1>6, <2>2, <2>4, GovernedAnswersHold DEF Moves, c
<1> QED BY <1>4, <1>5, <1>6 DEF CompareAndSwap

LEMMA GovernedRereadIsHarmless ==
  ASSUME HarmlessInv, NEW p \in Callers, Govern(p), Reread(p) PROVE HarmlessInv'
<1> DEFINE x == api[p]
           c == call[p].command
           e == call[p].expected
<1>1. /\ UNCHANGED store /\ x.phase = "govern" /\ call[p].phase = "reread"
      /\ Moves(store, store')
  BY DEF Govern, Reread, At, InPhase, Moves
<1>2. /\ Trusted(store) /\ WellFormedCommand(c) /\ c.action # "registered"
      /\ x.read.revision <= e /\ x.read.revision \in Nat /\ e \in Nat
      /\ IsRetry(x) => e + 1 = x.read.revision
  BY <1>1, GoverningClient DEF GoverningOK
<1>3. ~IsRetry(x)
  BY <1>2
<1>4. CASE AlreadyExecuted(store, c, e) /\ Finish(p, "replayed", store.revision)
  <2>1. store.revision = e + 1
    BY <1>2, <1>4 DEF AlreadyExecuted
  <2>2. RecordedAt(store.document, store.revision, c)
    BY <1>2, <1>4, <2>1, ReplayIsRecorded
  <2> QED BY <1>1, <1>3, <1>4, <2>2, GovernedAnswersHold
<1>5. CASE Finish(p, "concurrency", 0)
  BY <1>1, <1>3, <1>5, GovernedAnswersHold DEF MappedErrors
<1> QED BY <1>4, <1>5 DEF Reread

LEMMA LocateIsHarmless == ASSUME HarmlessInv, NEW p \in Callers, Locate(p) PROVE HarmlessInv'
<1> DEFINE r == api[p].request
           g == Stored
<1>1. /\ RegistryInv /\ RegistryInv' /\ UNCHANGED <<store, metadata>>
      /\ Moves(store, store') /\ Grows(metadata, metadata') /\ Trusted(store)
  BY LocateKeepsInv, NothingMoves DEF HarmlessInv, Locate
<1>2. /\ ClientsOK /\ RegistrationOK /\ ClientOK(api[p], call[p])
      /\ DOMAIN api = Callers /\ DOMAIN call = Callers
      /\ r \in Requests /\ r.route # "register"
  BY <1>1 DEF RegistryInv, ClientsOK, ClientOK, Locate, InPhase
<1>3. ASSUME NEW answer, Answer(p, g, answer), UNCHANGED call,
             (~Located(g, r) /\ answer.error # None) \/ r.route = "get"
      PROVE  HarmlessInv'
  <2>1. /\ api'[p].phase = "answered" /\ api'[p].request = r
        /\ api'[p].read = g /\ api'[p].answer = answer
        /\ \A q \in Callers : q # p => api'[q] = api[q]
    BY <1>2, <1>3, AnsweredClient
  <2>2. AnsweredOK(api'[p], call'[p], store', metadata')
    BY <1>2, <1>3, <2>1 DEF AnsweredOK, IsRetry, Decisions
  <2>3. ClientHolds(api'[p], call'[p], store', metadata')
    BY <2>1, <2>2 DEF ClientHolds
  <2> QED BY <1>1, <1>3, <2>1, <2>3, OneClientHolds
<1>4. CASE ~Located(g, r)
  <2>1. Refusal(MappedErrors["not_found"]).error # None
    BY RefusalsAreErrors DEF MappedErrors
  <2>2. Answer(p, g, Refusal(MappedErrors["not_found"])) /\ UNCHANGED call
    BY <1>4 DEF Locate
  <2> QED BY <1>3, <1>4, <2>1, <2>2
<1>5. CASE Located(g, r) /\ r.route = "get"
  BY <1>3, <1>5 DEF Locate
<1>6. CASE Located(g, r) /\ r.route # "get"
  <2> DEFINE k == [call[p] EXCEPT !.phase = "get", !.command = DecisionCommand(r),
                                  !.expected = ExpectedRevision(g, r)]
  <2>1. /\ api' = [api EXCEPT ![p].phase = "govern", ![p].read = g]
        /\ call' = [call EXCEPT ![p] = k]
    BY <1>6 DEF Locate
  <2>2. k.phase = "get" /\ k.expected = ExpectedRevision(g, r)
    BY <1>2 DEF ClientOK, CallFields
  <2> HIDE DEF k
  <2>3. /\ api'[p].phase = "govern" /\ api'[p].read = g /\ api'[p].request = r
        /\ call'[p] = k
        /\ \A q \in Callers : q # p => api'[q] = api[q] /\ call'[q] = call[q]
    BY <1>2, <2>1 DEF ClientOK
  <2>4. /\ g.document = store.document /\ g.metadata = metadata /\ g.revision = store.revision
    BY DEF Stored
  <2>5. ReadOf(api'[p]) = store
    <3>1. store = [document |-> store.document, revision |-> store.revision]
      BY <1>1 DEF Trusted, Snapshots
    <3> QED BY <2>3, <2>4, <3>1 DEF ReadOf
  <2>6. WasRead(api'[p], store')
    <3>1. store.revision \in Nat
      BY <1>1 DEF Trusted, Snapshots
    <3> QED BY <1>1, <2>5, <3>1 DEF WasRead
  <2>7. /\ Len(metadata) = Len(store.document.versions)
        /\ DOMAIN metadata = DOMAIN store.document.versions
        /\ \A n \in DOMAIN metadata : metadata[n].sha256 = store.document.versions[n].sha256
    BY <1>2 DEF RegistrationOK, RegistrationIsWhole, VersionsOK
  <2>8. ReadIsWhole(api'[p])
    BY <2>3, <2>4, <2>7 DEF ReadIsWhole
  <2>9. NamesVersion(r, metadata)
    BY <1>6, <2>4, <2>7 DEF NamesVersion, Located
  <2> HIDE DEF g
  <2>10. GoverningOK(api'[p], k, store', metadata')
    BY <1>1, <2>2, <2>3, <2>6, <2>8, <2>9 DEF GoverningOK
  <2>11. ClientHolds(api'[p], call'[p], store', metadata')
    BY <2>3, <2>10 DEF ClientHolds
  <2> QED BY <1>1, <2>3, <2>11, OneClientHolds
<1> QED BY <1>4, <1>5, <1>6

LEMMA OtherStepsAreHarmless ==
  ASSUME HarmlessInv, NEW p \in Callers, Issue(p) \/ Respond(p) PROVE HarmlessInv'
<1>1. /\ RegistryInv /\ RegistryInv' /\ UNCHANGED <<store, metadata>>
      /\ DOMAIN api = Callers /\ DOMAIN call = Callers /\ ClientOK(api[p], call[p])
  BY IssueKeepsInv, RespondKeepsInv DEF HarmlessInv, Issue, Respond, RegistryInv, ClientsOK
<1>2. CASE Issue(p)
  <2>1. PICK r \in Requests :
          api' = [api EXCEPT ![p].phase = IF r.route = "register" THEN "lookup" ELSE "locate",
                             ![p].request = r]
    BY <1>2 DEF Issue
  <2>2. /\ api'[p].phase = IF r.route = "register" THEN "lookup" ELSE "locate"
        /\ api'[p].request = r /\ UNCHANGED call
        /\ \A q \in Callers : q # p => api'[q] = api[q]
    BY <1>1, <1>2, <2>1 DEF ClientOK, Issue
  <2>3. ClientHolds(api'[p], call'[p], store', metadata')
    BY <2>2 DEF ClientHolds
  <2> QED BY <1>1, <2>2, <2>3, NothingMoves, OneClientHolds
<1>3. CASE Respond(p)
  <2>1. /\ api'[p] = IdleApi /\ call'[p] = IdleCall
        /\ \A q \in Callers : q # p => api'[q] = api[q] /\ call'[q] = call[q]
    BY <1>1, <1>3 DEF Respond
  <2>2. ClientHolds(api'[p], call'[p], store', metadata')
    BY <2>1 DEF ClientHolds, IdleApi
  <2> QED BY <1>1, <2>1, <2>2, NothingMoves, OneClientHolds
<1> QED BY <1>2, <1>3

LEMMA PipelineIsHarmless == ASSUME HarmlessInv, Pipeline PROVE HarmlessInv'
<1>1. PICK c \in PipelineCommands, at \in Instants : Execute(c, at)
  BY DEF Pipeline
<1>2. c \in Commands
  BY PipelineDoesNotDecide
<1>3. Moves(store, store') /\ UNCHANGED <<call, metadata, api>>
  BY <1>1, <1>2, StepExecutes DEF Moves, Pipeline
<1>4. RegistryInv' /\ Trusted(store)' /\ Grows(metadata, metadata')
  BY <1>3, PipelineKeepsInv, MovesOnlyForward
  DEF HarmlessInv, Grows, RegistryInv, RegistrationOK
<1>5. ASSUME NEW p \in Callers PROVE ClientHolds(api[p], call[p], store', metadata')
  BY <1>3, <1>4, ClientsOfOthersHold DEF HarmlessInv
<1> QED BY <1>3, <1>4, <1>5 DEF HarmlessInv

LEMMA RegistryStepsAreHarmless == HarmlessInv /\ [RegistryNext]_registryVars => HarmlessInv'
<1> SUFFICES ASSUME HarmlessInv, [RegistryNext]_registryVars PROVE HarmlessInv'
  OBVIOUS
<1>1. CASE UNCHANGED registryVars
  <2>1. UNCHANGED <<store, call, metadata, api>>
    BY <1>1 DEF registryVars
  <2>2. RegistryInv'
    BY <1>1, RegistryNextKeepsInv DEF HarmlessInv
  <2> QED BY <2>1, <2>2 DEF HarmlessInv
<1>2. CASE Pipeline
  BY <1>2, PipelineIsHarmless
<1>3. ASSUME NEW p \in Callers, Govern(p) PROVE HarmlessInv'
  BY <1>3, GovernedGetIsHarmless, GovernedMutateIsHarmless, GovernedSwapIsHarmless,
     GovernedRereadIsHarmless DEF Govern
<1>4. ASSUME NEW p \in Callers, Issue(p) \/ Handle(p) PROVE HarmlessInv'
  BY <1>3, <1>4, OtherStepsAreHarmless, LookupIsHarmless, SwapRegistrationIsHarmless,
     RereadRegistrationIsHarmless, LocateIsHarmless DEF Handle
<1> QED BY <1>1, <1>2, <1>4 DEF RegistryNext

LEMMA RegistryStartsHarmless == RegistryInit => HarmlessInv
<1> SUFFICES ASSUME RegistryInit PROVE HarmlessInv
  OBVIOUS
<1>1. Trusted(store)
  BY SeedsAreConsistent, SeedsAreAudited DEF RegistryInit, Init, AtomicInit, Trusted
<1>2. \A p \in Callers : api[p] = IdleApi
  BY DEF RegistryInit
<1>3. ASSUME NEW p \in Callers PROVE ClientHolds(api[p], call[p], store, metadata)
  <2>1. IdleApi.phase = "idle"
    BY DEF IdleApi
  <2>2. api[p].phase = "idle"
    BY <1>2, <2>1
  <2> QED BY <2>2 DEF ClientHolds
<1> QED BY <1>1, <1>3, RegistryStartsWhole DEF HarmlessInv

(* A client may repeat any request, and any number of clients may: a receipt *)
(* names the one stored version with the declared content and size, the      *)
(* revision a decision is answered with recorded that decision on that       *)
(* content, and the retry of the command the history ends with is recognised *)
(* and never executed once more. *)
THEOREM RepeatingIsHarmless == RegistrySpec => []RepetitionIsHarmless
<1>1. HarmlessInv => SuccessIsTrue
  <2> SUFFICES ASSUME HarmlessInv, NEW p \in Callers
               PROVE  LET r == api[p].request
                          n == api[p].answer.version
                          k == api[p].answer.revision
                      IN  /\ Succeeded(p, {"register"}) =>
                               /\ n \in DOMAIN metadata
                               /\ metadata[n] = [sha256 |-> r.sha256, size |-> r.size]
                               /\ \A q \in Callers :
                                    /\ Succeeded(q, {"register"})
                                    /\ api[q].request = r
                                    => api[q].answer.version = n
                          /\ Succeeded(p, Decisions) =>
                               /\ Located(Stored, r)
                               /\ RecordedAt(store.document, k, DecisionCommand(r))
    BY DEF SuccessIsTrue
  <2>1. /\ metadata \in Seq(Metadata) /\ Len(metadata) = Len(store.document.versions)
        /\ \A n \in DOMAIN metadata : metadata[n].sha256 = store.document.versions[n].sha256
        /\ store.document.versions \in Seq(Versions)
        /\ DistinctContent(store.document)
    BY DEF HarmlessInv, RegistryInv, RegistrationOK, RegistrationIsWhole, VersionsOK, Trusted,
           ConsistentDocument
  <2>2. ASSUME NEW q \in Callers, Succeeded(q, {"register"})
        PROVE  /\ api[q].answer.version \in DOMAIN metadata
               /\ metadata[api[q].answer.version] = Row(api[q].request)
    BY <2>2 DEF Succeeded, InPhase, HarmlessInv, ClientHolds, AnsweredOK
  <2>3. ASSUME NEW q \in Callers, Succeeded(p, {"register"}), Succeeded(q, {"register"}),
               api[q].request = api[p].request
        PROVE  api[q].answer.version = api[p].answer.version
    <3> DEFINE m == api[p].answer.version
               n == api[q].answer.version
    <3>1. m \in DOMAIN metadata /\ n \in DOMAIN metadata /\ metadata[m] = metadata[n]
      BY <2>2, <2>3
    <3> HIDE DEF m, n
    <3>2. /\ m \in DOMAIN store.document.versions /\ n \in DOMAIN store.document.versions
          /\ store.document.versions[m].sha256 = store.document.versions[n].sha256
      BY <2>1, <3>1
    <3>3. m = n
      BY <2>1, <3>2 DEF DistinctContent
    <3> QED BY <3>3 DEF m, n
  <2>4. Succeeded(p, Decisions) =>
          /\ NamesVersion(api[p].request, metadata)
          /\ RecordedAt(store.document, api[p].answer.revision, DecisionCommand(api[p].request))
    BY DEF Succeeded, InPhase, HarmlessInv, ClientHolds, AnsweredOK
  <2>5. NamesVersion(api[p].request, metadata) => Located(Stored, api[p].request)
    BY <2>1 DEF NamesVersion, Located, Stored
  <2> QED BY <2>2, <2>3, <2>4, <2>5 DEF Row
<1>2. HarmlessInv => RetryIsRecognised
  <2> SUFFICES ASSUME HarmlessInv, NEW p \in Callers, InPhase(p, "answered"),
                      api[p].request.route \in Decisions, IsRetry(api[p])
               PROVE  /\ call[p].outcome # "applied"
                      /\ store.revision = api[p].read.revision => api[p].answer.error = None
    BY DEF RetryIsRecognised, IsRetry
  <2>1. /\ call[p].outcome # "applied" /\ WasRead(api[p], store)
        /\ api[p].answer.error # None => api[p].read.revision < store.revision
    BY DEF HarmlessInv, ClientHolds, AnsweredOK, InPhase
  <2>2. store.revision \in Nat
    BY DEF HarmlessInv, Trusted, Snapshots
  <2> QED BY <2>1, <2>2
<1> QED BY <1>1, <1>2, RegistryStartsHarmless, RegistryStepsAreHarmless, PTL
        DEF RegistrySpec, RepetitionIsHarmless

=============================================================================
