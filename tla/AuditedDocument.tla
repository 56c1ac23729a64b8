-------------------------- MODULE AuditedDocument --------------------------
(***************************************************************************)
(* What the governance service and its repository promise together: the    *)
(* stored document changes only by one whole command at a time, executed   *)
(* on the value stored at that moment, and every change is a new revision. *)
(* Who issues the commands, what they had read before, and how many calls  *)
(* are in flight is not said here.                                         *)
(***************************************************************************)
EXTENDS DocumentAudit

CONSTANTS Seeds,      \* the snapshots a run may start from
          Commands,   \* the commands the callers issue
          Instants    \* what the wall clock may show

VARIABLE store        \* DocumentSnapshot, or NothingStored

ASSUME CommandsAreWellFormed == \A c \in Commands : WellFormedCommand(c)
ASSUME InstantsAreNaturals == Instants \subseteq Nat
ASSUME SeedsAreConsistent ==
  \A s \in Seeds : /\ s \in Snapshots
                   /\ ConsistentDocument(s.document)
                   /\ (s.revision = 0) <=> (s.document = NoDocument)

(* A run starts from snapshots that a repository would hand out. *)
ASSUME SeedsAreAudited == \A s \in Seeds : Audited(s) /\ EventsAreCommands(s.document)

-----------------------------------------------------------------------------

StoreTypeOK == store \in Snapshots

AtomicInit == store \in Seeds

Execute(c, at) ==
  /\ c.action # "registered" => store.document # NoDocument
  /\ ErrorOf(store.document, c, at) = None
  /\ ResultOf(store.document, c, at) # store.document
  /\ store' = [document |-> ResultOf(store.document, c, at),
               revision |-> store.revision + 1]

AtomicNext == \E c \in Commands, at \in Instants : Execute(c, at)

AtomicSpec == AtomicInit /\ [][AtomicNext]_store

-----------------------------------------------------------------------------

(* GovernedDocument.__post_init__ checks every value it builds.  The       *)
(* methods' own guards already exclude whatever it would refuse, so its    *)
(* aggregate checks are a second line that is never reached: at most one   *)
(* approved version, which is the current one; at most one candidate,      *)
(* the latest; distinct content; audited time that never runs backwards.   *)
Consistent == ConsistentDocument(store.document)

(* The stored snapshot always passes the audit: the history alone is       *)
(* enough to rebuild every status, every processing gate, the current      *)
(* version and the revision, so no reader ever has to reject it. *)
StoreIsAudited == Audited(store)

(* A version that retrieval may use went through both gates, extraction    *)
(* first, in the attempt that led to its approval; a resumed attempt may   *)
(* keep only gates that succeeded since the last start from nothing. *)
ApprovedWasProcessed ==
  LET h == store.document.history
      n == EligibleVersion(store.document)
  IN  n # 0 =>
        \E x, y, a \in DOMAIN h :
          /\ x < y /\ y < a
          /\ ExtractionStands(h, n, x)
          /\ Passed(h, n, "indexing_succeeded", y)
          /\ Passed(h, n, "approved", a)

=============================================================================
