-------------------------- MODULE KnowledgeRetrieval --------------------------
(***************************************************************************)
(* One retrieval of governed evidence (knowledge_retrieval.py), cut by the *)
(* policy (governed_retrieval.py) or answered by the grounded assistant    *)
(* (grounded_assistant.py), while documents are governed and indexed.      *)
(*                                                                         *)
(* Nothing locks the documents.  A retrieval reads them one after the      *)
(* other, and for each of them first the lifecycle snapshot and then the   *)
(* chunks of its approved version; it collects everything once more after  *)
(* the scorer has run and keeps the ranking only if both collections agree.*)
(* Later, around the provider call, the evidence is verified with one more *)
(* collection.  Retrievals share nothing, so one of them is modelled.      *)
(***************************************************************************)
EXTENDS Naturals, SequencesExt

CONSTANTS
    Mapping,         \* the documents of each mapped fault class, in their order
    Faults,          \* the fault classes asked for, mapped or not
    Chunks,          \* the chunks a version is split into
    Providers,       \* embedding providers and representations in use
    IndexedVersions, \* bound: versions the indexer works on during a run
    MaxVersion,      \* bound: versions of a document
    MaxRevision      \* bound: lifecycle commands of a document

ASSUME MappingAssumption ==
    /\ IsFiniteSet(DOMAIN Mapping)
    /\ \A f \in DOMAIN Mapping :
        /\ Mapping[f] \in Seq({Mapping[f][i] : i \in DOMAIN Mapping[f]})
        /\ \A i, j \in DOMAIN Mapping[f] : Mapping[f][i] = Mapping[f][j] => i = j
ASSUME ProvidersAssumption == "invalid-provider" \notin Providers
ASSUME VersionAssumption ==
    MaxVersion \in Nat /\ MaxRevision \in Nat /\ IndexedVersions \subseteq 1..MaxVersion

VARIABLES
    docs,      \* revision (0: not registered) and approved version (0: none)
               \* of each document
    index,     \* what the chunk repository stores
    phase,     \* where the retrieval is
    fault,     \* the class it is for
    todo,      \* the documents of the present collection still to be read
    open,      \* the lifecycle snapshot whose chunks are to be listed next
    found,     \* what the present collection has found
    first,     \* the collection that was scored
    scored,    \* the hits of the scorer, cut at top_k
    evidence,  \* the evidence retrieved
    reason     \* why there is none

retrieval == <<phase, fault, todo, open, found, first, scored, evidence, reason>>

\* History: what could be cited when the scorer ended and when the last
\* verification began; whether anything changed since the call began; and the
\* documents that had nothing to cite at some moment of the first collection.
VARIABLES atScore, atCheck, disturbed, bare

history == <<atScore, atCheck, disturbed, bare>>
vars == <<docs, index, retrieval, history>>

--------------------------------------------------------------------------------

Documents == UNION {{Mapping[f][i] : i \in DOMAIN Mapping[f]} : f \in DOMAIN Mapping}

\* FaultKnowledgeMapping.document_ids_for: no normalisation and no fallback.
Mapped == IF fault \in DOMAIN Mapping THEN Mapping[fault] ELSE <<>>

\* The lifecycle has the document: _is_expected_document_reference.
Known(d) == docs[d].revision > 0

Versions == 1..MaxVersion

\* An embedding that failed under a provider that could not even be described
\* is stored under an identity of its own.
Identities == Providers \cup {"invalid-provider"}

Records == [document : Documents, version : Versions, chunk : Chunks, provider : Identities]
Keys == [document : Documents, version : Versions, chunk : Chunks]

EvidenceKey(r) == [document |-> r.document, version |-> r.version, chunk |-> r.chunk]

Stored(d, v) ==
    {r \in Records : r.document = d /\ r.version = v /\ index[r] # "absent"}

\* Two records of one chunk, or a corrupted one: the collection is refused.
Ambiguous(d, v) ==
    \E r, s \in Stored(d, v) : r # s /\ EvidenceKey(r) = EvidenceKey(s)

\* An embedding that failed is stored and never eligible.
Eligible(d, v) == {r \in Stored(d, v) : index[r] = "embedded"}

\* What may be cited at this moment.
Citable ==
    UNION { {EvidenceKey(r) : r \in Eligible(d, docs[d].current)} :
              d \in {d \in Documents : ~Ambiguous(d, docs[d].current)} }

--------------------------------------------------------------------------------
(***************************************************************************)
(* The environment: governance and indexing.                               *)
(***************************************************************************)

Bare == {d \in Documents : Ambiguous(d, docs[d].current) \/ Eligible(d, docs[d].current) = {}}

Busy == phase \notin {"starting", "idle"}

Disturb ==
    /\ disturbed' = Busy
    /\ bare' = IF phase = "ranking" THEN bare \cup Bare' ELSE bare
    /\ UNCHANGED <<retrieval, atScore, atCheck>>

\* The first version of a document.
Register(d) ==
    /\ ~Known(d)
    /\ docs' = [docs EXCEPT ![d].revision = 1]
    /\ UNCHANGED index
    /\ Disturb

\* A lifecycle command that leaves the approved version as it is.
Advance(d) ==
    /\ Known(d) /\ docs[d].revision < MaxRevision
    /\ docs' = [docs EXCEPT ![d].revision = @ + 1]
    /\ UNCHANGED index
    /\ Disturb

\* Approval of a newer version; versions in between may have been rejected.
Promote(d) ==
    /\ Known(d) /\ docs[d].revision < MaxRevision
    /\ \E n \in Versions :
          /\ n > docs[d].current
          /\ docs' = [docs EXCEPT ![d] = [revision |-> @.revision + 1, current |-> n]]
    /\ UNCHANGED index
    /\ Disturb

\* One outcome per chunk; a provider without identity has only failures.
Embeddings(p) ==
    [Chunks -> IF p = "invalid-provider" THEN {"failed"} ELSE {"embedded", "failed"}]

\* The whole batch is stored, or none of it when one record collides.
IndexVersion(d, v) ==
    /\ \E p \in Identities : \E outcome \in Embeddings(p) :
          LET Batch == [document : {d}, version : {v}, chunk : Chunks, provider : {p}]
          IN  /\ \A r \in Batch : index[r] \in {"absent", outcome[r.chunk]}
              /\ index' = [r \in Records |->
                             IF r \in Batch THEN outcome[r.chunk] ELSE index[r]]
    /\ index' # index
    /\ UNCHANGED docs
    /\ Disturb

--------------------------------------------------------------------------------
(***************************************************************************)
(* _eligible_candidates: one collection, document by document.             *)
(***************************************************************************)

Collecting == {"ranking", "revalidating", "checking"}
Ended == {"refused", "retrieved", "governed", "current", "answered", "stale", "unknown"}
NoFault == "none"
Nothing == [revision |-> 0, current |-> 0]

Collect(p, documents) ==
    phase' = p /\ todo' = documents /\ open' = Nothing /\ found' = {}

\* A call returns: what it had collected is gone.
Return(to) ==
    /\ phase' = to
    /\ todo' = <<>> /\ open' = Nothing
    /\ found' = {} /\ first' = {} /\ scored' = {}
    /\ UNCHANGED fault

\* A ranking ends without evidence; a verification without a verdict.
Refuse(why) ==
    /\ Return(IF phase = "checking" THEN "unknown" ELSE "refused")
    /\ reason' = why
    /\ UNCHANGED evidence

\* The lifecycle snapshot of the next document.
ReadDocument ==
    /\ phase \in Collecting /\ todo # <<>> /\ open = Nothing
    /\ LET d == Head(todo)
       IN  \/ /\ ~Known(d) /\ Refuse("INDEX_INTEGRITY_FAILED")
          \/ /\ Known(d) /\ docs[d].current = 0
             /\ todo' = Tail(todo)
             /\ UNCHANGED <<phase, fault, open, found, first, scored, evidence, reason>>
          \/ /\ Known(d) /\ docs[d].current # 0
             /\ open' = docs[d]
             /\ UNCHANGED <<phase, fault, todo, found, first, scored, evidence, reason>>
    /\ UNCHANGED <<docs, index, history>>

\* The chunks of the version that was approved in that snapshot.
ListChunks ==
    /\ phase \in Collecting /\ open # Nothing
    /\ LET d == Head(todo)
       IN  IF Ambiguous(d, open.current)
           THEN Refuse("INDEX_INTEGRITY_FAILED")
           ELSE /\ found' = found \cup {[record |-> r, revision |-> open.revision] :
                                          r \in Eligible(d, open.current)}
                /\ todo' = Tail(todo)
                /\ open' = Nothing
                /\ UNCHANGED <<phase, fault, first, scored, evidence, reason>>
    /\ UNCHANGED <<docs, index, history>>

\* A repository does not answer.
LoseRepository ==
    /\ phase \in Collecting /\ todo # <<>>
    /\ Refuse("INDEX_UNAVAILABLE")
    /\ UNCHANGED <<docs, index, history>>

--------------------------------------------------------------------------------
(***************************************************************************)
(* Ranking.                                                                *)
(***************************************************************************)

\* MUTANT: the service is built whatever its mapping refers to.
BuildUnchecked ==
    /\ phase = "starting" /\ phase' = "idle"
    /\ UNCHANGED <<docs, index, fault, todo, open, found, first, scored, evidence, reason, history>>

\* ApprovedKnowledgeRetrievalService: there is none before every document of
\* the mapping is known.
Build ==
    /\ phase = "starting" /\ \A d \in Documents : Known(d)
    /\ phase' = "idle"
    /\ UNCHANGED <<docs, index, fault, todo, open, found, first, scored, evidence, reason, history>>

\* One call, for one class.
Retrieve(f) ==
    /\ phase = "idle"
    /\ fault' = f
    /\ disturbed' = FALSE
    /\ bare' = Bare
    /\ \/ /\ f \in DOMAIN Mapping /\ Mapping[f] # <<>>
          /\ Collect("ranking", Mapping[f])
          /\ UNCHANGED reason
       \/ /\ f \in DOMAIN Mapping => Mapping[f] = <<>>
          /\ phase' = "refused"
          /\ reason' = IF f \in DOMAIN Mapping THEN "NO_APPROVED_COVERAGE"
                                               ELSE "FAULT_CLASS_UNMAPPED"
          /\ UNCHANGED <<todo, open, found>>
    /\ UNCHANGED <<docs, index, first, scored, evidence, atScore, atCheck>>

\* The scorer sees copies of what was collected; it may fail or find nothing.
Score ==
    /\ phase = "ranking" /\ todo = <<>>
    /\ \/ found = {} /\ Refuse("NO_APPROVED_COVERAGE") /\ UNCHANGED atScore
       \/ /\ found # {}
          /\ \E why \in {"EMPTY_RANKING", "RANKING_FAILED"} : Refuse(why)
          /\ UNCHANGED atScore
       \/ \E hits \in (SUBSET found) \ {{}} :
             /\ Collect("revalidating", Mapped)
             /\ first' = found
             /\ scored' = hits
             /\ atScore' = Citable
             /\ UNCHANGED <<fault, evidence, reason>>
    /\ UNCHANGED <<docs, index, atCheck, disturbed, bare>>

\* KnowledgeSnapshotRetrievalResult with the exact content of the ranking.
Snapshots(hits) == {EvidenceKey(f.record) : f \in hits}

Retrieved(hits) ==
    /\ Return("retrieved")
    /\ evidence' = Snapshots(hits)
    /\ UNCHANGED reason

\* MUTANT: the ranking is returned without looking at the second collection.
KeepAnyRanking ==
    /\ phase = "revalidating" /\ todo = <<>>
    /\ Retrieved(scored)
    /\ UNCHANGED <<docs, index, history>>

\* Both collections must agree, revisions included.
Revalidate ==
    /\ phase = "revalidating" /\ todo = <<>>
    /\ IF found = first
       THEN Retrieved(scored)
       ELSE Refuse("INDEX_INTEGRITY_FAILED")
    /\ UNCHANGED <<docs, index, history>>

\* GovernedRetrievalResult of a success, and the assistant's answer.
Cut(to, kept) ==
    /\ kept # {}
    /\ Return(to)
    /\ evidence' = kept
    /\ UNCHANGED reason

\* The policy keeps what reaches its threshold, as far as the content budget
\* goes; a single piece of evidence over the budget refuses them all.
ApplyPolicy ==
    /\ phase = "retrieved"
    /\ \/ \E kept \in SUBSET evidence : Cut("governed", kept)
       \/ \E why \in {"NO_EVIDENCE", "RETRIEVAL_UNAVAILABLE"} : Refuse(why)
    /\ UNCHANGED <<docs, index, history>>

--------------------------------------------------------------------------------
(***************************************************************************)
(* snapshots_are_current, asked by the guardrails before and after the     *)
(* provider call and by the assistant before it answers.                   *)
(***************************************************************************)

\* sorted({item.document_id ...}): the order of the names, whatever it is, not
\* that of the mapping.
Cited == SetToSeqs({e.document : e \in evidence})

Check ==
    /\ phase \in {"retrieved", "governed", "current"}
    /\ \E documents \in Cited : Collect("checking", documents)
    /\ atCheck' = Citable
    /\ UNCHANGED <<docs, index, fault, first, scored, evidence, reason, atScore, disturbed, bare>>

\* MUTANT: any evidence left of the document will do.
SomethingIsCurrent == Snapshots(found) # {}

StillThere == evidence \subseteq Snapshots(found)

Verdict ==
    /\ phase = "checking" /\ todo = <<>>
    /\ Return(IF StillThere THEN "current" ELSE "stale")
    /\ UNCHANGED <<docs, index, evidence, reason, history>>

\* The assistant answers with the text that fits the question best, if there
\* is one and no other fits as well.
Answer ==
    /\ phase = "current"
    /\ \/ \E best \in evidence : Cut("answered", {best})
       \/ Refuse("INSUFFICIENT_EVIDENCE")
    /\ UNCHANGED <<docs, index, history>>

\* The caller is done with the evidence.
Release ==
    /\ phase \in Ended
    /\ phase' = "idle" /\ fault' = NoFault
    /\ evidence' = {} /\ reason' = "none"
    /\ atScore' = {} /\ atCheck' = {} /\ disturbed' = FALSE /\ bare' = {}
    /\ UNCHANGED <<docs, index, todo, open, found, first, scored>>

--------------------------------------------------------------------------------

Init ==
    /\ docs \in [Documents -> {[revision |-> 0, current |-> 0], [revision |-> 1, current |-> 0],
                              [revision |-> 1, current |-> 1]}]
    /\ index \in [Records -> {"absent", "embedded"}]
    /\ \A r \in Records :
          index[r] = "embedded" => r.version = 1 /\ r.provider \in Providers
    /\ phase = "starting" /\ fault = NoFault
    /\ todo = <<>> /\ open = Nothing
    /\ found = {} /\ first = {} /\ scored = {} /\ evidence = {}
    /\ reason = "none"
    /\ atScore = {} /\ atCheck = {} /\ disturbed = FALSE /\ bare = {}

Govern == \E d \in Documents : Register(d) \/ Advance(d) \/ Promote(d)
IndexDocument == \E d \in Documents, v \in IndexedVersions : IndexVersion(d, v)
CollectOne == ReadDocument \/ ListChunks \/ LoseRepository

Next ==
    \/ Govern
    \/ IndexDocument
    \/ Build
    \/ \E f \in Faults : Retrieve(f)
    \/ CollectOne \/ Score \/ Revalidate \/ ApplyPolicy
    \/ Check \/ Verdict \/ Answer
    \/ Release

Spec == Init /\ [][Next]_vars

--------------------------------------------------------------------------------
(***************************************************************************)
(* Properties.                                                             *)
(***************************************************************************)

\* All evidence of one retrieval could be cited together, at one moment after
\* the scorer had run: although documents are read one by one and without a
\* lock, no citation mixes an old version of one with a new one of another.
EvidenceHeldTogether ==
    phase \in (Ended \ {"refused"}) \cup {"checking"} =>
        evidence # {} /\ evidence \subseteq atScore

\* A verification that says yes speaks for the moment it was asked, for all
\* documents at once, not for the different moments at which it read them.
CurrentMeansCurrent == phase \in {"current", "answered"} => evidence \subseteq atCheck

\* A refusal says what happened.  An integrity failure: a document or the index
\* changed while the retrieval ran, or the index holds one chunk twice.  No
\* coverage: every document of the class had nothing to cite at some moment of
\* the collection, although its snapshot and its chunks are read apart.
RefusalsHaveACause ==
    /\ reason = "INDEX_INTEGRITY_FAILED" =>
          \/ disturbed
          \/ \E d \in Documents : Ambiguous(d, docs[d].current)
    /\ reason = "NO_APPROVED_COVERAGE" =>
          \A i \in DOMAIN Mapped : Mapped[i] \in bare

================================================================================
