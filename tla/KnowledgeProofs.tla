---------------------------- MODULE KnowledgeProofs ----------------------------
(***************************************************************************)
(* Why a retrieval needs no lock, for any mapping, any number of documents,*)
(* versions, chunks and providers: what was read of a document says, as    *)
(* long as its revision has not moved, what holds of it now, and neither   *)
(* an approved version nor a stored record ever goes back.                 *)
(*                                                                         *)
(* And why the text behind it is authorised, for any files and mishaps:    *)
(* a file only moves on from the version it held, so that one which still  *)
(* has it when its last page was read had it all along.                    *)
(***************************************************************************)
EXTENDS KnowledgeRetrieval, ArtifactDocuments, FiniteSetTheorems, TLAPS

-----------------------------------------------------------------------------
(* The inductive invariant.                                                *)

Snapshot == [revision : Nat, current : Nat]
Kinds == {"absent", "embedded", "failed"}

StoresOK ==
  /\ docs \in [Documents -> Snapshot]
  /\ index \in [Records -> Kinds]

\* What a snapshot of document d, read some time ago, still says of it.
Past(s, d) ==
  /\ s \in Snapshot
  /\ s.revision <= docs[d].revision
  /\ s.current <= docs[d].current
  /\ s.revision = docs[d].revision => s.current = docs[d].current

Seen(f) == [revision |-> f.revision, current |-> f.record.version]
Of(f) == f.record.document
Clear(d, v) == ~Ambiguous(d, v)

\* What a collection has found.
CollectedOK(F) ==
  \A f \in F :
    /\ f.record \in Records
    /\ index[f.record] = "embedded"
    /\ Past(Seen(f), Of(f))

OpenOK ==
  open # Nothing /\ Head(todo) \in Documents => Past(open, Head(todo))

\* The second collection: what it finds unmoved could be cited at the scoring.
HeldIfUnmoved ==
  \A f \in first :
    f.revision = docs[Of(f)].revision /\ Clear(Of(f), f.record.version)
      => EvidenceKey(f.record) \in atScore
HeldIfOpen ==
  open # Nothing =>
    \A f \in first :
      Of(f) = Head(todo) /\ f.revision = open.revision /\ Clear(Of(f), f.record.version)
        => EvidenceKey(f.record) \in atScore
HeldIfFound == \A f \in found \cap first : EvidenceKey(f.record) \in atScore

RevalidatingOK ==
  phase = "revalidating" =>
    scored # {} /\ scored \subseteq first /\ HeldIfUnmoved /\ HeldIfOpen /\ HeldIfFound

Holding == phase \in (Ended \ {"refused"}) \cup {"checking"}

EvidenceOK ==
  Holding =>
    /\ evidence # {} /\ evidence \subseteq atScore
    /\ \A e \in evidence :
         /\ e \in Keys
         /\ e.version <= docs[e.document].current
         /\ \E r \in Records : index[r] = "embedded" /\ EvidenceKey(r) = e

\* The collection of a verification: what it finds could be cited when asked.
CurrentIfUnmoved ==
  \A e \in evidence :
    e.version = docs[e.document].current /\ Clear(e.document, e.version) => e \in atCheck
CurrentIfOpen ==
  open # Nothing =>
    \A e \in evidence :
      e.document = Head(todo) /\ e.version = open.current /\ Clear(e.document, e.version)
        => e \in atCheck
CurrentIfFound ==
  \A f \in found : EvidenceKey(f.record) \in evidence => EvidenceKey(f.record) \in atCheck

CheckingOK ==
  phase = "checking" => CurrentIfUnmoved /\ CurrentIfOpen /\ CurrentIfFound

RetrievalInv ==
  /\ StoresOK
  /\ CollectedOK(found) /\ CollectedOK(first)
  /\ OpenOK
  /\ RevalidatingOK
  /\ EvidenceOK
  /\ CheckingOK
  /\ CurrentMeansCurrent

-----------------------------------------------------------------------------
(* The environment only moves forward.                                     *)

Grows ==
  /\ \A d \in Documents :
       /\ docs[d].revision <= docs'[d].revision
       /\ docs[d].current <= docs'[d].current
       /\ docs'[d].revision = docs[d].revision => docs'[d].current = docs[d].current
  /\ \A r \in Records :
       /\ index[r] = "embedded" => index'[r] = "embedded"
       /\ index[r] # "absent" => index'[r] # "absent"

LEMMA GovernanceGrows ==
  ASSUME StoresOK, Govern
  PROVE  StoresOK' /\ Grows /\ UNCHANGED <<retrieval, atScore, atCheck>>
<1> PICK d \in Documents : Register(d) \/ Advance(d) \/ Promote(d)
  BY DEF Govern
<1> docs[d] \in Snapshot
  BY DEF StoresOK
<1>1. UNCHANGED index /\ UNCHANGED <<retrieval, atScore, atCheck>>
  BY DEF Register, Advance, Promote, Disturb
<1>2. /\ docs' \in [Documents -> Snapshot]
      /\ docs'[d].revision > docs[d].revision /\ docs'[d].current >= docs[d].current
      /\ \A e \in Documents \ {d} : docs'[e] = docs[e]
  <2>1. CASE Register(d)
    BY <2>1 DEF Register, Known, StoresOK, Snapshot
  <2>2. CASE Advance(d)
    BY <2>2 DEF Advance, StoresOK, Snapshot
  <2>3. CASE Promote(d)
    BY <2>3, VersionAssumption DEF Promote, Versions, StoresOK, Snapshot
  <2> QED
    BY <2>1, <2>2, <2>3
<1>3. StoresOK'
  BY <1>1, <1>2 DEF StoresOK
<1>4. Grows
  BY <1>1, <1>2 DEF Grows, StoresOK, Snapshot
<1> QED
  BY <1>1, <1>3, <1>4

LEMMA IndexingGrows ==
  ASSUME StoresOK, IndexDocument
  PROVE  StoresOK' /\ Grows /\ UNCHANGED <<retrieval, atScore, atCheck>>
<1> PICK d \in Documents, v \in IndexedVersions : IndexVersion(d, v)
  BY DEF IndexDocument
<1>1. UNCHANGED docs /\ UNCHANGED <<retrieval, atScore, atCheck>>
  BY DEF IndexVersion, Disturb
<1> DEFINE Batch(p) == [document : {d}, version : {v}, chunk : Chunks, provider : {p}]
<1> PICK p \in Identities :
      \E outcome \in Embeddings(p) :
        /\ \A r \in Batch(p) : index[r] \in {"absent", outcome[r.chunk]}
        /\ index' = [r \in Records |-> IF r \in Batch(p) THEN outcome[r.chunk] ELSE index[r]]
  BY DEF IndexVersion
<1>2. PICK outcome \in Embeddings(p) :
        /\ \A r \in Batch(p) : index[r] \in {"absent", outcome[r.chunk]}
        /\ index' = [r \in Records |-> IF r \in Batch(p) THEN outcome[r.chunk] ELSE index[r]]
  OBVIOUS
<1>3. outcome \in [Chunks -> {"embedded", "failed"}]
  BY DEF Embeddings
<1>4. \A r \in Batch(p) : outcome[r.chunk] \in {"embedded", "failed"}
  BY <1>3
<1>5. index' \in [Records -> Kinds]
  BY <1>2, <1>4 DEF StoresOK, Kinds
<1>6. ASSUME NEW r \in Records
      PROVE  /\ index[r] = "embedded" => index'[r] = "embedded"
             /\ index[r] # "absent" => index'[r] # "absent"
  BY <1>2, <1>4
<1>7. Grows
  BY <1>1, <1>6 DEF Grows, StoresOK, Snapshot
<1> QED
  BY <1>1, <1>5, <1>7 DEF StoresOK

LEMMA AmbiguityStays ==
  ASSUME Grows, NEW d, NEW v PROVE Clear(d, v)' => Clear(d, v)
<1>1. Stored(d, v) \subseteq Stored(d, v)'
  BY DEF Grows, Stored
<1> QED
  BY <1>1 DEF Clear, Ambiguous

LEMMA ClearIsUnchanged ==
  ASSUME UNCHANGED <<docs, index>>, NEW d, NEW v PROVE Clear(d, v)' <=> Clear(d, v)
BY DEF Clear, Ambiguous, Stored

LEMMA PastStays ==
  ASSUME StoresOK, StoresOK', Grows, NEW d \in Documents, NEW s, Past(s, d)
  PROVE  Past(s, d)'
BY DEF StoresOK, Grows, Past, Snapshot

LEMMA NumbersGrow ==
  ASSUME StoresOK, StoresOK', Grows, NEW d \in Documents
  PROVE  /\ docs[d].revision \in Nat /\ docs'[d].revision \in Nat
         /\ docs[d].current \in Nat /\ docs'[d].current \in Nat
         /\ docs[d].revision <= docs'[d].revision
         /\ docs[d].current <= docs'[d].current
BY DEF StoresOK, Grows, Snapshot

LEMMA EnvironmentKeepsInv ==
  ASSUME RetrievalInv, StoresOK', Grows, UNCHANGED <<retrieval, atScore, atCheck>>
  PROVE  RetrievalInv'
<1> USE DEF retrieval
<1>1. StoresOK
  BY DEF RetrievalInv
<1>2. ASSUME NEW F, F' = F, CollectedOK(F) PROVE CollectedOK(F)'
  <2> SUFFICES ASSUME NEW f \in F
               PROVE  /\ f.record \in Records
                      /\ index'[f.record] = "embedded"
                      /\ Past(Seen(f), Of(f))'
    BY <1>2 DEF CollectedOK, Seen, Of
  <2>1. f.record \in Records /\ index[f.record] = "embedded" /\ Past(Seen(f), Of(f))
    BY <1>2 DEF CollectedOK
  <2>2. Of(f) \in Documents
    BY <2>1 DEF Of, Records
  <2> QED
    BY <1>1, <2>1, <2>2, PastStays DEF Grows
<1>3. CollectedOK(found)' /\ CollectedOK(first)'
  BY <1>2 DEF RetrievalInv
<1>4. OpenOK'
  BY <1>1, PastStays DEF RetrievalInv, OpenOK
<1>5. RevalidatingOK'
  <2> SUFFICES ASSUME phase = "revalidating" PROVE RevalidatingOK'
    BY DEF RevalidatingOK
  <2>1. ASSUME NEW f \in first, f.revision = docs'[Of(f)].revision
        PROVE  f.revision = docs[Of(f)].revision
    <3>1. Of(f) \in Documents /\ f.revision \in Nat /\ f.revision <= docs[Of(f)].revision
      BY DEF RetrievalInv, CollectedOK, Past, Seen, Of, Records, Snapshot
    <3> QED
      BY <1>1, <2>1, <3>1, NumbersGrow
  <2>2. HeldIfUnmoved'
    BY <2>1, AmbiguityStays DEF RetrievalInv, RevalidatingOK, HeldIfUnmoved, Of
  <2>3. HeldIfOpen'
    BY AmbiguityStays DEF RetrievalInv, RevalidatingOK, HeldIfOpen, Of, Nothing
  <2> QED
    BY <2>2, <2>3 DEF RetrievalInv, RevalidatingOK, HeldIfFound
<1>6. EvidenceOK'
  <2> SUFFICES ASSUME Holding, NEW e \in evidence
               PROVE  /\ e.version <= docs'[e.document].current
                      /\ \E r \in Records : index'[r] = "embedded" /\ EvidenceKey(r) = e
    BY DEF RetrievalInv, EvidenceOK, Holding
  <2>1. e \in Keys /\ e.version <= docs[e.document].current
    BY DEF RetrievalInv, EvidenceOK
  <2>2. e.document \in Documents /\ e.version \in Nat
    BY <2>1, VersionAssumption DEF Keys, Versions
  <2>3. e.version <= docs'[e.document].current
    BY <1>1, <2>1, <2>2, NumbersGrow
  <2> QED
    BY <2>3 DEF RetrievalInv, EvidenceOK, Grows
<1>7. CheckingOK'
  <2> SUFFICES ASSUME phase = "checking" PROVE CheckingOK'
    BY DEF CheckingOK
  <2>1. ASSUME NEW e \in evidence, e.version = docs'[e.document].current
        PROVE  e.version = docs[e.document].current
    <3>1. e \in Keys /\ e.version <= docs[e.document].current
      BY DEF RetrievalInv, EvidenceOK, Holding
    <3>2. e.document \in Documents /\ e.version \in Nat
      BY <3>1, VersionAssumption DEF Keys, Versions
    <3> QED
      BY <1>1, <2>1, <3>1, <3>2, NumbersGrow
  <2>2. CurrentIfUnmoved'
    BY <2>1, AmbiguityStays DEF RetrievalInv, CheckingOK, CurrentIfUnmoved
  <2>3. CurrentIfOpen'
    BY AmbiguityStays DEF RetrievalInv, CheckingOK, CurrentIfOpen, Nothing
  <2> QED
    BY <2>2, <2>3 DEF RetrievalInv, CheckingOK, CurrentIfFound
<1>8. CurrentMeansCurrent'
  BY DEF RetrievalInv, CurrentMeansCurrent
<1> QED
  BY <1>3, <1>4, <1>5, <1>6, <1>7, <1>8 DEF RetrievalInv

-----------------------------------------------------------------------------
(* The steps of the retrieval.                                             *)

LEMMA ReturnKeepsInv ==
  ASSUME RetrievalInv, NEW to, Return(to), to \notin {"revalidating", "checking"},
         UNCHANGED <<docs, index>>, EvidenceOK', CurrentMeansCurrent'
  PROVE  RetrievalInv'
BY DEF RetrievalInv, Return, StoresOK, CollectedOK, OpenOK, RevalidatingOK, CheckingOK

LEMMA RefusalKeepsInv ==
  ASSUME RetrievalInv, NEW why, Refuse(why), UNCHANGED <<docs, index, atScore, atCheck>>
  PROVE  RetrievalInv'
<1> DEFINE to == IF phase = "checking" THEN "unknown" ELSE "refused"
<1>1. Return(to) /\ to \in {"unknown", "refused"} /\ phase' = to
  BY DEF Refuse, Return
<1>2. EvidenceOK'
  BY <1>1 DEF Refuse, RetrievalInv, EvidenceOK, Holding, Ended
<1>3. CurrentMeansCurrent'
  BY <1>1 DEF CurrentMeansCurrent
<1> QED
  BY <1>1, <1>2, <1>3, ReturnKeepsInv

\* A result that keeps evidence which was held before.
LEMMA KeptEvidenceIsHeld ==
  ASSUME EvidenceOK, Holding, UNCHANGED <<docs, index, atScore>>,
         evidence' \subseteq evidence, evidence' # {}
  PROVE  EvidenceOK'
BY DEF EvidenceOK

LEMMA CutKeepsInv ==
  ASSUME RetrievalInv, NEW to \in {"governed", "answered"}, NEW kept \in SUBSET evidence,
         Cut(to, kept), Holding, to = "answered" => phase = "current",
         UNCHANGED <<docs, index, atScore, atCheck>>
  PROVE  RetrievalInv'
<1>1. EvidenceOK'
  BY KeptEvidenceIsHeld DEF RetrievalInv, Cut
<1>2. CurrentMeansCurrent'
  BY DEF RetrievalInv, Cut, Return, CurrentMeansCurrent
<1> QED
  BY <1>1, <1>2, ReturnKeepsInv DEF Cut

\* A step that takes nothing from the documents, the index and the evidence
\* keeps what was said of documents that are not open.
LEMMA UnmovedStays ==
  ASSUME UNCHANGED <<docs, index, first, atScore, evidence, atCheck>>
  PROVE  /\ HeldIfUnmoved => HeldIfUnmoved'
         /\ CurrentIfUnmoved => CurrentIfUnmoved'
BY ClearIsUnchanged DEF HeldIfUnmoved, CurrentIfUnmoved, Of

LEMMA ReadDocumentKeepsInv ==
  ASSUME RetrievalInv, ReadDocument PROVE RetrievalInv'
<1> DEFINE d == Head(todo)
<1>1. UNCHANGED <<docs, index, atScore, atCheck>>
  BY DEF ReadDocument, history
<1>2. CASE ~Known(d) /\ Refuse("INDEX_INTEGRITY_FAILED")
  BY <1>1, <1>2, RefusalKeepsInv
<1>3. CASE /\ open' \in {Nothing, docs[d]}
           /\ open' = docs[d] => todo' = todo
           /\ UNCHANGED <<phase, fault, found, first, scored, evidence, reason>>
  <2>1. StoresOK' /\ CollectedOK(found)' /\ CollectedOK(first)' /\ EvidenceOK'
        /\ CurrentMeansCurrent'
    BY <1>1, <1>3 DEF RetrievalInv, StoresOK, CollectedOK, Past, EvidenceOK, Holding,
                      CurrentMeansCurrent
  <2>2. OpenOK'
    BY <1>1, <1>3 DEF RetrievalInv, StoresOK, OpenOK, Past, Snapshot, Nothing
  <2>3. HeldIfUnmoved => HeldIfUnmoved' /\ HeldIfOpen'
    BY <1>1, <1>3, UnmovedStays, ClearIsUnchanged DEF HeldIfUnmoved, HeldIfOpen, Of, Nothing
  <2>4. RevalidatingOK'
    BY <1>1, <1>3, <2>3 DEF RetrievalInv, RevalidatingOK, HeldIfFound
  <2>5. CurrentIfUnmoved => CurrentIfUnmoved' /\ CurrentIfOpen'
    BY <1>1, <1>3, UnmovedStays, ClearIsUnchanged DEF CurrentIfUnmoved, CurrentIfOpen, Nothing
  <2>6. CheckingOK'
    BY <1>1, <1>3, <2>5 DEF RetrievalInv, CheckingOK, CurrentIfFound
  <2> QED
    BY <2>1, <2>2, <2>4, <2>6 DEF RetrievalInv
<1>4. Known(d) => docs[d] # Nothing
  BY DEF Known, Nothing
<1> QED
  BY <1>2, <1>3, <1>4 DEF ReadDocument

LEMMA ListChunksKeepsInv ==
  ASSUME RetrievalInv, ListChunks PROVE RetrievalInv'
<1> DEFINE d == Head(todo)
           New == {[record |-> r, revision |-> open.revision] : r \in Eligible(d, open.current)}
<1>1. UNCHANGED <<docs, index, atScore, atCheck>>
  BY DEF ListChunks, history
<1>2. CASE Refuse("INDEX_INTEGRITY_FAILED")
  BY <1>1, <1>2, RefusalKeepsInv
<1>3. CASE /\ ~Ambiguous(d, open.current)
           /\ found' = found \cup New
           /\ todo' = Tail(todo)
           /\ open' = Nothing
           /\ UNCHANGED <<phase, fault, first, scored, evidence, reason>>
  <2>1. StoresOK' /\ CollectedOK(first)' /\ EvidenceOK' /\ CurrentMeansCurrent' /\ OpenOK'
    BY <1>1, <1>3 DEF RetrievalInv, StoresOK, CollectedOK, Past, EvidenceOK, Holding,
                      CurrentMeansCurrent, OpenOK, Nothing
  <2>2. open # Nothing
    BY DEF ListChunks
  <2>3. ASSUME NEW f \in New
        PROVE  /\ f.record \in Records /\ index[f.record] = "embedded"
               /\ Of(f) = d /\ d \in Documents
               /\ f.record.version = open.current /\ f.revision = open.revision
    BY DEF Eligible, Stored, Of, Records
  <2>4. CollectedOK(found)'
    <3>1. ASSUME NEW f \in New PROVE Past(Seen(f), Of(f))
      BY <2>2, <2>3 DEF RetrievalInv, OpenOK, Past, Seen, Snapshot
    <3> QED
      BY <1>1, <1>3, <2>3, <3>1 DEF RetrievalInv, CollectedOK, Past
  <2>5. RevalidatingOK'
    <3> SUFFICES ASSUME phase = "revalidating" PROVE RevalidatingOK'
      BY <1>3 DEF RevalidatingOK
    <3>1. ASSUME NEW f \in New \cap first PROVE EvidenceKey(f.record) \in atScore
      BY <1>3, <2>2, <2>3 DEF RetrievalInv, RevalidatingOK, HeldIfOpen, Clear
    <3>2. HeldIfFound'
      BY <1>1, <1>3, <3>1 DEF RetrievalInv, RevalidatingOK, HeldIfFound, EvidenceKey
    <3>3. HeldIfUnmoved' /\ HeldIfOpen'
      BY <1>1, <1>3, UnmovedStays DEF RetrievalInv, RevalidatingOK, HeldIfOpen, Nothing
    <3> QED
      BY <1>3, <3>2, <3>3 DEF RetrievalInv, RevalidatingOK
  <2>6. CheckingOK'
    <3> SUFFICES ASSUME phase = "checking" PROVE CheckingOK'
      BY <1>3 DEF CheckingOK
    <3>1. ASSUME NEW f \in New, EvidenceKey(f.record) \in evidence
          PROVE  EvidenceKey(f.record) \in atCheck
      <4>1. EvidenceKey(f.record).document = d /\ EvidenceKey(f.record).version = open.current
        BY <2>3 DEF EvidenceKey, Of
      <4> QED
        BY <1>3, <2>2, <3>1, <4>1 DEF RetrievalInv, CheckingOK, CurrentIfOpen, Clear
    <3>2. CurrentIfFound'
      BY <1>1, <1>3, <3>1 DEF RetrievalInv, CheckingOK, CurrentIfFound, EvidenceKey
    <3>3. CurrentIfUnmoved' /\ CurrentIfOpen'
      BY <1>1, <1>3, UnmovedStays DEF RetrievalInv, CheckingOK, CurrentIfOpen, Nothing
    <3> QED
      BY <1>3, <3>2, <3>3 DEF CheckingOK
  <2> QED
    BY <2>1, <2>4, <2>5, <2>6 DEF RetrievalInv
<1> QED
  BY <1>2, <1>3 DEF ListChunks

LEMMA RetrieveKeepsInv ==
  ASSUME RetrievalInv, NEW f \in Faults, Retrieve(f) PROVE RetrievalInv'
<1>1. UNCHANGED <<docs, index, first, scored, evidence, atScore, atCheck>>
  BY DEF Retrieve
<1>2. /\ phase' \in {"ranking", "refused"}
      /\ (found' = {} /\ open' = Nothing) \/ UNCHANGED <<todo, open, found>>
  BY DEF Retrieve, Collect
<1>3. StoresOK' /\ CollectedOK(found)' /\ CollectedOK(first)'
  BY <1>1, <1>2 DEF RetrievalInv, StoresOK, CollectedOK, Past
<1>4. OpenOK'
  BY <1>1, <1>2 DEF RetrievalInv, OpenOK, Past, Nothing
<1>5. RevalidatingOK' /\ EvidenceOK' /\ CheckingOK' /\ CurrentMeansCurrent'
  BY <1>2 DEF RevalidatingOK, EvidenceOK, Holding, Ended, CheckingOK, CurrentMeansCurrent
<1> QED
  BY <1>3, <1>4, <1>5 DEF RetrievalInv

LEMMA ScoreKeepsInv ==
  ASSUME RetrievalInv, Score PROVE RetrievalInv'
<1>1. UNCHANGED <<docs, index, atCheck>>
  BY DEF Score
<1>2. ASSUME NEW why, Refuse(why), UNCHANGED atScore PROVE RetrievalInv'
  BY <1>1, <1>2, RefusalKeepsInv
<1>3. ASSUME NEW hits \in (SUBSET found) \ {{}},
             Collect("revalidating", Mapped), first' = found, scored' = hits,
             atScore' = Citable, UNCHANGED <<fault, evidence, reason>>
      PROVE  RetrievalInv'
  <2> USE <1>1, <1>3 DEF Collect
  <2>1. StoresOK' /\ CollectedOK(found)' /\ CollectedOK(first)' /\ OpenOK'
    BY DEF RetrievalInv, StoresOK, CollectedOK, Past, OpenOK
  <2>2. EvidenceOK' /\ CheckingOK' /\ CurrentMeansCurrent'
    BY DEF EvidenceOK, Holding, Ended, CheckingOK, CurrentMeansCurrent
  <2>3. ASSUME NEW f \in found, f.revision = docs[Of(f)].revision,
               Clear(Of(f), f.record.version)
        PROVE  EvidenceKey(f.record) \in Citable
    <3>1. f.record \in Records /\ index[f.record] = "embedded" /\ Past(Seen(f), Of(f))
      BY DEF RetrievalInv, CollectedOK
    <3>2. Of(f) \in Documents /\ f.record.version = docs[Of(f)].current
      BY <2>3, <3>1 DEF Past, Seen, Of, Records
    <3>3. f.record \in Eligible(Of(f), docs[Of(f)].current)
      BY <3>1, <3>2 DEF Eligible, Stored, Of
    <3>4. ~Ambiguous(Of(f), docs[Of(f)].current)
      BY <2>3, <3>2 DEF Clear
    <3> QED
      BY <3>2, <3>3, <3>4 DEF Citable
  <2>4. HeldIfUnmoved'
    BY <2>3, ClearIsUnchanged DEF HeldIfUnmoved, Of
  <2>5. HeldIfOpen' /\ HeldIfFound'
    BY DEF HeldIfOpen, HeldIfFound, Nothing
  <2>6. scored' # {} /\ scored' \subseteq first'
    OBVIOUS
  <2>7. RevalidatingOK'
    BY <2>4, <2>5, <2>6 DEF RevalidatingOK
  <2> QED
    BY <2>1, <2>2, <2>7 DEF RetrievalInv
<1> QED
  BY <1>2, <1>3 DEF Score

LEMMA RevalidateKeepsInv ==
  ASSUME RetrievalInv, Revalidate PROVE RetrievalInv'
<1>1. UNCHANGED <<docs, index, atScore, atCheck>>
  BY DEF Revalidate, history
<1>2. CASE Refuse("INDEX_INTEGRITY_FAILED")
  BY <1>1, <1>2, RefusalKeepsInv
<1>3. CASE found = first /\ Retrieved(scored)
  <2>1. scored # {} /\ scored \subseteq first /\ HeldIfFound
    BY DEF RetrievalInv, Revalidate, RevalidatingOK
  <2>2. Return("retrieved") /\ evidence' = Snapshots(scored) /\ phase' = "retrieved"
    BY <1>3 DEF Retrieved, Return
  <2>3. evidence' # {} /\ evidence' \subseteq atScore
    BY <1>3, <2>1, <2>2 DEF Snapshots, HeldIfFound
  <2>4. ASSUME NEW e \in evidence'
        PROVE  /\ e \in Keys
               /\ e.version <= docs[e.document].current
               /\ \E r \in Records : index[r] = "embedded" /\ EvidenceKey(r) = e
    <3>1. PICK f \in first : e = EvidenceKey(f.record)
      BY <2>1, <2>2 DEF Snapshots
    <3>2. f.record \in Records /\ index[f.record] = "embedded" /\ Past(Seen(f), Of(f))
      BY DEF RetrievalInv, CollectedOK
    <3>3. e \in Keys /\ e.document = Of(f) /\ e.version = f.record.version
      BY <3>1, <3>2 DEF EvidenceKey, Keys, Records, Of
    <3>4. e.version <= docs[e.document].current
      BY <3>2, <3>3 DEF Past, Seen
    <3> QED
      BY <3>1, <3>2, <3>3, <3>4
  <2>5. EvidenceOK'
    BY <1>1, <2>3, <2>4 DEF EvidenceOK, EvidenceKey
  <2>6. CurrentMeansCurrent'
    BY <2>2 DEF CurrentMeansCurrent
  <2> QED
    BY <1>1, <2>2, <2>5, <2>6, ReturnKeepsInv
<1> QED
  BY <1>2, <1>3 DEF Revalidate

LEMMA CheckKeepsInv ==
  ASSUME RetrievalInv, Check PROVE RetrievalInv'
<1> USE DEF Check, Collect
<1>1. Holding
  BY DEF Holding, Ended
<1>2. StoresOK' /\ CollectedOK(found)' /\ CollectedOK(first)' /\ OpenOK'
  BY DEF RetrievalInv, StoresOK, CollectedOK, Past, OpenOK
<1>3. EvidenceOK'
  BY <1>1, KeptEvidenceIsHeld DEF RetrievalInv, EvidenceOK
<1>4. RevalidatingOK' /\ CurrentMeansCurrent'
  BY DEF RevalidatingOK, CurrentMeansCurrent
<1>5. ASSUME NEW e \in evidence, e.version = docs[e.document].current,
             Clear(e.document, e.version)
      PROVE  e \in Citable
  <2>1. PICK r \in Records : index[r] = "embedded" /\ EvidenceKey(r) = e
    BY <1>1 DEF RetrievalInv, EvidenceOK
  <2>2. r.document = e.document /\ r.version = e.version /\ e.document \in Documents
    BY <2>1 DEF EvidenceKey, Records
  <2>3. r \in Eligible(e.document, docs[e.document].current)
    BY <1>5, <2>1, <2>2 DEF Eligible, Stored
  <2> QED
    BY <1>5, <2>1, <2>2, <2>3 DEF Citable, Clear
<1>6. CurrentIfUnmoved'
  BY <1>5, ClearIsUnchanged DEF CurrentIfUnmoved
<1>7. CurrentIfOpen' /\ CurrentIfFound'
  BY DEF CurrentIfOpen, CurrentIfFound, Nothing
<1> QED
  BY <1>2, <1>3, <1>4, <1>6, <1>7 DEF RetrievalInv, CheckingOK

LEMMA VerdictKeepsInv ==
  ASSUME RetrievalInv, Verdict PROVE RetrievalInv'
<1> DEFINE to == IF StillThere THEN "current" ELSE "stale"
<1>1. UNCHANGED <<docs, index, evidence, atScore, atCheck>> /\ Holding
      /\ Return(to) /\ phase' = to
  BY DEF Verdict, history, Holding, Return
<1>2. EvidenceOK'
  BY <1>1, KeptEvidenceIsHeld DEF RetrievalInv, EvidenceOK
<1>3. StillThere => evidence \subseteq atCheck
  BY DEF Verdict, StillThere, Snapshots, RetrievalInv, CheckingOK, CurrentIfFound
<1>4. CurrentMeansCurrent'
  BY <1>1, <1>3 DEF CurrentMeansCurrent
<1> QED
  BY <1>1, <1>2, <1>4, ReturnKeepsInv

LEMMA OtherStepsKeepInv ==
  ASSUME RetrievalInv, LoseRepository \/ Build \/ ApplyPolicy \/ Answer \/ Release
  PROVE  RetrievalInv'
<1>1. CASE LoseRepository
  BY <1>1, RefusalKeepsInv DEF LoseRepository, history
<1>2. CASE Build
  BY <1>2 DEF Build, history, RetrievalInv, StoresOK, CollectedOK, Past, OpenOK, RevalidatingOK,
     EvidenceOK, Holding, Ended, CheckingOK, CurrentMeansCurrent
<1>3. CASE ApplyPolicy
  BY <1>3, CutKeepsInv, RefusalKeepsInv DEF ApplyPolicy, Holding, Ended, history
<1>4. CASE Answer
  BY <1>4, CutKeepsInv, RefusalKeepsInv DEF Answer, Holding, Ended, history
<1>5. CASE Release
  BY <1>5 DEF Release, RetrievalInv, StoresOK, CollectedOK, Past, OpenOK, RevalidatingOK,
     EvidenceOK, Holding, Ended, CheckingOK, CurrentMeansCurrent
<1> QED
  BY <1>1, <1>2, <1>3, <1>4, <1>5

LEMMA StutteringKeepsInv ==
  ASSUME RetrievalInv, UNCHANGED vars PROVE RetrievalInv'
<1>1. StoresOK' /\ Grows
  BY DEF RetrievalInv, StoresOK, Grows, Snapshot, vars
<1> QED
  BY <1>1, EnvironmentKeepsInv DEF vars, history

-----------------------------------------------------------------------------

\* What a retrieval holds of documents it reads without a lock: whatever of it
\* has the revision it was read with still holds, and only newer versions and
\* more records can have come since.
THEOREM RetrievalInvariant == Spec => []RetrievalInv
<1>1. Init => RetrievalInv
  <2> SUFFICES ASSUME Init PROVE RetrievalInv
    OBVIOUS
  <2>1. StoresOK
    BY DEF Init, StoresOK, Snapshot, Kinds
  <2> QED
    BY <2>1 DEF Init, RetrievalInv, CollectedOK, OpenOK, RevalidatingOK, EvidenceOK, Holding,
                Ended, CheckingOK, CurrentMeansCurrent
<1>2. RetrievalInv /\ [Next]_vars => RetrievalInv'
  <2> SUFFICES ASSUME RetrievalInv, [Next]_vars PROVE RetrievalInv'
    OBVIOUS
  <2>1. CASE Govern \/ IndexDocument
    BY <2>1, GovernanceGrows, IndexingGrows, EnvironmentKeepsInv DEF RetrievalInv
  <2>2. CASE CollectOne
    BY <2>2, ReadDocumentKeepsInv, ListChunksKeepsInv, OtherStepsKeepInv DEF CollectOne
  <2>3. ASSUME NEW f \in Faults, Retrieve(f) PROVE RetrievalInv'
    BY <2>3, RetrieveKeepsInv
  <2>4. CASE Score \/ Revalidate \/ Check \/ Verdict
    BY <2>4, ScoreKeepsInv, RevalidateKeepsInv, CheckKeepsInv, VerdictKeepsInv
  <2>5. CASE Build \/ ApplyPolicy \/ Answer \/ Release
    BY <2>5, OtherStepsKeepInv
  <2>6. CASE UNCHANGED vars
    BY <2>6, StutteringKeepsInv
  <2> QED
    BY <2>1, <2>2, <2>3, <2>4, <2>5, <2>6 DEF Next
<1> QED
  BY <1>1, <1>2, PTL DEF Spec

\* All evidence of a retrieval, of a cut by the policy and of an answer of the
\* assistant could be cited at one moment after the scorer had run, for any
\* number of documents that are approved, processed and indexed meanwhile.
THEOREM EvidenceAlwaysHeldTogether == Spec => []EvidenceHeldTogether
<1>1. RetrievalInv => EvidenceHeldTogether
  BY DEF RetrievalInv, EvidenceOK, Holding, EvidenceHeldTogether
<1> QED
  BY <1>1, RetrievalInvariant, PTL

\* A verification that says yes is right about the moment it was asked.
THEOREM VerdictsAreOfTheQuestion == Spec => []CurrentMeansCurrent
<1>1. RetrievalInv => CurrentMeansCurrent
  BY DEF RetrievalInv
<1> QED
  BY <1>1, RetrievalInvariant, PTL

-----------------------------------------------------------------------------
(***************************************************************************)
(* Refusals.  As long as nothing is disturbed a collection holds what the  *)
(* documents it has read hold now, so that a second one agrees with it and *)
(* what cannot be collected is the index's own fault.  Whatever a document *)
(* lacks when it is read it lacked when the collection began, or at the    *)
(* disturbance that is seen since.                                         *)
(***************************************************************************)

\* A collection of the mapped documents: those it has read.
Ranked == phase \in {"ranking", "revalidating"}
DocumentsOf(s) == {s[i] : i \in 1..Len(s)}
Read == {Mapped[i] : i \in 1..(Len(Mapped) - Len(todo))}

\* What a collection finds of a document, and of several, at this moment.
Now(d) ==
  {[record |-> r, revision |-> docs[d].revision] : r \in Eligible(d, docs[d].current)}
NowOf(D) == UNION {Now(d) : d \in D}

TodoOK ==
  /\ phase # "starting" => \A d \in Documents : Known(d)
  /\ phase \in Collecting => todo \in Seq(Documents)
  /\ phase \in Collecting /\ open # Nothing => todo # <<>>
  /\ Ranked =>
       /\ Len(todo) <= Len(Mapped)
       /\ \A i \in 1..Len(todo) : todo[i] = Mapped[Len(Mapped) - Len(todo) + i]

SteadyOK ==
  ~disturbed =>
    /\ phase \in Collecting /\ open # Nothing => open = docs[Head(todo)]
    /\ Ranked => found = NowOf(Read)
    /\ phase = "revalidating" => first = NowOf(DocumentsOf(Mapped))

BareOK ==
  phase = "ranking" =>
    /\ Bare \subseteq bare
    /\ \A d \in Read : d \in bare \/ \E f \in found : Of(f) = d
    /\ open # Nothing /\ Eligible(Head(todo), open.current) = {} => Head(todo) \in bare

ReasonOK ==
  /\ reason # "none" => phase \in {"refused", "unknown"}
  /\ RefusalsHaveACause

CauseInv == TodoOK /\ SteadyOK /\ BareOK /\ ReasonOK

LEMMA MappingIsOfSequences ==
  ASSUME NEW f \in DOMAIN Mapping PROVE Mapping[f] \in Seq(Documents)
<1> DEFINE S == {Mapping[f][i] : i \in DOMAIN Mapping[f]}
<1>1. Mapping[f] \in Seq(S)
  BY MappingAssumption
<1>2. S \subseteq Documents
  BY DEF Documents
<1> HIDE DEF S
<1> QED
  BY <1>1, <1>2

LEMMA DocumentsAreFinite == IsFiniteSet(Documents)
<1> DEFINE Named(f) == {Mapping[f][i] : i \in DOMAIN Mapping[f]}
           Sets == {Named(f) : f \in DOMAIN Mapping}
           Naming == [f \in DOMAIN Mapping |-> Named(f)]
<1>1. ASSUME NEW f \in DOMAIN Mapping PROVE IsFiniteSet(Named(f))
  <2>1. Mapping[f] \in Seq(Documents)
    BY MappingIsOfSequences
  <2>2. Len(Mapping[f]) \in Nat /\ DOMAIN Mapping[f] = 1..Len(Mapping[f])
        /\ Mapping[f] = [i \in 1..Len(Mapping[f]) |-> Mapping[f][i]]
    BY <2>1
  <2>3. Mapping[f] \in Surjection(1..Len(Mapping[f]), Named(f))
    BY <2>2 DEF Surjection
  <2>4. IsFiniteSet(1..Len(Mapping[f]))
    <3>1. Len(Mapping[f]) \in Int /\ 1 \in Int
      BY <2>2
    <3> HIDE DEF Named
    <3> QED
      BY <3>1, FS_Interval, Zenon
  <2> HIDE DEF Named
  <2> QED
    BY <2>3, <2>4, FS_Surjection
<1>2. IsFiniteSet(Sets)
  <2>1. Naming \in Surjection(DOMAIN Mapping, Sets)
    BY DEF Surjection
  <2> HIDE DEF Naming, Sets
  <2> QED
    BY <2>1, MappingAssumption, FS_Surjection
<1>3. \A S \in Sets : IsFiniteSet(S)
  BY <1>1
<1>4. Documents = UNION Sets
  BY DEF Documents
<1> HIDE DEF Sets
<1> QED
  BY <1>2, <1>3, <1>4, FS_UNION

LEMMA MappedIsSequence == Mapped \in Seq(Documents)
BY MappingIsOfSequences DEF Mapped

\* The next document is known, and none of those already read.
LEMMA NextDocument ==
  ASSUME TodoOK, phase \in Collecting, todo # <<>>
  PROVE  /\ Head(todo) \in Documents
         /\ Known(Head(todo))
         /\ Tail(todo) \in Seq(Documents)
<1>1. phase # "starting" /\ todo \in Seq(Documents)
  BY DEF TodoOK, Collecting
<1>2. Head(todo) \in Documents /\ Tail(todo) \in Seq(Documents)
  BY <1>1
<1> QED
  BY <1>1, <1>2 DEF TodoOK

\* Reading it adds it to the documents read.
LEMMA OneMoreIsRead ==
  ASSUME TodoOK, phase \in Collecting, todo # <<>>, todo' = Tail(todo),
         open' = Nothing, UNCHANGED <<phase, fault, docs>>
  PROVE  TodoOK' /\ (Ranked => Read' = Read \cup {Head(todo)})
<1>1. Tail(todo) \in Seq(Documents) /\ todo \in Seq(Documents) /\ Mapped' = Mapped
  BY NextDocument DEF TodoOK, Mapped
<1>2. /\ Len(todo) \in Nat /\ Len(todo) > 0
      /\ Len(Tail(todo)) = Len(todo) - 1 /\ Head(todo) = todo[1]
      /\ \A i \in 1..Len(Tail(todo)) : Tail(todo)[i] = todo[i + 1]
  BY <1>1
<1>3. Len(Mapped) \in Nat
  BY MappedIsSequence
<1>4. ASSUME Ranked
      PROVE  /\ Len(todo) <= Len(Mapped)
             /\ \A i \in 1..Len(todo) : todo[i] = Mapped[Len(Mapped) - Len(todo) + i]
  BY <1>4 DEF TodoOK
<1>5. ASSUME Ranked
      PROVE  /\ Len(todo') <= Len(Mapped')
             /\ \A i \in 1..Len(todo') : todo'[i] = Mapped'[Len(Mapped') - Len(todo') + i]
  <2>1. Len(todo') <= Len(Mapped')
    BY <1>1, <1>2, <1>3, <1>4, <1>5
  <2>2. ASSUME NEW i \in 1..Len(todo')
        PROVE  todo'[i] = Mapped'[Len(Mapped') - Len(todo') + i]
    <3>1. i + 1 \in 1..Len(todo) /\ todo'[i] = todo[i + 1]
      BY <1>2, <2>2
    <3>2. todo[i + 1] = Mapped[Len(Mapped) - Len(todo) + (i + 1)]
      BY <1>4, <1>5, <3>1
    <3>3. Len(Mapped) - Len(todo) + (i + 1) = Len(Mapped) - Len(todo') + i
      BY <1>2, <1>3
    <3> QED
      BY <1>1, <3>1, <3>2, <3>3
  <2> QED
    BY <2>1, <2>2
<1>6. TodoOK'
  BY <1>1, <1>5 DEF TodoOK, Ranked, Known
<1>7. ASSUME Ranked PROVE Read' = Read \cup {Head(todo)}
  <2> DEFINE n == Len(Mapped) - Len(todo)
  <2>1. n \in Nat /\ Len(Mapped) - Len(Tail(todo)) = n + 1
    BY <1>2, <1>3, <1>4, <1>7
  <2>2. Head(todo) = Mapped[n + 1]
    BY <1>2, <1>4, <1>7
  <2> HIDE DEF n
  <2>3. {Mapped[i] : i \in 1..(n + 1)} = {Mapped[i] : i \in 1..n} \cup {Mapped[n + 1]}
    BY <2>1
  <2> QED
    BY <1>1, <2>1, <2>2, <2>3 DEF Read, n
<1> QED
  BY <1>6, <1>7

\* Nothing is left to be read: the collection was of all mapped documents.
LEMMA AllAreRead ==
  ASSUME todo = <<>> PROVE Read = DocumentsOf(Mapped)
BY MappedIsSequence DEF Read, DocumentsOf

LEMMA NowIsUnchanged ==
  ASSUME UNCHANGED <<docs, index>>, NEW D
  PROVE  NowOf(D)' = NowOf(D) /\ Bare' = Bare
BY DEF NowOf, Now, Bare, Eligible, Stored, Ambiguous

LEMMA EligibleStays ==
  ASSUME Grows, NEW d, NEW v PROVE Eligible(d, v) \subseteq Eligible(d, v)'
BY DEF Grows, Eligible, Stored

LEMMA EnvironmentKeepsCause ==
  ASSUME CauseInv, StoresOK, StoresOK', Grows, Disturb
  PROVE  CauseInv'
<1>1. /\ disturbed' = Busy /\ bare \subseteq bare'
      /\ phase = "ranking" => bare' = bare \cup Bare'
      /\ UNCHANGED <<phase, fault, todo, open, found, first, reason>>
  BY DEF Disturb, retrieval
<1>2. Mapped' = Mapped /\ Read' = Read
  BY <1>1 DEF Mapped, Read
<1>3. TodoOK'
  <2>1. ASSUME NEW d \in Documents, Known(d) PROVE Known(d)'
    BY <2>1, NumbersGrow DEF Known
  <2> QED
    BY <1>1, <1>2, <2>1 DEF CauseInv, TodoOK, Ranked
<1>4. SteadyOK'
  BY <1>1 DEF SteadyOK, Ranked, Collecting, Busy
<1>5. BareOK'
  <2> SUFFICES ASSUME phase = "ranking" PROVE BareOK'
    BY <1>1 DEF BareOK
  <2>1. BareOK /\ Bare' \subseteq bare'
    BY <1>1 DEF CauseInv
  <2>2. ASSUME open # Nothing, Eligible(Head(todo), open.current)' = {}
        PROVE  Head(todo) \in bare'
    <3>1. Eligible(Head(todo), open.current) = {}
      BY <1>1, <2>2, EligibleStays
    <3> QED
      BY <1>1, <2>1, <2>2, <3>1 DEF BareOK
  <2> QED
    BY <1>1, <1>2, <2>1, <2>2 DEF BareOK, Of
<1>6. ReasonOK'
  <2>1. reason # "none" => phase \in {"refused", "unknown"}
    BY DEF CauseInv, ReasonOK
  <2>2. reason' = "INDEX_INTEGRITY_FAILED" => disturbed'
    BY <1>1, <2>1 DEF Busy
  <2> QED
    BY <1>1, <1>2, <2>1, <2>2 DEF CauseInv, ReasonOK, RefusalsHaveACause
<1> QED
  BY <1>3, <1>4, <1>5, <1>6 DEF CauseInv

\* A step after which nothing is being collected.
LEMMA EndKeepsCause ==
  ASSUME CauseInv, phase # "starting", phase' \notin Collecting, UNCHANGED docs, ReasonOK'
  PROVE  CauseInv'
BY DEF CauseInv, TodoOK, SteadyOK, BareOK, Ranked, Collecting, Known

LEMMA RefusalKeepsCause ==
  ASSUME CauseInv, NEW why, Refuse(why), UNCHANGED <<docs, index, disturbed, bare>>,
         phase # "starting",
         why = "INDEX_INTEGRITY_FAILED" =>
           disturbed \/ \E d \in Documents : Ambiguous(d, docs[d].current),
         why = "NO_APPROVED_COVERAGE" => \A i \in DOMAIN Mapped : Mapped[i] \in bare
  PROVE  CauseInv'
<1>1. reason' = why /\ phase' \in {"refused", "unknown"} /\ UNCHANGED fault
  BY DEF Refuse, Return
<1>2. ReasonOK'
  BY <1>1 DEF ReasonOK, RefusalsHaveACause, Mapped, Ambiguous, Stored
<1> QED
  BY <1>1, <1>2, EndKeepsCause DEF Collecting

\* A call that returns without a refusal.
LEMMA ResultKeepsCause ==
  ASSUME CauseInv, phase \notin {"starting", "refused", "unknown"},
         phase' \notin Collecting, UNCHANGED <<docs, reason>>
  PROVE  CauseInv'
<1>1. reason' = "none"
  BY DEF CauseInv, ReasonOK
<1>2. ReasonOK'
  BY <1>1 DEF ReasonOK, RefusalsHaveACause
<1> QED
  BY <1>2, EndKeepsCause

\* The snapshot of a document without an approved version: nothing can be
\* listed, and nothing is collected of it.
LEMMA NothingToList ==
  ASSUME StoresOK, NEW d \in Documents, docs[d].current = 0
  PROVE  Now(d) = {} /\ d \in Bare
<1>1. 0 \notin Versions
  BY VersionAssumption DEF Versions
<1>2. Eligible(d, docs[d].current) = {}
  BY <1>1 DEF Eligible, Stored, Records
<1> QED
  BY <1>2 DEF Now, Bare

LEMMA ReadDocumentKeepsCause ==
  ASSUME RetrievalInv, CauseInv, ReadDocument PROVE CauseInv'
<1> DEFINE d == Head(todo)
<1>1. /\ UNCHANGED <<docs, index, disturbed, bare>>
      /\ phase \in Collecting /\ phase # "starting" /\ todo # <<>> /\ open = Nothing
  BY DEF ReadDocument, history, Collecting
<1>2. d \in Documents /\ Known(d) /\ StoresOK
  BY <1>1, NextDocument DEF CauseInv, RetrievalInv
<1>3. CauseInv
  OBVIOUS
<1>4. CASE /\ docs[d].current = 0
           /\ todo' = Tail(todo)
           /\ UNCHANGED <<phase, fault, open, found, first, scored, evidence, reason>>
  <2>1. TodoOK' /\ (Ranked => Read' = Read \cup {d})
    BY <1>1, <1>3, <1>4, OneMoreIsRead DEF CauseInv
  <2>2. Now(d) = {} /\ d \in Bare
    BY <1>2, <1>4, NothingToList
  <2>3. NowOf(Read \cup {d}) = NowOf(Read)
    BY <2>2 DEF NowOf
  <2>4. SteadyOK'
    <3>1. ASSUME ~disturbed, Ranked PROVE found' = NowOf(Read')
      BY <1>1, <1>3, <1>4, <2>1, <2>3, <3>1 DEF CauseInv, SteadyOK
    <3>2. Mapped' = Mapped /\ (Ranked' <=> Ranked) /\ open' = Nothing
      BY <1>1, <1>4 DEF Mapped, Ranked
    <3>3. NowOf(DocumentsOf(Mapped))' = NowOf(DocumentsOf(Mapped))
      BY <1>1, <3>2 DEF NowOf, Now, Eligible, Stored, DocumentsOf
    <3>4. NowOf(Read)' = NowOf(Read')
      BY <1>1 DEF NowOf, Now, Eligible, Stored
    <3> QED
      BY <1>1, <1>3, <1>4, <3>1, <3>2, <3>3, <3>4 DEF CauseInv, SteadyOK, Nothing
  <2>5. BareOK'
    BY <1>1, <1>3, <1>4, <2>1, <2>2, NowIsUnchanged DEF CauseInv, BareOK, Ranked, Of
  <2>6. ReasonOK'
    BY <1>1, <1>3, <1>4 DEF CauseInv, ReasonOK, RefusalsHaveACause, Mapped, Ambiguous, Stored
  <2> QED
    BY <2>1, <2>4, <2>5, <2>6 DEF CauseInv
<1>5. CASE /\ docs[d].current # 0
           /\ open' = docs[d]
           /\ UNCHANGED <<phase, fault, todo, found, first, scored, evidence, reason>>
  <2>1. Mapped' = Mapped /\ Read' = Read /\ DocumentsOf(Mapped)' = DocumentsOf(Mapped)
    BY <1>5 DEF Mapped, Read, DocumentsOf
  <2>2. TodoOK'
    BY <1>1, <1>3, <1>5, <2>1 DEF CauseInv, TodoOK, Ranked, Known
  <2>3. SteadyOK'
    <3>1. NowOf(DocumentsOf(Mapped))' = NowOf(DocumentsOf(Mapped)) /\ NowOf(Read)' = NowOf(Read)
      BY <1>1, <2>1 DEF NowOf, Now, Eligible, Stored
    <3> QED
      BY <1>1, <1>3, <1>5, <3>1 DEF CauseInv, SteadyOK, Ranked
  <2>4. BareOK'
    <3>1. Eligible(d, docs[d].current)' = {} => d \in Bare
      BY <1>1, <1>2, <1>5 DEF Bare, Eligible, Stored
    <3>2. open' = docs'[Head(todo')]
      BY <1>1, <1>5
    <3>3. Eligible(Head(todo), open.current)' = {} => Head(todo') \in Bare
      BY <1>1, <1>5, <3>1 DEF Eligible, Stored
    <3> QED
      BY <1>1, <1>3, <1>5, <2>1, <3>3, NowIsUnchanged DEF CauseInv, BareOK, Of
  <2>5. ReasonOK'
    BY <1>1, <1>3, <1>5 DEF CauseInv, ReasonOK, RefusalsHaveACause, Mapped, Ambiguous, Stored
  <2> QED
    BY <2>2, <2>3, <2>4, <2>5 DEF CauseInv
<1> QED
  BY <1>2, <1>4, <1>5 DEF ReadDocument

LEMMA ListChunksKeepsCause ==
  ASSUME RetrievalInv, CauseInv, ListChunks PROVE CauseInv'
<1> DEFINE d == Head(todo)
           New == {[record |-> r, revision |-> open.revision] : r \in Eligible(d, open.current)}
<1>1. /\ UNCHANGED <<docs, index, disturbed, bare>>
      /\ phase \in Collecting /\ phase # "starting" /\ open # Nothing
  BY DEF ListChunks, history, Collecting
<1>2. todo # <<>>
  BY <1>1 DEF CauseInv, TodoOK
<1>3. d \in Documents
  BY <1>1, <1>2, NextDocument DEF CauseInv
<1>4. ~disturbed => open = docs[d]
  BY <1>1 DEF CauseInv, SteadyOK
<1>5. CASE Ambiguous(d, open.current) /\ Refuse("INDEX_INTEGRITY_FAILED")
  <2>1. disturbed \/ \E e \in Documents : Ambiguous(e, docs[e].current)
    BY <1>3, <1>4, <1>5
  <2> QED
    BY <1>1, <1>5, <2>1, RefusalKeepsCause
<1>6. CASE /\ found' = found \cup New
           /\ todo' = Tail(todo)
           /\ open' = Nothing
           /\ UNCHANGED <<phase, fault, first, scored, evidence, reason>>
  <2>1. TodoOK' /\ (Ranked => Read' = Read \cup {d})
    BY <1>1, <1>2, <1>6, OneMoreIsRead DEF CauseInv
  <2>2. Mapped' = Mapped /\ (Ranked' <=> Ranked)
    BY <1>6 DEF Mapped, Ranked
  <2>3. SteadyOK'
    <3>1. ASSUME ~disturbed, Ranked PROVE found' = NowOf(Read')
      <4>1. found = NowOf(Read) /\ New = Now(d)
        BY <1>4, <3>1 DEF CauseInv, SteadyOK, Now
      <4>2. NowOf(Read \cup {d}) = NowOf(Read) \cup Now(d)
        BY DEF NowOf
      <4> QED
        BY <1>1, <1>6, <2>1, <3>1, <4>1, <4>2
    <3>2. NowOf(DocumentsOf(Mapped))' = NowOf(DocumentsOf(Mapped))
      BY <1>1, <2>2 DEF NowOf, Now, Eligible, Stored, DocumentsOf
    <3>3. NowOf(Read)' = NowOf(Read')
      BY <1>1 DEF NowOf, Now, Eligible, Stored
    <3> QED
      BY <1>1, <1>6, <2>2, <3>1, <3>2, <3>3 DEF CauseInv, SteadyOK, Nothing
  <2>4. BareOK'
    <3> SUFFICES ASSUME phase = "ranking" PROVE BareOK'
      BY <1>6 DEF BareOK
    <3>1. BareOK /\ Read' = Read \cup {d}
      BY <2>1 DEF CauseInv, Ranked
    <3>2. d \in bare \/ \E f \in New : Of(f) = d
      <4>1. ASSUME NEW r \in Eligible(d, open.current)
            PROVE  \E f \in New : Of(f) = d
        <5>1. r.document = d
          BY DEF Eligible, Stored
        <5>2. [record |-> r, revision |-> open.revision] \in New
          OBVIOUS
        <5> QED
          BY <5>1, <5>2 DEF Of
      <4> QED
        BY <1>1, <3>1, <4>1 DEF BareOK
    <3>3. \A e \in Read' : e \in bare' \/ \E f \in found' : Of(f) = e
      BY <1>1, <1>6, <3>1, <3>2 DEF BareOK
    <3> QED
      BY <1>1, <1>6, <3>1, <3>3, NowIsUnchanged DEF BareOK, Of, Nothing
  <2>5. ReasonOK'
    BY <1>1, <1>6 DEF CauseInv, ReasonOK, RefusalsHaveACause, Mapped, Ambiguous, Stored
  <2> QED
    BY <2>1, <2>3, <2>4, <2>5 DEF CauseInv
<1> QED
  BY <1>5, <1>6 DEF ListChunks

LEMMA RetrieveKeepsCause ==
  ASSUME RetrievalInv, CauseInv, NEW f \in Faults, Retrieve(f) PROVE CauseInv'
<1>1. /\ phase = "idle" /\ UNCHANGED <<docs, index, first>>
      /\ fault' = f /\ disturbed' = FALSE /\ bare' = Bare
  BY DEF Retrieve
<1>2. reason = "none"
  BY <1>1 DEF CauseInv, ReasonOK
<1>3. CASE /\ f \in DOMAIN Mapping
           /\ Collect("ranking", Mapping[f]) /\ UNCHANGED reason
  <2>1. /\ phase' = "ranking" /\ todo' = Mapping[f] /\ open' = Nothing /\ found' = {}
        /\ reason' = "none"
    BY <1>2, <1>3 DEF Collect
  <2>2. Mapped' = todo'
    BY <1>1, <1>3, <2>1 DEF Mapped
  <2>3. Mapped' \in Seq(Documents)
    BY <1>3, <2>1, <2>2, MappingIsOfSequences
  <2>4. Read' = {}
    BY <2>2, <2>3 DEF Read
  <2>5. TodoOK'
    BY <1>1, <2>1, <2>2, <2>3 DEF CauseInv, TodoOK, Known
  <2>6. SteadyOK'
    BY <2>1, <2>4 DEF SteadyOK, NowOf
  <2>7. BareOK'
    BY <1>1, <2>1, <2>4, NowIsUnchanged DEF BareOK
  <2>8. ReasonOK'
    BY <2>1 DEF ReasonOK, RefusalsHaveACause
  <2> QED
    BY <2>5, <2>6, <2>7, <2>8 DEF CauseInv
<1>4. CASE /\ f \in DOMAIN Mapping => Mapping[f] = <<>>
           /\ phase' = "refused"
           /\ reason' = IF f \in DOMAIN Mapping THEN "NO_APPROVED_COVERAGE"
                                                ELSE "FAULT_CLASS_UNMAPPED"
  <2>1. Mapped' = <<>>
    BY <1>1, <1>4 DEF Mapped
  <2>2. ReasonOK'
    BY <1>4, <2>1 DEF ReasonOK, RefusalsHaveACause
  <2> QED
    BY <1>1, <1>4, <2>2, EndKeepsCause DEF Collecting
<1> QED
  BY <1>3, <1>4 DEF Retrieve

LEMMA ScoreKeepsCause ==
  ASSUME RetrievalInv, CauseInv, Score PROVE CauseInv'
<1>1. UNCHANGED <<docs, index, disturbed, bare>> /\ phase = "ranking" /\ todo = <<>>
  BY DEF Score
<1>2. Read = DocumentsOf(Mapped)
  BY <1>1, AllAreRead
<1>3. ASSUME found = {} PROVE \A i \in DOMAIN Mapped : Mapped[i] \in bare
  <2>1. \A d \in Read : d \in bare
    BY <1>1, <1>3 DEF CauseInv, BareOK
  <2>2. DOMAIN Mapped = 1..Len(Mapped)
    BY MappedIsSequence
  <2> QED
    BY <1>2, <2>1, <2>2 DEF DocumentsOf
<1>4. ASSUME NEW why, Refuse(why), why = "NO_APPROVED_COVERAGE" => found = {},
             why # "INDEX_INTEGRITY_FAILED"
      PROVE  CauseInv'
  BY <1>1, <1>3, <1>4, RefusalKeepsCause
<1>5. ASSUME Collect("revalidating", Mapped), first' = found, UNCHANGED <<fault, reason>>
      PROVE  CauseInv'
  <2>1. phase' = "revalidating" /\ todo' = Mapped /\ open' = Nothing /\ found' = {}
    BY <1>5 DEF Collect
  <2>2. Mapped' = Mapped /\ Mapped \in Seq(Documents)
    BY <1>5, MappedIsSequence DEF Mapped
  <2>3. Read' = {}
    BY <2>1, <2>2 DEF Read
  <2>4. TodoOK'
    BY <1>1, <2>1, <2>2 DEF CauseInv, TodoOK, Known
  <2>5. SteadyOK'
    <3>1. ASSUME ~disturbed PROVE first' = NowOf(DocumentsOf(Mapped))
      BY <1>1, <1>2, <1>5, <3>1 DEF CauseInv, SteadyOK, Ranked
    <3>2. NowOf(DocumentsOf(Mapped))' = NowOf(DocumentsOf(Mapped))
      BY <1>1, <2>2 DEF NowOf, Now, Eligible, Stored, DocumentsOf
    <3> QED
      BY <1>1, <2>1, <2>3, <3>1, <3>2 DEF SteadyOK, NowOf
  <2>6. BareOK' /\ reason' = "none"
    BY <1>1, <1>5, <2>1 DEF BareOK, CauseInv, ReasonOK
  <2>7. ReasonOK'
    BY <2>6 DEF ReasonOK, RefusalsHaveACause
  <2> QED
    BY <2>4, <2>5, <2>6, <2>7 DEF CauseInv
<1> QED
  BY <1>4, <1>5 DEF Score

LEMMA RevalidateKeepsCause ==
  ASSUME RetrievalInv, CauseInv, Revalidate PROVE CauseInv'
<1>1. /\ UNCHANGED <<docs, index, disturbed, bare>>
      /\ phase = "revalidating" /\ todo = <<>>
  BY DEF Revalidate, history
<1>2. CASE found = first /\ Retrieved(scored)
  <2>1. phase' = "retrieved" /\ UNCHANGED reason
    BY <1>2 DEF Retrieved, Return
  <2> QED
    BY <1>1, <2>1, ResultKeepsCause DEF Collecting
<1>3. CASE found # first /\ Refuse("INDEX_INTEGRITY_FAILED")
  <2>1. ~disturbed => found = first
    BY <1>1, AllAreRead DEF CauseInv, SteadyOK, Ranked
  <2> QED
    BY <1>1, <1>3, <2>1, RefusalKeepsCause
<1> QED
  BY <1>2, <1>3 DEF Revalidate

LEMMA CheckKeepsCause ==
  ASSUME RetrievalInv, CauseInv, Check PROVE CauseInv'
<1>1. /\ UNCHANGED <<docs, index, disturbed, bare, fault, reason>>
      /\ phase \in {"retrieved", "governed", "current"}
  BY DEF Check
<1>2. PICK documents \in Cited : Collect("checking", documents)
  BY DEF Check
<1>3. phase' = "checking" /\ todo' = documents /\ open' = Nothing
  BY <1>2 DEF Collect
<1>4. documents \in Seq(Documents)
  <2> DEFINE D == {e.document : e \in evidence}
  <2>1. \A e \in evidence : e.document \in Documents
    BY <1>1 DEF RetrievalInv, EvidenceOK, Holding, Ended, Keys
  <2>2. documents \in [1..Cardinality(D) -> D] /\ D \subseteq Documents
    BY <1>2, <2>1 DEF Cited, SetToSeqs
  <2>3. Cardinality(D) \in Nat
    BY <2>2, DocumentsAreFinite, FS_Subset, FS_CardinalityType
  <2> HIDE DEF D
  <2> QED
    BY <2>2, <2>3
<1>5. TodoOK'
  BY <1>1, <1>3, <1>4 DEF CauseInv, TodoOK, Ranked, Known
<1>6. SteadyOK' /\ BareOK'
  BY <1>3 DEF SteadyOK, BareOK, Ranked
<1>7. reason' = "none"
  BY <1>1 DEF CauseInv, ReasonOK
<1>8. ReasonOK'
  BY <1>7 DEF ReasonOK, RefusalsHaveACause
<1> QED
  BY <1>5, <1>6, <1>8 DEF CauseInv

LEMMA OtherStepsKeepCause ==
  ASSUME RetrievalInv, CauseInv,
         Verdict \/ LoseRepository \/ Build \/ ApplyPolicy \/ Answer \/ Release
  PROVE  CauseInv'
<1>1. CASE Verdict
  <2>1. phase = "checking" /\ phase' \in {"current", "stale"} /\ UNCHANGED <<docs, reason>>
    BY <1>1 DEF Verdict, Return
  <2> QED
    BY <2>1, ResultKeepsCause DEF Collecting
<1>2. CASE LoseRepository
  BY <1>2, RefusalKeepsCause DEF LoseRepository, history, Collecting
<1>3. CASE Build
  <2>1. /\ \A d \in Documents : Known(d)'
        /\ phase = "starting" /\ phase' = "idle" /\ reason' = reason
    BY <1>3 DEF Build, Known
  <2>2. reason' = "none"
    BY <2>1 DEF CauseInv, ReasonOK
  <2> QED
    BY <2>1, <2>2 DEF CauseInv, TodoOK, SteadyOK, BareOK, ReasonOK, RefusalsHaveACause,
                      Ranked, Collecting
<1>4. ASSUME NEW to \in {"governed", "answered"}, NEW kept, Cut(to, kept),
             phase \in {"retrieved", "current"}, UNCHANGED docs
      PROVE  CauseInv'
  <2>1. phase' = to /\ UNCHANGED reason
    BY <1>4 DEF Cut, Return
  <2> QED
    BY <1>4, <2>1, ResultKeepsCause DEF Collecting
<1>5. CASE ApplyPolicy
  BY <1>4, <1>5, RefusalKeepsCause DEF ApplyPolicy, history
<1>6. CASE Answer
  BY <1>4, <1>6, RefusalKeepsCause DEF Answer, history
<1>7. CASE Release
  <2>1. phase # "starting" /\ phase' = "idle" /\ reason' = "none" /\ UNCHANGED docs
    BY <1>7 DEF Release, Ended
  <2>2. ReasonOK'
    BY <2>1 DEF ReasonOK, RefusalsHaveACause
  <2> QED
    BY <2>1, <2>2, EndKeepsCause DEF Collecting
<1> QED
  BY <1>1, <1>2, <1>3, <1>5, <1>6, <1>7

LEMMA StutteringKeepsCause ==
  ASSUME CauseInv, UNCHANGED vars PROVE CauseInv'
<1> USE DEF vars, retrieval, history
<1>1. Mapped' = Mapped /\ Read' = Read /\ Bare' = Bare
  BY DEF Mapped, Read, Bare, Ambiguous, Eligible, Stored
<1>2. NowOf(Read)' = NowOf(Read) /\ NowOf(DocumentsOf(Mapped))' = NowOf(DocumentsOf(Mapped))
  BY <1>1 DEF NowOf, Now, Eligible, Stored, DocumentsOf
<1>3. TodoOK' /\ SteadyOK'
  BY <1>1, <1>2 DEF CauseInv, TodoOK, SteadyOK, Ranked, Known
<1>4. BareOK'
  BY <1>1 DEF CauseInv, BareOK, Eligible, Stored, Of
<1>5. ReasonOK'
  BY <1>1 DEF CauseInv, ReasonOK, RefusalsHaveACause, Ambiguous, Stored
<1> QED
  BY <1>3, <1>4, <1>5 DEF CauseInv

\* A refusal for the index was preceded by a change or finds one chunk stored
\* twice, and one for coverage by a moment, for each mapped document, at which
\* that document had nothing to cite: for any number of documents, although
\* the snapshot of each and its chunks are read apart.
THEOREM RefusalsAlwaysHaveACause == Spec => []RefusalsHaveACause
<1>1. Init => CauseInv
  BY DEF Init, CauseInv, TodoOK, SteadyOK, BareOK, ReasonOK, RefusalsHaveACause, Ranked,
         Collecting
<1>2. RetrievalInv /\ RetrievalInv' /\ CauseInv /\ [Next]_vars => CauseInv'
  <2> SUFFICES ASSUME RetrievalInv, RetrievalInv', CauseInv, [Next]_vars PROVE CauseInv'
    OBVIOUS
  <2>1. CASE Govern \/ IndexDocument
    <3>1. StoresOK /\ StoresOK' /\ Grows
      BY <2>1, GovernanceGrows, IndexingGrows DEF RetrievalInv
    <3>2. Disturb
      BY <2>1 DEF Govern, Register, Advance, Promote, IndexDocument, IndexVersion
    <3> QED
      BY <3>1, <3>2, EnvironmentKeepsCause
  <2>2. CASE ReadDocument \/ ListChunks
    BY <2>2, ReadDocumentKeepsCause, ListChunksKeepsCause
  <2>3. ASSUME NEW f \in Faults, Retrieve(f) PROVE CauseInv'
    BY <2>3, RetrieveKeepsCause
  <2>4. CASE Score \/ Revalidate \/ Check
    BY <2>4, ScoreKeepsCause, RevalidateKeepsCause, CheckKeepsCause
  <2>5. CASE Verdict \/ LoseRepository \/ Build \/ ApplyPolicy \/ Answer \/ Release
    BY <2>5, OtherStepsKeepCause
  <2>6. CASE UNCHANGED vars
    BY <2>6, StutteringKeepsCause
  <2> QED
    BY <2>1, <2>2, <2>3, <2>4, <2>5, <2>6 DEF Next, CollectOne
<1>3. CauseInv => RefusalsHaveACause
  BY DEF CauseInv, ReasonOK
<1> QED
  BY <1>1, <1>2, <1>3, RetrievalInvariant, PTL DEF Spec

-----------------------------------------------------------------------------
(* The text that is cited: sequences, and what is kept of a document.      *)

\* A finite sequence, whatever its elements.
IsSequence(s) == s \in Seq({s[i] : i \in DOMAIN s})

LEMMA Appending ==
  ASSUME NEW s, IsSequence(s), NEW e
  PROVE  /\ Len(s) \in Nat /\ IsSequence(Append(s, e)) /\ Len(Append(s, e)) = Len(s) + 1
         /\ \A i \in 1..Len(s) : Append(s, e)[i] = s[i]
         /\ Append(s, e)[Len(s) + 1] = e
<1> DEFINE S == {s[i] : i \in DOMAIN s}
           t == Append(s, e)
           T == {t[i] : i \in DOMAIN t}
<1>1. s \in Seq(S \cup {e}) /\ e \in S \cup {e}
  BY DEF IsSequence
<1> HIDE DEF S
<1>2. /\ t \in Seq(S \cup {e}) /\ Len(t) = Len(s) + 1 /\ Len(s) \in Nat
      /\ \A i \in 1..Len(s) : t[i] = s[i]
      /\ t[Len(s) + 1] = e
  BY <1>1
<1> HIDE DEF t
<1>3. DOMAIN t = 1..Len(t) /\ Len(t) \in Nat
  BY <1>2
<1>4. t \in Seq(T)
  BY <1>2, <1>3
<1> QED
  BY <1>2, <1>4 DEF t, IsSequence

LEMMA EmptyIsSequence == IsSequence(<<>>) /\ Len(<<>>) = 0
BY DEF IsSequence

LEMMA SequenceDomain == ASSUME NEW s, IsSequence(s) PROVE Len(s) \in Nat /\ DOMAIN s = 1..Len(s)
BY DEF IsSequence

LEMMA PayloadIs ==
  ASSUME NEW name, NEW source, NEW pages, NEW failure, NEW status, NEW adapter
  PROVE  Payload([name |-> name, source |-> source, pages |-> pages, failure |-> failure,
                  status |-> status], adapter)
         = [adapter |-> adapter, name |-> name, source |-> source, pages |-> pages,
            failure |-> failure, status |-> status]
BY DEF Payload

LEMMA IndexedIs ==
  ASSUME NEW p
  PROVE  /\ Indexed(p).document = p.name /\ Indexed(p).version = p.source
         /\ Indexed(p).status = "completed" => p.status = "completed"
BY DEF Indexed, IndexedAs, Structured, IndexingStatus

-----------------------------------------------------------------------------

Faithful(page, adapter, got) == \E scan \in page.scans : got = PageOf(page, adapter, scan)
PagesOf(content, adapter, pages) ==
  \A n \in 1..Len(pages) : Faithful(content.pages[n], adapter, pages[n])

Listed(name, v) == <<name, v>> \in authorised /\ v \in DOMAIN origin.versions[name]

SourcesOK ==
  /\ origin \in Origins
  /\ file \in [NameSet -> Nat] /\ manifest \in [NameSet -> Nat]
  /\ \A name \in NameSet : /\ file[name] \in DOMAIN origin.versions[name]
                           /\ manifest[name] # 0 => Listed(name, manifest[name])
  /\ DOMAIN artifacts = UNION {{name} \X DOMAIN origin.versions[name] : name \in NameSet}

RunOK ==
  run # Idle =>
    /\ torn = TRUE
    /\ run.phase \in {"next", "pages", "write"}
    /\ run = [phase |-> run.phase, at |-> run.at, adapter |-> run.adapter,
              manifest |-> run.manifest, before |-> run.before, count |-> run.count,
              pages |-> run.pages, failure |-> run.failure, done |-> run.done]
    /\ run.at \in Nat \ {0} /\ run.at <= Len(Names) + 1
    /\ run.phase # "next" => run.at <= Len(Names)
    /\ \A name \in NameSet : Listed(name, run.manifest[name])

\* A document that was reported is the one stored under its hash.
Settled(store, i, d, adapter) ==
  /\ d = [name |-> Names[i], source |-> d.source, pages |-> d.pages, failure |-> d.failure,
          status |-> d.status]
  /\ d.source # 0 => /\ <<Names[i], d.source>> \in DOMAIN store
                     /\ store[<<Names[i], d.source>>] = Payload(d, adapter)

DoneOK ==
  run # Idle =>
    /\ IsSequence(run.done) /\ Len(run.done) + 1 = run.at
    /\ \A i \in 1..Len(run.done) : Settled(artifacts, i, run.done[i], run.adapter)

\* While pages are read the file only moves on from the version of the first
\* fingerprint: if it still holds it, all that was read is of that version.
ReadingOK ==
  run.phase \in {"pages", "write"} =>
    LET content == Version(Current, run.before)
    IN  /\ run.before = run.manifest[Current]
        /\ IsSequence(run.pages)
        /\ run.count = Len(content.pages)
        /\ run.phase = "pages" => run.before <= file[Current]
        /\ run.failure = "none" /\ (run.phase = "pages" => run.before = file[Current]) =>
             /\ PagesOf(content, run.adapter, run.pages)
             /\ run.phase = "write" => Len(run.pages) = run.count

\* What is stored was authorised, and is a failure or all of its version.
Whole(versions, seen, at, x) ==
  /\ x = [adapter |-> x.adapter, name |-> at[1], source |-> at[2], pages |-> x.pages,
          failure |-> x.failure, status |-> x.status]
  /\ at \in seen
  /\ x.failure # "none" => x.status = "failed"
  /\ x.failure = "none" =>
       LET content == versions[at[1]][at[2]]
       IN  /\ IsSequence(x.pages) /\ Len(x.pages) = Len(content.pages)
           /\ PagesOf(content, x.adapter, x.pages)

StoredOK == \A at \in StoredAt : Whole(origin.versions, authorised, at, artifacts[at])

StoreInv == SourcesOK /\ RunOK /\ DoneOK /\ ReadingOK /\ StoredOK /\ InventoryMatchesArtifacts


LEMMA OriginsAreTyped ==
  ASSUME SourcesOK, NEW name \in NameSet
  PROVE  /\ origin.versions[name] \in Seq(PdfFiles)
         /\ DOMAIN origin.versions[name] = 1..Len(origin.versions[name])
         /\ \A v \in DOMAIN origin.versions[name] :
              /\ Version(name, v) \in PdfFiles
              /\ Len(Version(name, v).pages) \in Nat
              /\ <<name, v>> \in DOMAIN artifacts
<1>1. origin.versions \in [NameSet -> Seq(PdfFiles) \ {<<>>}]
  BY ExtractionAssumption DEF SourcesOK
<1>2. origin.versions[name] \in Seq(PdfFiles)
  BY <1>1
<1>3. ASSUME NEW v \in DOMAIN origin.versions[name]
      PROVE  Version(name, v) \in PdfFiles /\ Len(Version(name, v).pages) \in Nat
  <2>1. Version(name, v) \in PdfFiles
    BY <1>2 DEF Version
  <2> QED
    BY <2>1 DEF PdfFiles
<1>4. \A v \in DOMAIN origin.versions[name] : <<name, v>> \in DOMAIN artifacts
  BY DEF SourcesOK
<1> QED
  BY <1>2, <1>3, <1>4

LEMMA NamesAreDistinct ==
  /\ Len(Names) \in Nat /\ DOMAIN Names = 1..Len(Names)
  /\ \A i \in 1..Len(Names) : Names[i] \in NameSet
  /\ \A i, j \in 1..Len(Names) : Names[i] = Names[j] => i = j
BY ExtractionAssumption DEF IsInjective, NameSet

LEMMA InitKeepsStore == ExtractionInit => StoreInv
<1> SUFFICES ASSUME ExtractionInit PROVE StoreInv
  OBVIOUS
<1> USE DEF ExtractionInit
<1>1. \A name \in NameSet : 1 \in DOMAIN origin.versions[name]
  BY ExtractionAssumption
<1>2. SourcesOK
  BY <1>1 DEF SourcesOK, Listed
<1>3. RunOK /\ DoneOK /\ ReadingOK
  BY DEF RunOK, DoneOK, ReadingOK, Idle
<1>4. StoredOK /\ InventoryMatchesArtifacts
  BY DEF StoredOK, StoredAt, InventoryMatchesArtifacts
<1> QED
  BY <1>2, <1>3, <1>4 DEF StoreInv

\* What no step of a run and no step of the operator can undo.
Onwards ==
  /\ UNCHANGED origin /\ authorised \subseteq authorised'
  /\ DOMAIN artifacts' = DOMAIN artifacts

LEMMA ListedStays ==
  ASSUME Onwards, NEW name, NEW v, Listed(name, v) PROVE Listed(name, v)'
BY DEF Onwards, Listed

\* The sources and what is stored do not change.
LEMMA StoredStays ==
  ASSUME StoreInv, Onwards, UNCHANGED artifacts PROVE StoredOK'
BY DEF StoreInv, Onwards, StoredOK, StoredAt, Whole

LEMMA SourcesStay ==
  ASSUME StoreInv, UNCHANGED Sources, DOMAIN artifacts' = DOMAIN artifacts
  PROVE  SourcesOK' /\ Onwards
BY DEF StoreInv, Sources, SourcesOK, Onwards, Listed

LEMMA TornNeedsNoMatch == ASSUME torn' = TRUE PROVE InventoryMatchesArtifacts'
BY DEF InventoryMatchesArtifacts

-----------------------------------------------------------------------------

LEMMA StartKeepsStore ==
  ASSUME StoreInv, NEW adapter, Start(adapter) PROVE StoreInv'
<1>1. SourcesOK' /\ Onwards
  BY SourcesStay DEF Start
<1>2. StoredOK'
  BY <1>1, StoredStays DEF Start
<1>3. \A name \in NameSet : Listed(name, manifest[name])'
  <2>1. UNCHANGED manifest /\ \A name \in NameSet : manifest[name] # 0
    BY DEF Start, Complete, Sources
  <2>2. \A name \in NameSet : Listed(name, manifest[name])
    BY <2>1 DEF StoreInv, SourcesOK
  <2> QED
    BY <1>1, <2>1, <2>2 DEF Onwards, Listed
<1>4. RunOK'
  BY <1>3, NamesAreDistinct DEF Start, RunOK, Idle, Sources
<1>5. DoneOK' /\ ReadingOK'
  BY EmptyIsSequence DEF Start, DoneOK, ReadingOK
<1> QED
  BY <1>1, <1>2, <1>4, <1>5, TornNeedsNoMatch DEF Start, StoreInv

\* Ending a run, or changing what no run looks at.
LEMMA EndingKeepsStore ==
  ASSUME StoreInv, UNCHANGED Sources, UNCHANGED artifacts, run' = Idle, InventoryMatchesArtifacts'
  PROVE  StoreInv'
<1>1. SourcesOK' /\ Onwards /\ StoredOK'
  BY SourcesStay, StoredStays
<1>2. RunOK' /\ DoneOK' /\ ReadingOK'
  BY DEF RunOK, DoneOK, ReadingOK, Idle
<1> QED
  BY <1>1, <1>2 DEF StoreInv

LEMMA CutOffKeepsStore == ASSUME StoreInv, FailToWrite \/ Crash PROVE StoreInv'
<1>1. run # Idle
  BY DEF FailToWrite, Crash, Idle
<1>2. InventoryMatchesArtifacts'
  BY <1>1, TornNeedsNoMatch DEF StoreInv, RunOK, FailToWrite, Crash
<1> QED
  BY <1>2, EndingKeepsStore DEF FailToWrite, Crash

LEMMA FinishKeepsStore == ASSUME StoreInv, Finish PROVE StoreInv'
<1>1. run # Idle
  BY DEF Finish, Idle
<1>2. ASSUME NEW i \in DOMAIN inventory'.documents, inventory'.documents[i].source # 0
      PROVE  LET entry == inventory'.documents[i]
                 stored == artifacts[<<entry.name, entry.source>>]
             IN  /\ stored # NoFile /\ stored.adapter = inventory'.adapter
                 /\ InventoryEntry(stored) = entry
  <2> DEFINE d == run.done[i]
  <2>1. inventory'.adapter = run.adapter /\ DOMAIN inventory'.documents = DOMAIN run.done
        /\ inventory'.documents[i] = InventoryEntry(d)
    BY <1>2 DEF Finish, InventoryOf
  <2>2. Settled(artifacts, i, d, run.adapter)
    BY <1>1, <2>1, <1>2, SequenceDomain DEF StoreInv, DoneOK
  <2>3. InventoryEntry(d).name = d.name /\ InventoryEntry(d).source = d.source /\ d.name = Names[i]
    BY <2>2 DEF InventoryEntry, Settled
  <2>4. artifacts[<<d.name, d.source>>] = Payload(d, run.adapter)
    BY <1>2, <2>1, <2>2, <2>3 DEF Settled
  <2>5. Payload(d, run.adapter) # NoFile /\ Payload(d, run.adapter).adapter = run.adapter
        /\ InventoryEntry(Payload(d, run.adapter)) = InventoryEntry(d)
    BY DEF Payload, NoFile, InventoryEntry
  <2> QED
    BY <2>1, <2>3, <2>4, <2>5
<1>3. InventoryMatchesArtifacts'
  BY <1>2 DEF InventoryMatchesArtifacts, Finish
<1> QED
  BY <1>3, EndingKeepsStore DEF Finish


\* The file of a reader is still what it was, and so is all that is stored.
LEMMA OthersDuringRun ==
  ASSUME StoreInv, run # Idle, UNCHANGED <<Sources, artifacts, inventory, runs, torn>>
  PROVE  SourcesOK' /\ StoredOK' /\ InventoryMatchesArtifacts' /\ Onwards /\ torn' = TRUE
<1>1. SourcesOK' /\ Onwards /\ StoredOK'
  BY SourcesStay, StoredStays
<1>2. torn' = TRUE
  BY DEF StoreInv, RunOK
<1> QED
  BY <1>1, <1>2, TornNeedsNoMatch

LEMMA ReportKeepsRun ==
  ASSUME StoreInv, run # Idle, run.at <= Len(Names), NEW d, Report(d), UNCHANGED Sources,
         torn' = TRUE, Settled(artifacts', run.at, d, run.adapter),
         \A i \in 1..Len(run.done) : Settled(artifacts', i, run.done[i], run.adapter)
  PROVE  RunOK' /\ DoneOK' /\ ReadingOK'
<1>1. /\ run'.phase = "next" /\ run'.at = run.at + 1 /\ run'.done = Append(run.done, d)
      /\ run'.adapter = run.adapter /\ run'.manifest = run.manifest
      /\ run' = [phase |-> run'.phase, at |-> run'.at, adapter |-> run'.adapter,
                 manifest |-> run'.manifest, before |-> run'.before, count |-> run'.count,
                 pages |-> run'.pages, failure |-> run'.failure, done |-> run'.done]
  BY DEF StoreInv, RunOK, Report
<1>2. RunOK'
  BY <1>1, NamesAreDistinct DEF StoreInv, RunOK, Sources, Listed
<1>3. IsSequence(run.done) /\ Len(run.done) + 1 = run.at
  BY DEF StoreInv, DoneOK
<1>4. DoneOK'
  <2>1. /\ Len(run.done) \in Nat /\ IsSequence(run'.done) /\ Len(run'.done) = Len(run.done) + 1
        /\ \A i \in 1..Len(run.done) : run'.done[i] = run.done[i]
        /\ run'.done[run.at] = d
    BY <1>1, <1>3, Appending
  <2>2. \A i \in 1..Len(run'.done) : i = run.at \/ i \in 1..Len(run.done)
    BY <1>3, <2>1
  <2>3. ASSUME NEW i \in 1..Len(run'.done) PROVE Settled(artifacts', i, run'.done[i], run'.adapter)
    BY <1>1, <2>1, <2>2
  <2> QED
    BY <1>1, <1>3, <2>1, <2>3 DEF DoneOK
<1>5. ReadingOK'
  BY <1>1 DEF ReadingOK
<1> QED
  BY <1>2, <1>4, <1>5

LEMMA FailedReportKeepsStore ==
  ASSUME StoreInv, run # Idle, run.at <= Len(Names), NEW failure,
         Report(FailedDocument(Current, failure)),
         UNCHANGED <<Sources, artifacts, inventory, runs, torn>>
  PROVE  StoreInv'
<1> DEFINE d == FailedDocument(Current, failure)
<1>1. SourcesOK' /\ StoredOK' /\ InventoryMatchesArtifacts' /\ torn' = TRUE
  BY OthersDuringRun
<1>2. Settled(artifacts', run.at, d, run.adapter)
  BY DEF Settled, FailedDocument, Extraction, Current
<1>3. \A i \in 1..Len(run.done) : Settled(artifacts', i, run.done[i], run.adapter)
  BY DEF StoreInv, DoneOK, Settled
<1> QED
  BY <1>1, <1>2, <1>3, ReportKeepsRun DEF StoreInv


LEMMA OpenKeepsStore == ASSUME StoreInv, Open PROVE StoreInv'
<1> DEFINE before == file[Current]
           content == Version(Current, before)
<1>1. run # Idle /\ run.at <= Len(Names) /\ run.at \in 1..Len(Names) /\ Current \in NameSet
  <2>1. run # Idle /\ run.at <= Len(Names)
    BY DEF Open, Idle
  <2> QED
    BY <2>1, NamesAreDistinct DEF StoreInv, RunOK, Current
<1>2. CASE \E failure : Report(FailedDocument(Current, failure))
  BY <1>1, <1>2, FailedReportKeepsStore DEF Open
<1>3. CASE /\ Authentic(before, run.manifest[Current])
           /\ run' = [run EXCEPT !.phase = "pages", !.before = before,
                         !.count = Len(content.pages), !.pages = <<>>,
                         !.failure = IF content.readable THEN "none" ELSE "document.pdf_unreadable"]
  <2>1. SourcesOK' /\ StoredOK' /\ InventoryMatchesArtifacts' /\ torn' = TRUE /\ Onwards
    BY <1>1, OthersDuringRun DEF Open
  <2>2. /\ run'.phase = "pages" /\ run'.at = run.at /\ run'.done = run.done
        /\ run'.adapter = run.adapter /\ run'.manifest = run.manifest
        /\ run'.before = before /\ run'.count = Len(content.pages) /\ run'.pages = <<>>
        /\ run' = [phase |-> run'.phase, at |-> run'.at, adapter |-> run'.adapter,
                   manifest |-> run'.manifest, before |-> run'.before, count |-> run'.count,
                   pages |-> run'.pages, failure |-> run'.failure, done |-> run'.done]
    BY <1>1, <1>3 DEF StoreInv, RunOK
  <2>3. UNCHANGED <<file, origin, artifacts>> /\ Current' = Current
    BY <2>2 DEF Open, Sources, Current
  <2>4. RunOK'
    BY <1>1, <2>1, <2>2 DEF StoreInv, RunOK, Onwards, Listed
  <2>5. DoneOK'
    BY <1>1, <2>2, <2>3 DEF StoreInv, DoneOK, Settled
  <2>6. ReadingOK'
    <3>1. before = run.manifest[Current] /\ before \in Nat
      BY <1>1, <1>3 DEF Authentic, StoreInv, SourcesOK
    <3>2. PagesOf(content, run.adapter, <<>>)
      BY DEF PagesOf
    <3> QED
      BY <2>2, <2>3, <3>1, <3>2, EmptyIsSequence DEF ReadingOK, Version
  <2> QED
    BY <2>1, <2>4, <2>5, <2>6 DEF StoreInv
<1> QED
  BY <1>2, <1>3 DEF Open


\* A step within a document: what is done, stored and authorised stays.
LEMMA WithinDocument ==
  ASSUME StoreInv, run # Idle, UNCHANGED <<Sources, artifacts, inventory, runs, torn>>,
         run' = [phase |-> run'.phase, at |-> run.at, adapter |-> run.adapter,
                 manifest |-> run.manifest, before |-> run'.before, count |-> run'.count,
                 pages |-> run'.pages, failure |-> run'.failure, done |-> run.done],
         run'.phase \in {"pages", "write"}, run.at <= Len(Names), ReadingOK'
  PROVE  StoreInv'
<1>1. SourcesOK' /\ StoredOK' /\ InventoryMatchesArtifacts' /\ torn' = TRUE /\ Onwards
  BY OthersDuringRun
<1>2. RunOK'
  BY <1>1 DEF StoreInv, RunOK, Onwards, Listed
<1>3. DoneOK'
  BY DEF StoreInv, DoneOK, Settled
<1> QED
  BY <1>1, <1>2, <1>3 DEF StoreInv

LEMMA ReadPageKeepsStore == ASSUME StoreInv, ReadPage PROVE StoreInv'
<1> DEFINE content == Version(Current, file[Current])
           n == Len(run.pages) + 1
<1>1. run # Idle /\ run.phase = "pages" /\ run.failure = "none" /\ run.at <= Len(Names)
  BY DEF ReadPage, Idle, StoreInv, RunOK
<1>2. UNCHANGED <<Sources, artifacts, inventory, runs, torn>>
  BY DEF ReadPage
<1>3. UNCHANGED <<file, origin>>
  BY <1>2 DEF Sources
<1>4. CASE run' = [run EXCEPT !.failure = "document.pdf_processing_failed"]
  <2>1. /\ run'.phase = "pages" /\ run'.failure # "none" /\ run'.before = run.before
        /\ run'.at = run.at /\ run'.manifest = run.manifest /\ run'.count = run.count
        /\ run'.pages = run.pages
        /\ run' = [phase |-> run'.phase, at |-> run.at, adapter |-> run.adapter,
                   manifest |-> run.manifest, before |-> run'.before, count |-> run'.count,
                   pages |-> run'.pages, failure |-> run'.failure, done |-> run.done]
    BY <1>1, <1>4 DEF StoreInv, RunOK
  <2>2. ReadingOK'
    BY <1>1, <1>3, <2>1 DEF StoreInv, ReadingOK, Current, Version
  <2> QED
    BY <1>1, <1>2, <2>1, <2>2, WithinDocument
<1>5. ASSUME NEW scan \in content.pages[n].scans,
             run' = [run EXCEPT !.pages = Append(@, PageOf(content.pages[n], run.adapter, scan))]
      PROVE  StoreInv'
  <2> DEFINE got == PageOf(content.pages[n], run.adapter, scan)
  <2>1. /\ run'.phase = "pages" /\ run'.failure = "none" /\ run'.before = run.before
        /\ run'.at = run.at /\ run'.manifest = run.manifest /\ run'.count = run.count
        /\ run'.adapter = run.adapter /\ run'.pages = Append(run.pages, got)
        /\ run' = [phase |-> run'.phase, at |-> run.at, adapter |-> run.adapter,
                   manifest |-> run.manifest, before |-> run'.before, count |-> run'.count,
                   pages |-> run'.pages, failure |-> run'.failure, done |-> run.done]
    BY <1>1, <1>5 DEF StoreInv, RunOK
  <2>2. IsSequence(run.pages)
    BY <1>1 DEF StoreInv, ReadingOK
  <2>3. /\ Len(run.pages) \in Nat /\ IsSequence(run'.pages) /\ Len(run'.pages) = n
        /\ \A i \in 1..Len(run.pages) : run'.pages[i] = run.pages[i]
        /\ run'.pages[n] = got
    BY <2>1, <2>2, Appending
  <2>4. ASSUME run.before = file[Current] PROVE PagesOf(content, run.adapter, run'.pages)
    <3>1. PagesOf(content, run.adapter, run.pages)
      BY <1>1, <2>4 DEF StoreInv, ReadingOK
    <3>2. Faithful(content.pages[n], run.adapter, got)
      BY <1>5 DEF Faithful
    <3>3. \A i \in 1..n : i = n \/ i \in 1..Len(run.pages)
      BY <2>3
    <3> QED
      BY <2>3, <3>1, <3>2, <3>3 DEF PagesOf
  <2>5. ReadingOK'
    BY <1>1, <1>3, <2>1, <2>3, <2>4 DEF StoreInv, ReadingOK, Current, Version
  <2> QED
    BY <1>1, <1>2, <2>1, <2>5, WithinDocument
<1> QED
  BY <1>4, <1>5 DEF ReadPage

LEMMA CloseKeepsStore == ASSUME StoreInv, Close PROVE StoreInv'
<1>1. run # Idle /\ run.phase = "pages" /\ run.at <= Len(Names)
      /\ UNCHANGED <<Sources, artifacts, inventory, runs, torn>>
  BY DEF Close, Idle, StoreInv, RunOK
<1>2. CASE Report(FailedDocument(Current, "document.source_changed"))
  BY <1>1, <1>2, FailedReportKeepsStore
<1>3. CASE file[Current] = run.before /\ run' = [run EXCEPT !.phase = "write"]
  <2>1. /\ run'.phase = "write" /\ run'.failure = run.failure /\ run'.before = run.before
        /\ run'.at = run.at /\ run'.manifest = run.manifest /\ run'.count = run.count
        /\ run'.pages = run.pages /\ run'.adapter = run.adapter
        /\ run' = [phase |-> run'.phase, at |-> run.at, adapter |-> run.adapter,
                   manifest |-> run.manifest, before |-> run'.before, count |-> run'.count,
                   pages |-> run'.pages, failure |-> run'.failure, done |-> run.done]
    BY <1>1, <1>3 DEF StoreInv, RunOK
  <2>2. UNCHANGED <<file, origin>>
    BY <1>1 DEF Sources
  <2>3. ReadingOK'
    BY <1>1, <1>3, <2>1, <2>2 DEF Close, StoreInv, ReadingOK, Current, Version
  <2> QED
    BY <1>1, <2>1, <2>3, WithinDocument
<1> QED
  BY <1>2, <1>3 DEF Close, CloseDocument


LEMMA DocumentIs ==
  /\ Document = [name |-> Current, source |-> run.before, pages |-> Document.pages,
                 failure |-> run.failure, status |-> Document.status]
  /\ run.failure = "none" => Document.pages = run.pages
  /\ run.failure # "none" => Document.status = "failed"
BY DEF Document, Extraction

LEMMA WriteKeepsStore == ASSUME StoreInv, Write PROVE StoreInv'
<1> DEFINE at == <<Current, run.before>>
           kept == Payload(Document, run.adapter)
<1>1. run # Idle /\ run.phase = "write" /\ run.at <= Len(Names) /\ torn = TRUE
  BY DEF Write, Idle, StoreInv, RunOK
<1>2. run.at \in 1..Len(Names) /\ Current \in NameSet
  BY <1>1, NamesAreDistinct DEF StoreInv, RunOK, Current
<1>3. /\ UNCHANGED Sources /\ torn' = TRUE /\ Report(Document)
      /\ artifacts' = [artifacts EXCEPT ![at] = kept]
  BY <1>1 DEF Write, Replaced
<1>4. Listed(Current, run.before)
  BY <1>1, <1>2 DEF StoreInv, RunOK, ReadingOK
<1>5. at \in DOMAIN artifacts
  BY <1>2, <1>4, OriginsAreTyped DEF StoreInv, Listed
<1>6. /\ DOMAIN artifacts' = DOMAIN artifacts /\ artifacts'[at] = kept
      /\ \A other \in DOMAIN artifacts : other # at => artifacts'[other] = artifacts[other]
  BY <1>3, <1>5
<1>7. SourcesOK' /\ Onwards
  BY <1>3, <1>6, SourcesStay
<1>8. Settled(artifacts', run.at, Document, run.adapter)
  BY <1>5, <1>6, DocumentIs DEF Settled, Current
<1>9. ASSUME NEW i \in 1..Len(run.done)
      PROVE  Settled(artifacts', i, run.done[i], run.adapter)
  <2>1. Settled(artifacts, i, run.done[i], run.adapter)
    BY <1>1 DEF StoreInv, DoneOK
  <2>2. IsSequence(run.done) /\ Len(run.done) + 1 = run.at
    BY <1>1 DEF StoreInv, DoneOK
  <2>3. i \in 1..Len(Names) /\ i # run.at
    BY <1>2, <2>2, SequenceDomain, NamesAreDistinct
  <2>4. Names[i] # Current
    BY <1>2, <2>3, NamesAreDistinct DEF Current
  <2>5. <<Names[i], run.done[i].source>> # at
    BY <2>4
  <2> QED
    BY <1>6, <2>1, <2>5 DEF Settled
<1>10. RunOK' /\ DoneOK' /\ ReadingOK'
  BY <1>1, <1>3, <1>8, <1>9, ReportKeepsRun
<1>11. Whole(origin.versions, authorised', at, kept)
  <2>1. kept = [adapter |-> run.adapter, name |-> Current, source |-> run.before,
                pages |-> Document.pages, failure |-> run.failure, status |-> Document.status]
    BY DocumentIs DEF Payload
  <2>2. at \in authorised'
    BY <1>4, <1>7 DEF Listed, Onwards
  <2>3. run.failure = "none" =>
          LET content == Version(Current, run.before)
          IN  /\ IsSequence(run.pages) /\ Len(run.pages) = Len(content.pages)
              /\ PagesOf(content, run.adapter, run.pages)
    BY <1>1 DEF StoreInv, ReadingOK
  <2> QED
    BY <2>1, <2>2, <2>3, DocumentIs DEF Whole, Version
<1>12. StoredOK'
  <2> SUFFICES ASSUME NEW other \in StoredAt'
               PROVE  Whole(origin.versions, authorised', other, artifacts'[other])
    BY <1>7 DEF StoredOK, Onwards
  <2>1. CASE other = at
    BY <2>1, <1>6, <1>11
  <2>2. CASE other # at
    <3>1. other \in StoredAt /\ artifacts'[other] = artifacts[other]
      BY <2>2, <1>6 DEF StoredAt
    <3> QED
      BY <3>1, <1>7 DEF StoreInv, StoredOK, Whole, Onwards
  <2> QED
    BY <2>1, <2>2
<1> QED
  BY <1>3, <1>7, <1>10, <1>12, TornNeedsNoMatch DEF StoreInv

\* The operator touches the files, the manifest and the directory.
LEMMA OperatorKeepsStore ==
  ASSUME StoreInv, Onwards, UNCHANGED <<run, artifacts, inventory, torn>>, SourcesOK',
         \A name \in NameSet : file'[name] >= file[name]
  PROVE  StoreInv'
<1>1. StoredOK'
  BY StoredStays
<1>2. RunOK' /\ DoneOK'
  BY DEF StoreInv, RunOK, DoneOK, Onwards, Listed
<1>3. ReadingOK'
  <2> SUFFICES ASSUME run.phase \in {"pages", "write"} PROVE ReadingOK'
    BY DEF ReadingOK
  <2>1. run # Idle /\ run.at \in 1..Len(Names)
    BY NamesAreDistinct DEF StoreInv, RunOK, Idle
  <2>2. Current \in NameSet /\ run.before = run.manifest[Current]
    BY <2>1, NamesAreDistinct DEF StoreInv, ReadingOK, Current
  <2>3. file[Current] \in Nat /\ file'[Current] \in Nat /\ file'[Current] >= file[Current]
    BY <2>2 DEF StoreInv, SourcesOK
  <2>4. run.before \in Nat
    <3>1. run.before \in DOMAIN origin.versions[Current]
      BY <2>1, <2>2 DEF StoreInv, RunOK, Listed
    <3> QED
      BY <2>2, <3>1, OriginsAreTyped DEF StoreInv
  <2> QED
    BY <2>3, <2>4 DEF StoreInv, ReadingOK, Current, Version, Onwards
<1>4. InventoryMatchesArtifacts'
  BY DEF StoreInv, InventoryMatchesArtifacts
<1> QED
  BY <1>1, <1>2, <1>3, <1>4 DEF StoreInv

LEMMA OperatorActionsKeepStore ==
  ASSUME StoreInv,
         ChangeOutput \/ \E name \in NameSet : Edit(name) \/ Publish(name) \/ LoseEntry(name)
  PROVE  StoreInv'
<1> USE DEF StoreInv
<1>1. CASE ChangeOutput
  BY <1>1, OperatorKeepsStore DEF ChangeOutput, SourcesOK, Onwards, Listed
<1>2. ASSUME NEW name \in NameSet, Edit(name) PROVE StoreInv'
  <2>1. file[name] + 1 \in DOMAIN origin.versions[name]
    BY <1>2, OriginsAreTyped DEF Edit, SourcesOK
  <2>2. SourcesOK' /\ Onwards
    BY <1>2, <2>1 DEF Edit, SourcesOK, Onwards, Listed
  <2> QED
    BY <1>2, <2>2, OperatorKeepsStore DEF Edit, SourcesOK
<1>3. ASSUME NEW name \in NameSet, Publish(name) PROVE StoreInv'
  <2>1. SourcesOK' /\ Onwards
    BY <1>3 DEF Publish, SourcesOK, Onwards, Listed
  <2> QED
    BY <1>3, <2>1, OperatorKeepsStore DEF Publish, SourcesOK
<1>4. ASSUME NEW name \in NameSet, LoseEntry(name) PROVE StoreInv'
  <2>1. SourcesOK' /\ Onwards
    BY <1>4 DEF LoseEntry, SourcesOK, Onwards, Listed
  <2> QED
    BY <1>4, <2>1, OperatorKeepsStore DEF LoseEntry, SourcesOK
<1> QED
  BY <1>1, <1>2, <1>3, <1>4

LEMMA StoreStepKeepsInv == StoreInv /\ [ExtractionStep]_extraction => StoreInv'
<1>1. ASSUME StoreInv, UNCHANGED extraction PROVE StoreInv'
  <2> USE <1>1 DEF extraction, StoreInv
  <2>1. SourcesOK' /\ Onwards
    BY SourcesStay DEF Sources
  <2>2. StoredOK'
    BY <2>1, StoredStays
  <2>3. RunOK' /\ DoneOK' /\ InventoryMatchesArtifacts'
    BY DEF RunOK, DoneOK, InventoryMatchesArtifacts, Listed
  <2>4. ReadingOK'
    BY DEF ReadingOK, Current, Version
  <2> QED
    BY <2>1, <2>2, <2>3, <2>4
<1> QED
  BY <1>1, StartKeepsStore, OpenKeepsStore, ReadPageKeepsStore, CloseKeepsStore, WriteKeepsStore,
     FinishKeepsStore, CutOffKeepsStore, OperatorActionsKeepStore
  DEF ExtractionStep


\* Nothing that was authorised or stored is forgotten.
LEMMA StepGoesOnwards ==
  ASSUME StoreInv, [ExtractionStep]_extraction
  PROVE  UNCHANGED origin /\ authorised \subseteq authorised' /\ StoredAt \subseteq StoredAt'
<1>1. CASE Write
  <2>1. Payload(Document, run.adapter) # NoFile
    BY DEF Payload, NoFile
  <2>2. artifacts' = [artifacts EXCEPT ![<<Current, run.before>>] = Payload(Document, run.adapter)]
    BY <1>1 DEF Write, Replaced
  <2> QED
    BY <1>1, <2>1, <2>2 DEF Write, Sources, StoredAt
<1>2. CASE ~Write
  <2>1. UNCHANGED <<origin, artifacts>> /\ authorised \subseteq authorised'
    BY <1>2 DEF ExtractionStep, extraction, Sources, Start, Open, ReadPage, Close, Finish,
       FailToWrite, Crash, ChangeOutput, Edit, Publish, LoseEntry
  <2> QED
    BY <2>1 DEF StoredAt
<1> QED
  BY <1>1, <1>2

\* What may be cited came from the store, through a binding that describes it.
BindingsOK == \A i \in DOMAIN bindings : bindings[i].at \in StoredAt

RuntimeInv == StoreInv /\ BindingsOK /\ CitedTextIsAuthorised

CitedRightly(versions, seen, metadata, d) ==
  LET document == d.extraction
      content == versions[document.name][document.source]
  IN  /\ \E row \in metadata :
           /\ row.document = document.name /\ row.source = document.source
           /\ row.chunks = ChunkIds(d.chunks)
      /\ <<document.name, document.source>> \in seen
      /\ Len(document.pages) = Len(content.pages)
      /\ \A n \in DOMAIN document.pages : \E scan \in content.pages[n].scans :
           document.pages[n] = PageOf(content.pages[n], document.adapter, scan)

LEMMA CitedDocumentByDocument ==
  /\ CitedTextIsAuthorised <=>
       \A i \in DOMAIN runtime.loaded :
         CitedRightly(origin.versions, authorised, runtime.metadata, runtime.loaded[i])
  /\ CitedTextIsAuthorised' <=>
       \A i \in DOMAIN runtime'.loaded :
         CitedRightly(origin'.versions, authorised', runtime'.metadata, runtime'.loaded[i])
<1>1. CitedTextIsAuthorised <=>
        \A d \in Loaded : CitedRightly(origin.versions, authorised, runtime.metadata, d)
  BY DEF CitedTextIsAuthorised, CitedRightly, Version
<1>2. CitedTextIsAuthorised' <=>
        \A d \in Loaded' : CitedRightly(origin'.versions, authorised', runtime'.metadata, d)
  BY DEF CitedTextIsAuthorised, CitedRightly, Version
<1> HIDE DEF CitedRightly
<1> QED
  BY <1>1, <1>2 DEF Loaded

\* What was cited rightly stays so: what was authorised is not forgotten.
LEMMA CitedStays ==
  ASSUME CitedTextIsAuthorised, UNCHANGED <<origin, runtime>>, authorised \subseteq authorised'
  PROVE  CitedTextIsAuthorised'
<1>1. \A i \in DOMAIN runtime.loaded :
        CitedRightly(origin.versions, authorised, runtime.metadata, runtime.loaded[i])
  BY CitedDocumentByDocument
<1>2. \A i \in DOMAIN runtime.loaded :
        CitedRightly(origin.versions, authorised', runtime.metadata, runtime.loaded[i])
  BY <1>1 DEF CitedRightly
<1> QED
  BY <1>2, CitedDocumentByDocument

LEMMA ExtractKeepsRuntime == ASSUME RuntimeInv, Extract PROVE RuntimeInv'
<1>1. StoreInv'
  BY StoreStepKeepsInv DEF RuntimeInv, Extract
<1>2. UNCHANGED <<origin, bindings, runtime>> /\ authorised \subseteq authorised'
      /\ StoredAt \subseteq StoredAt'
  BY StepGoesOnwards DEF RuntimeInv, Extract
<1>3. BindingsOK'
  BY <1>2 DEF RuntimeInv, BindingsOK
<1>4. CitedTextIsAuthorised'
  BY <1>2, CitedStays DEF RuntimeInv
<1> QED
  BY <1>1, <1>3, <1>4 DEF RuntimeInv

LEMMA PinKeepsRuntime == ASSUME RuntimeInv, Pin PROVE RuntimeInv'
<1>1. StoreInv' /\ UNCHANGED <<extraction, runtime>>
  BY StoreStepKeepsInv DEF RuntimeInv, Pin
<1>2. BindingsOK'
  <2>1. PICK pinned \in {s \in UNION {[1..n -> StoredAt] : n \in {1, 2}} : IsInjective(s)} :
          \E numbers \in Numbered(pinned) :
            bindings' = [i \in DOMAIN pinned |-> Binding(pinned[i], numbers[i])]
    BY DEF Pin
  <2>2. \A i \in DOMAIN pinned : pinned[i] \in StoredAt
    OBVIOUS
  <2>3. \A i \in DOMAIN bindings' : bindings'[i].at \in StoredAt
    BY <2>1, <2>2 DEF Binding
  <2> QED
    BY <1>1, <2>3 DEF BindingsOK, StoredAt, extraction
<1>3. CitedTextIsAuthorised'
  BY <1>1, CitedStays DEF RuntimeInv, extraction
<1> QED
  BY <1>1, <1>2, <1>3 DEF RuntimeInv

\* One document that a binding describes.
LEMMA AcceptedIsAuthorised ==
  ASSUME RuntimeInv, NEW i \in DOMAIN bindings, Accepts(bindings[i])
  PROVE  LET document == artifacts[bindings[i].at]
             content == Version(document.name, document.source)
         IN  /\ document.name = bindings[i].document /\ document.source = bindings[i].source
             /\ ChunkIds(Indexed(document).chunks) = bindings[i].chunks
             /\ <<document.name, document.source>> \in authorised
             /\ Len(document.pages) = Len(content.pages)
             /\ \A n \in DOMAIN document.pages : \E scan \in content.pages[n].scans :
                  document.pages[n] = PageOf(content.pages[n], document.adapter, scan)
<1> DEFINE at == bindings[i].at
           document == artifacts[at]
<1>1. at \in StoredAt /\ Whole(origin.versions, authorised, at, document)
  BY DEF RuntimeInv, BindingsOK, StoreInv, StoredOK
<1>2. /\ Indexed(document).status = "completed" /\ Indexed(document).document = bindings[i].document
      /\ Indexed(document).version = bindings[i].source
      /\ ChunkIds(Indexed(document).chunks) = bindings[i].chunks
  BY DEF Accepts, Describes
<1>3. /\ document.status = "completed" /\ document.name = bindings[i].document
      /\ document.source = bindings[i].source
  BY <1>2, IndexedIs
<1>4. document.name = at[1] /\ document.source = at[2]
  BY <1>1 DEF Whole
<1>5. document.failure = "none"
  BY <1>1, <1>3 DEF Whole
<1>6. at = <<at[1], at[2]>>
  BY <1>1 DEF RuntimeInv, StoreInv, SourcesOK, StoredAt
<1>7. /\ IsSequence(document.pages)
      /\ Len(document.pages) = Len(Version(at[1], at[2]).pages)
      /\ PagesOf(Version(at[1], at[2]), document.adapter, document.pages)
  BY <1>1, <1>5 DEF Whole, Version
<1>8. \A n \in DOMAIN document.pages : n \in 1..Len(document.pages)
  BY <1>7, SequenceDomain
<1>9. <<document.name, document.source>> \in authorised
  BY <1>1, <1>4, <1>6 DEF Whole
<1> HIDE DEF document, at
<1>10. \A n \in DOMAIN document.pages :
        LET content == Version(document.name, document.source)
        IN  \E scan \in content.pages[n].scans :
              document.pages[n] = PageOf(content.pages[n], document.adapter, scan)
  BY <1>4, <1>7, <1>8 DEF PagesOf, Faithful
<1> QED
  BY <1>2, <1>3, <1>4, <1>7, <1>9, <1>10 DEF document, at


LEMMA LoadKeepsRuntime == ASSUME RuntimeInv, Load PROVE RuntimeInv'
<1>1. StoreInv' /\ UNCHANGED <<extraction, bindings>>
  BY StoreStepKeepsInv DEF RuntimeInv, Load
<1>2. BindingsOK'
  BY <1>1 DEF RuntimeInv, BindingsOK, StoredAt, extraction
<1>3. CASE runtime' = Refused
  BY <1>1, <1>2, <1>3 DEF RuntimeInv, CitedTextIsAuthorised, Loaded, Refused
<1>4. CASE /\ \A i \in DOMAIN bindings : Accepts(bindings[i])
           /\ runtime' = [phase |-> "serving", lifecycle |-> Lifecycle(bindings),
                          metadata |-> Metadata(bindings),
                          loaded |-> [i \in DOMAIN bindings |->
                            [extraction |-> artifacts[bindings[i].at],
                             chunks |-> Indexed(artifacts[bindings[i].at]).chunks]]]
  <2>1. runtime'.metadata = Metadata(bindings) /\ DOMAIN runtime'.loaded = DOMAIN bindings
        /\ \A i \in DOMAIN bindings :
             /\ runtime'.loaded[i].extraction = artifacts[bindings[i].at]
             /\ runtime'.loaded[i].chunks = Indexed(artifacts[bindings[i].at]).chunks
    BY <1>4
  <2>2. \A i \in DOMAIN bindings : \E row \in runtime'.metadata :
           /\ row.document = bindings[i].document /\ row.source = bindings[i].source
           /\ row.chunks = bindings[i].chunks
    <3> TAKE i \in DOMAIN bindings
    <3> DEFINE row == [document |-> bindings[i].document, source |-> bindings[i].source,
                       chunks |-> bindings[i].chunks]
    <3>1. row \in Metadata(bindings)
      BY DEF Metadata
    <3> QED
      BY <2>1, <3>1
  <2>3. ASSUME NEW i \in DOMAIN bindings
        PROVE  CitedRightly(origin.versions, authorised, runtime'.metadata, runtime'.loaded[i])
    BY <1>4, <2>1, <2>2, AcceptedIsAuthorised DEF CitedRightly, Version
  <2>4. UNCHANGED <<origin, authorised>>
    BY <1>1 DEF extraction
  <2>5. CitedTextIsAuthorised'
    BY <2>1, <2>3, <2>4, CitedDocumentByDocument
  <2> QED
    BY <1>1, <1>2, <2>5 DEF RuntimeInv
<1> QED
  BY <1>3, <1>4 DEF Load

LEMMA StopKeepsRuntime == ASSUME RuntimeInv, Stop \/ UNCHANGED documentVars PROVE RuntimeInv'
<1>1. StoreInv' /\ UNCHANGED <<extraction, bindings>>
  BY StoreStepKeepsInv DEF RuntimeInv, Stop, documentVars
<1>2. BindingsOK'
  BY <1>1 DEF RuntimeInv, BindingsOK, StoredAt, extraction
<1>3. CitedTextIsAuthorised'
  <2>1. CASE Stop
    BY <2>1 DEF Stop, NotStarted, CitedTextIsAuthorised, Loaded
  <2>2. CASE UNCHANGED documentVars
    BY <2>2, CitedStays DEF documentVars, RuntimeInv, extraction
  <2> QED
    BY <2>1, <2>2
<1> QED
  BY <1>1, <1>2, <1>3 DEF RuntimeInv

LEMMA RuntimeIsInvariant == DocumentsSpec => []RuntimeInv
<1>1. DocumentsInit => RuntimeInv
  BY InitKeepsStore
  DEF DocumentsInit, RuntimeInv, BindingsOK, CitedTextIsAuthorised, Loaded, NotStarted
<1>2. RuntimeInv /\ [DocumentsNext]_documentVars => RuntimeInv'
  BY ExtractKeepsRuntime, PinKeepsRuntime, LoadKeepsRuntime, StopKeepsRuntime DEF DocumentsNext
<1> QED
  BY <1>1, <1>2, PTL DEF DocumentsSpec

\* Whatever is edited, authorised anew, extracted again, cut off and pinned:
\* all a runtime may cite is all of a version that was authorised.
THEOREM OnlyAuthorisedTextIsCited == DocumentsSpec => []CitedTextIsAuthorised
<1>1. RuntimeInv => CitedTextIsAuthorised
  BY DEF RuntimeInv
<1> QED
  BY <1>1, RuntimeIsInvariant, PTL

\* An inventory that was written last speaks of what is stored.
THEOREM InventoryTellsTheTruth == DocumentsSpec => []InventoryMatchesArtifacts
<1>1. RuntimeInv => InventoryMatchesArtifacts
  BY DEF RuntimeInv, StoreInv
<1> QED
  BY <1>1, RuntimeIsInvariant, PTL

=============================================================================
