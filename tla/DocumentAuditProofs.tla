----------------------- MODULE DocumentAuditProofs -----------------------
(***************************************************************************)
(* What one command does to one document or snapshot, for any values of    *)
(* the constants: it keeps the document consistent, it only adds, and it   *)
(* keeps the audit, of which a replay of the history shows what the        *)
(* snapshot went through.  Nothing here knows who executes commands; the   *)
(* services that do are in the modules that extend this one.               *)
(***************************************************************************)
EXTENDS DocumentAudit, FiniteSetTheorems, TLAPS

LEMMA StoredDocumentIsNotEmpty ==
  ASSUME NEW d \in Documents, ConsistentDocument(d), d # NoDocument
  PROVE  /\ Latest(d) \in Nat \ {0}
         /\ Len(d.history) \in Nat \ {0}
         /\ DOMAIN d.versions = 1..Latest(d)
         /\ DOMAIN d.history = 1..Len(d.history)
<1>1. d.versions \in Seq(Versions) /\ d.history \in Seq(Events) /\ d.current \in Nat
  BY DEF Documents
<1>2. CASE d.versions = <<>>
  <2>1. d.history = <<>>
    BY <1>2 DEF ConsistentDocument
  <2>2. d.current = 0
    BY <1>1, <1>2 DEF ConsistentDocument, CurrentIsApproved, Latest
  <2>3. d = NoDocument
    BY <1>2, <2>1, <2>2 DEF Documents, NoDocument
  <2> QED BY <2>3
<1>3. CASE d.versions # <<>>
  BY <1>1, <1>3 DEF ConsistentDocument, Latest
<1> QED BY <1>2, <1>3

LEMMA UpdatedVersionType ==
  ASSUME NEW v \in Versions, NEW c, WellFormedCommand(c), c.action # "registered"
  PROVE  /\ UpdatedVersion(v, c) \in Versions
         /\ UpdatedVersion(v, c).sha256 = v.sha256
<1>1. c \in CommandShapes
  BY DEF WellFormedCommand
<1>2. CASE c.action = "processing_started"
  BY <1>2 DEF UpdatedVersion, Versions, Statuses
<1>3. CASE c.action = "reprocessing_started"
  BY <1>3 DEF UpdatedVersion, ReprocessedVersion, Resumed, Versions, Statuses, StepStatuses
<1>4. CASE c.action \in {"extraction_succeeded", "indexing_succeeded"}
  BY <1>4 DEF UpdatedVersion, SucceededVersion, WithStatus, Versions, Statuses, StepStatuses
<1>5. CASE c.action = "processing_failed"
  <2>1. c.step \in Steps
    BY <1>1, <1>5 DEF WellFormedCommand, CommandShapes
  <2> QED BY <1>5, <2>1 DEF UpdatedVersion, FailedVersion, WithStatus, Versions, Statuses, StepStatuses
<1>6. CASE c.action = "approved"
  BY <1>6 DEF UpdatedVersion, Versions, Statuses
<1>7. CASE c.action = "rejected"
  BY <1>7 DEF UpdatedVersion, Versions, Statuses
<1> QED BY <1>1, <1>2, <1>3, <1>4, <1>5, <1>6, <1>7 DEF CommandShapes, Actions

LEMMA EventType ==
  ASSUME NEW c, WellFormedCommand(c), NEW s \in Statuses \cup {None},
         NEW t \in Statuses, NEW at \in Nat
  PROVE  EventOf(c, s, t, at) \in Events
BY DEF WellFormedCommand, CommandShapes, EventOf, Events

(* One more event, not earlier than the last, about a known version. *)
LEMMA AppendingAnEvent ==
  ASSUME NEW h \in Seq(Events), NEW e \in Events, NEW n \in Nat,
         h # <<>>, TimeMovesForward(h), ~(e.at < h[Len(h)].at),
         e.version \in 1..n, \A i \in DOMAIN h : h[i].version \in 1..n
  PROVE  /\ Append(h, e) \in Seq(Events)
         /\ Append(h, e) # <<>>
         /\ TimeMovesForward(Append(h, e))
         /\ \A i \in DOMAIN Append(h, e) : Append(h, e)[i].version \in 1..n
         /\ Append(h, e)[Len(Append(h, e))] = e
<1> DEFINE g == Append(h, e)
<1>1. Len(h) \in Nat \ {0} /\ DOMAIN h = 1..Len(h)
  OBVIOUS
<1>2. /\ g \in Seq(Events) /\ Len(g) = Len(h) + 1 /\ DOMAIN g = 1..(Len(h) + 1)
      /\ \A i \in 1..Len(h) : g[i] = h[i]
      /\ g[Len(h) + 1] = e
  OBVIOUS
<1> HIDE DEF g
<1>3. e.at \in Nat /\ \A i \in 1..Len(h) : h[i].at \in Nat
  <2>1. \A i \in 1..Len(h) : h[i] \in Events
    OBVIOUS
  <2> QED BY <2>1 DEF Events
<1>4. \A i \in 1..Len(h) : h[i].at <= e.at
  <2>1. \A i \in 1..Len(h) : h[i].at <= h[Len(h)].at
    BY <1>1 DEF TimeMovesForward
  <2> QED BY <1>1, <1>3, <2>1
<1>5. TimeMovesForward(g)
  <2> SUFFICES ASSUME NEW i \in 1..(Len(h) + 1), NEW j \in 1..(Len(h) + 1), i <= j
               PROVE  g[i].at <= g[j].at
    BY <1>2 DEF TimeMovesForward
  <2>1. CASE j \in 1..Len(h)
    <3>1. i \in 1..Len(h)
      BY <1>1, <2>1
    <3> QED BY <1>1, <1>2, <2>1, <3>1 DEF TimeMovesForward
  <2>2. CASE j = Len(h) + 1 /\ i \in 1..Len(h)
    BY <1>2, <1>4, <2>2
  <2>3. CASE j = Len(h) + 1 /\ i = Len(h) + 1
    BY <1>2, <1>3, <2>3
  <2> QED BY <1>1, <2>1, <2>2, <2>3
<1>6. g # <<>> /\ \A i \in DOMAIN g : g[i].version \in 1..n
  <2> SUFFICES ASSUME NEW i \in 1..(Len(h) + 1) PROVE g[i].version \in 1..n
    BY <1>1, <1>2
  <2>1. CASE i \in 1..Len(h)
    BY <1>1, <1>2, <2>1
  <2>2. CASE i = Len(h) + 1
    BY <1>2, <2>2
  <2> QED BY <1>1, <2>1, <2>2
<1> QED BY <1>2, <1>5, <1>6 DEF g

(* A command that touches only the latest version, never makes it approved *)
(* and never was applied to an approved one, keeps the document consistent. *)
LEMMA RecordingKeepsConsistency ==
  ASSUME NEW d \in Documents, ConsistentDocument(d), d # NoDocument,
         NEW c, WellFormedCommand(c), c.action # "registered", c.version = Latest(d),
         NEW at \in Nat, ~ClockMovedBack(d, at), Recordable(d, c, at),
         d.versions[c.version].status # "approved",
         UpdatedVersion(d.versions[c.version], c).status # "approved"
  PROVE  /\ ReplaceVersionAndRecord(d, c, at) \in Documents
         /\ ConsistentDocument(ReplaceVersionAndRecord(d, c, at))
<1> DEFINE n == Latest(d)
           v == d.versions[n]
           w == UpdatedVersion(v, c)
           e == EventOf(c, v.status, w.status, at)
           r == ReplaceVersionAndRecord(d, c, at)
<1>1. /\ n \in Nat \ {0} /\ Len(d.history) \in Nat \ {0}
      /\ DOMAIN d.versions = 1..n /\ DOMAIN d.history = 1..Len(d.history)
      /\ d.versions \in Seq(Versions) /\ d.history \in Seq(Events) /\ d.current \in Nat
  BY StoredDocumentIsNotEmpty DEF Documents
<1>2. v \in Versions
  BY <1>1
<1>3. w \in Versions /\ w.sha256 = v.sha256
  BY <1>2, UpdatedVersionType
<1>4. e \in Events /\ e.version = n /\ e.at = at
  <2>1. v.status \in Statuses /\ w.status \in Statuses
    BY <1>2, <1>3 DEF Versions
  <2>2. EventOf(c, v.status, w.status, at) \in Events
    BY <2>1, EventType
  <2> QED BY <2>2 DEF EventOf
<1> DEFINE vs == [d.versions EXCEPT ![n] = w]
           h == Append(d.history, e)
<1>5. r.versions = vs /\ r.current = d.current /\ r.history = h /\ r \in [versions : {vs}, current : {d.current}, history : {h}]
  BY DEF ReplaceVersionAndRecord, Documents
<1>6. /\ vs \in Seq(Versions) /\ Len(vs) = n /\ DOMAIN vs = 1..n
      /\ \A m \in 1..n : vs[m] = IF m = n THEN w ELSE d.versions[m]
  BY <1>1, <1>3 DEF Latest
<1>7. /\ h \in Seq(Events) /\ h # <<>> /\ TimeMovesForward(h)
      /\ \A i \in DOMAIN h : h[i].version \in 1..n
  <2>1. d.history # <<>> /\ TimeMovesForward(d.history)
    BY <1>1 DEF ConsistentDocument
  <2>2. ~(e.at < d.history[Len(d.history)].at)
    BY <1>4 DEF ClockMovedBack
  <2>3. \A i \in DOMAIN d.history : d.history[i].version \in 1..n
    BY <1>1 DEF ConsistentDocument
  <2>4. e.version \in 1..n
    BY <1>1, <1>4
  <2> HIDE DEF e, n
  <2> QED BY <1>1, <1>4, <2>1, <2>2, <2>3, <2>4, AppendingAnEvent
<1> HIDE DEF vs, h, r, e, w
<1>8. r.versions = vs /\ r.current = d.current /\ r.history = h
  BY <1>5
<1>9. r \in Documents
  BY <1>1, <1>5, <1>6, <1>7 DEF Documents
<1>10. CurrentIsApproved(r)
  <2>1. d.current <= n /\ \A m \in 1..n : (d.versions[m].status = "approved") <=> (d.current = m)
    BY <1>1 DEF ConsistentDocument, CurrentIsApproved
  <2>2. w.status # "approved" /\ v.status # "approved"
    BY DEF w
  <2> QED BY <1>1, <1>6, <1>8, <2>1, <2>2 DEF CurrentIsApproved, Latest
<1>11. OnlyLatestIsActive(r)
  <2>1. \A m \in 1..n : d.versions[m].status \in ActiveCandidateStatuses => m = n
    BY <1>1 DEF ConsistentDocument, OnlyLatestIsActive
  <2> QED BY <1>6, <1>8, <2>1 DEF OnlyLatestIsActive, Latest
<1>12. DistinctContent(r)
  <2>1. \A m, k \in 1..n : d.versions[m].sha256 = d.versions[k].sha256 => m = k
    BY <1>1 DEF ConsistentDocument, DistinctContent
  <2>2. \A m \in 1..n : vs[m].sha256 = d.versions[m].sha256
    BY <1>3, <1>6
  <2> QED BY <1>6, <1>8, <2>1, <2>2 DEF DistinctContent
<1>13. VersionsAreValid(r)
  <2>1. \A m \in 1..n : ValidVersion(d.versions[m], m)
    BY <1>1 DEF ConsistentDocument, VersionsAreValid
  <2>2. ValidVersion(w, n)
    BY DEF Recordable, w
  <2> QED BY <1>6, <1>8, <2>1, <2>2 DEF VersionsAreValid
<1>14. vs # <<>>
  BY <1>1, <1>6
<1>15. ConsistentDocument(r)
  BY <1>6, <1>7, <1>8, <1>10, <1>11, <1>12, <1>13, <1>14 DEF ConsistentDocument
<1> QED BY <1>9, <1>15 DEF r

LEMMA NewVersionIsValid ==
  ASSUME NEW h \in Hashes, NEW n \in Nat
  PROVE  /\ NewVersion(h) \in Versions
         /\ NewVersion(h).sha256 = h
         /\ NewVersion(h).status = "received"
         /\ ValidVersion(NewVersion(h), n)
BY DEF NewVersion, Versions, Statuses, StepStatuses, ValidVersion, HasFailure,
       IntegrityRequiredStatuses, None

LEMMA RegistrationGuards ==
  ASSUME NEW d \in Documents, ConsistentDocument(d), NEW c, WellFormedCommand(c),
         c.action = "registered", NEW at \in Nat, RegisterError(d, c, at) = None,
         d # NoDocument, ~(c.version <= Latest(d))
  PROVE  /\ c.version = Latest(d) + 1
         /\ \A i \in DOMAIN d.versions : d.versions[i].sha256 # c.sha256
         /\ d.versions[Latest(d)].status \notin ActiveCandidateStatuses
         /\ ~ClockMovedBack(d, at)
BY DEF RegisterError, None

LEMMA RegisteringKeepsConsistency ==
  ASSUME NEW d \in Documents, ConsistentDocument(d), NEW c, WellFormedCommand(c),
         c.action = "registered", NEW at \in Nat, RegisterError(d, c, at) = None
  PROVE  /\ Registered(d, c, at) \in Documents
         /\ ConsistentDocument(Registered(d, c, at))
<1> DEFINE n == Latest(d)
           w == NewVersion(c.sha256)
           e == EventOf(c, None, "received", at)
           r == Registered(d, c, at)
           vs == Append(d.versions, w)
           h == Append(d.history, e)
<1>1. c.sha256 \in Hashes /\ c.version \in Nat \ {0}
  BY DEF WellFormedCommand, CommandShapes
<1>2. /\ d.versions \in Seq(Versions) /\ d.history \in Seq(Events) /\ d.current \in Nat
      /\ n \in Nat /\ DOMAIN d.versions = 1..n /\ n = Len(d.versions)
  BY DEF Documents, Latest
<1>3. w \in Versions /\ w.sha256 = c.sha256 /\ w.status = "received"
  BY <1>1, NewVersionIsValid
<1>4. ValidVersion(w, n + 1)
  BY <1>1, <1>2, NewVersionIsValid
<1>5. e \in Events /\ e.version = c.version /\ e.at = at
  <2>1. EventOf(c, None, "received", at) \in Events
    BY EventType DEF Statuses
  <2> QED BY <2>1 DEF EventOf
<1>6. CASE c.version <= n
  BY <1>6 DEF Registered
<1>7. CASE ~(c.version <= n)
  <2>1. /\ r.versions = vs /\ r.current = d.current /\ r.history = h
        /\ r \in [versions : {vs}, current : {d.current}, history : {h}]
    BY <1>7 DEF Registered, Documents
  <2>2. /\ vs \in Seq(Versions) /\ Len(vs) = n + 1 /\ DOMAIN vs = 1..(n + 1)
        /\ \A m \in 1..n : vs[m] = d.versions[m]
        /\ vs[n + 1] = w
        /\ vs # <<>>
        /\ \A m \in 1..(n + 1) : m \in 1..n \/ m = n + 1
    <3> HIDE DEF w
    <3> QED BY <1>2, <1>3
  <2>3. c.version = n + 1
    <3>1. CASE d = NoDocument
      BY <3>1 DEF RegisterError, None, NoDocument, Latest
    <3>2. CASE d # NoDocument
      BY <1>7, <3>2, RegistrationGuards
    <3> QED BY <3>1, <3>2
  <2>4. \A m \in 1..n : /\ d.versions[m].sha256 # c.sha256
                        /\ d.versions[m].status \notin ActiveCandidateStatuses
    <3>1. CASE d = NoDocument
      BY <1>2, <3>1 DEF NoDocument
    <3>2. CASE d # NoDocument
      <4>1. \A m \in 1..n : d.versions[m].status \in ActiveCandidateStatuses => m = n
        BY <1>2 DEF ConsistentDocument, OnlyLatestIsActive
      <4> QED BY <1>2, <1>7, <3>2, <4>1, RegistrationGuards
    <3> QED BY <3>1, <3>2
  <2>5. /\ h \in Seq(Events) /\ h # <<>> /\ TimeMovesForward(h)
        /\ \A i \in DOMAIN h : h[i].version \in 1..(n + 1)
    <3>1. CASE d = NoDocument
      <4>1. d.history = <<>> /\ h = <<e>>
        BY <3>1 DEF NoDocument
      <4>2. h[1] = e /\ DOMAIN h = {1} /\ h \in Seq(Events)
        BY <1>5, <4>1
      <4>3. e.at \in Nat /\ e.version \in 1..(n + 1)
        BY <1>2, <1>5, <2>3
      <4> HIDE DEF h, e
      <4> QED BY <4>1, <4>2, <4>3 DEF TimeMovesForward
    <3>2. CASE d # NoDocument
      <4>1. d.history # <<>> /\ TimeMovesForward(d.history)
        BY <3>2, StoredDocumentIsNotEmpty DEF ConsistentDocument
      <4>2. ~(e.at < d.history[Len(d.history)].at)
        BY <1>5, <1>7, <3>2, RegistrationGuards DEF ClockMovedBack
      <4>3. \A i \in DOMAIN d.history : d.history[i].version \in 1..(n + 1)
        BY <1>2 DEF ConsistentDocument
      <4>4. e.version \in 1..(n + 1) /\ n + 1 \in Nat
        BY <1>2, <1>5, <2>3
      <4> HIDE DEF e, n
      <4> QED BY <1>2, <1>5, <4>1, <4>2, <4>3, <4>4, AppendingAnEvent
    <3> QED BY <3>1, <3>2
  <2>12. n \in Nat /\ Len(r.versions) = n + 1
    BY <1>2, <2>1, <2>2
  <2> HIDE DEF vs, h, r, e, w, n
  <2>6. r \in Documents
    BY <1>2, <2>1, <2>2, <2>5 DEF Documents
  <2>7. CurrentIsApproved(r)
    <3>1. d.current <= n /\ \A m \in 1..n : (d.versions[m].status = "approved") <=> (d.current = m)
      BY <1>2 DEF ConsistentDocument, CurrentIsApproved, n
    <3>2. d.current # n + 1 /\ d.current <= n + 1
      BY <1>2, <3>1
    <3> QED BY <1>3, <2>1, <2>2, <2>12, <3>1, <3>2 DEF CurrentIsApproved, Latest
  <2>8. OnlyLatestIsActive(r)
    BY <1>2, <2>1, <2>2, <2>4, <2>12 DEF OnlyLatestIsActive, Latest
  <2>9. DistinctContent(r)
    <3>1. \A m, k \in 1..n : d.versions[m].sha256 = d.versions[k].sha256 => m = k
      BY <1>2 DEF ConsistentDocument, DistinctContent
    <3> QED BY <1>2, <1>3, <2>1, <2>2, <2>4, <3>1 DEF DistinctContent
  <2>10. VersionsAreValid(r)
    <3>1. \A m \in 1..n : ValidVersion(d.versions[m], m)
      BY <1>2 DEF ConsistentDocument, VersionsAreValid
    <3> QED BY <1>2, <1>4, <2>1, <2>2, <3>1 DEF VersionsAreValid
  <2>11. ConsistentDocument(r)
    BY <2>1, <2>2, <2>5, <2>7, <2>8, <2>9, <2>10 DEF ConsistentDocument
  <2> QED BY <2>6, <2>11 DEF r
<1> QED BY <1>6, <1>7

LEMMA ApprovalGuards ==
  ASSUME NEW d, NEW c, NEW at, ApproveError(d, c, at) = None
  PROVE  /\ c.version = Latest(d)
         /\ d.versions[c.version].status = "pending_approval"
         /\ ~ClockMovedBack(d, at)
         /\ d.current # 0 => ValidVersion(SupersededVersion(d, c), d.current)
         /\ Recordable(d, c, at)
BY DEF ApproveError, None

LEMMA ApprovingKeepsConsistency ==
  ASSUME NEW d \in Documents, ConsistentDocument(d), d # NoDocument,
         NEW c, WellFormedCommand(c), c.action = "approved", NEW at \in Nat,
         ApproveError(d, c, at) = None
  PROVE  /\ Approved(d, c, at) \in Documents
         /\ ConsistentDocument(Approved(d, c, at))
<1> DEFINE n == Latest(d)
           k == d.current
           v == d.versions[n]
           w == UpdatedVersion(v, c)
           x == SupersededVersion(d, c)
           e == EventOf(c, v.status, "approved", at)
           f == SupersededEvent(k, c, d.versions[k].status, at)
           r == Approved(d, c, at)
<1>1. /\ n \in Nat \ {0} /\ Len(d.history) \in Nat \ {0} /\ Len(d.versions) = n
      /\ DOMAIN d.versions = 1..n /\ DOMAIN d.history = 1..Len(d.history)
      /\ d.versions \in Seq(Versions) /\ d.history \in Seq(Events) /\ k \in Nat
  BY StoredDocumentIsNotEmpty DEF Documents, Latest
<1>2. c.version = n /\ v.status = "pending_approval" /\ v \in Versions
  BY <1>1, ApprovalGuards
<1>3. w \in Versions /\ w.sha256 = v.sha256 /\ w.status = "approved" /\ ValidVersion(w, n)
  <2>1. w = [v EXCEPT !.status = "approved"]
    BY DEF UpdatedVersion
  <2>2. ValidVersion(w, n)
    BY <1>2, ApprovalGuards DEF Recordable
  <2> QED BY <1>2, <2>1, <2>2 DEF Versions, Statuses
<1>4. e \in Events /\ e.version = n /\ e.at = at
  <2>1. EventOf(c, v.status, "approved", at) \in Events
    BY <1>2, EventType DEF Statuses
  <2> QED BY <1>2, <2>1 DEF EventOf
<1>5. k <= n /\ \A m \in 1..n : (d.versions[m].status = "approved") <=> (k = m)
  BY <1>1 DEF ConsistentDocument, CurrentIsApproved
<1>6. \A m \in 1..n : d.versions[m].status \in ActiveCandidateStatuses => m = n
  BY <1>1 DEF ConsistentDocument, OnlyLatestIsActive
<1>7. \A m, j \in 1..n : d.versions[m].sha256 = d.versions[j].sha256 => m = j
  BY <1>1 DEF ConsistentDocument, DistinctContent
<1>8. \A m \in 1..n : ValidVersion(d.versions[m], m)
  BY <1>1 DEF ConsistentDocument, VersionsAreValid
<1>9. /\ d.history # <<>> /\ TimeMovesForward(d.history)
      /\ ~(at < d.history[Len(d.history)].at)
      /\ \A i \in DOMAIN d.history : d.history[i].version \in 1..n
  BY <1>1, ApprovalGuards DEF ConsistentDocument, ClockMovedBack
<1> DEFINE promoted == [d.versions EXCEPT ![n] = w]
<1>10. /\ promoted \in Seq(Versions) /\ Len(promoted) = n /\ DOMAIN promoted = 1..n
       /\ \A m \in 1..n : promoted[m] = IF m = n THEN w ELSE d.versions[m]
  <2> HIDE DEF w
  <2> QED BY <1>1, <1>3
<1>11. n \in 1..n /\ n \in Nat
  BY <1>1
<1>12. CASE k = 0
  <2> DEFINE h == Append(d.history, e)
  <2>1. /\ r.versions = promoted /\ r.current = n /\ r.history = h
        /\ r \in [versions : {promoted}, current : {n}, history : {h}]
    BY <1>2, <1>12 DEF Approved, Documents
  <2>2. /\ h \in Seq(Events) /\ h # <<>> /\ TimeMovesForward(h)
        /\ \A i \in DOMAIN h : h[i].version \in 1..n
    <3>1. ~(e.at < d.history[Len(d.history)].at) /\ e.version \in 1..n
      BY <1>4, <1>9, <1>11
    <3> HIDE DEF e, n
    <3> QED BY <1>1, <1>4, <1>9, <1>11, <3>1, AppendingAnEvent
  <2> HIDE DEF promoted, h, r, w, e, v, n
  <2>3. r \in Documents
    BY <1>11, <1>10, <2>1, <2>2 DEF Documents
  <2>4. CurrentIsApproved(r)
    BY <1>3, <1>5, <1>10, <1>11, <1>12, <2>1 DEF CurrentIsApproved, Latest
  <2>5. OnlyLatestIsActive(r)
    BY <1>6, <1>10, <2>1 DEF OnlyLatestIsActive, Latest
  <2>6. DistinctContent(r)
    <3>1. \A m \in 1..n : promoted[m].sha256 = d.versions[m].sha256
      BY <1>3, <1>10 DEF v
    <3> QED BY <1>7, <1>10, <2>1, <3>1 DEF DistinctContent
  <2>7. VersionsAreValid(r)
    BY <1>3, <1>8, <1>10, <2>1 DEF VersionsAreValid
  <2>8. promoted # <<>>
    BY <1>10, <1>11
  <2> QED BY <1>10, <2>1, <2>2, <2>3, <2>4, <2>5, <2>6, <2>7, <2>8 DEF ConsistentDocument, r
<1>13. CASE k # 0
  <2> DEFINE g == Append(d.history, f)
             h == Append(g, e)
             vs == [promoted EXCEPT ![k] = x]
  <2>1. k \in 1..n /\ k # n /\ d.versions[k] \in Versions
    <3>1. k \in 1..n
      BY <1>1, <1>5, <1>13
    <3> QED BY <1>1, <1>2, <1>5, <3>1
  <2>2. /\ x \in Versions /\ x.sha256 = d.versions[k].sha256 /\ x.status = "superseded"
        /\ ValidVersion(x, k)
    <3>1. ValidVersion(x, k)
      BY <1>13, ApprovalGuards
    <3> QED BY <1>1, <1>2, <2>1, <3>1 DEF SupersededVersion, Versions, Statuses
  <2>3. f \in Events /\ f.version = k /\ f.at = at
    <3>1. d.versions[k].status \in Statuses /\ k \in Nat \ {0}
      BY <2>1, <1>1, <1>13 DEF Versions
    <3> QED BY <3>1 DEF SupersededEvent, Events, Actions, Statuses, WellFormedCommand, CommandShapes
  <2>4. /\ r.versions = vs /\ r.current = n /\ r.history = h
        /\ r \in [versions : {vs}, current : {n}, history : {h}]
    BY <1>2, <1>13 DEF Approved, Documents
  <2>5. /\ g \in Seq(Events) /\ g # <<>> /\ TimeMovesForward(g)
        /\ \A i \in DOMAIN g : g[i].version \in 1..n
        /\ g[Len(g)] = f
    <3> HIDE DEF f, n, k
    <3> QED BY <1>1, <1>9, <1>11, <2>1, <2>3, AppendingAnEvent
  <2>6. /\ h \in Seq(Events) /\ h # <<>> /\ TimeMovesForward(h)
        /\ \A i \in DOMAIN h : h[i].version \in 1..n
    <3>1. ~(e.at < g[Len(g)].at)
      BY <1>4, <2>3, <2>5
    <3> HIDE DEF e, n, g
    <3> QED BY <1>4, <1>11, <2>5, <3>1, AppendingAnEvent
  <2>7. /\ vs \in Seq(Versions) /\ Len(vs) = n /\ DOMAIN vs = 1..n
        /\ \A m \in 1..n : vs[m] = IF m = k THEN x ELSE promoted[m]
    <3> HIDE DEF x, promoted, k, n
    <3> QED BY <1>10, <2>1, <2>2
  <2> HIDE DEF promoted, vs, h, g, r, w, e, f, v, x, n, k
  <2>8. r \in Documents
    BY <1>11, <2>4, <2>6, <2>7 DEF Documents
  <2>9. CurrentIsApproved(r)
    BY <1>3, <1>5, <1>10, <1>11, <2>1, <2>2, <2>4, <2>7 DEF CurrentIsApproved, Latest
  <2>10. OnlyLatestIsActive(r)
    BY <1>6, <1>10, <2>2, <2>4, <2>7 DEF OnlyLatestIsActive, Latest, ActiveCandidateStatuses
  <2>11. DistinctContent(r)
    <3>1. \A m \in 1..n : vs[m].sha256 = d.versions[m].sha256
      BY <1>3, <1>10, <2>1, <2>2, <2>7 DEF v
    <3> QED BY <1>7, <2>4, <2>7, <3>1 DEF DistinctContent
  <2>12. VersionsAreValid(r)
    BY <1>3, <1>8, <1>10, <2>2, <2>4, <2>7 DEF VersionsAreValid
  <2>13. vs # <<>>
    BY <1>11, <2>7
  <2> QED BY <2>4, <2>6, <2>7, <2>8, <2>9, <2>10, <2>11, <2>12, <2>13 DEF ConsistentDocument, r
<1> QED BY <1>12, <1>13

(* Every other command goes through _replace_version_and_record. *)
LEMMA RecordingGuards ==
  ASSUME NEW d \in Documents, ConsistentDocument(d), d # NoDocument,
         NEW c, WellFormedCommand(c), c.action \notin {"registered", "approved"},
         NEW at \in Nat, ErrorOf(d, c, at) = None
  PROVE  /\ c.version = Latest(d)
         /\ ~ClockMovedBack(d, at)
         /\ Recordable(d, c, at)
         /\ d.versions[c.version].status # "approved"
         /\ UpdatedVersion(d.versions[c.version], c).status # "approved"
<1> DEFINE v == d.versions[c.version]
<1>1. c.action \in {"processing_started", "reprocessing_started", "extraction_succeeded",
                    "indexing_succeeded", "processing_failed", "rejected"}
  BY DEF WellFormedCommand, CommandShapes, Actions
<1>2. ASSUME StartProcessingError(d, c, at) = None
      PROVE  /\ c.version = Latest(d) /\ ~ClockMovedBack(d, at) /\ Recordable(d, c, at)
             /\ TransitionAllowed(v.status, "processing")
  BY <1>2 DEF StartProcessingError, None
<1>3. ASSUME TransitionAllowed(v.status, "processing") PROVE v.status # "approved"
  BY <1>3 DEF TransitionAllowed, AllowedTransitions
<1>4. CASE c.action = "processing_started"
  <2>1. StartProcessingError(d, c, at) = None
    BY <1>4 DEF ErrorOf
  <2>2. UpdatedVersion(v, c) = [v EXCEPT !.status = "processing"] /\ v \in Versions
    BY <1>2, <1>4, <2>1, StoredDocumentIsNotEmpty DEF UpdatedVersion, Documents
  <2>3. UpdatedVersion(v, c).status = "processing"
    BY <2>2 DEF Versions
  <2> QED BY <1>2, <1>3, <2>1, <2>3
<1>5. CASE c.action = "reprocessing_started"
  <2>1. StartProcessingError(d, c, at) = None
    BY <1>5 DEF ErrorOf, ReprocessError, None
  <2>2. UpdatedVersion(v, c) = ReprocessedVersion(v) /\ v \in Versions
    BY <1>2, <1>5, <2>1, StoredDocumentIsNotEmpty DEF UpdatedVersion, Documents
  <2>3. UpdatedVersion(v, c).status = "processing"
    BY <2>2 DEF Versions, ReprocessedVersion
  <2> QED BY <1>2, <1>3, <2>1, <2>3
<1>6. CASE c.action \in {"extraction_succeeded", "indexing_succeeded", "processing_failed"}
  <2>1. RecordStepError(d, c, at) = None
    BY <1>6 DEF ErrorOf
  <2>2. /\ c.version = Latest(d) /\ ~ClockMovedBack(d, at) /\ Recordable(d, c, at)
        /\ v.status = "processing"
    BY <2>1 DEF RecordStepError, None
  <2>3. v \in Versions
    BY <2>2, StoredDocumentIsNotEmpty DEF Documents
  <2>4. CASE c.action = "processing_failed"
    <3>1. UpdatedVersion(v, c) = FailedVersion(v, c.step)
      BY <2>4 DEF UpdatedVersion
    <3> QED BY <2>2, <2>3, <3>1 DEF FailedVersion, WithStatus, Versions
  <2>5. CASE c.action # "processing_failed"
    <3>1. UpdatedVersion(v, c) = SucceededVersion(v, c.step)
      BY <1>6, <2>5 DEF UpdatedVersion
    <3> QED BY <2>2, <2>3, <3>1 DEF SucceededVersion, WithStatus, Versions
  <2> QED BY <2>4, <2>5
<1>7. CASE c.action = "rejected"
  <2>1. RejectError(d, c, at) = None
    BY <1>7 DEF ErrorOf
  <2>2. /\ c.version = Latest(d) /\ ~ClockMovedBack(d, at) /\ Recordable(d, c, at)
        /\ v.status = "pending_approval"
    BY <2>1 DEF RejectError, None, TransitionAllowed, AllowedTransitions
  <2>3. UpdatedVersion(v, c) = [v EXCEPT !.status = "rejected"] /\ v \in Versions
    BY <1>7, <2>2, StoredDocumentIsNotEmpty DEF UpdatedVersion, Documents
  <2> QED BY <2>2, <2>3 DEF Versions
<1> QED BY <1>1, <1>4, <1>5, <1>6, <1>7

(* One command, accepted, leaves a well-typed and consistent document: the  *)
(* aggregate checks of GovernedDocument.__post_init__ cannot fail on it. *)
THEOREM CommandsKeepConsistency ==
  ASSUME NEW d \in Documents, ConsistentDocument(d), NEW c, WellFormedCommand(c),
         NEW at \in Nat, c.action # "registered" => d # NoDocument,
         ErrorOf(d, c, at) = None
  PROVE  /\ ResultOf(d, c, at) \in Documents
         /\ ConsistentDocument(ResultOf(d, c, at))
<1>1. CASE c.action = "registered"
  <2>1. RegisterError(d, c, at) = None /\ ResultOf(d, c, at) = Registered(d, c, at)
    BY <1>1 DEF ErrorOf, ResultOf
  <2> QED BY <1>1, <2>1, RegisteringKeepsConsistency
<1>2. CASE c.action = "approved"
  <2>1. ApproveError(d, c, at) = None /\ ResultOf(d, c, at) = Approved(d, c, at)
    BY <1>2 DEF ErrorOf, ResultOf
  <2> QED BY <1>2, <2>1, ApprovingKeepsConsistency
<1>3. CASE c.action \notin {"registered", "approved"}
  <2>1. ResultOf(d, c, at) = ReplaceVersionAndRecord(d, c, at)
    BY <1>3 DEF ResultOf
  <2> QED BY <1>3, <2>1, RecordingGuards, RecordingKeepsConsistency
<1> QED BY <1>1, <1>2, <1>3

------------------------------------------------------------------------

-----------------------------------------------------------------------------
(* What a command may never do to what is already there. *)

Extends(g, h) == Len(h) <= Len(g) /\ SubSeq(g, 1, Len(h)) = h

LEMMA HistoryExtendsItself == ASSUME NEW h \in Seq(Events) PROVE Extends(h, h)
BY DEF Extends

LEMMA AppendingExtends == ASSUME NEW h \in Seq(Events), NEW e PROVE Extends(Append(h, e), h)
BY DEF Extends

LEMMA AppendingTwoExtends ==
  ASSUME NEW h \in Seq(Events), NEW e, NEW f PROVE Extends(Append(Append(h, e), f), h)
BY DEF Extends

(* The eligible version of a consistent document is its current one. *)
LEMMA EligibleIsCurrent ==
  ASSUME NEW d \in Documents, ConsistentDocument(d) PROVE EligibleVersion(d) = d.current
<1>1. d.current \in Nat /\ Latest(d) \in Nat /\ DOMAIN d.versions = 1..Latest(d)
  BY DEF Documents, Latest
<1>2. CASE d.current # 0
  <2>1. d.current \in DOMAIN d.versions /\ d.versions[d.current].status = "approved"
    BY <1>1, <1>2 DEF ConsistentDocument, CurrentIsApproved
  <2>2. Complete(d.versions[d.current])
    BY <2>1 DEF ConsistentDocument, VersionsAreValid, ValidVersion, IntegrityRequiredStatuses
  <2> QED BY <1>2, <2>1, <2>2 DEF EligibleVersion, IsEligible
<1> QED BY <1>2 DEF EligibleVersion

(* An accepted command appends to the history, keeps the content of every   *)
(* version, and never moves the current version back. *)
LEMMA CommandsOnlyAdd ==
  ASSUME NEW d \in Documents, ConsistentDocument(d), NEW c, WellFormedCommand(c),
         NEW at \in Nat, c.action # "registered" => d # NoDocument,
         ErrorOf(d, c, at) = None
  PROVE  /\ Extends(ResultOf(d, c, at).history, d.history)
         /\ \A n \in DOMAIN d.versions :
              ResultOf(d, c, at).versions[n].sha256 = d.versions[n].sha256
         /\ ResultOf(d, c, at).current >= d.current
<1>1. /\ d.versions \in Seq(Versions) /\ d.history \in Seq(Events) /\ d.current \in Nat
      /\ DOMAIN d.versions = 1..Latest(d) /\ Latest(d) \in Nat /\ d.current <= Latest(d)
  BY DEF Documents, Latest, ConsistentDocument, CurrentIsApproved
<1>2. CASE c.action = "registered"
  <2>1. ResultOf(d, c, at) = Registered(d, c, at)
    BY <1>2 DEF ResultOf
  <2>2. CASE c.version <= Latest(d)
    <3>1. ResultOf(d, c, at) = d
      BY <2>1, <2>2 DEF Registered
    <3> QED BY <1>1, <3>1, HistoryExtendsItself
  <2>3. CASE ~(c.version <= Latest(d))
    <3>1. ResultOf(d, c, at) =
            [d EXCEPT !.versions = Append(@, NewVersion(c.sha256)),
                      !.history = Append(@, EventOf(c, None, "received", at))]
      BY <2>1, <2>3 DEF Registered
    <3>2. /\ ResultOf(d, c, at).versions = Append(d.versions, NewVersion(c.sha256))
          /\ ResultOf(d, c, at).history = Append(d.history, EventOf(c, None, "received", at))
          /\ ResultOf(d, c, at).current = d.current
      BY <3>1 DEF Documents
    <3>3. \A n \in DOMAIN d.versions :
            Append(d.versions, NewVersion(c.sha256))[n] = d.versions[n]
      BY <1>1
    <3>4. Extends(ResultOf(d, c, at).history, d.history)
      BY <1>1, <3>2, AppendingExtends
    <3> QED BY <1>1, <3>2, <3>3, <3>4
  <2> QED BY <2>2, <2>3
<1>3. CASE c.action = "approved"
  <2> DEFINE v == d.versions[c.version]
             approval == EventOf(c, v.status, "approved", at)
             promoted == [d.versions EXCEPT ![c.version] = UpdatedVersion(v, c)]
  <2>1. ApproveError(d, c, at) = None /\ ResultOf(d, c, at) = Approved(d, c, at)
        /\ d # NoDocument
    BY <1>3 DEF ErrorOf, ResultOf
  <2>2. c.version = Latest(d) /\ c.version \in DOMAIN d.versions /\ v \in Versions
    BY <1>1, <2>1, ApprovalGuards, StoredDocumentIsNotEmpty
  <2>3. UpdatedVersion(v, c).sha256 = v.sha256
    BY <1>3, <2>2, UpdatedVersionType
  <2>4. \A n \in DOMAIN d.versions : promoted[n].sha256 = d.versions[n].sha256
    BY <2>2, <2>3
  <2>5. CASE d.current = 0
    <3>1. /\ Approved(d, c, at).versions = promoted
          /\ Approved(d, c, at).history = Append(d.history, approval)
          /\ Approved(d, c, at).current = c.version
      BY <2>5 DEF Approved, Documents
    <3> HIDE DEF promoted, approval
    <3> QED BY <1>1, <2>1, <2>2, <2>4, <3>1, AppendingExtends
  <2>6. CASE d.current # 0
    <3> DEFINE event == SupersededEvent(d.current, c, d.versions[d.current].status, at)
    <3>1. /\ Approved(d, c, at).versions =
                [promoted EXCEPT ![d.current] = SupersededVersion(d, c)]
          /\ Approved(d, c, at).history = Append(Append(d.history, event), approval)
          /\ Approved(d, c, at).current = c.version
      BY <2>6 DEF Approved, Documents
    <3>2. d.current \in DOMAIN d.versions /\ d.versions[d.current] \in Versions
      BY <1>1, <2>6
    <3>3. SupersededVersion(d, c).sha256 = d.versions[d.current].sha256
      BY <3>2 DEF SupersededVersion, Versions
    <3>4. \A n \in DOMAIN d.versions :
            Approved(d, c, at).versions[n].sha256 = d.versions[n].sha256
      BY <2>4, <3>1, <3>3
    <3> HIDE DEF promoted, approval, event
    <3> QED BY <1>1, <2>1, <2>2, <3>1, <3>4, AppendingTwoExtends
  <2> QED BY <2>5, <2>6
<1>4. CASE c.action \notin {"registered", "approved"}
  <2> DEFINE v == d.versions[c.version]
             w == UpdatedVersion(v, c)
             e == EventOf(c, v.status, w.status, at)
  <2>1. ResultOf(d, c, at) = ReplaceVersionAndRecord(d, c, at) /\ d # NoDocument
    BY <1>4 DEF ResultOf
  <2>2. c.version \in DOMAIN d.versions /\ v \in Versions
    BY <1>1, <1>4, <2>1, RecordingGuards, StoredDocumentIsNotEmpty
  <2>3. w.sha256 = v.sha256
    BY <1>4, <2>2, UpdatedVersionType
  <2>4. /\ ResultOf(d, c, at).versions = [d.versions EXCEPT ![c.version] = w]
        /\ ResultOf(d, c, at).history = Append(d.history, e)
        /\ ResultOf(d, c, at).current = d.current
    BY <2>1 DEF ReplaceVersionAndRecord, Documents
  <2>5. \A n \in DOMAIN d.versions :
          ResultOf(d, c, at).versions[n].sha256 = d.versions[n].sha256
    BY <2>2, <2>3, <2>4
  <2> HIDE DEF e
  <2>6. Extends(ResultOf(d, c, at).history, d.history)
    BY <1>1, <2>4, AppendingExtends
  <2> QED BY <1>1, <2>4, <2>5, <2>6
<1> QED BY <1>2, <1>3, <1>4

(* What one command writes: an event that repeats it, after a supersession  *)
(* when it approves a version over another; and the content it names is    *)
(* the content of the version it names. *)
WrittenBy(e, c, at) == e \in Events /\ EventMatchesCommand(e, c) /\ e.at = at

SupersessionAt(f, at) == f \in Events /\ f.action = "superseded" /\ f.at = at

LEMMA EventOfIsWrittenBy ==
  ASSUME NEW c, WellFormedCommand(c), NEW s \in Statuses \cup {None},
         NEW t \in Statuses, NEW at \in Nat
  PROVE  /\ WrittenBy(EventOf(c, s, t, at), c, at)
         /\ EventOf(c, s, t, at).source = s
         /\ EventOf(c, s, t, at).target = t
<1>1. EventOf(c, s, t, at) \in Events
  BY EventType
<1> QED BY <1>1 DEF WrittenBy, EventMatchesCommand, EventOf

LEMMA CommandsAppend ==
  ASSUME NEW d \in Documents, ConsistentDocument(d), NEW c, WellFormedCommand(c),
         NEW at \in Nat, c.action # "registered" => d # NoDocument,
         ErrorOf(d, c, at) = None, ResultOf(d, c, at) # d
  PROVE  LET r == ResultOf(d, c, at)
         IN  /\ c.version \in DOMAIN r.versions
             /\ c.sha256 # None => r.versions[c.version].sha256 = c.sha256
             /\ \E e \in Events :
                  /\ WrittenBy(e, c, at)
                  /\ \/ r.history = Append(d.history, e)
                     \/ \E f \in Events :
                          /\ SupersessionAt(f, at)
                          /\ f.version # e.version
                          /\ r.history = Append(Append(d.history, f), e)
<1> DEFINE r == ResultOf(d, c, at)
<1>1. /\ d.versions \in Seq(Versions) /\ d.history \in Seq(Events) /\ d.current \in Nat
      /\ DOMAIN d.versions = 1..Latest(d) /\ Latest(d) = Len(d.versions) /\ Latest(d) \in Nat
      /\ d.current <= Latest(d)
  BY DEF Documents, Latest, ConsistentDocument, CurrentIsApproved
<1>2. CASE c.action = "registered"
  <2>1. r = Registered(d, c, at) /\ RegisterError(d, c, at) = None
    BY <1>2 DEF ResultOf, ErrorOf
  <2>2. ~(c.version <= Latest(d))
    BY <2>1 DEF Registered
  <2>3. c.version = Latest(d) + 1
    <3>1. CASE d = NoDocument
      BY <2>1, <3>1 DEF RegisterError, None, NoDocument, Latest
    <3>2. CASE d # NoDocument
      BY <1>2, <2>1, <2>2, <3>2, RegistrationGuards
    <3> QED BY <3>1, <3>2
  <2> DEFINE e == EventOf(c, None, "received", at)
             w == NewVersion(c.sha256)
  <2>4. r.versions = Append(d.versions, w) /\ r.history = Append(d.history, e)
    BY <2>1, <2>2 DEF Registered, Documents
  <2>5. WrittenBy(e, c, at) /\ e \in Events
    BY EventOfIsWrittenBy DEF Statuses, WrittenBy
  <2>6. w.sha256 = c.sha256
    BY DEF NewVersion
  <2> HIDE DEF e, w
  <2>7. Latest(d) + 1 \in DOMAIN r.versions /\ r.versions[Latest(d) + 1] = w
    BY <1>1, <2>4
  <2> QED BY <2>3, <2>4, <2>5, <2>6, <2>7
<1>3. CASE c.action = "approved"
  <2> DEFINE v == d.versions[c.version]
             e == EventOf(c, v.status, "approved", at)
             f == SupersededEvent(d.current, c, d.versions[d.current].status, at)
  <2>1. ApproveError(d, c, at) = None /\ r = Approved(d, c, at) /\ d # NoDocument
    BY <1>3 DEF ErrorOf, ResultOf
  <2>2. c.version = Latest(d) /\ c.version \in DOMAIN d.versions /\ v \in Versions
        /\ v.status = "pending_approval"
    BY <1>1, <2>1, ApprovalGuards, StoredDocumentIsNotEmpty
  <2>3. WrittenBy(e, c, at) /\ e.version = c.version /\ e \in Events
    <3>1. v.status \in Statuses /\ "approved" \in Statuses
      BY <2>2 DEF Versions, Statuses
    <3>2. WrittenBy(e, c, at)
      BY <3>1, EventOfIsWrittenBy
    <3> QED BY <3>2 DEF WrittenBy, EventMatchesCommand
  <2>4. c.sha256 = None
    BY <1>3 DEF WellFormedCommand
  <2>5. DOMAIN r.versions = DOMAIN d.versions
    BY <2>1 DEF Approved, Documents
  <2>6. CASE d.current = 0
    <3>1. r.history = Append(d.history, e)
      BY <2>1, <2>6 DEF Approved, Documents
    <3> HIDE DEF e
    <3> QED BY <2>2, <2>3, <2>4, <2>5, <3>1
  <2>7. CASE d.current # 0
    <3>1. r.history = Append(Append(d.history, f), e)
      BY <2>1, <2>7 DEF Approved, Documents
    <3>2. d.current \in DOMAIN d.versions /\ d.versions[d.current] \in Versions
          /\ d.versions[d.current].status = "approved"
      BY <1>1, <2>7 DEF ConsistentDocument, CurrentIsApproved
    <3>3. d.current # c.version /\ d.current \in Nat \ {0}
      BY <1>1, <2>2, <2>7, <3>2
    <3>4. SupersessionAt(f, at) /\ f.version = d.current /\ f \in Events
      BY <3>2, <3>3 DEF SupersessionAt, SupersededEvent, Events, Actions, Statuses,
                        WellFormedCommand, CommandShapes
    <3> HIDE DEF e, f
    <3> QED BY <2>2, <2>3, <2>4, <2>5, <3>1, <3>3, <3>4
  <2> QED BY <2>6, <2>7
<1>4. CASE c.action \notin {"registered", "approved"}
  <2> DEFINE v == d.versions[c.version]
             w == UpdatedVersion(v, c)
             e == EventOf(c, v.status, w.status, at)
  <2>1. r = ReplaceVersionAndRecord(d, c, at) /\ d # NoDocument
    BY <1>4 DEF ResultOf
  <2>2. c.version = Latest(d) /\ c.version \in DOMAIN d.versions /\ v \in Versions
    BY <1>1, <1>4, <2>1, RecordingGuards, StoredDocumentIsNotEmpty
  <2>3. w \in Versions /\ w.sha256 = v.sha256
    BY <1>4, <2>2, UpdatedVersionType
  <2>4. WrittenBy(e, c, at) /\ e \in Events
    <3>1. v.status \in Statuses /\ w.status \in Statuses
      BY <2>2, <2>3 DEF Versions
    <3> QED BY <3>1, EventOfIsWrittenBy DEF WrittenBy
  <2>5. r.versions = [d.versions EXCEPT ![c.version] = w] /\ r.history = Append(d.history, e)
    BY <2>1 DEF ReplaceVersionAndRecord, Documents
  <2>6. c.version \in DOMAIN r.versions /\ r.versions[c.version].sha256 = v.sha256
    BY <2>2, <2>3, <2>5
  <2>7. c.sha256 # None => v.sha256 = c.sha256
    <3>1. c.sha256 # None => c.action = "reprocessing_started"
      BY <1>4 DEF WellFormedCommand
    <3>2. c.action = "reprocessing_started" => v.sha256 = c.sha256
      BY <1>4 DEF ErrorOf, ReprocessError, None
    <3> QED BY <3>1, <3>2
  <2> HIDE DEF e, w, v, r
  <2> QED BY <2>4, <2>5, <2>6, <2>7 DEF r
<1> QED BY <1>2, <1>3, <1>4

-----------------------------------------------------------------------------
(* Which events stand behind a gate that is open and behind an approval.    *)

Extracted(h, n) == \E x \in DOMAIN h : ExtractionStands(h, n, x)

Indexed(h, n) ==
  \E x, y \in DOMAIN h :
    x < y /\ ExtractionStands(h, n, x) /\ Passed(h, n, "indexing_succeeded", y)

WasApproved(h, n) ==
  \E x, y, a \in DOMAIN h :
    /\ x < y /\ y < a
    /\ ExtractionStands(h, n, x)
    /\ Passed(h, n, "indexing_succeeded", y)
    /\ Passed(h, n, "approved", a)

GatesAreRecorded(d) ==
  \A n \in DOMAIN d.versions :
    /\ d.versions[n].extraction = "succeeded" => Extracted(d.history, n)
    /\ d.versions[n].indexing = "succeeded" => Indexed(d.history, n)
    /\ d.versions[n].status = "approved" => WasApproved(d.history, n)

(* What is recorded stays so, unless the next event restarts the version.   *)
LEMMA GatesSurviveEvents ==
  ASSUME NEW h \in Seq(Events), NEW e \in Events, NEW n,
         e.version = n => ~RestartsFromNothing(e)
  PROVE  /\ Extracted(h, n) => Extracted(Append(h, e), n)
         /\ Indexed(h, n) => Indexed(Append(h, e), n)
         /\ WasApproved(h, n) => WasApproved(Append(h, e), n)
<1> DEFINE g == Append(h, e)
<1>1. /\ DOMAIN h = 1..Len(h) /\ Len(h) \in Nat /\ DOMAIN g = 1..(Len(h) + 1)
      /\ \A i \in 1..Len(h) : g[i] = h[i]
      /\ g[Len(h) + 1] = e
  OBVIOUS
<1> HIDE DEF g
<1>2. \A i \in DOMAIN g : i \in DOMAIN h \/ i = Len(h) + 1
  BY <1>1
<1>3. \A i \in DOMAIN h : i \in DOMAIN g
  BY <1>1
<1>4. ASSUME NEW x \in DOMAIN h, ExtractionStands(h, n, x) PROVE ExtractionStands(g, n, x)
  BY <1>1, <1>2, <1>4 DEF ExtractionStands, Passed
<1>5. ASSUME NEW y \in DOMAIN h, NEW action, Passed(h, n, action, y) PROVE Passed(g, n, action, y)
  BY <1>1, <1>5 DEF Passed
<1>6. Extracted(h, n) => Extracted(g, n)
  BY <1>3, <1>4 DEF Extracted
<1>7. Indexed(h, n) => Indexed(g, n)
  BY <1>3, <1>4, <1>5 DEF Indexed
<1>8. WasApproved(h, n) => WasApproved(g, n)
  BY <1>3, <1>4, <1>5 DEF WasApproved
<1> QED BY <1>6, <1>7, <1>8 DEF g

(* The event of a gate, or of the approval, is the evidence it needs.       *)
LEMMA EventsOpenGates ==
  ASSUME NEW h \in Seq(Events), NEW e \in Events, NEW n, e.version = n
  PROVE  /\ e.action = "extraction_succeeded" => Extracted(Append(h, e), n)
         /\ e.action = "indexing_succeeded" /\ Extracted(h, n) => Indexed(Append(h, e), n)
         /\ e.action = "approved" /\ Indexed(h, n) => WasApproved(Append(h, e), n)
<1> DEFINE g == Append(h, e)
           z == Len(h) + 1
<1>1. /\ DOMAIN h = 1..Len(h) /\ Len(h) \in Nat /\ DOMAIN g = 1..z
      /\ \A i \in 1..Len(h) : g[i] = h[i]
      /\ g[z] = e
  OBVIOUS
<1> HIDE DEF g
<1>2. /\ \A i \in DOMAIN g : i \in DOMAIN h \/ i = z
      /\ \A i \in DOMAIN g : ~(i > z)
      /\ \A i \in DOMAIN h : i \in DOMAIN g /\ i < z
      /\ z \in DOMAIN g
  BY <1>1
<1> HIDE DEF z
<1>3. ASSUME NEW x \in DOMAIN h, ExtractionStands(h, n, x), ~RestartsFromNothing(e)
      PROVE  ExtractionStands(g, n, x)
  BY <1>1, <1>2, <1>3 DEF ExtractionStands, Passed
<1>4. ASSUME NEW y \in DOMAIN h, NEW action, Passed(h, n, action, y) PROVE Passed(g, n, action, y)
  BY <1>1, <1>4 DEF Passed
<1>5. Passed(g, n, e.action, z)
  BY <1>1 DEF Passed
<1>6. CASE e.action = "extraction_succeeded"
  <2>1. ExtractionStands(g, n, z)
    BY <1>2, <1>5, <1>6 DEF ExtractionStands
  <2> QED BY <1>2, <1>6, <2>1 DEF Extracted, g
<1>7. CASE e.action = "indexing_succeeded" /\ Extracted(h, n)
  <2>1. ~RestartsFromNothing(e)
    BY <1>7 DEF RestartsFromNothing
  <2>2. PICK x \in DOMAIN h : ExtractionStands(h, n, x)
    BY <1>7 DEF Extracted
  <2>3. ExtractionStands(g, n, x) /\ x \in DOMAIN g /\ x < z
    BY <1>2, <1>3, <2>1, <2>2
  <2>4. Passed(g, n, "indexing_succeeded", z)
    BY <1>5, <1>7
  <2>5. Indexed(g, n)
    BY <1>2, <2>3, <2>4 DEF Indexed
  <2> QED BY <1>7, <2>5 DEF g
<1>8. CASE e.action = "approved" /\ Indexed(h, n)
  <2>1. ~RestartsFromNothing(e)
    BY <1>8 DEF RestartsFromNothing
  <2>2. PICK x \in DOMAIN h, y \in DOMAIN h :
          x < y /\ ExtractionStands(h, n, x) /\ Passed(h, n, "indexing_succeeded", y)
    BY <1>8 DEF Indexed
  <2>3. ExtractionStands(g, n, x) /\ x \in DOMAIN g
    BY <1>2, <1>3, <2>1, <2>2
  <2>4. Passed(g, n, "indexing_succeeded", y) /\ y \in DOMAIN g /\ y < z
    BY <1>2, <1>4, <2>2
  <2>5. Passed(g, n, "approved", z)
    BY <1>5, <1>8
  <2>6. WasApproved(g, n)
    BY <1>2, <2>2, <2>3, <2>4, <2>5 DEF WasApproved
  <2> QED BY <1>8, <2>6 DEF g
<1> QED BY <1>6, <1>7, <1>8 DEF g

(* Appending an event about one version, and changing no other version,     *)
(* keeps the gates recorded if it keeps those of that version.              *)
LEMMA GatesOfOtherVersions ==
  ASSUME NEW d \in Documents, GatesAreRecorded(d), NEW r \in Documents, NEW e \in Events,
         r.history = Append(d.history, e),
         \A n \in DOMAIN r.versions :
           n # e.version => n \in DOMAIN d.versions /\ r.versions[n] = d.versions[n],
         e.version \in DOMAIN r.versions =>
           /\ r.versions[e.version].extraction = "succeeded" => Extracted(r.history, e.version)
           /\ r.versions[e.version].indexing = "succeeded" => Indexed(r.history, e.version)
           /\ r.versions[e.version].status = "approved" => WasApproved(r.history, e.version)
  PROVE  GatesAreRecorded(r)
<1> SUFFICES ASSUME NEW n \in DOMAIN r.versions
             PROVE  /\ r.versions[n].extraction = "succeeded" => Extracted(r.history, n)
                    /\ r.versions[n].indexing = "succeeded" => Indexed(r.history, n)
                    /\ r.versions[n].status = "approved" => WasApproved(r.history, n)
  BY DEF GatesAreRecorded
<1>1. CASE n = e.version
  BY <1>1
<1>2. CASE n # e.version
  <2>1. d.history \in Seq(Events)
    BY DEF Documents
  <2>2. n \in DOMAIN d.versions /\ r.versions[n] = d.versions[n]
    BY <1>2
  <2>3. /\ d.versions[n].extraction = "succeeded" => Extracted(d.history, n)
        /\ d.versions[n].indexing = "succeeded" => Indexed(d.history, n)
        /\ d.versions[n].status = "approved" => WasApproved(d.history, n)
    BY <2>2 DEF GatesAreRecorded
  <2> QED BY <1>2, <2>1, <2>2, <2>3, GatesSurviveEvents
<1> QED BY <1>1, <1>2

(* The gates of the version a recording leaves behind.                      *)
LEMMA RecordedGates ==
  ASSUME NEW v \in Versions, NEW h \in Seq(Events), NEW c, WellFormedCommand(c), NEW n, c.version = n,
         c.action \notin {"registered", "approved"},
         NEW e \in Events, EventMatchesCommand(e, c), e.source = v.status,
         v.status = "received" => v.extraction = "pending" /\ v.indexing = "pending",
         c.action = "processing_started" => v.status = "received",
         c.action = "reprocessing_started" => v.status \in {"failed", "rejected"},
         c.action = "indexing_succeeded" => v.extraction = "succeeded",
         v.extraction = "succeeded" => Extracted(h, n),
         v.indexing = "succeeded" => Indexed(h, n)
  PROVE  LET w == UpdatedVersion(v, c)
         IN  /\ w.extraction = "succeeded" => Extracted(Append(h, e), n)
             /\ w.indexing = "succeeded" => Indexed(Append(h, e), n)
<1> DEFINE w == UpdatedVersion(v, c)
<1>1. e.version = n /\ e.action = c.action
  BY DEF EventMatchesCommand
<1>2. ~RestartsFromNothing(e) => /\ Extracted(h, n) => Extracted(Append(h, e), n)
                                 /\ Indexed(h, n) => Indexed(Append(h, e), n)
  BY <1>1, GatesSurviveEvents
<1>3. CASE c.action = "processing_started"
  <2>1. w = [v EXCEPT !.status = "processing"]
    BY <1>3 DEF UpdatedVersion
  <2>2. w.extraction = "pending" /\ w.indexing = "pending"
    BY <1>3, <2>1 DEF Versions
  <2> QED BY <2>2
<1>4. CASE c.action = "reprocessing_started"
  <2>1. w = ReprocessedVersion(v)
    BY <1>4 DEF UpdatedVersion
  <2>2. CASE v.status = "rejected"
    <3>1. w.extraction = "pending" /\ w.indexing = "pending"
      BY <2>1, <2>2 DEF ReprocessedVersion, Versions
    <3> QED BY <3>1
  <2>3. CASE v.status = "failed"
    <3>1. ~RestartsFromNothing(e)
      BY <1>1, <1>4, <2>3 DEF RestartsFromNothing
    <3>2. /\ w.extraction = "succeeded" => v.extraction = "succeeded"
          /\ w.indexing = "succeeded" => v.indexing = "succeeded"
      BY <2>1, <2>3 DEF ReprocessedVersion, Resumed, Versions
    <3> QED BY <1>2, <3>1, <3>2
  <2> QED BY <1>4, <2>2, <2>3
<1>5. CASE c.action = "extraction_succeeded"
  <2>1. w = SucceededVersion(v, "extraction")
    BY <1>5 DEF UpdatedVersion, WellFormedCommand
  <2>2. w.indexing = v.indexing
    BY <2>1 DEF SucceededVersion, WithStatus, Versions
  <2>3. Extracted(Append(h, e), n)
    BY <1>1, <1>5, EventsOpenGates
  <2>4. ~RestartsFromNothing(e)
    BY <1>1, <1>5 DEF RestartsFromNothing
  <2> QED BY <1>2, <2>2, <2>3, <2>4
<1>6. CASE c.action = "indexing_succeeded"
  <2>1. w = SucceededVersion(v, "indexing")
    BY <1>6 DEF UpdatedVersion, WellFormedCommand
  <2>2. w.extraction = v.extraction
    BY <2>1 DEF SucceededVersion, WithStatus, Versions
  <2>3. Indexed(Append(h, e), n)
    BY <1>1, <1>6, EventsOpenGates
  <2>4. ~RestartsFromNothing(e)
    BY <1>1, <1>6 DEF RestartsFromNothing
  <2> QED BY <1>2, <2>2, <2>3, <2>4
<1>7. CASE c.action \in {"processing_failed", "rejected"}
  <2>1. ~RestartsFromNothing(e)
    BY <1>1, <1>7 DEF RestartsFromNothing
  <2>2. c.action = "processing_failed" => w = FailedVersion(v, c.step)
    BY DEF UpdatedVersion
  <2>3. c.action = "rejected" => w = [v EXCEPT !.status = "rejected"]
    BY DEF UpdatedVersion
  <2>4. /\ w.extraction = "succeeded" => v.extraction = "succeeded"
        /\ w.indexing = "succeeded" => v.indexing = "succeeded"
    BY <1>7, <2>2, <2>3 DEF FailedVersion, WithStatus, Versions
  <2> QED BY <1>2, <2>1, <2>4
<1>8. c.action \in {"processing_started", "reprocessing_started", "extraction_succeeded",
                    "indexing_succeeded", "processing_failed", "rejected"}
  BY DEF WellFormedCommand, CommandShapes, Actions
<1> QED BY <1>3, <1>4, <1>5, <1>6, <1>7, <1>8

LEMMA RecordingKeepsGates ==
  ASSUME NEW d \in Documents, ConsistentDocument(d), GatesAreRecorded(d), d # NoDocument,
         NEW c, WellFormedCommand(c), c.action \notin {"registered", "approved"},
         NEW at \in Nat, ErrorOf(d, c, at) = None
  PROVE  GatesAreRecorded(ResultOf(d, c, at))
<1> DEFINE n == c.version
           v == d.versions[n]
           w == UpdatedVersion(v, c)
           e == EventOf(c, v.status, w.status, at)
           r == ResultOf(d, c, at)
<1>1. /\ d.history \in Seq(Events) /\ n \in DOMAIN d.versions /\ v \in Versions /\ Recordable(d, c, at)
      /\ w.status # "approved" /\ c.action # "registered"
  BY RecordingGuards, StoredDocumentIsNotEmpty DEF Documents
<1>2. w \in Versions
  BY <1>1, UpdatedVersionType
<1>3. e \in Events /\ EventMatchesCommand(e, c) /\ e.source = v.status /\ e.version = n
  <2>1. v.status \in Statuses /\ w.status \in Statuses
    BY <1>1, <1>2 DEF Versions
  <2>2. WrittenBy(e, c, at) /\ e.source = v.status
    BY <2>1, EventOfIsWrittenBy
  <2> QED BY <2>2 DEF WrittenBy, EventMatchesCommand
<1>4. r.versions = [d.versions EXCEPT ![n] = w] /\ r.history = Append(d.history, e)
  BY DEF ResultOf, ReplaceVersionAndRecord, Documents
<1>5. r \in Documents
  BY CommandsKeepConsistency
<1>6. v.status = "received" => v.extraction = "pending" /\ v.indexing = "pending"
  BY <1>1 DEF ConsistentDocument, VersionsAreValid, ValidVersion
<1>7. /\ c.action = "processing_started" => v.status = "received"
      /\ c.action = "reprocessing_started" => v.status \in {"failed", "rejected"}
  <2>1. <<c.action, v.status, w.status>> \in EventStatusTransitions
    BY <1>1 DEF Recordable, ValidEvent, EventOf
  <2> QED BY <2>1 DEF EventStatusTransitions
<1>8. c.action = "indexing_succeeded" => v.extraction = "succeeded"
  <2> SUFFICES ASSUME c.action = "indexing_succeeded" PROVE v.extraction = "succeeded"
    OBVIOUS
  <2>1. RecordStepError(d, c, at) = None /\ c.step = "indexing"
    BY DEF ErrorOf, WellFormedCommand
  <2>2. StepInOrder(v, c.step)
    BY <2>1 DEF RecordStepError, None
  <2> QED BY <2>1, <2>2 DEF StepInOrder
<1>9. /\ v.extraction = "succeeded" => Extracted(d.history, n)
      /\ v.indexing = "succeeded" => Indexed(d.history, n)
  BY <1>1 DEF GatesAreRecorded
<1> HIDE DEF e, v, r, n
<1>10. /\ w.extraction = "succeeded" => Extracted(Append(d.history, e), n)
       /\ w.indexing = "succeeded" => Indexed(Append(d.history, e), n)
  BY <1>1, <1>3, <1>6, <1>7, <1>8, <1>9, RecordedGates DEF n
<1> HIDE DEF w
<1>11. r.versions[n] = w /\ \A m \in DOMAIN r.versions : m # n => m \in DOMAIN d.versions /\ r.versions[m] = d.versions[m]
  BY <1>1, <1>4
<1>12. /\ r.versions[e.version].extraction = "succeeded" => Extracted(r.history, e.version)
       /\ r.versions[e.version].indexing = "succeeded" => Indexed(r.history, e.version)
       /\ r.versions[e.version].status = "approved" => WasApproved(r.history, e.version)
  BY <1>1, <1>3, <1>4, <1>10, <1>11
<1>13. /\ e \in Events /\ r.history = Append(d.history, e)
       /\ \A m \in DOMAIN r.versions :
            m # e.version => m \in DOMAIN d.versions /\ r.versions[m] = d.versions[m]
  BY <1>3, <1>4, <1>11
<1>14. GatesAreRecorded(r)
  BY <1>5, <1>12, <1>13, GatesOfOtherVersions
<1> QED BY <1>14 DEF r

LEMMA RegisteringKeepsGates ==
  ASSUME NEW d \in Documents, ConsistentDocument(d), GatesAreRecorded(d),
         NEW c, WellFormedCommand(c), c.action = "registered",
         NEW at \in Nat, ErrorOf(d, c, at) = None
  PROVE  GatesAreRecorded(ResultOf(d, c, at))
<1> DEFINE r == ResultOf(d, c, at)
           e == EventOf(c, None, "received", at)
           w == NewVersion(c.sha256)
<1>1. r = Registered(d, c, at) /\ RegisterError(d, c, at) = None
  BY DEF ResultOf, ErrorOf
<1>2. CASE c.version <= Latest(d)
  BY <1>1, <1>2 DEF Registered
<1>3. CASE ~(c.version <= Latest(d))
  <2>1. r.versions = Append(d.versions, w) /\ r.history = Append(d.history, e)
    BY <1>1, <1>3 DEF Registered, Documents
  <2>2. WrittenBy(e, c, at)
    BY EventOfIsWrittenBy DEF Statuses
  <2>3. e \in Events /\ e.version = c.version
    BY <2>2 DEF WrittenBy, EventMatchesCommand
  <2>4. c.version = Latest(d) + 1
    <3>1. CASE d = NoDocument
      BY <1>1, <3>1 DEF RegisterError, None, NoDocument, Latest
    <3>2. CASE d # NoDocument
      BY <1>1, <1>3, <3>2, RegistrationGuards
    <3> QED BY <3>1, <3>2
  <2>5. r \in Documents
    BY CommandsKeepConsistency
  <2>6. w.extraction = "pending" /\ w.indexing = "pending" /\ w.status = "received"
    BY DEF NewVersion
  <2>7. /\ d.versions \in Seq(Versions) /\ Latest(d) = Len(d.versions)
        /\ DOMAIN d.versions = 1..Latest(d) /\ Latest(d) \in Nat
    BY DEF Documents, Latest
  <2> HIDE DEF e, w, r
  <2>8. /\ r.versions[e.version] = w
        /\ \A n \in DOMAIN r.versions :
             n # e.version => n \in DOMAIN d.versions /\ r.versions[n] = d.versions[n]
    BY <2>1, <2>3, <2>4, <2>7
  <2>9. GatesAreRecorded(r)
    BY <2>1, <2>3, <2>5, <2>6, <2>8, GatesOfOtherVersions
  <2> QED BY <2>9 DEF r
<1> QED BY <1>2, <1>3

LEMMA ApprovingKeepsGates ==
  ASSUME NEW d \in Documents, ConsistentDocument(d), GatesAreRecorded(d), d # NoDocument,
         NEW c, WellFormedCommand(c), c.action = "approved",
         NEW at \in Nat, ErrorOf(d, c, at) = None
  PROVE  GatesAreRecorded(ResultOf(d, c, at))
<1> DEFINE n == c.version
           k == d.current
           v == d.versions[n]
           w == UpdatedVersion(v, c)
           x == SupersededVersion(d, c)
           e == EventOf(c, v.status, "approved", at)
           f == SupersededEvent(k, c, d.versions[k].status, at)
           r == ResultOf(d, c, at)
           promoted == [d.versions EXCEPT ![n] = w]
<1>1. ApproveError(d, c, at) = None /\ r = Approved(d, c, at) /\ r \in Documents
  BY CommandsKeepConsistency DEF ErrorOf, ResultOf
<1>2. /\ n \in DOMAIN d.versions /\ v \in Versions /\ v.status = "pending_approval"
      /\ d.history \in Seq(Events) /\ d.versions \in Seq(Versions)
  BY <1>1, ApprovalGuards, StoredDocumentIsNotEmpty DEF Documents
<1>3. Complete(v) /\ w = [v EXCEPT !.status = "approved"]
  BY <1>1 DEF ApproveError, UpdatedVersion, None
<1>4. w.extraction = "succeeded" /\ w.indexing = "succeeded" /\ w.status = "approved"
  BY <1>2, <1>3 DEF Complete, Versions
<1>5. Extracted(d.history, n) /\ Indexed(d.history, n)
  BY <1>2, <1>3 DEF GatesAreRecorded, Complete
<1>6. e \in Events /\ e.version = n /\ e.action = "approved"
  <2>1. WrittenBy(e, c, at)
    BY <1>2, EventOfIsWrittenBy DEF Statuses
  <2> QED BY <2>1 DEF WrittenBy, EventMatchesCommand
<1>7. ~RestartsFromNothing(e)
  BY <1>6 DEF RestartsFromNothing
<1>8. CASE k = 0
  <2>1. r.versions = promoted /\ r.history = Append(d.history, e)
    BY <1>1, <1>8 DEF Approved, Documents
  <2> HIDE DEF e, w, r, v, n, k
  <2>2. /\ Extracted(r.history, n) /\ Indexed(r.history, n) /\ WasApproved(r.history, n)
    <3>1. Extracted(r.history, n) /\ Indexed(r.history, n)
      BY <1>2, <1>5, <1>6, <1>7, <2>1, GatesSurviveEvents
    <3>2. WasApproved(r.history, n)
      BY <1>2, <1>5, <1>6, <2>1, EventsOpenGates
    <3> QED BY <3>1, <3>2
  <2>3. \A m \in DOMAIN r.versions :
          m # e.version => m \in DOMAIN d.versions /\ r.versions[m] = d.versions[m]
    BY <1>2, <1>6, <2>1
  <2>4. GatesAreRecorded(r)
    BY <1>1, <1>6, <2>1, <2>2, <2>3, GatesOfOtherVersions
  <2> QED BY <2>4 DEF r
<1>9. CASE k # 0
  <2>1. r.versions = [promoted EXCEPT ![k] = x] /\ r.history = Append(Append(d.history, f), e)
    BY <1>1, <1>9 DEF Approved, Documents
  <2>2. k \in DOMAIN d.versions /\ d.versions[k] \in Versions /\ d.versions[k].status = "approved"
    <3>1. k \in Nat /\ k <= Latest(d) /\ DOMAIN d.versions = 1..Latest(d)
      BY DEF Documents, Latest, ConsistentDocument, CurrentIsApproved
    <3>2. k \in DOMAIN d.versions
      BY <1>9, <3>1, StoredDocumentIsNotEmpty
    <3> QED BY <1>2, <3>2 DEF ConsistentDocument, CurrentIsApproved
  <2>3. k # n
    BY <1>2, <2>2
  <2>4. /\ x.extraction = d.versions[k].extraction /\ x.indexing = d.versions[k].indexing
        /\ x.status = "superseded"
    BY <2>2 DEF SupersededVersion, Versions
  <2>5. f \in Events /\ f.action = "superseded"
    <3>1. k \in Nat \ {0}
      BY <1>9, <2>2, StoredDocumentIsNotEmpty
    <3> QED BY <2>2, <3>1 DEF SupersededEvent, Events, Actions, Statuses, WellFormedCommand,
                              CommandShapes
  <2>6. ~RestartsFromNothing(f)
    BY <2>5 DEF RestartsFromNothing
  <2> DEFINE g == Append(d.history, f)
  <2>7. r.history = Append(g, e)
    BY <2>1
  <2>11. g \in Seq(Events)
    BY <1>2, <2>5
  <2> HIDE DEF e, f, w, r, v, n, k, g, x
  <2>8. \A m : /\ Extracted(d.history, m) => Extracted(g, m)
               /\ Indexed(d.history, m) => Indexed(g, m)
               /\ WasApproved(d.history, m) => WasApproved(g, m)
    BY <1>2, <2>5, <2>6, GatesSurviveEvents DEF g
  <2>9. \A m : /\ Extracted(g, m) => Extracted(r.history, m)
               /\ Indexed(g, m) => Indexed(r.history, m)
               /\ WasApproved(g, m) => WasApproved(r.history, m)
    BY <1>6, <1>7, <2>7, <2>11, GatesSurviveEvents
  <2>10. WasApproved(r.history, n)
    BY <1>5, <1>6, <2>7, <2>8, <2>11, EventsOpenGates
  <2>12. DOMAIN r.versions = DOMAIN d.versions
    BY <2>1
  <2>13. \A m \in DOMAIN d.versions :
           r.versions[m] = IF m = k THEN x ELSE IF m = n THEN w ELSE d.versions[m]
    BY <2>1
  <2>14. \A m \in DOMAIN d.versions :
           /\ d.versions[m].extraction = "succeeded" => Extracted(r.history, m)
           /\ d.versions[m].indexing = "succeeded" => Indexed(r.history, m)
           /\ d.versions[m].status = "approved" => WasApproved(r.history, m)
    BY <2>8, <2>9 DEF GatesAreRecorded
  <2>15. ASSUME NEW m \in DOMAIN d.versions
         PROVE  /\ r.versions[m].extraction = "succeeded" => Extracted(r.history, m)
                /\ r.versions[m].indexing = "succeeded" => Indexed(r.history, m)
                /\ r.versions[m].status = "approved" => WasApproved(r.history, m)
    <3>1. CASE m = k
      BY <2>2, <2>4, <2>13, <2>14, <3>1
    <3>2. CASE m = n
      BY <1>5, <2>3, <2>8, <2>9, <2>10, <3>2
    <3>3. CASE m # k /\ m # n
      BY <2>13, <2>14, <3>3
    <3> QED BY <3>1, <3>2, <3>3
  <2>16. GatesAreRecorded(r)
    BY <2>12, <2>15 DEF GatesAreRecorded
  <2> QED BY <2>16 DEF r
<1> QED BY <1>8, <1>9

(* No command opens a gate, or approves a version, without leaving in the   *)
(* history the events that justify it. *)
LEMMA CommandsKeepGates ==
  ASSUME NEW d \in Documents, ConsistentDocument(d), GatesAreRecorded(d),
         NEW c, WellFormedCommand(c), NEW at \in Nat,
         c.action # "registered" => d # NoDocument, ErrorOf(d, c, at) = None
  PROVE  GatesAreRecorded(ResultOf(d, c, at))
<1>1. CASE c.action = "registered"
  BY <1>1, RegisteringKeepsGates
<1>2. CASE c.action = "approved"
  BY <1>2, ApprovingKeepsGates
<1>3. CASE c.action \notin {"registered", "approved"}
  BY <1>3, RecordingKeepsGates
<1> QED BY <1>1, <1>2, <1>3

-----------------------------------------------------------------------------
(* Induction over the history.  A set of positions that is not empty has a  *)
(* least one: what holds of no least counterexample holds everywhere.       *)

LEMMA LeastNatural ==
  ASSUME NEW T \in SUBSET Nat, T # {}
  PROVE  \E n \in T : \A m \in T : n <= m
<1> DEFINE R == OpToRel(<, Nat)
<1>1. IsWellFoundedOn(R, Nat)
  BY NatLessThanWellFounded
<1>2. \A m, n \in Nat : m < n => <<m, n>> \in R
  BY DEF OpToRel
<1> HIDE DEF R
<1>3. PICK n \in T : \A m \in T : ~(<<m, n>> \in R)
  BY <1>1, WFMin
<1>4. ASSUME NEW m \in T PROVE n <= m
  <2>1. m \in Nat /\ n \in Nat
    OBVIOUS
  <2>2. ~(m < n)
    BY <1>2, <1>3, <2>1
  <2> QED BY <2>1, <2>2
<1> QED BY <1>4

(* So a counterexample among 0..n, if there is one, comes right after a     *)
(* position that is none, or is 0.                                          *)
LEMMA LeastPosition ==
  ASSUME NEW n \in Nat, NEW T \in SUBSET (0..n), T # {}
  PROVE  \E i \in T : i = 0 \/ (i \in 1..n /\ i - 1 \in (0..n) \ T)
<1>1. T \in SUBSET Nat
  OBVIOUS
<1>2. PICK i \in T : \A m \in T : i <= m
  BY <1>1, LeastNatural
<1>3. i \in 0..n
  OBVIOUS
<1>4. CASE i # 0
  <2>1. i \in 1..n /\ i - 1 \in 0..n /\ ~(i <= i - 1)
    BY <1>3, <1>4
  <2>2. i - 1 \notin T
    BY <1>2, <2>1
  <2> QED BY <2>1, <2>2
<1> QED BY <1>4

(* The replay exists, and each of its states is one turn after the last.    *)
LEMMA ReplayUnfolds ==
  ASSUME NEW d \in Documents
  PROVE  LET n == Len(d.history)
         IN  /\ ReplayOf(d)[0] = NothingReplayed
             /\ \A i \in 1..n : ReplayOf(d)[i] = ReplayEvent(d, ReplayOf(d)[i - 1], d.history[i])
<1> DEFINE n == Len(d.history)
           F(g, m) == [i \in 0..m |-> IF i = 0 THEN NothingReplayed
                                      ELSE ReplayEvent(d, g[i - 1], d.history[i])]
           T == { m \in 0..n : ~\E g : g = F(g, m) }
<1>1. n \in Nat
  BY DEF Documents
<1> HIDE DEF n
<1>2. ASSUME T # {} PROVE FALSE
  <2>1. PICK m \in T : m = 0 \/ (m \in 1..n /\ m - 1 \in (0..n) \ T)
    BY <1>1, <1>2, LeastPosition
  <2>2. CASE m = 0
    <3> DEFINE g == [i \in 0..0 |-> NothingReplayed]
    <3>1. g = F(g, 0)
      OBVIOUS
    <3> QED BY <2>1, <2>2, <3>1
  <2>3. CASE m \in 1..n /\ m - 1 \in (0..n) \ T
    <3>1. PICK g : g = F(g, m - 1)
      BY <2>3
    <3> DEFINE k == [i \in 0..m |-> IF i = m THEN ReplayEvent(d, g[m - 1], d.history[m])
                                    ELSE g[i]]
    <3>2. \A i \in 0..m : k[i] = IF i = 0 THEN NothingReplayed
                                 ELSE ReplayEvent(d, k[i - 1], d.history[i])
      <4> SUFFICES ASSUME NEW i \in 0..m
                   PROVE  k[i] = IF i = 0 THEN NothingReplayed
                                 ELSE ReplayEvent(d, k[i - 1], d.history[i])
        OBVIOUS
      <4>1. CASE i = m
        <5>1. i # 0 /\ m - 1 \in 0..m /\ m - 1 # m
          BY <1>1, <2>3, <4>1
        <5>2. k[m - 1] = g[m - 1]
          BY <5>1
        <5> QED BY <4>1, <5>1, <5>2
      <4>2. CASE i # m
        <5>1. i \in 0..(m - 1) /\ k[i] = g[i]
          BY <1>1, <2>3, <4>2
        <5>2. g[i] = IF i = 0 THEN NothingReplayed ELSE ReplayEvent(d, g[i - 1], d.history[i])
          BY <3>1, <5>1
        <5>3. i # 0 => k[i - 1] = g[i - 1]
          BY <1>1, <2>3, <4>2
        <5> QED BY <5>1, <5>2, <5>3
      <4> QED BY <4>1, <4>2
    <3>3. k = F(k, m)
      <4>1. k = [i \in 0..m |-> k[i]]
        OBVIOUS
      <4> HIDE DEF k
      <4> QED BY <3>2, <4>1
    <3> QED BY <2>1, <3>3
  <2> QED BY <2>1, <2>2, <2>3
<1>3. \E g : g = F(g, n)
  BY <1>1, <1>2
<1>4. ReplayOf(d) = CHOOSE g : g = F(g, n)
  BY DEF ReplayOf, n
<1>5. ReplayOf(d) = F(ReplayOf(d), n)
  <2> HIDE DEF F
  <2> QED BY <1>3, <1>4
<1> QED BY <1>1, <1>5 DEF n

(* The revision an event was written at counts the commands up to it.       *)
LEMMA RevisionsCount ==
  ASSUME NEW h, NEW i \in Nat
  PROVE  /\ RevisionAt(h, i) \in Nat
         /\ RevisionAt(h, 0) = 0
         /\ RevisionAt(h, i + 1) =
              IF h[i + 1].action = "superseded" THEN RevisionAt(h, i) ELSE RevisionAt(h, i) + 1
<1> DEFINE S(m) == { j \in 1..m : h[j].action # "superseded" }
<1>1. \A m \in Nat : IsFiniteSet(S(m))
  <2> SUFFICES ASSUME NEW m \in Nat PROVE IsFiniteSet(S(m))
    OBVIOUS
  <2>1. IsFiniteSet(1..m)
    BY FS_Interval
  <2>2. S(m) \subseteq 1..m
    OBVIOUS
  <2> QED BY <2>1, <2>2, FS_Subset
<1>2. \A m \in Nat : Cardinality(S(m)) \in Nat
  BY <1>1, FS_CardinalityType
<1>3. S(0) = {}
  OBVIOUS
<1>4. S(i + 1) = IF h[i + 1].action = "superseded" THEN S(i) ELSE S(i) \cup {i + 1}
  <2>1. 1..(i + 1) = (1..i) \cup {i + 1}
    OBVIOUS
  <2> QED BY <2>1
<1>5. i + 1 \notin S(i)
  OBVIOUS
<1> HIDE DEF S
<1>6. h[i + 1].action # "superseded" => Cardinality(S(i + 1)) = Cardinality(S(i)) + 1
  BY <1>1, <1>4, <1>5, FS_AddElement
<1>7. Cardinality(S(0)) = 0
  BY <1>3, FS_EmptySet
<1>8. \A m : RevisionAt(h, m) = Cardinality(S(m))
  BY DEF RevisionAt, S
<1> QED BY <1>2, <1>4, <1>6, <1>7, <1>8

(* Revisions of the past do not change when the history grows.              *)
LEMMA RevisionsStay ==
  ASSUME NEW g, NEW h, NEW n \in Nat, \A j \in 1..n : g[j] = h[j], NEW i \in 0..n
  PROVE  RevisionAt(g, i) = RevisionAt(h, i)
<1>1. \A j \in 1..i : g[j] = h[j]
  OBVIOUS
<1>2. { j \in 1..i : g[j].action # "superseded" } = { j \in 1..i : h[j].action # "superseded" }
  BY <1>1
<1> QED BY <1>2 DEF RevisionAt

(* Replaying a longer history goes through the states of the shorter one,   *)
(* as long as the versions keep their content.                              *)
LEMMA ReplayExtends ==
  ASSUME NEW d \in Documents, NEW r \in Documents,
         Len(d.history) <= Len(r.history),
         \A i \in 1..Len(d.history) :
           /\ r.history[i] = d.history[i]
           /\ CommandOf(r, d.history[i]) = CommandOf(d, d.history[i])
  PROVE  \A i \in 0..Len(d.history) : ReplayOf(r)[i] = ReplayOf(d)[i]
<1> DEFINE n == Len(d.history)
           T == { i \in 0..n : ReplayOf(r)[i] # ReplayOf(d)[i] }
<1>1. n \in Nat /\ Len(r.history) \in Nat
  BY DEF Documents
<1>2. ASSUME T # {} PROVE FALSE
  <2> HIDE DEF n
  <2>1. PICK i \in T : i = 0 \/ (i \in 1..n /\ i - 1 \in (0..n) \ T)
    BY <1>1, <1>2, LeastPosition
  <2>2. CASE i = 0
    BY <2>1, <2>2, ReplayUnfolds
  <2>3. CASE i \in 1..n /\ i - 1 \in (0..n) \ T
    <3>1. ReplayOf(r)[i - 1] = ReplayOf(d)[i - 1]
      BY <2>3
    <3>2. i \in 1..Len(r.history)
      BY <1>1, <2>3 DEF n
    <3>3. ReplayOf(d)[i] = ReplayEvent(d, ReplayOf(d)[i - 1], d.history[i])
      BY <2>3, ReplayUnfolds DEF n
    <3>4. ReplayOf(r)[i] = ReplayEvent(r, ReplayOf(r)[i - 1], r.history[i])
      BY <3>2, ReplayUnfolds
    <3>5. r.history[i] = d.history[i] /\ CommandOf(r, d.history[i]) = CommandOf(d, d.history[i])
      BY <2>3 DEF n
    <3>6. ReplayEvent(r, ReplayOf(d)[i - 1], d.history[i])
            = ReplayEvent(d, ReplayOf(d)[i - 1], d.history[i])
      BY <3>5 DEF ReplayEvent
    <3> QED BY <2>1, <3>1, <3>3, <3>4, <3>5, <3>6
  <2> QED BY <2>1, <2>2, <2>3
<1> QED BY <1>2

ReplayReached(d, revision, held) ==
  [document |-> d, revision |-> revision, held |-> held, audited |-> TRUE]

(* The turns of the replay, one for a supersession and one for a command.   *)
LEMMA ReplayHolds ==
  ASSUME NEW d, NEW b, NEW revision \in Nat, NEW held \in Seq(Events),
         NEW f \in Events, f.action = "superseded"
  PROVE  ReplayEvent(d, ReplayReached(b, revision, held), f) = ReplayReached(b, revision, Append(held, f))
BY DEF ReplayEvent, ReplayReached

LEMMA ReplayExecutes ==
  ASSUME NEW d, NEW b, NEW revision \in Nat, NEW held \in Seq(Events),
         NEW e \in Events, e.action # "superseded",
         ErrorOf(b, CommandOf(d, e), e.at) = None,
         ResultOf(b, CommandOf(d, e), e.at).history = b.history \o held \o <<e>>
  PROVE  ReplayEvent(d, ReplayReached(b, revision, held), e)
           = ReplayReached(ResultOf(b, CommandOf(d, e), e.at), revision + 1, <<>>)
BY DEF ReplayEvent, ReplayReached

(* A snapshot that passes the audit passes it after one more command.       *)
LEMMA CommandsKeepAudit ==
  ASSUME NEW d \in Documents, ConsistentDocument(d), NEW n \in Nat,
         Audited([document |-> d, revision |-> n]),
         NEW c, WellFormedCommand(c), NEW at \in Nat,
         c.action # "registered" => d # NoDocument,
         ErrorOf(d, c, at) = None, ResultOf(d, c, at) # d
  PROVE  /\ Audited([document |-> ResultOf(d, c, at), revision |-> n + 1])
         /\ EventsAreCommands(d) => EventsAreCommands(ResultOf(d, c, at))
<1> DEFINE r == ResultOf(d, c, at)
           h == d.history
           k == Len(h)
<1>1. /\ r \in Documents /\ h \in Seq(Events) /\ k \in Nat /\ DOMAIN h = 1..k
      /\ r.history \in Seq(Events)
  BY CommandsKeepConsistency DEF Documents
<1>2. PICK e \in Events :
        /\ WrittenBy(e, c, at)
        /\ \/ r.history = Append(h, e)
           \/ \E f \in Events :
                /\ SupersessionAt(f, at)
                /\ f.version # e.version
                /\ r.history = Append(Append(h, f), e)
  BY CommandsAppend
<1>3. /\ c.sha256 # None => r.versions[c.version].sha256 = c.sha256
      /\ \A i \in DOMAIN d.versions : r.versions[i].sha256 = d.versions[i].sha256
  BY CommandsAppend, CommandsOnlyAdd
<1> HIDE DEF r, h, k
<1>4. /\ e \in Events /\ e.at = at /\ e.action = c.action /\ e.version = c.version
      /\ e.actor = c.actor /\ e.reason = c.reason /\ e.step = c.step
      /\ e.action # "superseded"
  BY <1>2 DEF WrittenBy, EventMatchesCommand, WellFormedCommand, CommandShapes
<1>5. CommandOf(r, e) = c
  <2>1. c = [action |-> c.action, version |-> c.version, sha256 |-> c.sha256,
             actor |-> c.actor, reason |-> c.reason, step |-> c.step]
    BY DEF WellFormedCommand, CommandShapes
  <2>2. c.sha256 = IF c.action \in {"registered", "reprocessing_started"}
                   THEN r.versions[c.version].sha256 ELSE None
    BY <1>3 DEF WellFormedCommand
  <2> QED BY <1>4, <2>1, <2>2 DEF CommandOf
<1>6. \A i \in 1..k : CommandOf(r, h[i]) = CommandOf(d, h[i])
  <2>1. \A i \in 1..k : h[i].version \in DOMAIN d.versions
    BY <1>1 DEF ConsistentDocument, h
  <2> QED BY <1>3, <2>1 DEF CommandOf
<1>7. k <= Len(r.history) /\ \A i \in 1..k : r.history[i] = h[i]
  <2>1. CASE r.history = Append(h, e)
    BY <1>1, <1>4, <2>1 DEF k
  <2>2. CASE \E f \in Events : SupersessionAt(f, at) /\ r.history = Append(Append(h, f), e)
    BY <1>1, <1>4, <2>2 DEF k
  <2> QED BY <1>2, <2>1, <2>2
<1>8. ReplayOf(r)[k] = ReplayReached(d, n, <<>>)
  <2>1. ReplayOf(d)[k] = ReplayReached(d, n, <<>>)
    BY DEF Audited, ReplayReached, h, k
  <2>2. ReplayOf(r)[k] = ReplayOf(d)[k]
    BY <1>1, <1>6, <1>7, ReplayExtends DEF h, k
  <2> QED BY <2>1, <2>2
<1>9. ErrorOf(d, CommandOf(r, e), e.at) = None /\ ResultOf(d, CommandOf(r, e), e.at) = r
  BY <1>4, <1>5 DEF r
<1>10. ASSUME r.history = Append(h, e)
       PROVE  /\ Audited([document |-> r, revision |-> n + 1])
              /\ EventsAreCommands(d) => EventsAreCommands(r)
  <2>1. Len(r.history) = k + 1 /\ r.history[k + 1] = e
    BY <1>1, <1>4, <1>10 DEF k
  <2>2. r.history = d.history \o <<>> \o <<e>>
    BY <1>1, <1>4, <1>10 DEF h
  <2>8. <<>> \in Seq(Events)
    OBVIOUS
  <2>3. ReplayEvent(r, ReplayReached(d, n, <<>>), e) = ReplayReached(r, n + 1, <<>>)
    <3>1. ResultOf(d, CommandOf(r, e), e.at).history = d.history \o <<>> \o <<e>>
      BY <1>9, <2>2
    <3>2. ReplayEvent(r, ReplayReached(d, n, <<>>), e)
            = ReplayReached(ResultOf(d, CommandOf(r, e), e.at), n + 1, <<>>)
      BY <1>4, <1>9, <3>1, <2>8, ReplayExecutes
    <3> QED BY <1>9, <3>2
  <2>4. ReplayOf(r)[k + 1] = ReplayReached(r, n + 1, <<>>)
    <3>1. k + 1 \in 1..Len(r.history) /\ (k + 1) - 1 = k
      BY <1>1, <2>1
    <3>2. ReplayOf(r)[k + 1] = ReplayEvent(r, ReplayOf(r)[(k + 1) - 1], r.history[k + 1])
      BY <1>1, <3>1, ReplayUnfolds
    <3> QED BY <1>8, <2>1, <2>3, <3>1, <3>2
  <2>5. Audited([document |-> r, revision |-> n + 1])
    BY <2>1, <2>4 DEF Audited, ReplayReached
  <2>6. EventsAreCommands(d) => EventsAreCommands(r)
    <3> SUFFICES ASSUME EventsAreCommands(d), NEW i \in DOMAIN r.history,
                        r.history[i].action # "superseded"
                 PROVE  WellFormedCommand(CommandOf(r, r.history[i]))
      BY DEF EventsAreCommands
    <3>1. i \in 1..k \/ i = k + 1
      BY <1>1, <2>1
    <3>2. CASE i \in 1..k
      BY <1>1, <1>6, <1>7, <3>2 DEF EventsAreCommands, h
    <3>3. CASE i = k + 1
      BY <1>5, <2>1, <3>3
    <3> QED BY <3>1, <3>2, <3>3
  <2> QED BY <2>5, <2>6
<1>11. ASSUME NEW f \in Events, SupersessionAt(f, at), r.history = Append(Append(h, f), e)
       PROVE  /\ Audited([document |-> r, revision |-> n + 1])
              /\ EventsAreCommands(d) => EventsAreCommands(r)
  <2>1. /\ Len(r.history) = k + 2 /\ r.history[k + 1] = f /\ r.history[k + 2] = e
    BY <1>1, <1>4, <1>11 DEF k, SupersessionAt
  <2>2. r.history = d.history \o Append(<<>>, f) \o <<e>>
    <3>1. Append(<<>>, f) = <<f>>
      OBVIOUS
    <3>2. d.history \o <<f>> = Append(h, f) /\ Append(h, f) \in Seq(Events)
      BY <1>1 DEF h
    <3>3. Append(h, f) \o <<e>> = Append(Append(h, f), e)
      BY <1>4, <3>2
    <3> QED BY <1>11, <3>1, <3>2, <3>3
  <2>3. ReplayEvent(r, ReplayReached(d, n, <<>>), f) = ReplayReached(d, n, Append(<<>>, f))
    <3>1. f \in Events /\ f.action = "superseded" /\ <<>> \in Seq(Events)
      BY <1>11 DEF SupersessionAt
    <3>2. \A held \in Seq(Events) :
            ReplayEvent(r, ReplayReached(d, n, held), f) = ReplayReached(d, n, Append(held, f))
      BY <3>1, ReplayHolds
    <3> QED BY <3>1, <3>2
  <2>8. Append(<<>>, f) \in Seq(Events)
    BY <1>11 DEF SupersessionAt
  <2>4. ReplayEvent(r, ReplayReached(d, n, Append(<<>>, f)), e) = ReplayReached(r, n + 1, <<>>)
    <3>1. ResultOf(d, CommandOf(r, e), e.at).history = d.history \o Append(<<>>, f) \o <<e>>
      BY <1>9, <2>2
    <3>2. ReplayEvent(r, ReplayReached(d, n, Append(<<>>, f)), e)
            = ReplayReached(ResultOf(d, CommandOf(r, e), e.at), n + 1, <<>>)
      BY <1>4, <1>9, <3>1, <2>8, ReplayExecutes
    <3> QED BY <1>9, <3>2
  <2>5. ReplayOf(r)[k + 2] = ReplayReached(r, n + 1, <<>>)
    <3>1. /\ k + 1 \in 1..Len(r.history) /\ (k + 1) - 1 = k
          /\ k + 2 \in 1..Len(r.history) /\ (k + 2) - 1 = k + 1
      BY <1>1, <2>1
    <3>2. /\ ReplayOf(r)[k + 1] = ReplayEvent(r, ReplayOf(r)[(k + 1) - 1], r.history[k + 1])
          /\ ReplayOf(r)[k + 2] = ReplayEvent(r, ReplayOf(r)[(k + 2) - 1], r.history[k + 2])
      BY <1>1, <3>1, ReplayUnfolds
    <3>3. ReplayOf(r)[k + 1] = ReplayReached(d, n, Append(<<>>, f))
      BY <1>8, <2>1, <2>3, <3>1, <3>2
    <3> QED BY <2>1, <2>4, <3>1, <3>2, <3>3
  <2>6. Audited([document |-> r, revision |-> n + 1])
    BY <2>1, <2>5 DEF Audited, ReplayReached
  <2>7. EventsAreCommands(d) => EventsAreCommands(r)
    <3> SUFFICES ASSUME EventsAreCommands(d), NEW i \in DOMAIN r.history,
                        r.history[i].action # "superseded"
                 PROVE  WellFormedCommand(CommandOf(r, r.history[i]))
      BY DEF EventsAreCommands
    <3>1. i \in 1..k \/ i = k + 1 \/ i = k + 2
      BY <1>1, <2>1
    <3>2. CASE i \in 1..k
      BY <1>1, <1>6, <1>7, <3>2 DEF EventsAreCommands, h
    <3>3. CASE i = k + 1
      BY <1>11, <2>1, <3>3 DEF SupersessionAt
    <3>4. CASE i = k + 2
      BY <1>5, <2>1, <3>4
    <3> QED BY <3>1, <3>2, <3>3, <3>4
  <2> QED BY <2>6, <2>7
<1> QED BY <1>2, <1>10, <1>11 DEF r

(* What holds of the replay after the first i events.                       *)
ReplayStates ==
  [document : Documents, revision : Nat, held : Seq(Events), audited : BOOLEAN]

SoundReplay(r, h, i) ==
  /\ r \in ReplayStates
  /\ r.audited => /\ ConsistentDocument(r.document)
                  /\ GatesAreRecorded(r.document)
                  /\ r.revision = RevisionAt(h, i)
                  /\ r.revision = 0 => r.document = NoDocument
  /\ i # 0 /\ h[i].action = "superseded" => r.held # <<>>

LEMMA OnlyRegistrationsBegin ==
  ASSUME NEW c, WellFormedCommand(c), c.action # "registered", NEW at
  PROVE  ErrorOf(NoDocument, c, at) # None
<1>1. Latest(NoDocument) = 0 /\ c.version \in Nat \ {0}
  BY DEF NoDocument, Latest, WellFormedCommand, CommandShapes
<1>2. c.version # Latest(NoDocument) /\ c.version > Latest(NoDocument)
  BY <1>1
<1>3. /\ StartProcessingError(NoDocument, c, at) # None
      /\ ReprocessError(NoDocument, c, at) # None
      /\ RecordStepError(NoDocument, c, at) # None
      /\ ApproveError(NoDocument, c, at) # None
      /\ RejectError(NoDocument, c, at) # None
  BY <1>2 DEF StartProcessingError, ReprocessError, RecordStepError, ApproveError, RejectError,
              None
<1>4. c.action \in Actions \ {"superseded", "registered"}
  BY DEF WellFormedCommand, CommandShapes
<1> QED BY <1>3, <1>4 DEF ErrorOf, Actions

(* A supersession is held back. *)
LEMMA HoldingBack ==
  ASSUME NEW r \in ReplayStates, NEW e \in Events, NEW t, t = [r EXCEPT !.held = Append(@, e)]
  PROVE  /\ t \in ReplayStates /\ t.held # <<>>
         /\ t.document = r.document /\ t.revision = r.revision /\ t.audited = r.audited
<1>1. /\ r = [document |-> r.document, revision |-> r.revision, held |-> r.held,
              audited |-> r.audited]
      /\ r.document \in Documents /\ r.revision \in Nat /\ r.held \in Seq(Events)
      /\ r.audited \in BOOLEAN
  BY DEF ReplayStates
<1> DEFINE longer == Append(r.held, e)
<1>2. longer \in Seq(Events) /\ longer # <<>>
  <2>1. Len(longer) = Len(r.held) + 1 /\ Len(r.held) \in Nat /\ longer \in Seq(Events)
    BY <1>1
  <2>2. Len(longer) # 0
    BY <2>1
  <2> QED BY <2>1, <2>2
<1>3. t = [document |-> r.document, revision |-> r.revision, held |-> longer,
           audited |-> r.audited]
  BY <1>1
<1> HIDE DEF longer
<1>4. /\ t.document = r.document /\ t.revision = r.revision /\ t.held = longer
      /\ t.audited = r.audited
  BY <1>3
<1>5. [document |-> r.document, revision |-> r.revision, held |-> longer,
       audited |-> r.audited] \in ReplayStates
  BY <1>1, <1>2 DEF ReplayStates
<1> QED BY <1>2, <1>3, <1>4, <1>5

LEMMA ReplayTurnIsSound ==
  ASSUME NEW d \in Documents, EventsAreCommands(d), NEW i \in 1..Len(d.history),
         NEW r, SoundReplay(r, d.history, i - 1)
  PROVE  SoundReplay(ReplayEvent(d, r, d.history[i]), d.history, i)
<1> DEFINE h == d.history
           e == h[i]
           t == ReplayEvent(d, r, e)
           c == CommandOf(d, e)
           b == ResultOf(r.document, c, e.at)
<1>1. h \in Seq(Events) /\ i \in DOMAIN h /\ e \in Events /\ i - 1 \in Nat /\ i \in Nat /\ i # 0
  BY DEF Documents
<1>2. r \in ReplayStates
  BY DEF SoundReplay
<1>3. RevisionAt(h, i) = IF e.action = "superseded" THEN RevisionAt(h, i - 1)
                         ELSE RevisionAt(h, i - 1) + 1
  <2>1. (i - 1) + 1 = i
    BY <1>1
  <2> QED BY <1>1, <2>1, RevisionsCount
<1>4. CASE e.action = "superseded"
  <2>1. t = [r EXCEPT !.held = Append(@, e)]
    BY <1>4 DEF ReplayEvent
  <2> HIDE DEF t, b, c
  <2>2. /\ t \in ReplayStates /\ t.held # <<>>
        /\ t.document = r.document /\ t.revision = r.revision /\ t.audited = r.audited
    BY <1>1, <1>2, <2>1, HoldingBack
  <2>3. SoundReplay(t, h, i)
    BY <1>3, <1>4, <2>2 DEF SoundReplay
  <2> QED BY <2>3 DEF t
<1>5. CASE e.action # "superseded" /\ ~(/\ r.audited
                                        /\ ErrorOf(r.document, c, e.at) = None
                                        /\ b.history = r.document.history \o r.held \o <<e>>)
  <2>1. t = [r EXCEPT !.audited = FALSE]
    BY <1>5 DEF ReplayEvent
  <2>2. t \in ReplayStates /\ t.audited = FALSE
    BY <1>2, <2>1 DEF ReplayStates
  <2> QED BY <1>5, <2>2 DEF SoundReplay
<1>6. CASE /\ e.action # "superseded" /\ r.audited
           /\ ErrorOf(r.document, c, e.at) = None
           /\ b.history = r.document.history \o r.held \o <<e>>
  <2>1. t = [document |-> b, revision |-> r.revision + 1, held |-> <<>>, audited |-> TRUE]
    BY <1>6 DEF ReplayEvent
  <2>2. WellFormedCommand(c) /\ e.at \in Nat
    BY <1>1, <1>6 DEF EventsAreCommands, Events
  <2>3. r.document \in Documents /\ ConsistentDocument(r.document)
        /\ GatesAreRecorded(r.document) /\ r.revision = RevisionAt(h, i - 1) /\ r.revision \in Nat
    BY <1>2, <1>6 DEF SoundReplay, ReplayStates
  <2>4. c.action # "registered" => r.document # NoDocument
    BY <1>6, <2>2, OnlyRegistrationsBegin
  <2>5. b \in Documents /\ ConsistentDocument(b) /\ GatesAreRecorded(b)
    BY <1>6, <2>2, <2>3, <2>4, CommandsKeepConsistency, CommandsKeepGates
  <2> HIDE DEF b, t, c
  <2>6. /\ t.document = b /\ t.revision = r.revision + 1 /\ t.audited = TRUE
        /\ t \in ReplayStates
    BY <2>1, <2>3, <2>5 DEF ReplayStates
  <2>7. t.revision = RevisionAt(h, i)
    BY <1>3, <1>6, <2>3, <2>6
  <2>8. t.revision # 0
    BY <2>3, <2>6
  <2> QED BY <1>6, <2>5, <2>6, <2>7, <2>8 DEF SoundReplay, t
<1> QED BY <1>4, <1>5, <1>6

(* Every state the replay goes through is sound.                            *)
LEMMA ReplayIsSound ==
  ASSUME NEW d \in Documents, EventsAreCommands(d)
  PROVE  \A i \in 0..Len(d.history) : SoundReplay(ReplayOf(d)[i], d.history, i)
<1> DEFINE h == d.history
           n == Len(h)
           R == ReplayOf(d)
           T == { i \in 0..n : ~SoundReplay(R[i], h, i) }
<1>1. d \in Documents /\ n \in Nat /\ h \in Seq(Events)
  BY DEF Documents
<1>2. ASSUME T # {} PROVE FALSE
  <2>1. PICK i \in T : i = 0 \/ (i \in 1..n /\ i - 1 \in (0..n) \ T)
    <3> HIDE DEF n
    <3> QED BY <1>1, <1>2, LeastPosition
  <2>2. CASE i = 0
    <3>1. R[0] = NothingReplayed
      BY <1>1, ReplayUnfolds
    <3>2. NothingReplayed \in ReplayStates
      BY DEF NothingReplayed, ReplayStates, NoDocument, Documents
    <3>3. ConsistentDocument(NoDocument) /\ GatesAreRecorded(NoDocument)
      BY DEF ConsistentDocument, GatesAreRecorded, NoDocument, CurrentIsApproved,
             OnlyLatestIsActive, DistinctContent, VersionsAreValid, TimeMovesForward, Latest
    <3>4. RevisionAt(h, 0) = 0
      BY RevisionsCount
    <3> HIDE DEF R, h
    <3>5. SoundReplay(R[0], h, 0)
      BY <3>1, <3>2, <3>3, <3>4 DEF SoundReplay, NothingReplayed
    <3> QED BY <2>1, <2>2, <3>5
  <2>3. CASE i \in 1..n /\ i - 1 \in (0..n) \ T
    <3>1. SoundReplay(R[i - 1], h, i - 1)
      BY <2>3
    <3>2. R[i] = ReplayEvent(d, R[i - 1], h[i])
      BY <1>1, <2>3, ReplayUnfolds
    <3>3. SoundReplay(R[i], h, i)
      BY <1>1, <2>3, <3>1, <3>2, ReplayTurnIsSound
    <3> QED BY <2>1, <3>3
  <2> QED BY <2>1, <2>2, <2>3
<1> QED BY <1>2

(* A snapshot that passes the audit has the history its state needs.        *)
THEOREM AuditShowsHistory ==
  ASSUME NEW s \in [document : Documents, revision : Nat], Audited(s),
         EventsAreCommands(s.document)
  PROVE  LET h == s.document.history
         IN  /\ GatesAreRecorded(s.document)
             /\ s.revision = RevisionAt(h, Len(h))
             /\ h # <<>> => h[Len(h)].action # "superseded"
<1> DEFINE d == s.document
           h == d.history
           n == Len(h)
           R == ReplayOf(d)
<1>1. d \in Documents /\ n \in Nat /\ h \in Seq(Events)
  BY DEF Documents
<1>3. SoundReplay(R[n], h, n)
  <2>1. n \in 0..n
    BY <1>1
  <2> QED BY <1>1, <2>1, ReplayIsSound
<1>4. /\ R[n].audited /\ R[n].document = d /\ R[n].revision = s.revision /\ R[n].held = <<>>
  BY DEF Audited
<1>5. h # <<>> => n # 0
  BY <1>1
<1> QED BY <1>3, <1>4, <1>5 DEF SoundReplay

-----------------------------------------------------------------------------
(* What commands do to the versions of a document.                         *)

VersionsOK(d) ==
  /\ d.versions \in Seq(Versions)
  /\ {"versions", "current", "history"} \subseteq DOMAIN d

SameContents(d, e) ==
  /\ Len(e.versions) = Len(d.versions)
  /\ \A n \in 1..Len(d.versions) : e.versions[n].sha256 = d.versions[n].sha256

SameHashes(vs, ws) ==
  /\ ws \in Seq(Versions) /\ Len(ws) = Len(vs)
  /\ \A m \in 1..Len(vs) : ws[m].sha256 = vs[m].sha256

\* A version that takes the place of one with the same content.
LEMMA ReplacingAVersion ==
  ASSUME NEW vs \in Seq(Versions), NEW n, NEW w,
         n \in DOMAIN vs => w \in Versions /\ w.sha256 = vs[n].sha256
  PROVE  SameHashes(vs, [vs EXCEPT ![n] = w])
<1> DEFINE new == [vs EXCEPT ![n] = w]
<1>1. CASE n \in DOMAIN vs
  <2>1. w \in Versions /\ w.sha256 = vs[n].sha256
    BY <1>1
  <2>2. new \in Seq(Versions) /\ Len(new) = Len(vs)
    BY <1>1, <2>1
  <2>3. \A m \in 1..Len(vs) : new[m] = IF m = n THEN w ELSE vs[m]
    OBVIOUS
  <2> QED
    BY <1>1, <2>1, <2>2, <2>3 DEF SameHashes
<1>2. CASE n \notin DOMAIN vs
  <2>1. new = vs
    BY <1>2
  <2> QED
    BY <2>1 DEF SameHashes
<1> QED
  BY <1>1, <1>2

\* DecisionCommand leaves the reason to the caller, so it need not be well
\* formed; the version a decision makes is typed whatever the reason.
LEMMA DecidedVersionType ==
  ASSUME NEW v \in Versions, NEW c,
         c.action \in {"approved", "rejected", "reprocessing_started"}
  PROVE  /\ UpdatedVersion(v, c) \in Versions
         /\ UpdatedVersion(v, c).sha256 = v.sha256
<1>1. CASE c.action = "reprocessing_started"
  BY <1>1 DEF UpdatedVersion, ReprocessedVersion, Resumed, Versions, Statuses, StepStatuses
<1>2. CASE c.action \in {"approved", "rejected"}
  BY <1>2 DEF UpdatedVersion, Versions, Statuses
<1> QED
  BY <1>1, <1>2

LEMMA RecordingKeepsContents ==
  ASSUME NEW d, VersionsOK(d), NEW c, NEW at,
         \A v \in Versions : /\ UpdatedVersion(v, c) \in Versions
                             /\ UpdatedVersion(v, c).sha256 = v.sha256
  PROVE  /\ VersionsOK(ReplaceVersionAndRecord(d, c, at))
         /\ SameContents(d, ReplaceVersionAndRecord(d, c, at))
<1> DEFINE r == ReplaceVersionAndRecord(d, c, at)
           w == UpdatedVersion(d.versions[c.version], c)
           vs == [d.versions EXCEPT ![c.version] = w]
<1>1. d.versions \in Seq(Versions)
  BY DEF VersionsOK
<1>2. c.version \in DOMAIN d.versions => w \in Versions /\ w.sha256 = d.versions[c.version].sha256
  BY <1>1
<1>3. r.versions = vs /\ DOMAIN r = DOMAIN d
  BY DEF ReplaceVersionAndRecord, VersionsOK
<1> HIDE DEF w, r
<1>4. SameHashes(d.versions, vs)
  <2> HIDE DEF vs
  <2>1. vs = [d.versions EXCEPT ![c.version] = w]
    BY DEF vs
  <2> QED
    BY <1>1, <1>2, <2>1, ReplacingAVersion
<1> HIDE DEF vs
<1>5. VersionsOK(r) /\ SameContents(d, r)
  BY <1>3, <1>4 DEF VersionsOK, SameContents, SameHashes
<1> QED
  BY <1>5 DEF r

LEMMA ApprovingKeepsContents ==
  ASSUME NEW d, VersionsOK(d), NEW c, c.action = "approved", c.version \in Nat, NEW at
  PROVE  VersionsOK(Approved(d, c, at)) /\ SameContents(d, Approved(d, c, at))
<1> DEFINE r == Approved(d, c, at)
           w == UpdatedVersion(d.versions[c.version], c)
           vs == [d.versions EXCEPT ![c.version] = w]
           x == SupersededVersion(d, c)
           ws == [vs EXCEPT ![d.current] = x]
<1>1. d.versions \in Seq(Versions)
  BY DEF VersionsOK
<1>2. c.version \in DOMAIN d.versions => w \in Versions /\ w.sha256 = d.versions[c.version].sha256
  BY <1>1, DecidedVersionType
<1>3. SameHashes(d.versions, vs)
  <2> HIDE DEF w, vs
  <2>1. vs = [d.versions EXCEPT ![c.version] = w]
    BY DEF vs
  <2> QED
    BY <1>1, <1>2, <2>1, ReplacingAVersion
<1>4. d.current \in DOMAIN d.versions => x \in Versions /\ x.sha256 = d.versions[d.current].sha256
  <2>1. \A v \in Versions : /\ [v EXCEPT !.status = "superseded", !.superseded_by = c.version] \in Versions
                            /\ [v EXCEPT !.status = "superseded", !.superseded_by = c.version].sha256 = v.sha256
    BY DEF Versions, Statuses
  <2> DEFINE v == d.versions[d.current]
  <2>2. x = [v EXCEPT !.status = "superseded", !.superseded_by = c.version]
    BY DEF SupersededVersion
  <2>3. d.current \in DOMAIN d.versions => v \in Versions
    BY <1>1
  <2> HIDE DEF x, v
  <2>4. d.current \in DOMAIN d.versions => x \in Versions /\ x.sha256 = v.sha256
    BY <2>1, <2>2, <2>3
  <2> QED
    BY <2>4 DEF v
<1>5. DOMAIN vs = DOMAIN d.versions /\ DOMAIN d.versions = 1..Len(d.versions)
  BY <1>1
<1>6. SameHashes(vs, ws)
  <2> HIDE DEF x, vs, ws
  <2>1. vs \in Seq(Versions) /\ (d.current \in DOMAIN vs => x \in Versions /\ x.sha256 = vs[d.current].sha256)
    BY <1>3, <1>4, <1>5 DEF SameHashes
  <2>2. ws = [vs EXCEPT ![d.current] = x]
    BY DEF ws
  <2> QED
    BY <2>1, <2>2, ReplacingAVersion
<1>7. (r.versions = vs \/ r.versions = ws) /\ DOMAIN r = DOMAIN d
  BY DEF Approved, VersionsOK
<1> HIDE DEF r, vs, ws
<1>8. VersionsOK(r) /\ SameContents(d, r)
  BY <1>3, <1>6, <1>7 DEF VersionsOK, SameContents, SameHashes
<1> QED
  BY <1>8 DEF r

\* Every command that is not a registration.
LEMMA DecidingKeepsContents ==
  ASSUME NEW d, VersionsOK(d), NEW c, NEW at, c.version \in Nat,
         \/ WellFormedCommand(c) /\ c.action # "registered"
         \/ c.action \in {"approved", "rejected", "reprocessing_started"}
  PROVE  VersionsOK(ResultOf(d, c, at)) /\ SameContents(d, ResultOf(d, c, at))
<1>1. CASE c.action = "approved"
  BY <1>1, ApprovingKeepsContents DEF ResultOf
<1>2. CASE c.action # "approved"
  <2>1. ResultOf(d, c, at) = ReplaceVersionAndRecord(d, c, at)
    BY <1>2 DEF ResultOf
  <2>2. \A v \in Versions : /\ UpdatedVersion(v, c) \in Versions
                            /\ UpdatedVersion(v, c).sha256 = v.sha256
    BY DecidedVersionType, UpdatedVersionType
  <2> QED
    BY <2>1, <2>2, RecordingKeepsContents
<1> QED
  BY <1>1, <1>2

LEMMA RegisteringAppends ==
  ASSUME NEW d, VersionsOK(d), NEW c, NEW at, c.action = "registered", c.sha256 \in Hashes,
         c.version = Len(d.versions) + 1
  PROVE  LET r == ResultOf(d, c, at)
         IN  /\ VersionsOK(r)
             /\ Len(r.versions) = Len(d.versions) + 1
             /\ \A n \in 1..Len(d.versions) : r.versions[n].sha256 = d.versions[n].sha256
             /\ r.versions[Len(d.versions) + 1].sha256 = c.sha256
<1> DEFINE r == ResultOf(d, c, at)
           w == NewVersion(c.sha256)
<1>1. d.versions \in Seq(Versions) /\ w \in Versions /\ w.sha256 = c.sha256
  BY NewVersionIsValid DEF VersionsOK
<1>2. r.versions = Append(d.versions, w) /\ DOMAIN r = DOMAIN d
  BY <1>1 DEF ResultOf, Registered, Latest, VersionsOK
<1> HIDE DEF r, w
<1>3. VersionsOK(r)
  BY <1>1, <1>2 DEF VersionsOK
<1>4. /\ Len(r.versions) = Len(d.versions) + 1
      /\ \A n \in 1..Len(d.versions) : r.versions[n] = d.versions[n]
      /\ r.versions[Len(d.versions) + 1] = w
  BY <1>1, <1>2
<1>5. /\ VersionsOK(r)
      /\ Len(r.versions) = Len(d.versions) + 1
      /\ \A n \in 1..Len(d.versions) : r.versions[n].sha256 = d.versions[n].sha256
      /\ r.versions[Len(d.versions) + 1].sha256 = c.sha256
  BY <1>1, <1>3, <1>4
<1> QED
  BY <1>5 DEF r

LEMMA VersionsAreKept ==
  ASSUME NEW d \in Documents, NEW c, WellFormedCommand(c), NEW at, ErrorOf(d, c, at) = None
  PROVE  Latest(ResultOf(d, c, at)) >= Latest(d)
<1>1. VersionsOK(d) /\ Len(d.versions) \in Nat /\ c.version \in Nat
  BY DEF VersionsOK, Documents, WellFormedCommand, CommandShapes
<1>2. CASE c.action # "registered"
  BY <1>1, <1>2, DecidingKeepsContents DEF SameContents, Latest
<1>3. CASE c.action = "registered"
  <2>1. ResultOf(d, c, at) = Registered(d, c, at)
    BY <1>3 DEF ResultOf
  <2>2. CASE c.version <= Latest(d)
    BY <1>1, <2>1, <2>2 DEF Registered, Latest
  <2>3. CASE ~(c.version <= Latest(d))
    <3>1. Registered(d, c, at).versions = Append(d.versions, NewVersion(c.sha256))
      BY <2>3 DEF Registered, Documents
    <3>2. NewVersion(c.sha256) \in Versions
      BY <1>3, NewVersionIsValid DEF WellFormedCommand, CommandShapes
    <3> QED BY <1>1, <2>1, <3>1, <3>2 DEF Latest, VersionsOK
  <2> QED BY <2>2, <2>3
<1> QED BY <1>2, <1>3

-----------------------------------------------------------------------------
(* Snapshots as a repository trusts them, and the execution of a command on *)
(* one.                                                                      *)

Trusted(s) ==
  /\ s \in Snapshots /\ ConsistentDocument(s.document)
  /\ Audited(s) /\ EventsAreCommands(s.document)

Executes(s, t, c, at) ==
  /\ WellFormedCommand(c) /\ at \in Nat
  /\ c.action # "registered" => s.document # NoDocument
  /\ ErrorOf(s.document, c, at) = None
  /\ ResultOf(s.document, c, at) # s.document
  /\ t = [document |-> ResultOf(s.document, c, at), revision |-> s.revision + 1]

(* Executing a command on a trusted snapshot yields one, at the next        *)
(* revision. *)
LEMMA ExecutionKeepsTrust ==
  ASSUME NEW s, Trusted(s), NEW t, NEW c, NEW at, Executes(s, t, c, at)
  PROVE  Trusted(t) /\ t.revision = s.revision + 1 /\ s.revision \in Nat
<1> DEFINE d == s.document
           n == s.revision
           r == ResultOf(d, c, at)
<1>1. /\ d \in Documents /\ n \in Nat /\ ConsistentDocument(d) /\ EventsAreCommands(d)
      /\ WellFormedCommand(c) /\ at \in Nat
  BY DEF Trusted, Snapshots, Executes
<1>2. s = [document |-> d, revision |-> n]
  BY DEF Trusted, Snapshots
<1>3. Audited([document |-> d, revision |-> n])
  BY <1>2 DEF Trusted
<1>4. /\ c.action # "registered" => d # NoDocument
      /\ ErrorOf(d, c, at) = None /\ r # d
      /\ t = [document |-> r, revision |-> n + 1]
  BY DEF Executes
<1>5. r \in Documents /\ ConsistentDocument(r)
  BY <1>1, <1>4, CommandsKeepConsistency
<1>6. Audited([document |-> r, revision |-> n + 1]) /\ EventsAreCommands(r)
  BY <1>1, <1>3, <1>4, CommandsKeepAudit
<1> HIDE DEF r, d
<1> QED BY <1>1, <1>4, <1>5, <1>6 DEF Trusted, Snapshots

(* A trusted snapshot is empty at revision 0 and at no other.               *)
LEMMA RevisionZeroIsNothing ==
  ASSUME NEW s, Trusted(s), s.document = NoDocument
  PROVE  s.revision = 0
<1>1. s \in [document : Documents, revision : Nat] /\ Audited(s) /\ EventsAreCommands(s.document)
  BY DEF Trusted, Snapshots
<1>2. s.revision = RevisionAt(s.document.history, Len(s.document.history))
  BY <1>1, AuditShowsHistory
<1>3. Len(s.document.history) = 0
  BY DEF NoDocument
<1> QED BY <1>2, <1>3, RevisionsCount

LEMMA ExecutionsOnlyAdd ==
  ASSUME NEW s \in Snapshots, ConsistentDocument(s.document),
         NEW t, NEW c, NEW at, Executes(s, t, c, at)
  PROVE  /\ t.document \in Documents /\ ConsistentDocument(t.document)
         /\ Extends(t.document.history, s.document.history)
         /\ \A n \in DOMAIN s.document.versions :
              t.document.versions[n].sha256 = s.document.versions[n].sha256
         /\ t.document.current >= s.document.current
<1> DEFINE d == s.document
           r == ResultOf(d, c, at)
<1>1. d \in Documents /\ ConsistentDocument(d) /\ WellFormedCommand(c) /\ at \in Nat
  BY DEF Snapshots, Executes
<1>2. /\ c.action # "registered" => d # NoDocument
      /\ ErrorOf(d, c, at) = None
      /\ t.document = r
  BY DEF Executes
<1>3. r \in Documents /\ ConsistentDocument(r)
  BY <1>1, <1>2, CommandsKeepConsistency
<1>4. /\ Extends(r.history, d.history)
      /\ \A n \in DOMAIN d.versions : r.versions[n].sha256 = d.versions[n].sha256
      /\ r.current >= d.current
  BY <1>1, <1>2, CommandsOnlyAdd
<1> HIDE DEF r
<1> QED BY <1>2, <1>3, <1>4

(* What the audit gives: the stored history ends with the event of the      *)
(* command that made the stored revision, and no earlier event has that     *)
(* revision. *)
LEMMA RevisionIsOfLastEvent ==
  ASSUME NEW s, Trusted(s), s.document # NoDocument
  PROVE  LET h == s.document.history
         IN  /\ h \in Seq(Events) /\ Len(h) \in DOMAIN h /\ DOMAIN h = 1..Len(h)
             /\ RevisionAt(h, Len(h)) = s.revision
             /\ h[Len(h)].action # "superseded"
             /\ \A i \in DOMAIN h : RevisionAt(h, i) = s.revision => i = Len(h)
<1> DEFINE d == s.document
           h == d.history
           n == Len(h)
<1>1. /\ d \in Documents /\ ConsistentDocument(d) /\ s.revision \in Nat
      /\ s \in [document : Documents, revision : Nat]
  BY DEF Trusted, Snapshots
<1>2. h \in Seq(Events) /\ n \in Nat \ {0} /\ DOMAIN h = 1..n /\ h # <<>>
  BY <1>1, StoredDocumentIsNotEmpty DEF Documents
<1>3. RevisionAt(h, n) = s.revision /\ h[n].action # "superseded"
  BY <1>1, <1>2, AuditShowsHistory DEF Trusted
<1> HIDE DEF h, n
<1>4. ASSUME NEW i \in 1..n, i # n PROVE RevisionAt(h, i) # s.revision
  <2>1. n - 1 \in Nat /\ (n - 1) + 1 = n /\ i \in 0..(n - 1)
    BY <1>2, <1>4
  <2>2. RevisionAt(h, n) = RevisionAt(h, n - 1) + 1 /\ RevisionAt(h, n - 1) \in Nat
    BY <1>3, <2>1, RevisionsCount
  <2>3. RevisionAt(h, i) <= RevisionAt(h, n - 1)
    <3> DEFINE S == { j \in 1..i : h[j].action # "superseded" }
               T == { j \in 1..(n - 1) : h[j].action # "superseded" }
    <3>1. S \subseteq T /\ T \subseteq 1..(n - 1)
      BY <2>1
    <3>2. IsFiniteSet(T)
      <4>1. IsFiniteSet(1..(n - 1))
        BY <2>1, FS_Interval
      <4> QED BY <3>1, <4>1, FS_Subset
    <3> HIDE DEF S, T
    <3>3. Cardinality(S) <= Cardinality(T)
      BY <3>1, <3>2, FS_Subset
    <3> QED BY <3>3 DEF RevisionAt, S, T
  <2>4. RevisionAt(h, i) \in Nat
    BY <2>1, RevisionsCount
  <2> QED BY <1>1, <1>3, <2>2, <2>3, <2>4
<1> QED BY <1>2, <1>3, <1>4 DEF h, n

(* The command that made the stored document shows in it: only a            *)
(* registration makes the first revision, and the version decided last has  *)
(* the status of that decision. *)
LEMMA LastCommandShows ==
  ASSUME NEW s, Trusted(s), s.document # NoDocument
  PROVE  LET d == s.document
             e == d.history[Len(d.history)]
         IN  /\ e.action # "registered" => s.revision > 1
             /\ e.version \in DOMAIN d.versions
             /\ e.action = "approved" => d.versions[e.version].status = "approved"
             /\ e.action = "rejected" => d.versions[e.version].status = "rejected"
             /\ e.action = "reprocessing_started" => d.versions[e.version].status = "processing"
<1> DEFINE d == s.document
           h == d.history
           n == Len(h)
           e == h[n]
           R == ReplayOf(d)
           c == CommandOf(d, e)
           b == R[n - 1].document
<1>1. /\ d \in Documents /\ ConsistentDocument(d) /\ EventsAreCommands(d)
      /\ s.revision \in Nat
  BY DEF Trusted, Snapshots
<1>2. /\ h \in Seq(Events) /\ n \in Nat \ {0} /\ DOMAIN h = 1..n
      /\ e.action # "superseded" /\ e \in Events
  BY <1>1, RevisionIsOfLastEvent
<1>3. e.version \in DOMAIN d.versions
  BY <1>1, <1>2 DEF ConsistentDocument
<1>4. /\ WellFormedCommand(c) /\ c.version = e.version /\ c.action = e.action /\ e.at \in Nat
  <2>1. n \in DOMAIN h
    BY <1>2
  <2>2. WellFormedCommand(c)
    BY <1>1, <1>2, <2>1 DEF EventsAreCommands
  <2>3. c.version = e.version /\ c.action = e.action
    BY DEF CommandOf
  <2>4. e.at \in Nat
    BY <1>2 DEF Events
  <2> QED BY <2>2, <2>3, <2>4
<1>5. SoundReplay(R[n - 1], h, n - 1) /\ R[n - 1] \in ReplayStates
  <2>1. n - 1 \in 0..n
    BY <1>2
  <2> QED BY <1>1, <2>1, ReplayIsSound DEF SoundReplay
<1>6. R[n] = ReplayEvent(d, R[n - 1], e)
  BY <1>1, <1>2, ReplayUnfolds
<1>7. R[n].audited = TRUE /\ R[n].document = d /\ R[n].revision = s.revision
  BY DEF Trusted, Audited
<1>8. /\ R[n - 1].audited /\ ErrorOf(b, c, e.at) = None
      /\ d = ResultOf(b, c, e.at) /\ s.revision = R[n - 1].revision + 1
  <2> DEFINE r == R[n - 1]
             f == ResultOf(b, c, e.at)
  <2>1. CASE /\ r.audited /\ ErrorOf(b, c, e.at) = None
             /\ f.history = b.history \o r.held \o <<e>>
    <3>1. R[n] = [document |-> f, revision |-> r.revision + 1, held |-> <<>>, audited |-> TRUE]
      BY <1>2, <1>6, <2>1 DEF ReplayEvent
    <3> HIDE DEF f, r, R
    <3>2. R[n].document = f /\ R[n].revision = r.revision + 1
      BY <3>1
    <3> QED BY <1>7, <2>1, <3>2 DEF f, r
  <2>2. CASE ~(/\ r.audited /\ ErrorOf(b, c, e.at) = None
               /\ f.history = b.history \o r.held \o <<e>>)
    <3>1. R[n] = [r EXCEPT !.audited = FALSE]
      BY <1>2, <1>6, <2>2 DEF ReplayEvent
    <3> HIDE DEF f, R
    <3>2. R[n].audited = FALSE
      BY <1>5, <3>1 DEF ReplayStates
    <3> QED BY <1>7, <3>2
  <2> QED BY <2>1, <2>2
<1>9. /\ b \in Documents /\ ConsistentDocument(b) /\ R[n - 1].revision \in Nat
      /\ R[n - 1].revision = 0 => b = NoDocument
  BY <1>5, <1>8 DEF SoundReplay, ReplayStates
<1>10. c.action # "registered" => b # NoDocument
  BY <1>4, <1>8, OnlyRegistrationsBegin
<1> HIDE DEF R, b, c, e, d
<1>11. e.action # "registered" => s.revision > 1
  BY <1>4, <1>8, <1>9, <1>10
<1>12. e.action \in {"rejected", "reprocessing_started"} =>
         d.versions[e.version].status = IF e.action = "rejected" THEN "rejected" ELSE "processing"
  <2> SUFFICES ASSUME e.action \in {"rejected", "reprocessing_started"}
               PROVE  d.versions[e.version].status
                        = IF e.action = "rejected" THEN "rejected" ELSE "processing"
    OBVIOUS
  <2>1. b # NoDocument /\ c.action \notin {"registered", "approved"}
    BY <1>4, <1>10
  <2>2. c.version = Latest(b) /\ DOMAIN b.versions = 1..Latest(b) /\ Latest(b) \in Nat \ {0}
    BY <1>4, <1>8, <1>9, <2>1, RecordingGuards, StoredDocumentIsNotEmpty
  <2> DEFINE v == b.versions[c.version]
             w == UpdatedVersion(v, c)
  <2>3. v \in Versions /\ c.version \in DOMAIN b.versions
    BY <1>9, <2>2 DEF Documents
  <2>4. w.status = IF e.action = "rejected" THEN "rejected" ELSE "processing"
    BY <1>4, <2>3 DEF UpdatedVersion, ReprocessedVersion, Versions
  <2>5. d = ReplaceVersionAndRecord(b, c, e.at)
    BY <1>4, <1>8, <2>1 DEF ResultOf
  <2> HIDE DEF w
  <2>6. d.versions = [b.versions EXCEPT ![c.version] = w]
    BY <1>9, <2>5 DEF ReplaceVersionAndRecord, Documents, w
  <2> QED BY <1>4, <2>3, <2>4, <2>6
<1>13. e.action = "approved" => d.versions[e.version].status = "approved"
  <2> SUFFICES ASSUME e.action = "approved" PROVE d.versions[e.version].status = "approved"
    OBVIOUS
  <2>1. b # NoDocument /\ c.action = "approved" /\ ApproveError(b, c, e.at) = None
    BY <1>4, <1>8, <1>10 DEF ErrorOf
  <2>2. /\ c.version = Latest(b) /\ DOMAIN b.versions = 1..Latest(b) /\ Latest(b) \in Nat \ {0}
        /\ b.versions[c.version].status = "pending_approval"
    BY <1>9, <2>1, ApprovalGuards, StoredDocumentIsNotEmpty
  <2> DEFINE v == b.versions[c.version]
             w == UpdatedVersion(v, c)
             promoted == [b.versions EXCEPT ![c.version] = w]
  <2>3. v \in Versions /\ c.version \in DOMAIN b.versions
    BY <1>9, <2>2 DEF Documents
  <2>4. w.status = "approved"
    BY <2>1, <2>3 DEF UpdatedVersion, Versions
  <2>5. d = Approved(b, c, e.at)
    BY <1>8, <2>1 DEF ResultOf
  <2> HIDE DEF w
  <2>6. \/ d.versions = promoted
        \/ d.versions = [promoted EXCEPT ![b.current] = SupersededVersion(b, c)] /\ b.current # 0
    BY <1>9, <2>5 DEF Approved, Documents, w
  <2>7. b.current # c.version
    BY <1>9, <2>2, <2>3 DEF ConsistentDocument, CurrentIsApproved
  <2>8. promoted[c.version] = w
    BY <2>3
  <2>9. [promoted EXCEPT ![b.current] = SupersededVersion(b, c)][c.version] = promoted[c.version]
    BY <2>3, <2>7
  <2> QED BY <1>4, <2>4, <2>6, <2>8, <2>9
<1> QED BY <1>3, <1>11, <1>12, <1>13 DEF d, e

(* A recognised replay is recorded.                                         *)
LEMMA ReplayIsRecorded ==
  ASSUME NEW s, Trusted(s), NEW c, WellFormedCommand(c), NEW e \in Nat, AlreadyExecuted(s, c, e)
  PROVE  LET d == s.document
         IN  IF c.action = "registered"
             THEN \E i \in DOMAIN d.history : Records(d, d.history[i], c)
             ELSE RecordedAt(d, e + 1, c)
<1> DEFINE d == s.document
           h == d.history
<1>1. d # NoDocument
  BY DEF AlreadyExecuted
<1>2. CASE c.action = "registered"
  <2>1. MatchesRegistrationCommand(d, c)
    BY <1>2 DEF AlreadyExecuted
  <2> QED BY <1>2, <2>1 DEF MatchesRegistrationCommand, EventMatchesCommand, Records
<1>3. CASE c.action # "registered"
  <2>1. MatchesLatestCommand(d, c) /\ s.revision = e + 1
    BY <1>3 DEF AlreadyExecuted
  <2>2. Records(d, h[Len(h)], c)
    BY <2>1 DEF MatchesLatestCommand, EventMatchesCommand, Records
  <2> QED BY <1>1, <1>3, <2>1, <2>2, RevisionIsOfLastEvent DEF RecordedAt
<1> QED BY <1>2, <1>3

(* And a command that is recorded at the next revision is recognised.       *)
LEMMA RecordedIsRecognised ==
  ASSUME NEW s, Trusted(s), NEW c, WellFormedCommand(c), NEW e \in Nat, s.revision = e + 1,
         RecordedAt(s.document, s.revision, c)
  PROVE  AlreadyExecuted(s, c, e)
<1> DEFINE d == s.document
           h == d.history
<1>1. PICK i \in DOMAIN h : Records(d, h[i], c) /\ RevisionAt(h, i) = s.revision
  BY DEF RecordedAt
<1>2. d \in Documents /\ ConsistentDocument(d) /\ WellFormedCommand(c)
  BY DEF Trusted, Snapshots
<1>3. d # NoDocument
  BY <1>1 DEF NoDocument
<1>4. i = Len(h)
  BY <1>1, <1>3, RevisionIsOfLastEvent
<1>5. /\ h[i].action = c.action /\ h[i].version = c.version /\ h[i].actor = c.actor
      /\ h[i].reason = c.reason /\ h[i].step = c.step
      /\ c.sha256 # None => d.versions[c.version].sha256 = c.sha256
  BY <1>1 DEF Records
<1>6. c.version <= Latest(d)
  <2>1. c.version \in DOMAIN d.versions
    BY <1>1, <1>2, <1>5 DEF ConsistentDocument
  <2> QED BY <1>2, <1>3, <2>1, StoredDocumentIsNotEmpty
<1>7. MatchesLatestCommand(d, c)
  BY <1>4, <1>5, <1>6 DEF MatchesLatestCommand, EventMatchesCommand
<1>8. c.action = "registered" => MatchesRegistrationCommand(d, c)
  <2>1. EventMatchesCommand(h[i], c)
    BY <1>5 DEF EventMatchesCommand
  <2>2. c.action = "registered" => c.sha256 # None
    BY <1>2 DEF WellFormedCommand
  <2> QED BY <1>1, <1>5, <1>6, <2>1, <2>2 DEF MatchesRegistrationCommand
<1> QED BY <1>3, <1>7, <1>8 DEF AlreadyExecuted

(* What is recorded of a command stays recorded when another is executed.   *)
LEMMA RecordsStay ==
  ASSUME NEW s, Trusted(s), NEW t, NEW b, NEW at, Executes(s, t, b, at)
  PROVE  /\ \A c, k :
              RecordedAt(s.document, k, c) => RecordedAt(t.document, k, c)
         /\ \A c :
              (\E i \in DOMAIN s.document.history :
                 Records(s.document, s.document.history[i], c))
              => \E i \in DOMAIN t.document.history :
                   Records(t.document, t.document.history[i], c)
<1> DEFINE d == s.document
           r == t.document
           h == d.history
           g == r.history
<1>1. s \in Snapshots /\ d \in Documents /\ ConsistentDocument(d) /\ h \in Seq(Events)
  BY DEF Trusted, Snapshots, Documents
<1>2. /\ r \in Documents /\ Extends(g, h) /\ g \in Seq(Events)
      /\ \A n \in DOMAIN d.versions : r.versions[n].sha256 = d.versions[n].sha256
  BY <1>1, ExecutionsOnlyAdd DEF Documents
<1> HIDE DEF d, r
<1>3. /\ Len(h) \in Nat /\ DOMAIN h = 1..Len(h)
      /\ \A i \in 1..Len(h) : i \in DOMAIN g /\ g[i] = h[i]
  <2>1. Len(h) <= Len(g) /\ SubSeq(g, 1, Len(h)) = h /\ Len(h) \in Nat /\ Len(g) \in Nat
    BY <1>1, <1>2 DEF Extends
  <2>2. \A i \in 1..Len(h) : SubSeq(g, 1, Len(h))[i] = g[i]
    BY <1>2, <2>1
  <2> QED BY <1>1, <1>2, <2>1, <2>2
<1>4. ASSUME NEW c, NEW i \in DOMAIN h, Records(d, h[i], c)
      PROVE  /\ i \in DOMAIN g /\ Records(r, g[i], c)
             /\ RevisionAt(g, i) = RevisionAt(h, i)
  <2>1. h[i].version \in DOMAIN d.versions
    BY <1>1 DEF ConsistentDocument
  <2>2. c.version = h[i].version
    BY <1>4 DEF Records
  <2>3. Records(r, g[i], c) /\ i \in DOMAIN g
    BY <1>2, <1>3, <1>4, <2>1, <2>2 DEF Records
  <2>4. RevisionAt(g, i) = RevisionAt(h, i)
    <3>1. i \in 0..Len(h) /\ \A j \in 1..Len(h) : g[j] = h[j]
      BY <1>3
    <3> HIDE DEF g, h
    <3> QED BY <1>3, <3>1, RevisionsStay
  <2> QED BY <2>3, <2>4
<1>5. ASSUME NEW c, NEW k, RecordedAt(d, k, c) PROVE RecordedAt(r, k, c)
  BY <1>4, <1>5 DEF RecordedAt
<1>6. ASSUME NEW c, \E i \in DOMAIN h : Records(d, h[i], c)
      PROVE  \E i \in DOMAIN g : Records(r, g[i], c)
  BY <1>4, <1>6
<1> QED BY <1>5, <1>6 DEF d, r

(* An executed command is recorded at the revision it makes.                *)
LEMMA ExecutedIsRecorded ==
  ASSUME NEW s, Trusted(s), NEW t, NEW c, NEW at, Executes(s, t, c, at)
  PROVE  RecordedAt(t.document, s.revision + 1, c)
<1> DEFINE d == s.document
           r == ResultOf(d, c, at)
           g == r.history
<1>1. /\ d \in Documents /\ ConsistentDocument(d) /\ WellFormedCommand(c) /\ at \in Nat
  BY DEF Trusted, Snapshots, Executes
<1>2. /\ c.action # "registered" => d # NoDocument
      /\ ErrorOf(d, c, at) = None /\ r # d
      /\ t.document = r /\ t.revision = s.revision + 1
  BY DEF Executes
<1>3. Trusted(t)
  BY ExecutionKeepsTrust
<1>4. /\ c.sha256 # None => r.versions[c.version].sha256 = c.sha256
      /\ \E e \in Events :
           /\ WrittenBy(e, c, at)
           /\ \/ g = Append(d.history, e)
              \/ \E f \in Events : g = Append(Append(d.history, f), e)
  BY <1>1, <1>2, CommandsAppend
<1>5. PICK e \in Events :
        /\ WrittenBy(e, c, at)
        /\ \/ g = Append(d.history, e)
           \/ \E f \in Events : g = Append(Append(d.history, f), e)
  BY <1>4
<1>6. r \in Documents /\ g \in Seq(Events) /\ d.history \in Seq(Events)
  BY <1>1, <1>2, CommandsKeepConsistency DEF Documents
<1>7. Len(g) \in DOMAIN g /\ g[Len(g)] = e /\ g # <<>>
  <2> HIDE DEF r
  <2>1. CASE g = Append(d.history, e)
    BY <1>6, <2>1
  <2>2. ASSUME NEW f \in Events, g = Append(Append(d.history, f), e)
        PROVE  Len(g) \in DOMAIN g /\ g[Len(g)] = e /\ g # <<>>
    BY <1>6, <2>2
  <2> QED BY <1>5, <2>1, <2>2
<1>8. Records(r, e, c)
  BY <1>4, <1>5 DEF WrittenBy, EventMatchesCommand, Records
<1>9. RevisionAt(g, Len(g)) = s.revision + 1
  <2>1. t.document # NoDocument
    BY <1>2, <1>7 DEF NoDocument
  <2> QED BY <1>2, <1>3, <2>1, AuditShowsHistory
          DEF Trusted, Snapshots
<1> HIDE DEF r
<1> QED BY <1>2, <1>7, <1>8, <1>9 DEF RecordedAt

(* What the service checks before it executes a command on a snapshot.      *)
Fresh(s, c) ==
  /\ c.action # "registered" => s.document # NoDocument
  /\ ~AlreadyExecuted(s, c, s.revision)

(* A snapshot at revision 0 is empty.                                       *)
LEMMA NothingAtRevisionZero ==
  ASSUME NEW s, Trusted(s), s.revision = 0
  PROVE  s.document = NoDocument
<1> SUFFICES ASSUME s.document # NoDocument PROVE FALSE
  OBVIOUS
<1> DEFINE h == s.document.history
           n == Len(h)
<1>1. /\ h \in Seq(Events) /\ n \in DOMAIN h /\ DOMAIN h = 1..n
      /\ RevisionAt(h, n) = 0 /\ h[n].action # "superseded"
  BY RevisionIsOfLastEvent
<1>2. n \in Nat \ {0}
  BY <1>1
<1> HIDE DEF h, n
<1>3. n - 1 \in Nat /\ (n - 1) + 1 = n
  BY <1>2
<1>4. RevisionAt(h, n) = RevisionAt(h, n - 1) + 1 /\ RevisionAt(h, n - 1) \in Nat
  BY <1>1, <1>3, RevisionsCount
<1> QED BY <1>1, <1>4

(* A command that was not recognised and is accepted changes the document:  *)
(* the only accepted command that does not is a repeated registration, and  *)
(* that one is recognised. *)
LEMMA FreshCommandsChange ==
  ASSUME NEW s, Trusted(s), NEW c, WellFormedCommand(c), NEW at \in Nat,
         Fresh(s, c), ErrorOf(s.document, c, at) = None
  PROVE  ResultOf(s.document, c, at) # s.document
<1> DEFINE d == s.document
           r == ResultOf(d, c, at)
<1>1. d \in Documents /\ ConsistentDocument(d) /\ d.history \in Seq(Events)
      /\ EventsAreCommands(d)
  BY DEF Trusted, Snapshots, Documents
<1>2. ASSUME NEW e, \/ r.history = Append(d.history, e)
                    \/ \E f : r.history = Append(Append(d.history, f), e)
      PROVE  r # d
  <2> DEFINE h == d.history
             g == r.history
  <2>1. h \in Seq(Events) /\ (g = Append(h, e) \/ \E f : g = Append(Append(h, f), e))
    BY <1>1, <1>2
  <2> HIDE DEF h, g, r
  <2>2. g # h
    BY <2>1
  <2> QED BY <2>2 DEF h, g
<1>3. CASE c.action \notin {"registered", "approved"}
  <2>1. r = ReplaceVersionAndRecord(d, c, at)
    BY <1>3 DEF ResultOf
  <2> DEFINE e == EventOf(c, d.versions[c.version].status,
                          UpdatedVersion(d.versions[c.version], c).status, at)
  <2>2. r.history = Append(d.history, e)
    BY <1>1, <2>1 DEF ReplaceVersionAndRecord, Documents
  <2> HIDE DEF e, r
  <2>3. r # d
    BY <1>2, <2>2
  <2> QED BY <2>3 DEF r
<1>4. CASE c.action = "approved"
  <2> DEFINE a == EventOf(c, d.versions[c.version].status, "approved", at)
             f == SupersededEvent(d.current, c, d.versions[d.current].status, at)
  <2>1. r = Approved(d, c, at)
    BY <1>4 DEF ResultOf
  <2>2. r.history = Append(d.history, a) \/ r.history = Append(Append(d.history, f), a)
    BY <1>1, <2>1 DEF Approved, Documents
  <2> HIDE DEF a, f, r
  <2>3. r # d
    BY <1>2, <2>2
  <2> QED BY <2>3 DEF r
<1>5. CASE c.action = "registered"
  <2>1. r = Registered(d, c, at) /\ RegisterError(d, c, at) = None
    BY <1>5 DEF ResultOf, ErrorOf
  <2>2. c.version \in Nat \ {0} /\ c.reason = None /\ c.step = None /\ c.sha256 # None
    BY <1>5 DEF WellFormedCommand, CommandShapes
  <2>3. CASE c.version <= Latest(d)
    <3>1. d # NoDocument
      BY <2>2, <2>3 DEF NoDocument, Latest
    <3>2. /\ d.versions[c.version].sha256 = c.sha256
          /\ \E i \in DOMAIN d.history :
               /\ d.history[i].action = "registered"
               /\ d.history[i].version = c.version
               /\ d.history[i].actor = c.actor
      BY <2>1, <2>3, <3>1 DEF RegisterError, None
    <3>3. PICK i \in DOMAIN d.history :
               /\ d.history[i].action = "registered"
               /\ d.history[i].version = c.version
               /\ d.history[i].actor = c.actor
      BY <3>2
    <3>4. WellFormedCommand(CommandOf(d, d.history[i]))
      BY <1>1, <3>3 DEF EventsAreCommands
    <3>5. d.history[i].reason = None /\ d.history[i].step = None
      BY <3>3, <3>4 DEF WellFormedCommand, CommandOf
    <3>6. MatchesRegistrationCommand(d, c)
      BY <1>5, <2>2, <2>3, <3>2, <3>3, <3>5
      DEF MatchesRegistrationCommand, EventMatchesCommand
    <3> QED BY <1>5, <3>1, <3>6 DEF Fresh, AlreadyExecuted
  <2>4. CASE ~(c.version <= Latest(d))
    <3>1. r.history = Append(d.history, EventOf(c, None, "received", at))
      BY <1>1, <2>1, <2>4 DEF Registered, Documents
    <3> QED BY <1>2, <3>1
  <2> QED BY <2>3, <2>4
<1> QED BY <1>3, <1>4, <1>5

(* The document such a command yields is one that a compare-and-swap over   *)
(* the same snapshot accepts. *)
LEMMA DraftsExtendAudit ==
  ASSUME NEW s, Trusted(s), NEW t, NEW c, NEW at, Executes(s, t, c, at)
  PROVE  ExtendsAudit(s.document, t.document, c)
<1> DEFINE d == s.document
           r == t.document
           h == d.history
           g == r.history
<1>1. /\ d \in Documents /\ ConsistentDocument(d) /\ WellFormedCommand(c) /\ at \in Nat
      /\ h \in Seq(Events) /\ s \in Snapshots
  BY DEF Trusted, Snapshots, Documents, Executes
<1>2. /\ c.action # "registered" => d # NoDocument
      /\ ErrorOf(d, c, at) = None /\ r = ResultOf(d, c, at) /\ r # d
  BY DEF Executes
<1>3. PICK e \in Events :
        /\ WrittenBy(e, c, at)
        /\ \/ g = Append(h, e)
           \/ \E f \in Events : g = Append(Append(h, f), e)
  <2> HIDE DEF d, r
  <2>1. \E e \in Events :
          /\ WrittenBy(e, c, at)
          /\ \/ ResultOf(d, c, at).history = Append(d.history, e)
             \/ \E f \in Events : ResultOf(d, c, at).history = Append(Append(d.history, f), e)
    BY <1>1, <1>2, CommandsAppend
  <2> QED BY <1>2, <2>1
<1>4. Extends(g, h)
  BY <1>1, ExecutionsOnlyAdd
<1> HIDE DEF d, r, g, h
<1>5. Len(h) < Len(g) /\ g[Len(g)] = e
  BY <1>1, <1>3
<1>6. g[Len(g)].at = at
  BY <1>3, <1>5 DEF WrittenBy
<1> QED BY <1>2, <1>4, <1>5, <1>6 DEF ExtendsAudit, Extends, d, r, g, h

=============================================================================
