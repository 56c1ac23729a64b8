---------------------- MODULE PostgresRegistryProofs ----------------------
(***************************************************************************)
(* The registry over four tables implements the atomic document, for any   *)
(* number of sessions, commands and lost connections: a reader assembles   *)
(* rows of one commit, the one writer works on the rows that are stored,   *)
(* and what it writes are the rows of the next snapshot.                   *)
(***************************************************************************)
EXTENDS PostgresRegistry, DocumentAuditProofs

-----------------------------------------------------------------------------
(* The invariant, as facts about a session's state x and the tables t. *)

(* The rows of one trusted snapshot. *)
Whole(t) == Trusted(Assembled(t)) /\ t = RowsOf(Assembled(t))

(* A snapshot that was stored at some time. *)
WasStored(b, t) ==
  /\ Trusted(b)
  /\ b.revision <= Assembled(t).revision
  /\ b.revision = Assembled(t).revision => b = Assembled(t)

Locking == {"registry", "versions", "events", "check", "write", "commit"}
Holds(x) == x.tx = "swap" /\ x.phase \in Locking

Sees(x, t) == IF x.tx = "swap" THEN t ELSE x.view

ViewOK(x, t) ==
  x.tx # "swap" /\ x.phase \in {"versions", "events", "check"} =>
    /\ Whole(x.view) /\ WasStored(Assembled(x.view), t)
    /\ x.expected <= Assembled(x.view).revision
    /\ x.tx = "reread" => x.expected < Assembled(x.view).revision

RowsOK(x, t) ==
  LET seen == Sees(x, t)
  IN  /\ x.phase \in {"versions", "events"} =>
           seen.registry # NoRow /\ x.rows.registry = seen.registry
      /\ x.phase = "events" => x.rows.versions = seen.versions /\ x.rows.hashes = seen.hashes
      /\ x.phase = "check" => x.rows = seen

(* What the draft of a writer was computed from, if it can still be written. *)
DraftOK(x, t) ==
  /\ x.phase \in {"write", "commit"} =>
       x.tx = "swap" /\ x.rows = t /\ x.expected = Assembled(t).revision
  /\ x.phase = "mutate" =>
       WasStored(x.base, t) /\ x.base.revision = x.expected /\ Fresh(x.base, x.command)
  /\ /\ x.tx = "swap" /\ x.phase \in Locking \cup {"begin"}
     /\ x.expected = Assembled(t).revision
     => /\ Fresh(Assembled(t), x.command)
        /\ \E at \in Instants :
             /\ ErrorOf(Assembled(t).document, x.command, at) = None
             /\ x.draft = ResultOf(Assembled(t).document, x.command, at)

AnswerOK(x, t) ==
  LET n == Assembled(t).revision
  IN  /\ x.expected <= n
      /\ x.tx = "reread" => x.expected < n
      /\ x.outcome # None => x.phase = "done"
      /\ x.outcome # "integrity"
      /\ x.outcome = "unavailable" => x.lost
      /\ x.outcome = "concurrency" =>
           /\ x.expected < n
           /\ n = x.expected + 1 => ~RecordedAt(Assembled(t).document, n, x.command)

SessionOK(x, t) ==
  x \in SessionStates /\ ViewOK(x, t) /\ RowsOK(x, t) /\ DraftOK(x, t) /\ AnswerOK(x, t)

OneWriter == \A s, q \in Sessions : Holds(session[s]) /\ Holds(session[q]) => s = q

PgInv ==
  /\ Whole(tables)
  /\ session = [s \in Sessions |-> session[s]]
  /\ \A s \in Sessions : SessionOK(session[s], tables)
  /\ OneWriter

-----------------------------------------------------------------------------
(* Rows and snapshots. *)

LEMMA EmptyValues ==
  /\ NoDocument \in Documents /\ NothingStored \in Snapshots /\ NoRows \in Tables
  /\ Assembled(NoRows) = NothingStored
<1>1. NoDocument \in Documents
  BY DEF NoDocument, Documents
<1>2. Assembled(NoRows) = NothingStored
  BY DEF Assembled, NoRows, NoRow, NothingStored, NoDocument
<1> QED BY <1>1, <1>2 DEF NothingStored, Snapshots, NoRows, NoRow, Tables

(* Writing a snapshot as rows and assembling them again yields it. *)
LEMMA AssembledRows ==
  ASSUME NEW s \in Snapshots
  PROVE  RowsOf(s) \in Tables /\ Assembled(RowsOf(s)) = s
<1> DEFINE d == s.document
           vs == d.versions
           t == RowsOf(s)
<1>1. /\ d \in [versions : Seq(Versions), current : Nat, history : Seq(Events)]
      /\ s = [document |-> d, revision |-> s.revision] /\ s.revision \in Nat
  BY DEF Snapshots, Documents
<1>2. vs \in Seq(Versions) /\ DOMAIN vs = 1..Len(vs) /\ Len(vs) \in Nat
  BY <1>1
<1>3. /\ t.registry = [revision |-> s.revision, current |-> d.current]
      /\ t.hashes = [n \in 1..Len(vs) |-> vs[n].sha256]
      /\ t.versions = [n \in 1..Len(vs) |-> VersionRow(vs[n])]
      /\ t.events = d.history
  BY <1>2 DEF RowsOf
<1>4. ASSUME NEW v \in Versions
      PROVE  /\ VersionRow(v) \in VersionRows /\ v.sha256 \in Hashes
             /\ DomainVersion(VersionRow(v), v.sha256) = v
  BY DEF VersionRow, VersionRows, DomainVersion, Versions
<1>5. t \in Tables
  <2>1. t.hashes \in Seq(Hashes) /\ t.versions \in Seq(VersionRows)
    BY <1>2, <1>3, <1>4
  <2>2. t = [registry |-> t.registry, hashes |-> t.hashes, versions |-> t.versions,
             events |-> t.events]
    BY DEF RowsOf
  <2>3. t.registry \in [revision : Nat, current : Nat] /\ t.events \in Seq(Events)
    BY <1>1, <1>3
  <2> HIDE DEF t
  <2> QED BY <2>1, <2>2, <2>3 DEF Tables
<1>6. [n \in DOMAIN t.versions |-> DomainVersion(t.versions[n], t.hashes[n])] = vs
  <2>1. DOMAIN t.versions = 1..Len(vs)
    BY <1>3
  <2>2. \A n \in 1..Len(vs) : DomainVersion(t.versions[n], t.hashes[n]) = vs[n]
    BY <1>2, <1>3, <1>4
  <2> HIDE DEF t
  <2> QED BY <1>2, <2>1, <2>2
<1>7. Assembled(t) = s
  <2>1. t.registry.revision = s.revision /\ t.registry.current = d.current
    BY <1>3
  <2>2. d = [versions |-> vs, current |-> d.current, history |-> d.history]
    BY <1>1
  <2> HIDE DEF t, d, vs
  <2> QED BY <1>1, <1>3, <1>6, <2>1, <2>2 DEF Assembled
<1> QED BY <1>5, <1>7

LEMMA WholeRows ==
  ASSUME NEW t, Whole(t)
  PROVE  /\ t \in Tables
         /\ Assembled(t) \in Snapshots
         /\ t.registry = [revision |-> Assembled(t).revision,
                          current |-> Assembled(t).document.current]
         /\ Len(t.hashes) = Len(t.versions)
         /\ Len(t.versions) = Len(Assembled(t).document.versions)
         /\ t.events = Assembled(t).document.history
         /\ Reconstructible(t)
<1> DEFINE s == Assembled(t)
<1>1. s \in Snapshots /\ t = RowsOf(s) /\ Trusted(s)
  BY DEF Whole, Trusted
<1> HIDE DEF s
<1>2. t \in Tables
  BY <1>1, AssembledRows
<1>3. /\ t.registry = [revision |-> s.revision, current |-> s.document.current]
      /\ t.events = s.document.history
  BY <1>1 DEF RowsOf
<1>4. Len(t.hashes) = Len(s.document.versions) /\ Len(t.versions) = Len(s.document.versions)
  <2>1. s.document.versions \in Seq(Versions)
    BY <1>1 DEF Snapshots, Documents
  <2>2. /\ t.hashes = [n \in DOMAIN s.document.versions |-> s.document.versions[n].sha256]
        /\ t.versions = [n \in DOMAIN s.document.versions |-> VersionRow(s.document.versions[n])]
    BY <1>1 DEF RowsOf
  <2>3. t.hashes \in Seq(Hashes) /\ t.versions \in Seq(VersionRows)
    BY <1>2 DEF Tables
  <2> QED BY <2>1, <2>2, <2>3
<1>5. ConsistentDocument(s.document) /\ Audited(s)
  BY <1>1 DEF Trusted
<1>6. s.document.current <= Len(s.document.versions)
  BY <1>5 DEF ConsistentDocument, CurrentIsApproved, Latest
<1>7. Reconstructible(t)
  <2>1. Len(t.hashes) >= Len(t.versions)
    BY <1>2, <1>4 DEF Tables
  <2>2. t.registry.current <= Len(t.versions)
    BY <1>3, <1>4, <1>6
  <2> QED BY <1>5, <2>1, <2>2 DEF Reconstructible, s
<1> QED BY <1>1, <1>2, <1>3, <1>4, <1>7 DEF s

(* Without a row of the registry there are no rows at all. *)
LEMMA NoRegistryNoRows ==
  ASSUME NEW t, Whole(t), t.registry = NoRow
  PROVE  t = NoRows
<1>1. Assembled(t).revision = 0
  BY DEF Assembled, NoRow
<1>2. Assembled(t).document = NoDocument /\ Assembled(t) \in Snapshots
  BY <1>1, NothingAtRevisionZero DEF Whole, Trusted
<1>3. t = RowsOf(Assembled(t)) /\ Assembled(t) = NothingStored
  BY <1>1, <1>2 DEF Whole, Snapshots, NothingStored
<1>4. RowsOf(NothingStored) = NoRows
  BY DEF RowsOf, NothingStored, NoDocument, NoRows, NoRow
<1> QED BY <1>3, <1>4

(* A table to which only rows are added, once they are, is the longer one. *)
LEMMA SuffixCompletes ==
  ASSUME NEW S, NEW p \in Seq(S), NEW q \in Seq(S), Len(p) <= Len(q),
         \A i \in 1..Len(p) : q[i] = p[i]
  PROVE  p \o SubSeq(q, Len(p) + 1, Len(q)) = q
<1> DEFINE m == Len(p)
           n == Len(q)
           tail == SubSeq(q, m + 1, n)
<1>1. m \in Nat /\ n \in Nat /\ m <= n
  OBVIOUS
<1>2. tail \in Seq(S) /\ Len(tail) = n - m /\ \A i \in 1..(n - m) : tail[i] = q[m + i]
  BY <1>1
<1> HIDE DEF tail
<1>3. p \o tail \in Seq(S) /\ Len(p \o tail) = n
  BY <1>1, <1>2
<1>4. ASSUME NEW i \in 1..n PROVE (p \o tail)[i] = q[i]
  <2>1. CASE i <= m
    BY <1>1, <2>1
  <2>2. CASE i > m
    <3>1. i - m \in 1..(n - m) /\ m + (i - m) = i
      BY <1>1, <2>2
    <3>2. (p \o tail)[i] = tail[i - m]
      BY <1>1, <1>2, <2>2
    <3> QED BY <1>2, <3>1, <3>2
  <2>3. i <= m \/ i > m
    BY <1>1
  <2> QED BY <2>1, <2>2, <2>3
<1>5. PICK w \in Seq(S) : w = p \o tail
  BY <1>3
<1>6. w = [i \in 1..n |-> w[i]] /\ q = [i \in 1..n |-> q[i]]
  <2>1. \A u \in Seq(S) : u = [i \in 1..Len(u) |-> u[i]]
    OBVIOUS
  <2>2. Len(w) = n
    BY <1>3, <1>5
  <2> QED BY <2>1, <2>2
<1>7. \A i \in 1..n : w[i] = q[i]
  BY <1>4, <1>5
<1>8. w = q
  BY <1>6, <1>7
<1> QED BY <1>5, <1>8 DEF tail

(* Inserting what the stored rows lack, and updating the others, stores the *)
(* rows of the next snapshot. *)
LEMMA NextRows ==
  ASSUME NEW t, Whole(t), NEW next, NEW c, NEW at, Executes(Assembled(t), next, c, at)
  PROVE  LET k == RowsOf(next)
         IN  /\ k \in Tables
             /\ t.hashes \o SubSeq(k.hashes, Len(t.hashes) + 1, Len(k.hashes)) = k.hashes
             /\ t.events \o SubSeq(k.events, Len(t.events) + 1, Len(k.events)) = k.events
<1> DEFINE b == Assembled(t)
           k == RowsOf(next)
           d == b.document
           r == next.document
<1>1. /\ Trusted(b) /\ b \in Snapshots /\ ConsistentDocument(d) /\ d \in Documents
      /\ t = RowsOf(b) /\ t \in Tables
  BY WholeRows DEF Whole, Trusted, Snapshots
<1>2. Executes(b, next, c, at)
  OBVIOUS
<1>3. Trusted(next) /\ next \in Snapshots /\ r \in Documents
  BY <1>1, <1>2, ExecutionKeepsTrust DEF Trusted, Snapshots
<1>4. /\ Extends(r.history, d.history)
      /\ \A n \in DOMAIN d.versions : r.versions[n].sha256 = d.versions[n].sha256
  BY <1>1, <1>2, ExecutionsOnlyAdd
<1>5. Latest(r) >= Latest(d)
  <2>1. WellFormedCommand(c) /\ ErrorOf(d, c, at) = None /\ r = ResultOf(d, c, at)
    BY <1>2 DEF Executes
  <2> HIDE DEF r, d
  <2> QED BY <1>1, <2>1, VersionsAreKept
<1>6. k \in Tables
  BY <1>3, AssembledRows
<1> HIDE DEF b
<1>7. /\ d.versions \in Seq(Versions) /\ r.versions \in Seq(Versions)
      /\ d.history \in Seq(Events) /\ r.history \in Seq(Events)
  BY <1>1, <1>3 DEF Documents
<1>8. /\ t.hashes = [n \in DOMAIN d.versions |-> d.versions[n].sha256]
      /\ k.hashes = [n \in DOMAIN r.versions |-> r.versions[n].sha256]
      /\ t.events = d.history /\ k.events = r.history
  BY <1>1 DEF RowsOf
<1>9. /\ t.hashes \in Seq(Hashes) /\ k.hashes \in Seq(Hashes)
      /\ t.events \in Seq(Events) /\ k.events \in Seq(Events)
  BY <1>1, <1>6 DEF Tables
<1> HIDE DEF k, d, r
<1>10. t.hashes \o SubSeq(k.hashes, Len(t.hashes) + 1, Len(k.hashes)) = k.hashes
  <2>1. Len(t.hashes) = Latest(d) /\ Len(k.hashes) = Latest(r)
        /\ DOMAIN d.versions = 1..Latest(d) /\ DOMAIN r.versions = 1..Latest(r)
        /\ Latest(d) \in Nat /\ Latest(r) \in Nat
    BY <1>7, <1>8, <1>9 DEF Latest
  <2>2. \A n \in 1..Len(t.hashes) : k.hashes[n] = t.hashes[n]
    BY <1>4, <1>5, <1>8, <2>1
  <2> QED BY <1>5, <1>9, <2>1, <2>2, SuffixCompletes
<1>11. t.events \o SubSeq(k.events, Len(t.events) + 1, Len(k.events)) = k.events
  <2> DEFINE h == t.events
             g == k.events
  <2>1. Len(h) <= Len(g) /\ SubSeq(g, 1, Len(h)) = h /\ h \in Seq(Events) /\ g \in Seq(Events)
    BY <1>4, <1>8, <1>9 DEF Extends
  <2> HIDE DEF h, g
  <2>2. \A i \in 1..Len(h) : g[i] = h[i]
    <3>1. \A i \in 1..Len(h) : SubSeq(g, 1, Len(h))[i] = g[i]
      BY <2>1
    <3> QED BY <2>1, <3>1
  <2>3. h \o SubSeq(g, Len(h) + 1, Len(g)) = g
    BY <2>1, <2>2, SuffixCompletes
  <2> QED BY <2>3 DEF h, g
<1> QED BY <1>6, <1>10, <1>11 DEF k

(* The session that holds the lock in its last statement stores the result  *)
(* of its command on what is stored. *)
LEMMA CommitExecutes ==
  ASSUME PgInv, NEW s \in Sessions, In(s, "commit")
  PROVE  /\ Whole(Written(s))
         /\ \E at \in Instants :
              Executes(Assembled(tables), Assembled(Written(s)), session[s].command, at)
<1> DEFINE x == session[s]
           b == Assembled(tables)
           c == x.command
<1>1. /\ x \in SessionStates /\ x.tx = "swap" /\ x.rows = tables /\ x.expected = b.revision
      /\ Fresh(b, c) /\ Whole(tables) /\ Trusted(b)
      /\ \E at \in Instants : /\ ErrorOf(b.document, c, at) = None
                              /\ x.draft = ResultOf(b.document, c, at)
  BY DEF PgInv, SessionOK, DraftOK, In, Locking, Whole
<1>2. PICK at \in Instants : /\ ErrorOf(b.document, c, at) = None
                             /\ x.draft = ResultOf(b.document, c, at)
  BY <1>1
<1>3. WellFormedCommand(c) /\ at \in Nat
  BY <1>1, CommandsAreWellFormed, BoundsAreNaturals DEF SessionStates
<1> DEFINE next == [document |-> x.draft, revision |-> b.revision + 1]
<1>4. Executes(b, next, c, at)
  <2>1. ResultOf(b.document, c, at) # b.document
    BY <1>1, <1>2, <1>3, FreshCommandsChange
  <2> QED BY <1>1, <1>2, <1>3, <2>1 DEF Executes, Fresh
<1>5. Trusted(next) /\ next \in Snapshots
  <2> HIDE DEF next, b
  <2> QED BY <1>1, <1>4, ExecutionKeepsTrust DEF Trusted
<1>6. Candidate(s) = RowsOf(next)
  BY <1>1 DEF Candidate
<1> HIDE DEF next, x
<1>7. Written(s) = RowsOf(next)
  <2> DEFINE k == RowsOf(next)
  <2>1. /\ k \in Tables
        /\ tables.hashes \o SubSeq(k.hashes, Len(tables.hashes) + 1, Len(k.hashes)) = k.hashes
        /\ tables.events \o SubSeq(k.events, Len(tables.events) + 1, Len(k.events)) = k.events
    BY <1>1, <1>4, NextRows
  <2>2. Candidate(s) = k /\ session[s].rows = tables
    BY <1>1, <1>6 DEF x
  <2> HIDE DEF k
  <2>3. Written(s) = [registry |-> k.registry, hashes |-> k.hashes,
                      versions |-> k.versions, events |-> k.events]
    BY <2>1, <2>2 DEF Written, UpdatedVersionRows
  <2>4. k = [registry |-> k.registry, hashes |-> k.hashes,
             versions |-> k.versions, events |-> k.events]
    BY <2>1 DEF Tables
  <2> QED BY <2>3, <2>4 DEF k
<1>8. Assembled(Written(s)) = next
  BY <1>5, <1>7, AssembledRows
<1>9. Whole(Written(s))
  BY <1>5, <1>7, <1>8 DEF Whole
<1> QED BY <1>4, <1>8, <1>9 DEF x

-----------------------------------------------------------------------------
(* One session moves, or the tables do. *)

LEMMA SessionMoves ==
  ASSUME PgInv, UNCHANGED tables, NEW s \in Sessions, NEW x, SessionOK(x, tables),
         session' = [session EXCEPT ![s] = x],
         Holds(x) => \/ Holds(session[s])
                     \/ \A q \in Sessions \ {s} : ~Holds(session[q])
  PROVE  PgInv'
<1>1. session'[s] = x /\ \A q \in Sessions \ {s} : session'[q] = session[q]
  BY DEF PgInv
<1>2. session' = [q \in Sessions |-> session'[q]]
  BY DEF PgInv
<1>3. \A q \in Sessions : SessionOK(session'[q], tables)
  BY <1>1 DEF PgInv
<1>4. OneWriter'
  BY <1>1 DEF PgInv, OneWriter
<1>5. Whole(tables)
  BY DEF PgInv
<1> QED BY <1>2, <1>3, <1>4, <1>5 DEF PgInv

(* A commit leaves true what is known of a session that does not hold the   *)
(* lock. *)
LEMMA OthersDoNotMind ==
  ASSUME NEW t, NEW u, Whole(t), Whole(u), NEW c, NEW at,
         Executes(Assembled(t), Assembled(u), c, at),
         NEW x, SessionOK(x, t), ~Holds(x)
  PROVE  SessionOK(x, u)
<1> DEFINE n == Assembled(t).revision
           m == Assembled(u).revision
<1>1. m = n + 1 /\ n \in Nat
  BY ExecutionKeepsTrust DEF Whole
<1>2. x \in SessionStates /\ x.expected \in Nat /\ x.expected <= n
  BY DEF SessionOK, SessionStates, AnswerOK
<1>3. ASSUME NEW b, WasStored(b, t) PROVE WasStored(b, u)
  <2>1. b.revision \in Nat /\ b.revision <= n /\ Trusted(b)
    BY <1>3 DEF WasStored, Trusted, Snapshots
  <2> QED BY <1>1, <2>1 DEF WasStored
<1>4. ViewOK(x, u)
  BY <1>3 DEF SessionOK, ViewOK
<1>5. RowsOK(x, u)
  BY DEF SessionOK, RowsOK, Sees, Holds, Locking
<1>6. DraftOK(x, u)
  <2>1. x.phase \notin {"write", "commit"}
    BY DEF SessionOK, DraftOK, Holds, Locking
  <2>2. x.phase = "mutate" =>
          WasStored(x.base, u) /\ x.base.revision = x.expected /\ Fresh(x.base, x.command)
    BY <1>3 DEF SessionOK, DraftOK
  <2>3. x.expected # m
    BY <1>1, <1>2
  <2> QED BY <2>1, <2>2, <2>3 DEF DraftOK
<1>7. AnswerOK(x, u)
  BY <1>1, <1>2 DEF SessionOK, AnswerOK
<1> QED BY <1>2, <1>4, <1>5, <1>6, <1>7 DEF SessionOK

LEMMA StateTypes ==
  ASSUME PgInv, NEW s \in Sessions
  PROVE  /\ session[s] \in SessionStates /\ SessionOK(session[s], tables)
         /\ tables \in Tables /\ Assembled(tables).revision \in Nat
         /\ Whole(tables) /\ Trusted(Assembled(tables))
         /\ tables.registry.revision = Assembled(tables).revision
<1>1. Whole(tables) /\ SessionOK(session[s], tables)
  BY DEF PgInv
<1>2. tables \in Tables /\ Assembled(tables) \in Snapshots
  BY <1>1, WholeRows
<1> QED BY <1>1, <1>2 DEF SessionOK, Whole, Snapshots, Assembled

(* The end of a call. *)
LEMMA EndedSession ==
  ASSUME NEW s \in Sessions, NEW t, SessionOK(session[s], t),
         NEW o \in Outcomes \ {"integrity", "unavailable"},
         o = "concurrency" =>
           LET n == Assembled(t).revision
               k == session[s].expected
           IN  /\ k < n
               /\ n = k + 1 => ~RecordedAt(Assembled(t).document, n, session[s].command)
  PROVE  SessionOK(EndOf(s, o), t) /\ ~Holds(EndOf(s, o))
<1> DEFINE x == EndOf(s, o)
<1>1. session[s] \in SessionStates
  BY DEF SessionOK
<1>2. /\ x \in SessionStates /\ x.phase = "done" /\ x.outcome = o
      /\ x.expected = session[s].expected /\ x.command = session[s].command
      /\ x.tx = session[s].tx
  BY <1>1, EmptyValues DEF EndOf, SessionStates, Phases
<1> HIDE DEF x
<1>3. ViewOK(x, t) /\ RowsOK(x, t) /\ DraftOK(x, t)
  BY <1>2 DEF ViewOK, RowsOK, DraftOK, Locking
<1>4. AnswerOK(x, t)
  BY <1>2 DEF AnswerOK, SessionOK
<1>5. ~Holds(x)
  BY <1>2 DEF Holds, Locking
<1> QED BY <1>2, <1>3, <1>4, <1>5 DEF SessionOK, x

LEMMA LostSessionIsOK ==
  ASSUME NEW s \in Sessions, NEW t, SessionOK(session[s], t)
  PROVE  SessionOK(LostSession(s), t) /\ ~Holds(LostSession(s))
<1> DEFINE x == LostSession(s)
<1>1. session[s] \in SessionStates
  BY DEF SessionOK
<1>2. /\ x \in SessionStates /\ x.phase = "done" /\ x.outcome = "unavailable" /\ x.lost
      /\ x.expected = session[s].expected /\ x.tx = session[s].tx
  BY <1>1, EmptyValues DEF LostSession, EndOf, SessionStates, Phases, Outcomes
<1> HIDE DEF x
<1>3. ViewOK(x, t) /\ RowsOK(x, t) /\ DraftOK(x, t)
  BY <1>2 DEF ViewOK, RowsOK, DraftOK, Locking
<1>4. AnswerOK(x, t)
  BY <1>2 DEF AnswerOK, SessionOK
<1>5. ~Holds(x)
  BY <1>2 DEF Holds, Locking
<1> QED BY <1>2, <1>3, <1>4, <1>5 DEF SessionOK, x

(* The beginning of one, and a session without one. *)
LEMMA WaitingSession ==
  ASSUME NEW t, NEW x \in SessionStates, x.phase \in {"idle", "begin"}, x.outcome = None,
         x.tx = "get", x.expected <= Assembled(t).revision
  PROVE  SessionOK(x, t) /\ ~Holds(x)
<1>1. ViewOK(x, t) /\ RowsOK(x, t) /\ DraftOK(x, t)
  BY DEF ViewOK, RowsOK, DraftOK, Locking
<1>2. AnswerOK(x, t) /\ ~Holds(x)
  BY DEF AnswerOK, None, Holds
<1> QED BY <1>1, <1>2 DEF SessionOK

LEMMA IdleSessionType ==
  /\ IdleSession \in SessionStates /\ IdleSession.phase = "idle"
  /\ IdleSession.outcome = None /\ IdleSession.tx = "get" /\ IdleSession.expected = 0
BY SomebodyAsks, EmptyValues DEF IdleSession, SessionStates, Phases, Transactions

LEMMA StartedSession ==
  ASSUME PgInv, NEW c \in Commands, NEW e \in Nat, e <= Assembled(tables).revision,
         NEW s \in Sessions, UNCHANGED tables,
         Step(s, [IdleSession EXCEPT !.phase = "begin", !.command = c, !.expected = e])
  PROVE  PgInv'
<1> DEFINE x == [IdleSession EXCEPT !.phase = "begin", !.command = c, !.expected = e]
<1>1. /\ x \in SessionStates /\ x.phase = "begin" /\ x.outcome = None
      /\ x.expected = e /\ x.tx = "get"
  BY IdleSessionType DEF SessionStates, Phases
<1>2. session' = [session EXCEPT ![s] = x]
  BY DEF Step
<1> HIDE DEF x
<1> QED BY <1>1, <1>2, WaitingSession, SessionMoves

-----------------------------------------------------------------------------
(* The statements. *)

LEMMA BeginKeepsInv == ASSUME PgInv, NEW s \in Sessions, Begin(s) PROVE PgInv'
<1>1. PICK c \in Commands, e \in Revisions :
        /\ e <= tables.registry.revision
        /\ Step(s, [IdleSession EXCEPT !.phase = "begin", !.command = c, !.expected = e])
  BY DEF Begin
<1>2. e \in Nat /\ UNCHANGED tables /\ e <= Assembled(tables).revision
  BY <1>1, BoundsAreNaturals, StateTypes DEF Begin
<1> QED BY <1>1, <1>2, StartedSession

LEMMA RetryKeepsInv == ASSUME PgInv, NEW s \in Sessions, Retry(s) PROVE PgInv'
<1>1. /\ session[s].command \in Commands /\ session[s].expected \in Nat
      /\ session[s].expected <= Assembled(tables).revision
  BY StateTypes DEF SessionOK, SessionStates, AnswerOK
<1> QED BY <1>1, StartedSession DEF Retry

LEMMA ReturnKeepsInv == ASSUME PgInv, NEW s \in Sessions, Return(s) PROVE PgInv'
<1>1. session' = [session EXCEPT ![s] = IdleSession] /\ UNCHANGED tables
  BY DEF Return, Step
<1>2. SessionOK(IdleSession, tables) /\ ~Holds(IdleSession)
  BY StateTypes, IdleSessionType, WaitingSession
<1> QED BY <1>1, <1>2, SessionMoves

LEMMA OpenTransactionKeepsInv ==
  ASSUME PgInv, NEW s \in Sessions, OpenTransaction(s) PROVE PgInv'
<1> DEFINE x == [session[s] EXCEPT !.phase = "registry"]
<1>1. /\ session[s] \in SessionStates /\ SessionOK(session[s], tables)
      /\ session[s].phase = "begin"
  BY StateTypes DEF OpenTransaction, In
<1>2. /\ x \in SessionStates /\ x.phase = "registry" /\ x.outcome = session[s].outcome
      /\ x.expected = session[s].expected /\ x.tx = session[s].tx
      /\ x.command = session[s].command /\ x.draft = session[s].draft
  BY <1>1 DEF SessionStates, Phases
<1>3. session' = [session EXCEPT ![s] = x] /\ UNCHANGED tables
  BY DEF OpenTransaction, Step
<1> HIDE DEF x
<1>4. ViewOK(x, tables) /\ RowsOK(x, tables)
  BY <1>2 DEF ViewOK, RowsOK
<1>5. DraftOK(x, tables)
  BY <1>1, <1>2 DEF DraftOK, SessionOK, Locking
<1>6. AnswerOK(x, tables)
  BY <1>1, <1>2 DEF AnswerOK, SessionOK, None
<1>7. Holds(x) => \A q \in Sessions \ {s} : ~Holds(session[q])
  BY <1>2 DEF Holds, OpenTransaction, AdvisoryLockIsFree, Writes, Locking
<1> QED BY <1>2, <1>3, <1>4, <1>5, <1>6, <1>7, SessionMoves DEF SessionOK

LEMMA SelectRegistryKeepsInv ==
  ASSUME PgInv, NEW s \in Sessions, SelectRegistry(s) PROVE PgInv'
<1> DEFINE y == session[s]
           x == [[y EXCEPT !.view = IF Writes(s) THEN NoRows ELSE tables,
                           !.rows = [NoRows EXCEPT !.registry = tables.registry]]
                  EXCEPT !.phase = IF tables.registry = NoRow THEN "check" ELSE "versions"]
<1>1. y \in SessionStates /\ SessionOK(y, tables) /\ y.phase = "registry" /\ tables \in Tables
      /\ Whole(tables) /\ Trusted(Assembled(tables)) /\ Assembled(tables).revision \in Nat
  BY StateTypes DEF SelectRegistry, In
<1>2. /\ [NoRows EXCEPT !.registry = tables.registry] \in Tables
      /\ [NoRows EXCEPT !.registry = tables.registry].registry = tables.registry
      /\ tables.registry = NoRow => [NoRows EXCEPT !.registry = tables.registry] = NoRows
  <2>1. NoRows \in Tables /\ tables.registry \in [revision : Nat, current : Nat]
    BY <1>1, EmptyValues DEF Tables
  <2>2. [NoRows EXCEPT !.registry = NoRow] = NoRows
    BY DEF NoRows
  <2> QED BY <2>1, <2>2 DEF Tables
<1> DEFINE rows == [NoRows EXCEPT !.registry = tables.registry]
<1> HIDE DEF rows
<1>3. /\ x \in SessionStates /\ x.outcome = y.outcome
      /\ x.phase = IF tables.registry = NoRow THEN "check" ELSE "versions"
      /\ x.expected = y.expected /\ x.tx = y.tx /\ x.command = y.command /\ x.draft = y.draft
      /\ x.rows = rows /\ x.view = IF y.tx = "swap" THEN NoRows ELSE tables
  <2>1. rows \in Tables /\ rows = [NoRows EXCEPT !.registry = tables.registry]
    BY <1>2 DEF rows
  <2>2. x = [[y EXCEPT !.view = IF Writes(s) THEN NoRows ELSE tables, !.rows = rows]
              EXCEPT !.phase = IF tables.registry = NoRow THEN "check" ELSE "versions"]
    BY <2>1
  <2> HIDE DEF x, y
  <2> QED BY <1>1, <2>1, <2>2, EmptyValues DEF SessionStates, Phases, Writes, y
<1>4. session' = [session EXCEPT ![s] = x] /\ UNCHANGED tables
  BY DEF SelectRegistry, Step
<1> HIDE DEF x, y
<1>5. ViewOK(x, tables)
  <2>1. WasStored(Assembled(tables), tables)
    BY <1>1 DEF WasStored
  <2>2. /\ y.expected <= Assembled(tables).revision
        /\ y.tx = "reread" => y.expected < Assembled(tables).revision
    BY <1>1 DEF SessionOK, AnswerOK
  <2> QED BY <1>1, <1>3, <2>1, <2>2 DEF ViewOK
<1>6. RowsOK(x, tables)
  <2>1. Sees(x, tables) = tables
    BY <1>3 DEF Sees
  <2>2. tables.registry = NoRow => tables = NoRows
    BY <1>1, NoRegistryNoRows
  <2> QED BY <1>2, <1>3, <2>1, <2>2 DEF RowsOK, rows
<1>7. DraftOK(x, tables)
  BY <1>1, <1>3 DEF DraftOK, SessionOK, Locking
<1>8. AnswerOK(x, tables)
  BY <1>1, <1>3 DEF AnswerOK, SessionOK, None
<1>9. Holds(x) => Holds(session[s])
  BY <1>1, <1>3 DEF Holds, Locking, y
<1> QED BY <1>3, <1>4, <1>5, <1>6, <1>7, <1>8, <1>9, SessionMoves DEF SessionOK

LEMMA SeenRows ==
  ASSUME NEW t \in Tables, NEW x \in SessionStates PROVE Sees(x, t) \in Tables
BY DEF Sees, SessionStates

LEMMA SelectVersionsKeepsInv ==
  ASSUME PgInv, NEW s \in Sessions, SelectVersions(s) PROVE PgInv'
<1> DEFINE y == session[s]
           seen == Sees(y, tables)
           x == [y EXCEPT !.phase = "events", !.rows.versions = seen.versions,
                          !.rows.hashes = seen.hashes]
<1>1. y \in SessionStates /\ SessionOK(y, tables) /\ y.phase = "versions" /\ tables \in Tables
  BY StateTypes DEF SelectVersions, In
<1>2. seen \in Tables /\ seen = Visible(s)
  BY <1>1, SeenRows DEF Sees, Visible, Writes
<1>3. session' = [session EXCEPT ![s] = x] /\ UNCHANGED tables
  BY <1>2 DEF SelectVersions, Step
<1> HIDE DEF y, seen
<1>4. /\ x \in SessionStates /\ x.phase = "events" /\ x.outcome = y.outcome
      /\ x.expected = y.expected /\ x.tx = y.tx /\ x.command = y.command /\ x.draft = y.draft
      /\ x.view = y.view /\ x.rows.registry = y.rows.registry
      /\ x.rows.versions = seen.versions /\ x.rows.hashes = seen.hashes
  BY <1>1, <1>2 DEF SessionStates, Phases, Tables
<1> HIDE DEF x
<1>5. ViewOK(x, tables)
  BY <1>1, <1>4 DEF ViewOK, SessionOK
<1>6. RowsOK(x, tables)
  BY <1>1, <1>4 DEF RowsOK, SessionOK, Sees, seen
<1>7. DraftOK(x, tables)
  BY <1>1, <1>4 DEF DraftOK, SessionOK, Locking
<1>8. AnswerOK(x, tables)
  BY <1>1, <1>4 DEF AnswerOK, SessionOK, None
<1>9. Holds(x) => Holds(session[s])
  BY <1>1, <1>4 DEF Holds, Locking, y
<1> QED BY <1>3, <1>4, <1>5, <1>6, <1>7, <1>8, <1>9, SessionMoves DEF SessionOK

LEMMA SelectEventsKeepsInv ==
  ASSUME PgInv, NEW s \in Sessions, SelectEvents(s) PROVE PgInv'
<1> DEFINE y == session[s]
           seen == Sees(y, tables)
           x == [y EXCEPT !.phase = "check", !.rows.events = seen.events]
<1>1. y \in SessionStates /\ SessionOK(y, tables) /\ y.phase = "events" /\ tables \in Tables
  BY StateTypes DEF SelectEvents, In
<1>2. seen \in Tables /\ seen = Visible(s)
  BY <1>1, SeenRows DEF Sees, Visible, Writes
<1>3. session' = [session EXCEPT ![s] = x] /\ UNCHANGED tables
  BY <1>2 DEF SelectEvents, Step
<1> HIDE DEF y, seen
<1>4. /\ x \in SessionStates /\ x.phase = "check" /\ x.outcome = y.outcome
      /\ x.expected = y.expected /\ x.tx = y.tx /\ x.command = y.command /\ x.draft = y.draft
      /\ x.view = y.view /\ x.rows.registry = y.rows.registry
      /\ x.rows.versions = y.rows.versions /\ x.rows.hashes = y.rows.hashes
      /\ x.rows.events = seen.events
  BY <1>1, <1>2 DEF SessionStates, Phases, Tables
<1> HIDE DEF x
<1>5. ViewOK(x, tables)
  BY <1>1, <1>4 DEF ViewOK, SessionOK
<1>6. RowsOK(x, tables)
  <2>1. x.rows \in Tables
    BY <1>4 DEF SessionStates
  <2>2. Sees(x, tables) = seen
    BY <1>4 DEF Sees, seen
  <2>3. /\ y.rows.registry = seen.registry /\ y.rows.versions = seen.versions
        /\ y.rows.hashes = seen.hashes
    BY <1>1 DEF SessionOK, RowsOK, seen
  <2>4. \A t \in Tables : t = [registry |-> t.registry, hashes |-> t.hashes,
                               versions |-> t.versions, events |-> t.events]
    BY DEF Tables
  <2>5. x.rows = seen
    BY <1>2, <1>4, <2>1, <2>3, <2>4
  <2> QED BY <1>4, <2>2, <2>5 DEF RowsOK
<1>7. DraftOK(x, tables)
  BY <1>1, <1>4 DEF DraftOK, SessionOK, Locking
<1>8. AnswerOK(x, tables)
  BY <1>1, <1>4 DEF AnswerOK, SessionOK, None
<1>9. Holds(x) => Holds(session[s])
  BY <1>1, <1>4 DEF Holds, Locking, y
<1> QED BY <1>3, <1>4, <1>5, <1>6, <1>7, <1>8, <1>9, SessionMoves DEF SessionOK

-----------------------------------------------------------------------------
(* What is done with the rows that were loaded. *)

LEMMA LoadedRows ==
  ASSUME PgInv, NEW s \in Sessions, In(s, "check")
  PROVE  /\ session[s].rows = Sees(session[s], tables)
         /\ Whole(session[s].rows) /\ Reconstructible(session[s].rows)
<1>1. session[s].rows = Sees(session[s], tables) /\ Whole(tables)
  BY StateTypes DEF SessionOK, RowsOK, In
<1>2. Whole(session[s].rows)
  BY <1>1, StateTypes DEF SessionOK, ViewOK, In, Sees
<1> QED BY <1>1, <1>2, WholeRows

(* A reader answers from a snapshot that was stored since the call began,   *)
(* and, after a lost race, since then. *)
LEMMA AnsweringKeepsInv ==
  ASSUME PgInv, NEW s \in Sessions, In(s, "check"), session[s].tx # "swap", UNCHANGED tables,
         Step(s, Answered(s))
  PROVE  PgInv'
<1> DEFINE y == session[s]
           v == Assembled(y.rows)
           n == Assembled(tables).revision
           c == y.command
           e == y.expected
<1>1. /\ y \in SessionStates /\ SessionOK(y, tables) /\ y.phase = "check"
      /\ n \in Nat /\ WellFormedCommand(c) /\ e \in Nat /\ y.tx # "swap"
  BY StateTypes, CommandsAreWellFormed DEF In, SessionStates
<1>2. /\ WasStored(v, tables) /\ Trusted(v) /\ v \in Snapshots /\ v.revision \in Nat
      /\ v.revision <= n
      /\ v.revision = n => v = Assembled(tables)
      /\ e <= v.revision
      /\ y.tx = "reread" => e < v.revision
  <2>1. y.rows = y.view
    BY <1>1, LoadedRows DEF Sees
  <2>2. /\ WasStored(v, tables) /\ e <= v.revision
        /\ y.tx = "reread" => e < v.revision
    BY <1>1, <2>1 DEF SessionOK, ViewOK
  <2> HIDE DEF v
  <2>3. Trusted(v) /\ v \in Snapshots /\ v.revision \in Nat
    BY <2>2 DEF WasStored, Trusted, Snapshots
  <2> QED BY <2>2, <2>3 DEF WasStored
<1>3. ASSUME NEW o \in Outcomes \ {"integrity", "unavailable", "concurrency"},
             Step(s, EndOf(s, o))
      PROVE  PgInv'
  <2>1. SessionOK(EndOf(s, o), tables) /\ ~Holds(EndOf(s, o))
    BY <1>1, <1>3, EndedSession
  <2>2. session' = [session EXCEPT ![s] = EndOf(s, o)]
    BY <1>3 DEF Step
  <2> QED BY <2>1, <2>2, SessionMoves
<1>4. CASE AlreadyExecuted(v, c, e)
  <2>1. Answered(s) = EndOf(s, "replayed")
    BY <1>4 DEF Answered
  <2> QED BY <1>3, <2>1 DEF Outcomes
<1>5. CASE ~AlreadyExecuted(v, c, e) /\ v.document = NoDocument /\ c.action # "registered"
  <2>1. Answered(s) = EndOf(s, "refused")
    BY <1>5 DEF Answered
  <2> QED BY <1>3, <2>1 DEF Outcomes
<1>6. CASE /\ ~AlreadyExecuted(v, c, e)
           /\ ~(v.document = NoDocument /\ c.action # "registered")
           /\ v.revision # e \/ y.tx = "reread"
  <2>1. Answered(s) = EndOf(s, "concurrency")
    BY <1>6 DEF Answered
  <2>2. e < v.revision
    BY <1>1, <1>2, <1>6
  <2>3. e < n
    BY <1>1, <1>2, <2>2
  <2>4. n = e + 1 => ~RecordedAt(Assembled(tables).document, n, c)
    <3> SUFFICES ASSUME n = e + 1, RecordedAt(Assembled(tables).document, n, c) PROVE FALSE
      OBVIOUS
    <3>1. v.revision = n /\ v = Assembled(tables)
      BY <1>1, <1>2, <2>2
    <3>2. v.revision = e + 1 /\ RecordedAt(v.document, v.revision, c)
      BY <3>1
    <3> HIDE DEF v, c, e
    <3>3. AlreadyExecuted(v, c, e)
      BY <1>1, <1>2, <3>2, RecordedIsRecognised
    <3> QED BY <1>6, <3>3
  <2>5. SessionOK(EndOf(s, "concurrency"), tables) /\ ~Holds(EndOf(s, "concurrency"))
    BY <1>1, <2>3, <2>4, EndedSession DEF Outcomes
  <2>6. session' = [session EXCEPT ![s] = EndOf(s, "concurrency")]
    BY <2>1 DEF Step
  <2> QED BY <2>5, <2>6, SessionMoves
<1>7. CASE /\ ~AlreadyExecuted(v, c, e)
           /\ ~(v.document = NoDocument /\ c.action # "registered")
           /\ ~(v.revision # e \/ y.tx = "reread")
  <2> DEFINE x == [y EXCEPT !.phase = "mutate", !.base = v, !.view = NoRows, !.rows = NoRows]
  <2>1. Answered(s) = x
    BY <1>7 DEF Answered
  <2>2. session' = [session EXCEPT ![s] = x]
    BY <2>1 DEF Step
  <2> HIDE DEF v
  <2>3. /\ x \in SessionStates /\ x.phase = "mutate" /\ x.outcome = y.outcome
        /\ x.expected = e /\ x.tx = y.tx /\ x.command = c /\ x.base = v
    BY <1>1, <1>2, EmptyValues DEF SessionStates, Phases
  <2> HIDE DEF x, c, e, y
  <2>4. ViewOK(x, tables) /\ RowsOK(x, tables)
    BY <2>3 DEF ViewOK, RowsOK
  <2>5. DraftOK(x, tables)
    <3>1. Fresh(v, c) /\ v.revision = e
      BY <1>7 DEF Fresh
    <3> QED BY <1>1, <1>2, <2>3, <3>1 DEF DraftOK
  <2>6. AnswerOK(x, tables)
    BY <1>1, <2>3 DEF AnswerOK, SessionOK, None, e, c
  <2>7. ~Holds(x)
    BY <1>1, <2>3 DEF Holds
  <2> QED BY <2>2, <2>3, <2>4, <2>5, <2>6, <2>7, SessionMoves DEF SessionOK
<1> QED BY <1>4, <1>5, <1>6, <1>7

(* The writer compares with the rows that are stored; its draft is never    *)
(* refused for anything but the revision. *)
LEMMA ComparingKeepsInv ==
  ASSUME PgInv, NEW s \in Sessions, In(s, "check"), session[s].tx = "swap", UNCHANGED tables,
         Step(s, Compared(s))
  PROVE  PgInv'
<1> DEFINE y == session[s]
           b == Assembled(tables)
           c == y.command
<1>1. /\ y \in SessionStates /\ SessionOK(y, tables) /\ y.phase = "check"
      /\ b.revision \in Nat /\ WellFormedCommand(c) /\ y.expected \in Nat /\ y.tx = "swap"
      /\ Trusted(b) /\ y.rows = tables /\ y.expected <= b.revision
  BY StateTypes, LoadedRows, CommandsAreWellFormed DEF In, SessionStates, Sees, SessionOK, AnswerOK
<1>2. CASE b.revision # y.expected
  <2> DEFINE x == [y EXCEPT !.phase = "begin", !.tx = "reread", !.view = NoRows,
                            !.rows = NoRows, !.base = NothingStored, !.draft = NoDocument]
  <2>1. session' = [session EXCEPT ![s] = x]
    BY <1>1, <1>2 DEF Compared, Step
  <2>2. /\ x \in SessionStates /\ x.phase = "begin" /\ x.outcome = y.outcome
        /\ x.expected = y.expected /\ x.tx = "reread" /\ x.command = c
    BY <1>1, EmptyValues DEF SessionStates, Phases, Transactions
  <2> HIDE DEF x
  <2>3. ViewOK(x, tables) /\ RowsOK(x, tables) /\ DraftOK(x, tables)
    BY <2>2 DEF ViewOK, RowsOK, DraftOK
  <2>4. AnswerOK(x, tables)
    BY <1>1, <1>2, <2>2 DEF AnswerOK, SessionOK, None
  <2>5. ~Holds(x)
    BY <2>2 DEF Holds
  <2> QED BY <2>1, <2>2, <2>3, <2>4, <2>5, SessionMoves DEF SessionOK
<1>3. CASE b.revision = y.expected
  <2> DEFINE x == [y EXCEPT !.phase = "write"]
  <2>1. /\ Fresh(b, c)
        /\ \E at \in Instants : /\ ErrorOf(b.document, c, at) = None
                                /\ y.draft = ResultOf(b.document, c, at)
    BY <1>1, <1>3 DEF SessionOK, DraftOK, Locking
  <2>2. ExtendsAudit(b.document, y.draft, c)
    <3>1. PICK at \in Instants : /\ ErrorOf(b.document, c, at) = None
                                 /\ y.draft = ResultOf(b.document, c, at)
      BY <2>1
    <3> DEFINE next == [document |-> y.draft, revision |-> b.revision + 1]
    <3>2. at \in Nat
      BY BoundsAreNaturals
    <3>3. Executes(b, next, c, at)
      <4>1. ResultOf(b.document, c, at) # b.document
        BY <1>1, <2>1, <3>1, <3>2, FreshCommandsChange
      <4> QED BY <1>1, <2>1, <3>1, <3>2, <4>1 DEF Executes, Fresh
    <3>4. next.document = y.draft
      OBVIOUS
    <3> HIDE DEF next
    <3> QED BY <1>1, <3>3, <3>4, DraftsExtendAudit
  <2>3. session' = [session EXCEPT ![s] = x]
    BY <1>1, <1>3, <2>2 DEF Compared, Step
  <2>4. /\ x \in SessionStates /\ x.phase = "write" /\ x.outcome = y.outcome
        /\ x.expected = y.expected /\ x.tx = "swap" /\ x.command = c /\ x.rows = tables
        /\ x.draft = y.draft
    BY <1>1 DEF SessionStates, Phases
  <2> HIDE DEF x
  <2>5. ViewOK(x, tables) /\ RowsOK(x, tables)
    BY <2>4 DEF ViewOK, RowsOK
  <2>6. DraftOK(x, tables)
    BY <1>3, <2>1, <2>4 DEF DraftOK
  <2>7. AnswerOK(x, tables)
    BY <1>1, <2>4 DEF AnswerOK, SessionOK, None
  <2>8. Holds(session[s])
    BY <1>1 DEF Holds, Locking
  <2> QED BY <2>3, <2>4, <2>5, <2>6, <2>7, <2>8, SessionMoves DEF SessionOK
<1> QED BY <1>2, <1>3

LEMMA CheckKeepsInv == ASSUME PgInv, NEW s \in Sessions, Check(s) PROVE PgInv'
<1>1. In(s, "check") /\ UNCHANGED tables /\ Reconstructible(session[s].rows)
  BY LoadedRows DEF Check
<1>2. Step(s, IF Writes(s) THEN Compared(s) ELSE Answered(s))
  BY <1>1 DEF Check
<1>3. CASE session[s].tx = "swap"
  BY <1>1, <1>2, <1>3, ComparingKeepsInv DEF Writes
<1>4. CASE session[s].tx # "swap"
  BY <1>1, <1>2, <1>4, AnsweringKeepsInv DEF Writes
<1> QED BY <1>3, <1>4

LEMMA MutateKeepsInv == ASSUME PgInv, NEW s \in Sessions, Mutate(s) PROVE PgInv'
<1> DEFINE y == session[s]
           c == y.command
           b == y.base
<1>1. /\ y \in SessionStates /\ SessionOK(y, tables) /\ y.phase = "mutate"
      /\ WellFormedCommand(c) /\ UNCHANGED tables /\ Assembled(tables).revision \in Nat
  BY StateTypes, CommandsAreWellFormed DEF Mutate, In, SessionStates
<1>2. WasStored(b, tables) /\ Trusted(b) /\ b.revision = y.expected /\ Fresh(b, c)
  BY <1>1 DEF SessionOK, DraftOK, WasStored
<1>3. PICK at \in Instants :
        Step(s, IF ErrorOf(b.document, c, at) # None THEN EndOf(s, "refused")
                ELSE [y EXCEPT !.phase = "begin", !.tx = "swap",
                               !.draft = ResultOf(b.document, c, at), !.base = NothingStored])
  BY DEF Mutate
<1>4. CASE ErrorOf(b.document, c, at) # None
  <2>1. SessionOK(EndOf(s, "refused"), tables) /\ ~Holds(EndOf(s, "refused"))
    BY <1>1, EndedSession DEF Outcomes
  <2>2. session' = [session EXCEPT ![s] = EndOf(s, "refused")]
    BY <1>3, <1>4 DEF Step
  <2> QED BY <1>1, <2>1, <2>2, SessionMoves
<1>5. CASE ErrorOf(b.document, c, at) = None
  <2> DEFINE r == ResultOf(b.document, c, at)
             x == [y EXCEPT !.phase = "begin", !.tx = "swap", !.draft = r,
                            !.base = NothingStored]
  <2>1. session' = [session EXCEPT ![s] = x]
    BY <1>3, <1>5 DEF Step
  <2>2. r \in Documents
    <3>1. /\ b.document \in Documents /\ ConsistentDocument(b.document) /\ at \in Nat
          /\ c.action # "registered" => b.document # NoDocument
      BY <1>2, BoundsAreNaturals DEF Trusted, Snapshots, Fresh
    <3> QED BY <1>1, <1>5, <3>1, CommandsKeepConsistency
  <2> HIDE DEF r
  <2>3. /\ x \in SessionStates /\ x.phase = "begin" /\ x.outcome = y.outcome
        /\ x.expected = y.expected /\ x.tx = "swap" /\ x.command = c /\ x.draft = r
    BY <1>1, <2>2, EmptyValues DEF SessionStates, Phases, Transactions
  <2> HIDE DEF x
  <2>4. ViewOK(x, tables) /\ RowsOK(x, tables)
    BY <2>3 DEF ViewOK, RowsOK
  <2>5. DraftOK(x, tables)
    <3>1. y.expected = Assembled(tables).revision => b = Assembled(tables)
      BY <1>2 DEF WasStored
    <3> HIDE DEF b
    <3> QED BY <1>2, <1>5, <2>3, <3>1 DEF DraftOK, r
  <2>6. AnswerOK(x, tables)
    BY <1>1, <2>3 DEF AnswerOK, SessionOK, None
  <2>7. ~Holds(x)
    BY <2>3 DEF Holds, Locking
  <2> QED BY <1>1, <2>1, <2>3, <2>4, <2>5, <2>6, <2>7, SessionMoves DEF SessionOK
<1> QED BY <1>4, <1>5

(* No other transaction has written since the rows were loaded, so neither  *)
(* the key nor the revision is in the way. *)
LEMMA WriteKeepsInv == ASSUME PgInv, NEW s \in Sessions, Write(s) PROVE PgInv'
<1> DEFINE y == session[s]
           x == [y EXCEPT !.phase = "commit"]
<1>1. /\ y \in SessionStates /\ SessionOK(y, tables) /\ y.phase = "write" /\ UNCHANGED tables
      /\ y.rows = tables /\ y.tx = "swap"
  BY StateTypes DEF Write, In, SessionOK, DraftOK
<1>2. session' = [session EXCEPT ![s] = x]
  BY <1>1 DEF Write, Step
<1>3. /\ x \in SessionStates /\ x.phase = "commit" /\ x.outcome = y.outcome
      /\ x.expected = y.expected /\ x.tx = "swap" /\ x.command = y.command
      /\ x.rows = tables /\ x.draft = y.draft
  BY <1>1 DEF SessionStates, Phases
<1> HIDE DEF x
<1>4. ViewOK(x, tables) /\ RowsOK(x, tables)
  BY <1>3 DEF ViewOK, RowsOK
<1>5. DraftOK(x, tables)
  BY <1>1, <1>3 DEF DraftOK, SessionOK, Locking
<1>6. AnswerOK(x, tables)
  BY <1>1, <1>3 DEF AnswerOK, SessionOK, None
<1>7. Holds(session[s])
  BY <1>1 DEF Holds, Locking
<1> QED BY <1>1, <1>2, <1>3, <1>4, <1>5, <1>6, <1>7, SessionMoves DEF SessionOK

(* A commit, whether or not the client hears of it. *)
LEMMA CommittingKeepsInv ==
  ASSUME PgInv, NEW s \in Sessions, In(s, "commit"), tables' = Written(s),
         NEW x, SessionOK(x, tables), ~Holds(x), Step(s, x)
  PROVE  PgInv'
<1>1. Whole(tables) /\ Whole(Written(s))
  BY StateTypes, CommitExecutes
<1>2. PICK at \in Instants :
        Executes(Assembled(tables), Assembled(Written(s)), session[s].command, at)
  BY CommitExecutes
<1>3. /\ session'[s] = x
      /\ \A q \in Sessions \ {s} : session'[q] = session[q]
      /\ session' = [q \in Sessions |-> session'[q]]
  BY DEF PgInv, Step
<1>4. Holds(session[s])
  BY StateTypes DEF SessionOK, DraftOK, In, Holds, Locking
<1>5. ASSUME NEW q \in Sessions PROVE SessionOK(session'[q], Written(s)) /\ ~Holds(session'[q])
  <2>1. CASE q = s
    <3>1. SessionOK(x, Written(s))
      BY <1>1, <1>2, OthersDoNotMind
    <3> QED BY <1>3, <2>1, <3>1
  <2>2. CASE q # s
    <3>1. SessionOK(session[q], tables) /\ ~Holds(session[q])
      BY <1>4, <2>2 DEF PgInv, OneWriter
    <3>2. SessionOK(session[q], Written(s))
      BY <1>1, <1>2, <3>1, OthersDoNotMind
    <3> QED BY <1>3, <2>2, <3>1, <3>2
  <2> QED BY <2>1, <2>2
<1>6. OneWriter'
  BY <1>5 DEF OneWriter
<1> QED BY <1>1, <1>3, <1>5, <1>6 DEF PgInv

LEMMA CommitKeepsInv == ASSUME PgInv, NEW s \in Sessions, Commit(s) PROVE PgInv'
<1>1. SessionOK(EndOf(s, "applied"), tables) /\ ~Holds(EndOf(s, "applied"))
  BY StateTypes, EndedSession DEF Outcomes
<1> QED BY <1>1, CommittingKeepsInv DEF Commit

LEMMA LoseConnectionKeepsInv ==
  ASSUME PgInv, NEW s \in Sessions, LoseConnection(s) PROVE PgInv'
<1>1. SessionOK(LostSession(s), tables) /\ ~Holds(LostSession(s)) /\ Step(s, LostSession(s))
  BY StateTypes, LostSessionIsOK DEF LoseConnection
<1>2. CASE UNCHANGED tables
  BY <1>1, <1>2, SessionMoves DEF Step
<1>3. CASE In(s, "commit") /\ tables' = Written(s)
  BY <1>1, <1>3, CommittingKeepsInv
<1> QED BY <1>2, <1>3 DEF LoseConnection

-----------------------------------------------------------------------------
(* The theorems. *)

LEMMA PgInitSatisfiesInv == Init => PgInv
<1> SUFFICES ASSUME Init PROVE PgInv
  OBVIOUS
<1>1. PICK b \in Seeds : tables = RowsOf(b)
  BY DEF Init
<1>2. Trusted(b) /\ b \in Snapshots
  BY SeedsAreAudited DEF Trusted
<1>3. Assembled(tables) = b
  BY <1>1, <1>2, AssembledRows
<1>4. Whole(tables) /\ Assembled(tables).revision \in Nat
  BY <1>1, <1>2, <1>3 DEF Whole, Snapshots
<1>5. session = [s \in Sessions |-> IdleSession]
  BY DEF Init
<1>6. SessionOK(IdleSession, tables) /\ ~Holds(IdleSession)
  BY <1>4, IdleSessionType, WaitingSession
<1> QED BY <1>4, <1>5, <1>6 DEF PgInv, OneWriter

LEMMA PgStepKeepsInv == PgInv /\ [Next]_vars => PgInv'
<1> SUFFICES ASSUME PgInv, [Next]_vars PROVE PgInv'
  OBVIOUS
<1>1. ASSUME NEW s \in Sessions, Begin(s) \/ Serve(s) \/ LoseConnection(s) \/ Retry(s)
      PROVE  PgInv'
  BY <1>1, BeginKeepsInv, OpenTransactionKeepsInv, SelectRegistryKeepsInv,
     SelectVersionsKeepsInv, SelectEventsKeepsInv, CheckKeepsInv, MutateKeepsInv,
     WriteKeepsInv, CommitKeepsInv, ReturnKeepsInv, LoseConnectionKeepsInv, RetryKeepsInv
  DEF Serve
<1>2. CASE UNCHANGED vars
  BY <1>2 DEF vars, PgInv, OneWriter
<1> QED BY <1>1, <1>2 DEF Next

(* In every reachable state the tables hold the rows of one audited         *)
(* snapshot, at most one session writes, and what each session holds is as  *)
(* its phase says. *)
THEOREM PgInvariant == Spec => []PgInv
BY PgInitSatisfiesInv, PgStepKeepsInv, PTL DEF Spec

(* Every variable keeps its type.                                           *)
THEOREM PgTypesHold == Spec => []PgTypeOK
<1>1. PgInv => PgTypeOK
  <2> SUFFICES ASSUME PgInv PROVE PgTypeOK
    OBVIOUS
  <2>1. tables \in Tables
    BY WholeRows DEF PgInv
  <2>2. \A s \in Sessions : session[s] \in SessionStates
    BY DEF PgInv, SessionOK
  <2> QED BY <2>1, <2>2 DEF PgInv, PgTypeOK
<1> QED BY <1>1, PgInvariant, PTL

(* No answer is given without its cause: rows of two commits never meet,    *)
(* first registrations do not collide, and a retry that is told it lost the *)
(* race did lose it, whatever became of its first try. *)
THEOREM AnswersHaveTheirCause == Spec => []RefusalsHaveACause
<1>1. PgInv => RefusalsHaveACause
  <2> SUFFICES ASSUME PgInv, NEW s \in Sessions
               PROVE  LET d == Assembled(tables).document
                          k == session[s].expected + 1
                      IN  /\ session[s].outcome # "integrity"
                          /\ session[s].outcome = "unavailable" => session[s].lost
                          /\ session[s].outcome = "concurrency" =>
                               /\ k <= RevisionAt(d.history, Len(d.history))
                               /\ k = RevisionAt(d.history, Len(d.history))
                                    => ~RecordedAt(d, k, session[s].command)
    BY DEF RefusalsHaveACause
  <2> DEFINE b == Assembled(tables)
             d == b.document
             e == session[s].expected
  <2>1. /\ Trusted(b) /\ b.revision \in Nat /\ e \in Nat
        /\ AnswerOK(session[s], tables)
    BY StateTypes DEF SessionOK, SessionStates
  <2>2. ASSUME session[s].outcome = "concurrency"
        PROVE  /\ e < b.revision
               /\ b.revision = e + 1 => ~RecordedAt(d, b.revision, session[s].command)
    BY <2>1, <2>2 DEF AnswerOK
  <2>3. ASSUME session[s].outcome = "concurrency"
        PROVE  RevisionAt(d.history, Len(d.history)) = b.revision
    <3>1. d # NoDocument
      BY <2>1, <2>2, <2>3, RevisionZeroIsNothing
    <3> HIDE DEF b
    <3> QED BY <2>1, <3>1, RevisionIsOfLastEvent
  <2> HIDE DEF b, e
  <2>4. session[s].outcome # "integrity" /\ (session[s].outcome = "unavailable" => session[s].lost)
    BY <2>1 DEF AnswerOK
  <2> QED BY <2>1, <2>2, <2>3, <2>4 DEF b, e
<1> QED BY <1>1, PgInvariant, PTL

-----------------------------------------------------------------------------
(* The refinement.  An instance has its own copy of every definition; the   *)
(* copies that a command is executed by are the same operators. *)
LEMMA PromisedOperators ==
  ASSUME NEW d, NEW c, NEW at
  PROVE  /\ Promise!ErrorOf(d, c, at) = ErrorOf(d, c, at)
         /\ Promise!ResultOf(d, c, at) = ResultOf(d, c, at)
         /\ Promise!NoDocument = NoDocument /\ Promise!None = None
<1>1. Promise!ErrorOf(d, c, at) = ErrorOf(d, c, at)
  BY DEF Promise!ErrorOf, ErrorOf, Promise!RegisterError, RegisterError,
         Promise!StartProcessingError, StartProcessingError, Promise!ReprocessError,
         ReprocessError, Promise!RecordStepError, RecordStepError, Promise!ApproveError,
         ApproveError, Promise!RejectError, RejectError, Promise!ClockMovedBack,
         ClockMovedBack, Promise!Latest, Latest, Promise!TransitionAllowed,
         TransitionAllowed, Promise!AllowedTransitions, AllowedTransitions,
         Promise!ActiveCandidateStatuses, ActiveCandidateStatuses, Promise!Recordable,
         Recordable, Promise!StepInOrder, StepInOrder, Promise!StatusFor, StatusFor,
         Promise!ValidVersion, ValidVersion, Promise!ValidEvent, ValidEvent,
         Promise!EventStatusTransitions, EventStatusTransitions, Promise!SupersededVersion,
         SupersededVersion, Promise!IntegrityRequiredStatuses, IntegrityRequiredStatuses,
         Promise!HasFailure, HasFailure, Promise!NoDocument, NoDocument, Promise!None, None,
         Promise!UpdatedVersion, UpdatedVersion, Promise!ReprocessedVersion,
         ReprocessedVersion, Promise!SucceededVersion, SucceededVersion,
         Promise!FailedVersion, FailedVersion, Promise!Resumed, Resumed, Promise!WithStatus,
         WithStatus, Promise!Complete, Complete, Promise!EventOf, EventOf
<1>2. Promise!ResultOf(d, c, at) = ResultOf(d, c, at)
  BY DEF Promise!ResultOf, ResultOf, Promise!Registered, Registered, Promise!Approved,
         Approved, Promise!ReplaceVersionAndRecord, ReplaceVersionAndRecord,
         Promise!NewVersion, NewVersion, Promise!Latest, Latest, Promise!SupersededEvent,
         SupersededEvent, Promise!SupersededVersion, SupersededVersion,
         Promise!SupersessionReason, SupersessionReason, Promise!None, None,
         Promise!UpdatedVersion, UpdatedVersion, Promise!ReprocessedVersion,
         ReprocessedVersion, Promise!SucceededVersion, SucceededVersion,
         Promise!FailedVersion, FailedVersion, Promise!Resumed, Resumed, Promise!WithStatus,
         WithStatus, Promise!Complete, Complete, Promise!EventOf, EventOf
<1> QED BY <1>1, <1>2 DEF Promise!NoDocument, NoDocument, Promise!None, None

(* A commit is one execution of the command of its session.                 *)
LEMMA CommitIsPromised ==
  ASSUME PgInv, NEW s \in Sessions, In(s, "commit"), tables' = Written(s)
  PROVE  Promise!AtomicNext
<1> DEFINE b == Assembled(tables)
           c == session[s].command
<1>1. PICK at \in Instants : Executes(b, Assembled(Written(s)), c, at)
  BY CommitExecutes
<1>2. c \in Commands
  BY StateTypes DEF SessionStates
<1>3. /\ c.action # "registered" => b.document # NoDocument
      /\ ErrorOf(b.document, c, at) = None
      /\ ResultOf(b.document, c, at) # b.document
      /\ Assembled(tables)' = [document |-> ResultOf(b.document, c, at),
                               revision |-> b.revision + 1]
  BY <1>1 DEF Executes
<1> HIDE DEF c
<1>4. Promise!Execute(c, at)
  BY <1>3, PromisedOperators DEF Promise!Execute
<1> QED BY <1>2, <1>4 DEF Promise!AtomicNext

(* Four tables, several statements, any interleaving and any lost           *)
(* connection: what is committed changes only by one whole command. *)
THEOREM TablesImplementTheDocument == Spec => ImplementsAtomicDocument
<1>1. Init => Promise!AtomicInit
  <2> SUFFICES ASSUME Init PROVE Assembled(tables) \in Seeds
    BY DEF Promise!AtomicInit
  <2>1. PICK b \in Seeds : tables = RowsOf(b)
    BY DEF Init
  <2> QED BY <2>1, SeedsAreAudited, AssembledRows
<1>2. PgInv /\ [Next]_vars => [Promise!AtomicNext]_(Assembled(tables))
  <2> SUFFICES ASSUME PgInv, [Next]_vars
               PROVE  Promise!AtomicNext \/ UNCHANGED Assembled(tables)
    OBVIOUS
  <2>1. ASSUME UNCHANGED tables PROVE UNCHANGED Assembled(tables)
    BY <2>1 DEF Assembled
  <2>2. ASSUME NEW s \in Sessions, Begin(s) \/ Serve(s) \/ LoseConnection(s) \/ Retry(s)
        PROVE  Promise!AtomicNext \/ UNCHANGED tables
    <3>1. CASE Commit(s)
      BY <3>1, CommitIsPromised DEF Commit
    <3>2. CASE LoseConnection(s)
      BY <3>2, CommitIsPromised DEF LoseConnection
    <3>3. CASE \/ Begin(s) \/ OpenTransaction(s) \/ SelectRegistry(s) \/ SelectVersions(s)
               \/ SelectEvents(s) \/ Check(s) \/ Mutate(s) \/ Write(s) \/ Return(s) \/ Retry(s)
      BY <3>3 DEF Begin, OpenTransaction, SelectRegistry, SelectVersions, SelectEvents,
                  Check, Mutate, Write, Return, Retry
    <3> QED BY <2>2, <3>1, <3>2, <3>3 DEF Serve
  <2>3. CASE UNCHANGED vars
    BY <2>1, <2>3 DEF vars
  <2> QED BY <2>1, <2>2, <2>3 DEF Next
<1> QED BY <1>1, <1>2, PgInvariant, PTL
        DEF Spec, ImplementsAtomicDocument, Promise!AtomicSpec

=============================================================================
