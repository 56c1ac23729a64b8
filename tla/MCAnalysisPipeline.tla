-------------------------- MODULE MCAnalysisPipeline --------------------------
(***************************************************************************)
(* Sources for TLC.  Every stream of six records whose distances are taken *)
(* from Steps is built, from a whole and from a half microsecond on, so    *)
(* that fits settle, oscillate, purge partitions and meet the text order   *)
(* of timestamps.  A few bursts are deployed and served; one is deployed   *)
(* in two versions, whose writers, removals and readers interleave.  Tables *)
(* with at most two faulty cells are audited and built without disturbance, *)
(* a few pairs of tables with edits, replacements and approvals.            *)
(***************************************************************************)
EXTENDS AnalysisPipeline

CONSTANTS Steps

Record(time, id, value, paired, label) ==
  [time |-> time, id |-> id, value |-> value, paired |-> paired, label |-> label]

\* Times from the distances between successive records.
TimesFrom(start, steps) ==
  [n \in 1..Len(steps) + 1 |-> start + FoldLeft(+, 0, SubSeq(steps, 1, n - 1))]

Alone(s) == [v \in Versions |-> IF v = "first" THEN s ELSE <<>>]

Streams ==
  {LET times == TimesFrom(start, steps)
   IN  Alone([n \in 1..6 |-> Record(times[n], n, n, TRUE, 1)]) :
     start \in {0, 1}, steps \in [1..5 -> Steps]}

\* Five train records in a burst, two for validation and one for the test.
BurstTimes == <<0, 2, 4, 6, 8, 30, 32, 60>>
Burst(values, labels) ==
  [n \in 1..8 |-> Record(BurstTimes[n], n, values[n], TRUE, labels[n])]

ServedBursts ==
  {Alone(Burst(<<0, 3, 6, 27, 30, 15, 60, 12>>, labels)) :
     labels \in {<<1, 1, 1, 2, 2, 1, 2, 1>>, <<3, 3, 3, 1, 2, 3, 1, 3>>}}
  \union
  {Alone(Burst(<<0, 4, 5, 9, 10, 2, 8, 6>>, labels)) :
     labels \in {<<1, 1, 2, 2, 1, 1, 2, 1>>, <<1, 3, 3, 2, 2, 3, 1, 3>>}}

\* An occurrence cut by its duration is too near the next one and is purged.
PurgedTimes == <<0, 2, 4, 6, 8, 20, 24, 28, 32, 36, 38, 70, 72>>
Purging == Alone([n \in 1..13 |-> Record(PurgedTimes[n], n, n, TRUE, 1)])

\* Records out of order, one row sent twice, one unit off, one conflict; the
\* copy and the conflict differ in their labels in the first version only.
Disordered(label) ==
  <<Record(30, 6, 3, TRUE, 1), Record(4, 3, 6, TRUE, 2), Record(0, 1, 0, TRUE, 1),
    Record(2, 2, 40, FALSE, 1), Record(4, 3, 6, TRUE, label), Record(60, 8, 5, TRUE, 1),
    Record(6, 4, 9, TRUE, 2), Record(8, 5, 7, TRUE, 2), Record(32, 7, 7, TRUE, 2),
    Record(61, 9, 1, TRUE, 1), Record(61, 9, 2, TRUE, label)>>
Contested == [v \in Versions |-> Disordered(IF v = "first" THEN 1 ELSE 2)]

\* Labels; of the first eight, 4 and 5 are written otherwise but equal to 1,
\* 7 to 6.  9 cannot be normalized, 10 normalizes to nothing.
MCSpelling ==
  << <<"a">>, <<"b">>, <<"c">>, <<"A">>, <<"nbsp", "wide a", "-">>, <<"a", " ", "b">>,
     <<"a", "_", " ", "b">>, <<"a", "%", "e acute">>, <<"a", "control">>, <<"-", "_">> >>

Row(id, t, left, right, fault) ==
  [id |-> id, created_at |-> t, left |-> left, right |-> right, fault |-> fault]
Sound == Row(1, 0, 1, 1, 1)
Marked ==
  {[Sound EXCEPT !.id = x] : x \in {1, 2, Missing}}
    \union {[Sound EXCEPT !.created_at = x] : x \in {2, 7, Missing, Improper}}
    \union {[Sound EXCEPT ![c] = x] : c \in Measures, x \in {4, Missing, Infinite, Improper}}
    \union {[Sound EXCEPT !.fault = x] : x \in {2, 4, 8, 9, Missing, Improper}}

OnColumns(columns, rows) ==
  Table(columns, [n \in DOMAIN rows |-> [c \in ToSet(columns) |->
                    IF c \in Declared THEN rows[n][c] ELSE 1]])
OtherColumns ==
  {<<"created_at", "left", "right", "fault">>, <<"id", "left", "right", "fault">>,
   <<"id", "created_at", "left", "right">>, <<"id", "created_at", "left", "fault">>,
   <<"created_at", "id", "left", "right", "fault">>, Append(Catalog, "extra"),
   <<"id", "created_at", "left", "extra", "fault">>}

Late(n) == Row(3 + n, 30 * n, 3, 3, 2)
Tables ==
  {OnColumns(Catalog, <<a, b, Late(1), Late(2)>>) : a \in Marked, b \in Marked}
    \union {OnColumns(columns, <<a, Late(1)>>) : columns \in OtherColumns, a \in Marked}
    \union {OnColumns(columns, <<>>) : columns \in OtherColumns \union {Catalog}}

\* The expectations are those of the first version.
AuditOf(first, second, plan, limit) ==
  [table |-> [v \in Versions |-> IF v = "first" THEN first ELSE second], plan |-> plan,
   limit |-> limit, expected |-> [rows |-> Max({Len(first.rows), 1}),
                                     labels |-> Max({Labels(first).distinct, 1})]]

FullPlan == {"baseline", "inventory", "build"}
Small(label, cell) == OnColumns(Catalog, <<Row(1, 0, cell, 1, label), Row(2, 20, 1, 1, 2), Late(2)>>)
Equivalent == OnColumns(Catalog, <<Row(1, 0, 1, 1, 6), Row(2, 20, 1, 1, 7)>>)
Seconds == {Small(3, 1), Small(1, Infinite), Unparseable}
MCAudits ==
  {AuditOf(f, Equivalent, FullPlan, 0) : f \in Tables}
    \union {AuditOf(Small(1, 1), f, Baseliners, 3) : f \in Seconds}
    \union {AuditOf(Small(1, 1), f, FullPlan, 3) : f \in Seconds}
NoAudits == {}

MCServed == ServedBursts
MCDeployed == ServedBursts \union {Contested}
MCOrigins == Streams \union {Purging} \union MCDeployed
MCPins == {[model |-> "first", index |-> v] : v \in Versions}
MCRefOrder == <<3, 1, 4, 2, 5, 7, 6, 8>>

=============================================================================
