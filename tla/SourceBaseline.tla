---------------------------- MODULE SourceBaseline ----------------------------
(***************************************************************************)
(* The aggregate profile of a table (data/profiling.py) and the public     *)
(* baseline made of it (data/baseline.py): counts that must reconcile,     *)
(* gates, and the checks a payload has to pass before it is written and    *)
(* whenever it is read.  The profile counts by rules of its own, without   *)
(* the stages of the contract.  Percentages, moments and the rendering are *)
(* left out.  Digests are versions of the source; a payload is the same    *)
(* bytes as another exactly if it is the same value.                       *)
(***************************************************************************)
EXTENDS SourceContract, TemporalPartitions, FiniteSetsExt

NoValue == -1   \* None
RowsOfTable(f) == DOMAIN f.rows
Volume(f) ==
  [rows |-> Len(f.rows), observed |-> Len(f.columns),
   present |-> Cardinality(Declared \intersect ToSet(f.columns)),
   missing |-> Cardinality(Declared \ ToSet(f.columns)),
   unexpected |-> Cardinality(ToSet(f.columns) \ Declared)]

-----------------------------------------------------------------------------
(* _profile_time.                                                          *)

Instants(f) ==
  IF Present(f, "created_at") THEN SelectSeq(Cells(f, "created_at"), LAMBDA t : t >= 0) ELSE <<>>

InputOrder(times) ==
  LET up == \A n \in 1..Len(times) - 1 : times[n] <= times[n + 1]
      down == \A n \in 1..Len(times) - 1 : times[n] >= times[n + 1]
  IN  CASE Len(times) < 2 -> "not_applicable"
        [] Len(times) >= 2 /\ up /\ down -> "constant"
        [] Len(times) >= 2 /\ up /\ ~down -> "nondecreasing"
        [] Len(times) >= 2 /\ down /\ ~up -> "nonincreasing"
        [] OTHER -> "unordered"

\* _nominal_cadence: the smallest of the most frequent intervals.
Frequency(seq, x) == Cardinality({n \in DOMAIN seq : seq[n] = x})
Cadence(intervals) ==
  IF intervals = <<>> THEN NoValue
  ELSE LET most == Max({Frequency(intervals, x) : x \in ToSet(intervals)})
       IN  Min({x \in ToSet(intervals) : Frequency(intervals, x) = most})

Temporal(f) ==
  LET times == Instants(f)
      distinct == SetToSortSeq(ToSet(times), <)
      intervals == [n \in 1..Max({Len(distinct) - 1, 0}) |-> distinct[n + 1] - distinct[n]]
      cadence == Cadence(intervals)
  IN  [valid |-> Len(times), distinct |-> Len(distinct),
       invalid |-> IF Present(f, "created_at") THEN Holding(f, "created_at", {Improper}) ELSE 0,
       start |-> IF times = <<>> THEN NoValue ELSE Min(ToSet(times)),
       end |-> IF times = <<>> THEN NoValue ELSE Max(ToSet(times)),
       order |-> InputOrder(times),
       intervals |-> Len(intervals),
       cadence |-> cadence,
       irregular |-> Len(SelectSeq(intervals, LAMBDA x : x # cadence)),
       gaps |-> Len(SelectSeq(intervals, LAMBDA x : x > cadence))]

-----------------------------------------------------------------------------
(* _profile_column and _numeric_statistics.                                *)

\* A measure below its physical minimum is finite all the same.
Finite(cells) == SortSeq(SelectSeq(cells, LAMBDA x : x \notin {Missing, Infinite}), <)
Outliers(finite) ==
  IF finite = <<>> THEN 0
  ELSE LET q1 == Quantile(finite, Parts \div 4)
           q3 == Quantile(finite, (3 * Parts) \div 4)
       IN  Len(SelectSeq(finite, LAMBDA x : \/ 2 * Parts * x < 2 * q1 - 3 * (q3 - q1)
                                            \/ 2 * Parts * x > 2 * q3 + 3 * (q3 - q1)))

AbsentColumn == [present |-> FALSE, observed |-> 0, missing |-> 0, infinite |-> 0,
                 violations |-> 0, finite |-> 0, outliers |-> 0]
Column(f, c) ==
  IF ~Present(f, c) THEN AbsentColumn
  ELSE LET finite == IF c \in Measures THEN Finite(Cells(f, c)) ELSE <<>>
       IN  [present |-> TRUE, observed |-> Len(f.rows),
            missing |-> Holding(f, c, {Missing}),
            infinite |-> IF c \in Measures THEN Holding(f, c, {Infinite}) ELSE 0,
            violations |-> Cardinality({n \in RowsOfTable(f) :
                /\ f.rows[n][c] \notin {Missing, Infinite}
                /\ ViolatesDomain(c, f.rows[n][c])}),
            finite |-> Len(finite), outliers |-> Outliers(finite)]

-----------------------------------------------------------------------------
(* _profile_hashable_duplicates, with the key the baseline declares.       *)

SameCells(f, n) == {m \in RowsOfTable(f) : f.rows[m] = f.rows[n]}
Complete(f) == {n \in RowsOfTable(f) : f.rows[n]["id"] # Missing}
SameKey(f, n) == {m \in Complete(f) : f.rows[m]["id"] = f.rows[n]["id"]}
Repeated(groups) == {g \in groups : Cardinality(g) > 1}
Excess(groups) == Cardinality(UNION groups) - Cardinality(groups)

Duplicates(f) ==
  LET whole == Repeated({SameCells(f, n) : n \in RowsOfTable(f)})
      keyed == IF Present(f, "id") THEN Repeated({SameKey(f, n) : n \in Complete(f)}) ELSE {}
      conflicting == {g \in keyed : Cardinality({f.rows[n] : n \in g}) > 1}
  IN  [available |-> Present(f, "id"),
       incomplete |-> IF Present(f, "id") THEN Len(f.rows) - Cardinality(Complete(f)) ELSE 0,
       groups |-> Cardinality(whole), excess |-> Excess(whole),
       key_groups |-> Cardinality(keyed), key_excess |-> Excess(keyed),
       conflict_groups |-> Cardinality(conflicting),
       conflict_rows |-> Cardinality(UNION conflicting)]

-----------------------------------------------------------------------------
(* _profile_labels without an allowlist: labels are counted, not named.    *)

LabelsOf(f) ==
  IF Present(f, "fault") THEN SelectSeq(Cells(f, "fault"), LAMBDA x : x >= 0) ELSE <<>>

Labels(f) ==
  LET labels == LabelsOf(f)
      counts == [l \in ToSet(labels) |-> Frequency(labels, l)]
      distribution == SortSeq(SetToSeq({<<counts[l], l>> : l \in ToSet(labels)}),
                              LAMBDA a, b : a[1] > b[1])
  IN  [valid |-> Len(labels), distinct |-> Cardinality(ToSet(labels)),
       missing |-> IF Present(f, "fault") THEN Holding(f, "fault", {Missing}) ELSE 0,
       invalid |-> IF Present(f, "fault") THEN Holding(f, "fault", {Improper}) ELSE 0,
       distribution |-> [n \in DOMAIN distribution |-> distribution[n][1]]]

\* _profile_unit_pair, in units in which its factor is one.
Paired(row) == row["right"] = row["left"]
UnitPair(f) ==
  LET comparable == IF Measures \subseteq ToSet(f.columns)
                    THEN {n \in RowsOfTable(f) : \A c \in Measures : f.rows[n][c] \notin {Missing, Infinite}}
                    ELSE {}
      consistent == {n \in comparable : Paired(f.rows[n])}
  IN  [comparable |-> Cardinality(comparable),
       unavailable |-> Len(f.rows) - Cardinality(comparable),
       consistent |-> Cardinality(consistent),
       inconsistent |-> Cardinality(comparable \ consistent)]

\* profile_banner_dataframe.
Profile(f) ==
  [volume |-> Volume(f), temporal |-> Temporal(f),
   columns |-> [c \in Declared |-> Column(f, c)],
   duplicates |-> Duplicates(f), labels |-> Labels(f), pair |-> UnitPair(f)]

-----------------------------------------------------------------------------
(* _build_reconciliations: two counts of the same thing, made apart.       *)

Equal(code, subject, expected, actual) ==
  [code |-> code, subject |-> subject, expected |-> expected, actual |-> actual,
   passed |-> actual = expected]
Within(code, subject, maximum, actual) ==
  [code |-> code, subject |-> subject, expected |-> maximum, actual |-> actual,
   passed |-> 0 <= actual /\ actual <= maximum]

VolumeCounts(v) ==
  {Equal("columns.expected", "none", Len(Catalog), v.present + v.missing),
   Equal("columns.observed", "none", v.observed, v.present + v.unexpected)}

ColumnCounts(p, c) ==
  LET column == p.columns[c]
  IN  (IF column.present
       THEN {Equal("columns.observed_count", c, p.volume.rows, column.observed)} ELSE {})
      \union
      (IF c \notin Measures THEN {}
       ELSE {Equal("numeric.finite", c, p.volume.rows,
                   column.finite + column.missing + column.infinite),
             Within("numeric.outliers", c, column.finite, column.outliers)})

TimeCounts(p) ==
  {Equal("timestamps.values", "created_at", p.volume.rows,
         p.temporal.valid + p.temporal.invalid + p.columns["created_at"].missing),
   Equal("timestamps.intervals", "created_at",
         Max({p.temporal.distinct - 1, 0}), p.temporal.intervals)}

LabelCounts(p) ==
  {Equal("labels.values", "fault", p.volume.rows,
         p.labels.valid + p.labels.missing + p.labels.invalid),
   Equal("labels.histogram", "fault", p.labels.valid, FoldLeft(+, 0, p.labels.distribution)),
   Equal("labels.categories", "fault", p.labels.distinct,
         Len(SelectSeq(p.labels.distribution, LAMBDA n : n > 0)))}

PairCounts(p) ==
  {Equal("pairs.available", "left->right", p.volume.rows, p.pair.comparable + p.pair.unavailable),
   Equal("pairs.consistent", "left->right", p.pair.comparable,
         p.pair.consistent + p.pair.inconsistent)}

DuplicateCounts(p) ==
  LET d == p.duplicates
      keyed == p.volume.rows - d.incomplete
  IN  {Equal("duplicates.key", "id", 1, IF d.available THEN 1 ELSE 0),
       Within("duplicates.excess", "none", p.volume.rows, d.excess),
       Within("duplicates.groups", "none", p.volume.rows, d.groups),
       Within("duplicates.key_excess", "id", keyed, d.key_excess),
       Within("duplicates.key_groups", "id", keyed, d.key_groups),
       Within("duplicates.conflict_groups", "id", d.key_groups, d.conflict_groups),
       Within("duplicates.conflict_rows", "id", keyed, d.conflict_rows)}

Reconciliations(p) ==
  VolumeCounts(p.volume) \union UNION {ColumnCounts(p, c) : c \in Declared}
    \union TimeCounts(p) \union LabelCounts(p) \union PairCounts(p) \union DuplicateCounts(p)

AllReconciled(p) == \A r \in Reconciliations(p) : r.passed

-----------------------------------------------------------------------------
(* _build_gates.                                                           *)

GatesWithoutContract(p, report, expected) ==                 \* mutant
  [contract |-> TRUE,
   dimensions |-> p.volume.rows = expected.rows /\ p.volume.observed = Len(Catalog),
   fault_cardinality |-> p.labels.distinct = expected.labels,
   aggregate_counts |-> AllReconciled(p)]
\* Gates that decide the result; expected are the EXPECTED_ constants.
BlockingGates(p, report, expected) ==
  [contract |-> report = {},
   dimensions |-> /\ p.volume.rows = expected.rows
                  /\ p.volume.observed = Len(Catalog),
   fault_cardinality |-> p.labels.distinct = expected.labels,
   aggregate_counts |-> AllReconciled(p)]

\* Gates that only alert, by their number of findings.
Alerts(p) ==
  [complete_duplicates |-> p.duplicates.excess,
   repeated_ids |-> p.duplicates.key_groups,
   conflicting_ids |-> p.duplicates.conflict_groups,
   irregular_cadence |-> p.temporal.irregular,
   temporal_gaps |-> p.temporal.gaps,
   redundant_pairs |-> p.pair.inconsistent,
   iqr_outliers |-> FoldFunction(+, 0, [c \in Measures |-> p.columns[c].outliers]),
   imbalance |-> IF p.labels.distribution = <<>> THEN 0
                 ELSE Head(p.labels.distribution) - Last(p.labels.distribution)]

Failing(blocking) == {g \in DOMAIN blocking : ~blocking[g]}

\* _build_payload, of a table read under the digest of version v.
Payload(v, f, tool, expected) ==
  LET p == Profile(f)  report == Report(f)
      blocking == BlockingGates(p, report, expected)
  IN  [of |-> v, rounds |-> <<v, v>>, tool |-> tool, report |-> report, profile |-> p,
       reconciliations |-> Reconciliations(p), blocking |-> blocking, alerts |-> Alerts(p),
       passed |-> Failing(blocking) = {}]

-----------------------------------------------------------------------------
(* _validate_payload_semantics.                                            *)

TemporalIsCoherent(t) ==
  IF t.valid = 0
  THEN t.distinct = 0 /\ t.start = NoValue /\ t.end = NoValue /\ t.order = "not_applicable"
  ELSE /\ t.distinct \in 1..t.valid
       /\ IF t.distinct = 1 THEN t.start = t.end ELSE t.start < t.end
       /\ t.valid = 1 => t.order = "not_applicable"
       /\ t.valid > 1 /\ t.distinct = 1 => t.order = "constant"
       /\ t.distinct > 1 => t.order \notin {"not_applicable", "constant"}

PayloadIsValid(payload, expected) ==
  /\ payload.rounds = <<payload.of, payload.of>>
  /\ \A finding \in payload.report : finding.column \in Declared \union {"none"}
  /\ DOMAIN payload.profile.columns = Declared
  /\ TemporalIsCoherent(payload.profile.temporal)
  /\ \A n \in DOMAIN payload.profile.labels.distribution :
       payload.profile.labels.distribution[n] > 0
  /\ payload.reconciliations = Reconciliations(payload.profile)
  /\ payload.blocking = BlockingGates(payload.profile, payload.report, expected)
  /\ payload.alerts = Alerts(payload.profile)
  /\ payload.passed = (Failing(payload.blocking) = {})

\* _validate_approved_baseline_payload, against the manifest's version.
ApprovedPayload(payload, v, expected) ==
  PayloadIsValid(payload, expected) /\ payload.of = v /\ payload.passed

=============================================================================
