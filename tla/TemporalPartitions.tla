-------------------------- MODULE TemporalPartitions --------------------------
(***************************************************************************)
(* How data/canonical.py cuts a stream of measurements into occurrences    *)
(* and divides those, whole and in time, into train, validation and test.  *)
(*                                                                         *)
(* A source is a sequence of records; a row is a position of it, known     *)
(* here by its time only.  Time runs in half microseconds, thresholds are  *)
(* exact in 20ths of a tick, so that the 0.95 and 0.5 quantiles of the     *)
(* code are integers.                                                      *)
(***************************************************************************)
EXTENDS Integers, FiniteSets, SequencesExt

CONSTANT DurationLimit   \* duration_limit_seconds, in ticks

ASSUME DurationAssumption == DurationLimit \in Nat \ {0}

Parts == 20
\* train_ratio, train_ratio + validation_ratio and gap_quantile, in 20ths;
\* gap_multiplier.
TrainShare == 14
TrainAndValidationShare == 17
GapQuantile == 19
GapMultiplier == 5

\* The members of a finite set in a strict order of all of them, given as the
\* set of its pairs: each is as many places on as members come before it.
Sorted(before, members) ==
  [n \in 1..Cardinality(members) |->
     CHOOSE m \in members : Cardinality({k \in members : <<k, m>> \in before}) = n - 1]

\* _record_order_key: by key, the exact instant, then by position in the source.
Ascending(key) ==
  {p \in (DOMAIN key) \X (DOMAIN key) :
     key[p[1]] < key[p[2]] \/ (key[p[1]] = key[p[2]] /\ p[1] < p[2])}
InOrder(key, rows) == Sorted(Ascending(key), rows)

\* canonical_text writes six digits of fraction, more if they are needed, and
\* then Z, which sorts after a digit: of two instants within a microsecond
\* the one that needs a further digit comes first as text.
TextRank(t) == IF t % 2 = 0 THEN t + 1 ELSE t - 1
Texts(times) == [i \in DOMAIN times |-> TextRank(times[i])]
EarlierAsText(times, i, j) == <<i, j>> \in Ascending(Texts(times))
InTextOrder(times, rows) == InOrder(Texts(times), rows)

\* _linear_decimal_quantile of a sorted sequence, in 20ths of its unit.
Quantile(sorted, p) ==
  LET position == (Len(sorted) - 1) * p
      lower == position \div Parts + 1
      upper == Min({lower + 1, Len(sorted)})
  IN  Parts * sorted[lower] + (sorted[upper] - sorted[lower]) * (position % Parts)

\* What a sequence has at some places, from the smallest.
Increasing(seq, places) ==
  LET order == InOrder(seq, places) IN [n \in DOMAIN order |-> seq[order[n]]]

\* Positive distances between successive rows of a sequence of them, sorted.
PositiveDeltas(times, rows) ==
  LET deltas == [n \in 1..Len(rows) - 1 |-> times[rows[n + 1]] - times[rows[n]]]
  IN  Increasing(deltas, {n \in DOMAIN deltas : deltas[n] > 0})

\* _fit_occurrence_gap_threshold and _fit_gap_from_canonical.
GapOf(times, rows) ==
  LET deltas == PositiveDeltas(times, rows)
  IN  IF deltas = <<>> THEN 0
      ELSE Max({GapMultiplier * Quantile(deltas, Parts \div 2), Quantile(deltas, GapQuantile)})

-----------------------------------------------------------------------------

\* row does not continue the occurrence of the rows from first to last.
Breaks(times, first, last, row, gap) ==
  \/ times[row] - times[first] >= DurationLimit
  \/ Parts * (times[row] - times[last]) > gap

\* _group_occurrences goes through the rows in order: places in them at which
\* an occurrence starts.
Heads(times, rows, gap) ==
  LET start[n \in DOMAIN rows] ==
        IF n = 1 THEN 1
        ELSE LET current == start[n - 1]
             IN  IF Breaks(times, rows[current], rows[n - 1], rows[n], gap) THEN n ELSE current
  IN  {n \in DOMAIN rows : start[n] = n}

\* The occurrences, each the set of its rows.
Occurrences(times, rows, gap) ==
  LET heads == Heads(times, rows, gap)
      Ordinal(n) == Cardinality({h \in heads : h <= n})
  IN  [k \in 1..Cardinality(heads) |-> {rows[n] : n \in {m \in DOMAIN rows : Ordinal(m) = k}}]

StartOf(times, occurrence) == Min({times[i] : i \in occurrence})
EndOf(times, occurrence) == Max({times[i] : i \in occurrence})

\* Rows of the first b occurrences.
Cumulative(occ, b) == Cardinality(UNION {occ[n] : n \in 1..b})

\* _nearest_boundary: the earliest of the closest.
NearestBoundary(occ, share, first, last) ==
  LET aim == share * Cumulative(occ, Len(occ))
      miss == [b \in first..last |->
                 LET d == Parts * Cumulative(occ, b) - aim IN IF d < 0 THEN -d ELSE d]
  IN  InOrder(miss, first..last)[1]

\* _purge_tail_before: from its end a partition loses occurrences until one is
\* far enough, and strictly, before the next partition.
Clear(delta, gap) == delta > 0 /\ Parts * delta >= gap
Purged(times, occ, n, end, gap) ==
  \A q \in n..end : ~Clear(StartOf(times, occ[end + 1]) - EndOf(times, occ[q]), gap)

\* _assign_temporal_partitions, with the partition of each occurrence, or
\* "purge"; NoSplit where it raises.
NoSplit == <<>>
Split(times, occ, gap) ==
  IF Len(occ) < 3 THEN NoSplit
  ELSE LET first == NearestBoundary(occ, TrainShare, 1, Len(occ) - 2)
           second == NearestBoundary(occ, TrainAndValidationShare, first + 1, Len(occ) - 1)
           least == Max({gap, 0})
           split == [n \in DOMAIN occ |->
                       CASE n > second -> "test"
                         [] n > first /\ n <= second ->
                              IF Purged(times, occ, n, second, least) THEN "purge" ELSE "validation"
                         [] OTHER -> IF Purged(times, occ, n, first, least) THEN "purge" ELSE "train"]
       IN  IF {"train", "validation"} \subseteq ToSet(split) THEN split ELSE NoSplit

\* Rows of one partition, in the order of the records.
RowsOf(times, occ, split, partition) ==
  InOrder(times, UNION {occ[n] : n \in {m \in DOMAIN split : split[m] = partition}})

=============================================================================
