--------------------------- MODULE CanonicalDataset ---------------------------
(***************************************************************************)
(* The build of the canonical dataset (data/canonical.py): every record of *)
(* the source gets one disposition and one destination, the gap that cuts  *)
(* occurrences is refitted on the train records it selects until it is the *)
(* gap they were selected with, and the gates decide whether the dataset   *)
(* may be published.                                                       *)
(*                                                                         *)
(* A record is [time, id, value, paired, label]: value is the one feature  *)
(* kept, paired says whether the unit relation holds for the row.          *)
(***************************************************************************)
EXTENDS TemporalPartitions

CONSTANT Origins   \* possible sources of the builds, by version

VARIABLES source,     \* the audited source each build reads
          build       \* where each build stands

ASSUME OriginAssumption ==
  \A o \in Origins : \A v \in DOMAIN o :
    o[v] \in Seq([time : Nat, id : Int, value : Int, paired : BOOLEAN, label : Nat])

IterationLimit == 64   \* _MAX_TEMPORAL_FIT_ITERATIONS
NoData == "none"
Times(s) == [i \in DOMAIN s |-> s[i].time]
UnknownLabel == 0      \* a raw label the label map does not know

-----------------------------------------------------------------------------
(* Quality rules.                                                          *)

SameRowAndTarget(a, b) == a = b                             \* mutant
\* target_independent_row_hash: every column but the target.
SameRow(a, b) == [a EXCEPT !.label = b.label] = b

Twins(s, i) == {j \in DOMAIN s : s[j].id = s[i].id}
Conflicts(s, group) == \E j, k \in group : ~SameRow(s[j], s[k])
Conflicting(s, i) == Conflicts(s, Twins(s, i))
Eligible(s) ==
  DOMAIN s \ UNION {group \in {Twins(s, i) : i \in DOMAIN s} : Conflicts(s, group)}

\* _fit_iqr_fences with the policy's 0.25, 0.75 and 1.5, in 40ths.
FencesOf(s, rows) ==
  LET values == Increasing([n \in DOMAIN rows |-> s[rows[n]].value], DOMAIN rows)
      q1 == Quantile(values, 5)
      q3 == Quantile(values, 15)
  IN  [lower |-> 2 * q1 - 3 * (q3 - q1), upper |-> 2 * q3 + 3 * (q3 - q1)]

Outlying(s, i, fences) ==
  2 * Parts * s[i].value < fences.lower \/ 2 * Parts * s[i].value > fences.upper

\* _resolve_disposition: the first action of disposition_precedence whose rule
\* the record matched.
Precedence == <<"rejected", "corrected", "mapped", "flagged", "kept">>
Disposition(s, d, i) ==
  LET matched == [rejected |-> Conflicting(s, i), corrected |-> ~s[i].paired,
                  mapped |-> Twins(s, i) # {i} /\ ~Conflicting(s, i),
                  flagged |-> i \in Eligible(s) /\ Outlying(s, i, d.fences), kept |-> TRUE]
  IN  Precedence[Min({n \in DOMAIN Precedence : matched[Precedence[n]]})]

\* _build_artifact_frames: "rejected", the partition, or "purge".
Destination(s, d, i) ==
  IF Conflicting(s, i) THEN "rejected"
  ELSE d.split[CHOOSE n \in DOMAIN d.occurrences : i \in d.occurrences[n]]

RowsIn(d, partition) == d.rows[partition]
TimesIn(s, d, partition) == {s[i].time : i \in ToSet(RowsIn(d, partition))}

-----------------------------------------------------------------------------
(* Gates.                                                                  *)

TemporalOrder(s, d) ==
  /\ Max(TimesIn(s, d, "train")) < Min(TimesIn(s, d, "validation"))
  /\ Max(TimesIn(s, d, "validation")) < Min(TimesIn(s, d, "test"))

PurgeGap(s, d) ==
  /\ Parts * (Min(TimesIn(s, d, "validation")) - Max(TimesIn(s, d, "train"))) >= d.gap
  /\ Parts * (Min(TimesIn(s, d, "test")) - Max(TimesIn(s, d, "validation"))) >= d.gap

\* fit.statistics_train_only: the records of the fit, in order, are the train
\* records in the order of their timestamp texts.
StatisticsTrainOnly(s, d, fit) ==
  fit = [gap |-> d.gap, rows |-> InTextOrder(Times(s), ToSet(RowsIn(d, "train")))]

\* _calculate_leakage_gates.  The gates on the coverage of the ledger hold by
\* the form of the data here: a row has one destination.
Gates(s, d, fit) ==
  /\ \A p \in {"train", "validation", "test"} : RowsIn(d, p) # <<>>
  /\ TemporalOrder(s, d)
  /\ PurgeGap(s, d)
  /\ StatisticsTrainOnly(s, d, fit)

-----------------------------------------------------------------------------
(* The build.                                                              *)

Build0(phase) == [phase |-> phase, gap |-> -Parts, seen |-> {}, data |-> NoData]

BuildStarts(o, phase) ==
  /\ source = o
  /\ build = [v \in DOMAIN o |-> Build0(phase)]

Refuse(v, reason) ==
  build' = [build EXCEPT ![v] = [phase |-> reason, gap |-> 0, seen |-> {}, data |-> NoData]]

\* _fit_final_train_temporal_partitions: what one turn of its loop makes of a
\* source with the gap it has.
Cut(s, gap) == Occurrences(Times(s), InOrder(Times(s), Eligible(s)), gap)
Turn(s, gap) ==
  LET occurrences == Cut(s, gap)
      split == Split(Times(s), occurrences, gap)
      fit == RowsOf(Times(s), occurrences, split, "train")
  IN  [occurrences |-> occurrences, split |-> split, fit |-> fit, gap |-> GapOf(Times(s), fit)]

SettledAtOnce(v, turn) == TRUE                               \* mutant
Settled(v, turn) == turn.gap = build[v].gap

Seen(v, turn) == <<turn.gap, turn.fit>> \in build[v].seen

RefuseSource(v, turn) ==
  /\ turn.split = NoSplit
  /\ Refuse(v, "not_partitioned")

Refit(v, turn) ==
  /\ turn.split # NoSplit
  /\ ~Settled(v, turn)
  /\ IF Seen(v, turn) \/ Cardinality(build[v].seen) = IterationLimit - 1
     THEN Refuse(v, "not_converged")
     ELSE build' = [build EXCEPT ![v].gap = turn.gap,
                                 ![v].seen = @ \union {<<turn.gap, turn.fit>>}]

FittingOnAll(s, turn) ==                                     \* mutant
  [occurrences |-> turn.occurrences, split |-> turn.split, fit |-> turn.fit, gap |-> turn.gap,
   fences |-> FencesOf(s, InOrder(Times(s), Eligible(s))),
   rows |-> [p \in {"train", "validation", "test"} |->
               RowsOf(Times(s), turn.occurrences, turn.split, p)]]

\* What the build makes of the last turn: the rows of each partition, and the
\* fences, which are fitted on the train rows.
Fitting(s, turn) ==
  [occurrences |-> turn.occurrences, split |-> turn.split, fit |-> turn.fit, gap |-> turn.gap,
   fences |-> FencesOf(s, turn.fit),
   rows |-> [p \in {"train", "validation", "test"} |->
               RowsOf(Times(s), turn.occurrences, turn.split, p)]]

Settle(v, turn) ==
  /\ turn.split # NoSplit
  /\ Settled(v, turn)
  /\ build' = [build EXCEPT ![v] = [phase |-> "fitted", gap |-> turn.gap, seen |-> {},
                                    data |-> Fitting(source[v], turn)]]

Fit(v) ==
  /\ build[v].phase = "fitting"
  /\ LET turn == Turn(source[v], build[v].gap)
     IN  RefuseSource(v, turn) \/ Refit(v, turn) \/ Settle(v, turn)
  /\ UNCHANGED source

\* _map_targets_after_partition.
Unlabelled(v) == \E i \in DOMAIN source[v] : source[v][i].label = UnknownLabel

\* The targets, the gates, and the directory ready to be staged.
PassGates(v) ==
  /\ build[v].phase = "fitted"
  /\ LET d == build[v].data
     IN  build' = [build EXCEPT ![v].phase =
           IF Unlabelled(v) THEN "unlabelled"
           ELSE IF Gates(source[v], d, [gap |-> d.gap, rows |-> d.fit]) THEN "built"
           ELSE "leaking"]
  /\ UNCHANGED source

BuildStep(v) == Fit(v) \/ PassGates(v)

=============================================================================
