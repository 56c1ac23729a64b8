--------------------------- MODULE NeighborDecision ---------------------------
(***************************************************************************)
(* What the three consumers of one trained k-NN model compute: the model   *)
(* itself (modeling/knn.py), the similarity index made from it             *)
(* (modeling/similarity_index.py) and the batched evaluation               *)
(* (modeling/evaluation.py).                                               *)
(*                                                                         *)
(* One feature with integer values stands for the standardized vectors; a  *)
(* label is its place in the sorted label table; a row of the train        *)
(* partition is its position there.  A share of votes is counted in        *)
(* ShareUnit, distances in units in which float64 is exact, float32 has    *)
(* only the multiples of Grid and the batched product of the evaluation is *)
(* wrong by at most Slip.  Rows are put in order with Sorted and InOrder   *)
(* of TemporalPartitions.                                                  *)
(***************************************************************************)
EXTENDS TemporalPartitions

CONSTANTS RefOrder,     \* place of each row's opaque reference among all, a hash
          Operating,    \* labels that name an operating state
          DefaultTopK,  \* default_top_k, and MODEL_EVALUATION_TOP_K
          Grid, Tolerance, Slip

ASSUME DecisionAssumption ==
  /\ DefaultTopK \in 1..5
  /\ Grid \in Nat \ {0} /\ Tolerance \in Nat /\ Slip \in Nat
  /\ RefOrder \in Seq(Nat)
  /\ \A m, n \in DOMAIN RefOrder : RefOrder[m] = RefOrder[n] => m = n

ShareUnit == 120         \* a multiple of every number of voters
MinimumClassCount == 2   \* KNN_MINIMUM_CLASS_COUNT

Distance(a, b) == IF a < b THEN b - a ELSE a - b
FirstOf(seq, k) == [n \in 1..Min({k, Len(seq)}) |-> seq[n]]

-----------------------------------------------------------------------------
(* Exact ranking and vote of the model.                                    *)

\* Rows by distance, equal distances by reference (np.lexsort).
Nearer(rows, distance) ==
  {p \in rows \X rows : \/ distance[p[1]] < distance[p[2]]
                        \/ distance[p[1]] = distance[p[2]] /\ RefOrder[p[1]] < RefOrder[p[2]]}
ByDistance(rows, distance) == Sorted(Nearer(rows, distance), rows)

AllRows(model) == DOMAIN model.vectors
DistancesTo(model, query) == [n \in AllRows(model) |-> Distance(model.vectors[n], query)]

\* _nearest_neighbors.
Nearest(model, query, k) == FirstOf(ByDistance(AllRows(model), DistancesTo(model, query)), k)

Votes(model, near, label) == Cardinality({n \in DOMAIN near : model.labels[near[n]] = label})

VoteDistance(model, query, near, label) ==
  MapThenSumSet(LAMBDA n : Distance(model.vectors[near[n]], query),
                {n \in DOMAIN near : model.labels[near[n]] = label})

\* _select_candidate: most votes, then the smaller sum of distances, then the
\* smaller label.
Candidate(model, query, near) ==
  LET Key(label) == <<-Votes(model, near, label), VoteDistance(model, query, near, label), label>>
      Before(a, b) == \E i \in 1..3 : a[i] < b[i] /\ \A j \in 1..i - 1 : a[j] = b[j]
      voted == {model.labels[near[n]] : n \in DOMAIN near}
  IN  CHOOSE label \in voted : \A other \in voted \ {label} : Before(Key(label), Key(other))

VoteMargin(model, near, winner) ==
  LET others == {model.labels[near[n]] : n \in DOMAIN near} \ {winner}
      runnerUp == Max({0} \union {Votes(model, near, label) : label \in others})
  IN  (ShareUnit * (Votes(model, near, winner) - runnerUp)) \div Len(near)

\* _fit_abstention_policy on the validation values: the 0.95 quantile of the
\* distances, rounded up, and the 0.10 quantile of the margins, rounded down
\* and below one.
Threshold(vectors, labels, calibration) ==
  LET model == [vectors |-> vectors, labels |-> labels]
      near == [n \in DOMAIN calibration |-> Nearest(model, calibration[n], DefaultTopK)]
      distances == SortSeq([n \in DOMAIN near |->
                              Distance(vectors[near[n][1]], calibration[n])], <)
      margins == SortSeq([n \in DOMAIN near |->
                            VoteMargin(model, near[n],
                                       Candidate(model, calibration[n], near[n]))], <)
      last == Len(calibration) - 1
  IN  [distance |-> distances[(19 * last + 19) \div 20 + 1],
       margin |-> Min({margins[last \div 10 + 1], ShareUnit - 1})]

\* fit_knn_model.
Fitted(vectors, labels, calibration) ==
  [vectors |-> vectors, labels |-> labels,
   threshold |-> Threshold(vectors, labels, calibration)]

ClassCount(model, label) == Cardinality({n \in DOMAIN model.labels : model.labels[n] = label})

\* _abstention_reason, in the order of its tests.
AbstentionReason(model, query, near) ==
  LET winner == Candidate(model, query, near)
  IN  IF Distance(model.vectors[near[1]], query) > model.threshold.distance
      THEN "distance"
      ELSE IF ClassCount(model, winner) < MinimumClassCount THEN "rare"
      ELSE IF VoteMargin(model, near, winner) <= model.threshold.margin THEN "inconclusive"
      ELSE "none"

\* _public_condition_code.
ConditionCode(label) == <<IF label \in Operating THEN "operating_state" ELSE "fault", label>>

\* _candidate_from_neighbors: decided by the first default_top_k neighbours,
\* shown with the first k.
CandidateFrom(model, query, near, k) ==
  LET decisive == FirstOf(near, DefaultTopK)
  IN  [target |-> Candidate(model, query, decisive),
       reason |-> AbstentionReason(model, query, decisive),
       neighbors |-> FirstOf(near, k)]

\* InMemoryKnnModel.predict_candidate.
PredictCandidate(model, query, k) ==
  CandidateFrom(model, query, Nearest(model, query, Max({DefaultTopK, k})), k)

\* KnnModelPortAdapter.predict.
Prediction(model, query, k) ==
  LET c == PredictCandidate(model, query, k)
  IN  [disposition |-> IF c.reason # "none" THEN "out_of_distribution"
                       ELSE IF c.target \in Operating THEN "normal" ELSE "fault",
       reason |-> c.reason,
       neighbors |-> [n \in DOMAIN c.neighbors |->
                        [ref |-> RefOrder[c.neighbors[n]],
                         code |-> ConditionCode(model.labels[c.neighbors[n]]),
                         distance |-> Distance(model.vectors[c.neighbors[n]], query)]]]

-----------------------------------------------------------------------------
(* The similarity index.                                                   *)

Single(x) == Grid * ((x + Grid \div 2) \div Grid)

\* save_similarity_index_from_knn_artifact: records and vectors by reference,
\* every record with the fault code of its label.
Filed(model) == InOrder(RefOrder, AllRows(model))

Indexed(model) ==
  LET filed == Filed(model)
  IN  [r \in DOMAIN filed |->
         [ref |-> RefOrder[filed[r]], code |-> <<"fault", model.labels[filed[r]]>>,
          vector |-> Single(model.vectors[filed[r]])]]

\* LoadedSimilarityIndex refuses records that are not filed by reference.
WellFiled(index) == \A r \in 2..Len(index) : index[r - 1].ref < index[r].ref

\* InMemorySimilarityIndexAdapter.query.
IndexQuery(index, query, k) ==
  LET distance == [r \in DOMAIN index |-> Distance(index[r].vector, Single(query))]
      before == {p \in (DOMAIN index) \X (DOMAIN index) :
                   \/ distance[p[1]] < distance[p[2]]
                   \/ distance[p[1]] = distance[p[2]] /\ index[p[1]].ref < index[p[2]].ref}
      found == FirstOf(Sorted(before, DOMAIN index), k)
  IN  [n \in DOMAIN found |->
         [ref |-> index[found[n]].ref, code |-> index[found[n]].code,
          distance |-> distance[found[n]]]]

\* _rankings_match.
RankingsMatch(ours, theirs) ==
  /\ DOMAIN ours = DOMAIN theirs
  /\ \A n \in DOMAIN ours :
       /\ ours[n].ref = theirs[n].ref
       /\ ours[n].code = theirs[n].code
       /\ Distance(ours[n].distance, theirs[n].distance) <= Tolerance

\* SimilarityCheckedModelPort.predict.
Checked(model, query, k) ==
  LET prediction == Prediction(model, query, k)
  IN  IF RankingsMatch(prediction.neighbors, IndexQuery(Indexed(model), query, k))
      THEN prediction.disposition
      ELSE "unavailable"

\* float32 moves a distance of the answer by more than the tolerance, or
\* changes which of two rows comes first.
SinglesTo(model, query) ==
  [n \in AllRows(model) |-> Distance(Single(model.vectors[n]), Single(query))]
RoundingMatters(model, query, k) ==
  LET exact == DistancesTo(model, query)
      rounded == SinglesTo(model, query)
  IN  \E m \in ToSet(Nearest(model, query, k)) :
        \/ Distance(exact[m], rounded[m]) > Tolerance
        \/ \E n \in AllRows(model) :
             (<<m, n>> \in Nearer(AllRows(model), exact)) # (<<m, n>> \in Nearer(AllRows(model), rounded))

OperatingNeighbor(model, query, k) ==
  \E n \in ToSet(Nearest(model, query, k)) : model.labels[n] \in Operating

-----------------------------------------------------------------------------
(* The batched evaluation.                                                 *)

Unguarded(boundary) == boundary                             \* mutant
Guarded(boundary) == boundary + 2 * Slip

\* _exact_ranked_neighbors for one row, given the distances of the batch.
BatchRanking(model, query, batch, k) ==
  LET boundary == Increasing(batch, AllRows(model))[k]
      repaired == {n \in AllRows(model) : batch[n] <= Guarded(boundary)}
  IN  FirstOf(ByDistance(repaired, DistancesTo(model, query)), k)

\* pairwise_distances_chunked.
Batches(model, query) ==
  {[n \in AllRows(model) |-> Max({0, DistancesTo(model, query)[n] + error[n]})] :
     error \in [AllRows(model) -> {-Slip, Slip}]}

\* candidate_from_ranked_neighbors takes default_top_k different rows, in the
\* order of distance and reference.
IsRanking(model, query, ranking) ==
  /\ Len(ranking) = DefaultTopK
  /\ Cardinality(ToSet(ranking)) = Len(ranking)
  /\ ranking = ByDistance(ToSet(ranking), DistancesTo(model, query))

\* A row of _evaluate_rows.
RowOutcome(model, query, ranking) == CandidateFrom(model, query, ranking, DefaultTopK)

\* _audit_batch_parity, of one row: candidate, reason and the neighbours'
\* targets are those of the model.
ParityHolds(model, query, outcome) ==
  LET direct == PredictCandidate(model, query, DefaultTopK)
      targets(candidate) == [n \in DOMAIN candidate.neighbors |-> model.labels[candidate.neighbors[n]]]
  IN  /\ direct.target = outcome.target /\ direct.reason = outcome.reason
      /\ targets(direct) = targets(outcome)

=============================================================================
