--------------------------- MODULE AnalysisPipeline ---------------------------
(***************************************************************************)
(* From banner.csv to an answered analysis: the file is audited and loaded *)
(* (SourceAudit), the dataset is built (CanonicalDataset), published and   *)
(* turned into a model and an index (ArtifactChain), and a runtime or an   *)
(* evaluation that found one whole chain answers with it                   *)
(* (NeighborDecision).                                                     *)
(***************************************************************************)
EXTENDS SourceAudit, CanonicalCheck, ArtifactChain, NeighborDecision

CONSTANTS Deployed,   \* origins whose datasets are published and trained on
          Served,     \* those whose directories stay and whose readers are asked
          Queries,    \* feature values of requests
          TopKs

VARIABLE answer       \* the last answer of the reader

pipelineVars == <<auditVars, source, build, chainVars, answer>>

ASSUME PipelineAssumption ==
  /\ Served \subseteq Deployed /\ Deployed \subseteq Origins
  /\ \A o \in Origins : DOMAIN o = Versions
  /\ \A a \in Audits : DOMAIN a.table = Versions
  /\ \A o \in Served : \A v \in Versions : DOMAIN o[v] \subseteq DOMAIN RefOrder
  /\ Queries \subseteq Int /\ TopKs \subseteq Nat \ {0}

NoAnswer == [kind |-> "none"]

\* The model of a version.
ModelOf(v) ==
  LET s == source[v]
      train == RowsIn(build[v].data, "train")
      validation == RowsIn(build[v].data, "validation")
  IN  Fitted([n \in DOMAIN train |-> s[train[n]].value],
             [n \in DOMAIN train |-> s[train[n]].label],
             [n \in DOMAIN validation |-> s[validation[n]].value])

\* A behaviour begins with the audits of a file, or where they are over.
NoSource == [v \in Versions |-> <<>>]
Init ==
  /\ \/ \E o \in Origins : BuildStarts(o, "fitting") /\ AuditStarts(NoAudit)
     \/ \E a \in Audits : BuildStarts(NoSource, "waiting") /\ AuditStarts(a)
  /\ ChainInit /\ answer = NoAnswer
  /\ source \notin Deployed => reader = CHOOSE r \in Readers : TRUE

Audit == AuditStep /\ UNCHANGED <<source, build, chainVars, answer>>

\* The records of a table, with the labels of the map.
RecordsOf(f, labels) ==
  [n \in DOMAIN f.rows |->
     [time |-> f.rows[n]["created_at"], id |-> f.rows[n]["id"], value |-> f.rows[n]["left"],
      paired |-> Paired(f.rows[n]),
      label |-> IF f.rows[n]["fault"] \in labels THEN LabelOf(f.rows[n]["fault"]) ELSE UnknownLabel]]

Load(v) ==
  /\ LoadTable(v)
  /\ source' = [source EXCEPT ![v] =
       RecordsOf(TableOf(runner["build"].rounds[1].read), KnownLabels(v))]
  /\ build' = [build EXCEPT ![v] = Build0("fitting")]
  /\ UNCHANGED <<chainVars, answer>>

Build(v) == BuildStep(v) /\ UNCHANGED <<auditVars, chainVars, answer>>

\* A dataset, or the model trained on it, is written once it is built.
Publish(k, v) ==
  /\ source \in Deployed
  /\ build[v].phase = "built"
  /\ Stage(k, v)
  /\ UNCHANGED <<auditVars, source, build, answer>>

Chain ==
  /\ source \in Deployed
  /\ \/ ReaderStep
     \/ \E v \in Versions : IndexStep(v) \/ \E k \in Kinds : WriterStep(k, v)
     \/ source \notin Served /\ \E k \in Kinds : OperatorStep(k)
  /\ UNCHANGED <<auditVars, source, build, answer>>

Asked == source \in Served /\ At("ready") /\ answer = NoAnswer

\* An analysis of the runtime, which has started with a well formed index.
Analyze(query, k) ==
  /\ Asked /\ Runtime
  /\ WellFiled(Indexed(ModelOf(reader.held.index)))
  /\ answer' = [kind |-> "analysis", query |-> query, top_k |-> k,
                outcome |-> Checked(ModelOf(reader.held.model), query, k)]
  /\ UNCHANGED <<auditVars, source, build, chainVars>>

\* What the evaluation reports of one row of the test partition: a ranking
\* the model does not take, or fewer train rows than neighbours, ends it with
\* an exception.
Evaluated(model, query, ranking) ==
  /\ IsRanking(model, query, ranking)
  /\ answer' = [kind |-> "evaluation", query |-> query, top_k |-> DefaultTopK, ranking |-> ranking,
                parity |-> ParityHolds(model, query, RowOutcome(model, query, ranking))]

Evaluate(row) ==
  LET v == reader.held.dataset
      model == ModelOf(v)
      query == source[v][row].value
  IN  /\ Asked /\ ~Runtime
      /\ row \in ToSet(RowsIn(build[v].data, "test"))
      /\ Len(model.vectors) >= DefaultTopK
      /\ \E batch \in Batches(model, query) :
           Evaluated(model, query, BatchRanking(model, query, batch, DefaultTopK))
      /\ UNCHANGED <<auditVars, source, build, chainVars>>

Rows == UNION {DOMAIN source[v] : v \in Versions}

Next ==
  \/ Audit
  \/ \E v \in Versions : Load(v) \/ Build(v) \/ \E k \in Kinds : Publish(k, v)
  \/ Chain
  \/ \E query \in Queries, k \in TopKs : Analyze(query, k)
  \/ \E row \in Rows : Evaluate(row)

Spec == Init /\ [][Next]_pipelineVars

-----------------------------------------------------------------------------

\* A source whose baseline and inventory are published is refused for its
\* content only where labels were approved as equivalent, which the label map
\* of the dataset does not take, where the manifest came to approve another
\* source, or where the file was edited and restored while it was parsed.  The
\* inventory of such a source only waits for the approvals of its groups: it
\* counts rows and labels as the baseline did, and no two normalized labels
\* have one slug.  No baseline is withheld because it does not validate.
RefusedForContent == {"contract_failed", "empty", "parsing_failed"}
AuditedSourceIsTaken ==
  LET Misread == LET r == Last(runner["build"].rounds)
                 IN  r.read # r.digest \/ r.digest # runner["build"].identity
  IN  /\ \A reason \in RefusedForContent : Runs("build", reason) => Misread
      /\ \A v \in Versions : build[v].phase = "unlabelled" => Misread
      /\ \A reason \in {"row_count_mismatch", "label_count_mismatch", "slug_collision",
                        "serialization_failed"} : ~Runs("inventory", reason)
      /\ \A p \in Baseliners : ~Runs(p, "sanitization_failed")

\* Verdicts are about the moment a build reaches them.
Reaches(v, phase) == build[v].phase # phase /\ build'[v].phase = phase

\* The purge keeps partitions apart well enough for every temporal gate: a
\* dataset whose fit settled is refused by the gates only if two of its train
\* records lie within a microsecond, where the text order of timestamps is
\* not the order of time.  One that passes is the fit of exactly the train
\* records it selects: cutting the occurrences again with its gap, dividing
\* them and fitting them again changes nothing.
TextsOutOfOrder(s, d) ==
  LET train == RowsIn(d, "train")
  IN  \E m, n \in DOMAIN train : m < n /\ EarlierAsText(Times(s), train[n], train[m])
FitIsItsOwn(s, d) ==
  LET again == Cut(s, d.gap)
  IN  /\ again = d.occurrences
      /\ Split(Times(s), again, d.gap) = d.split
      /\ GapOf(Times(s), RowsOf(Times(s), again, d.split, "train")) = d.gap
GatesJudgeTheFit ==
  [][\A v \in Versions :
       /\ Reaches(v, "leaking") => TextsOutOfOrder(source[v], build[v].data)
       /\ Reaches(v, "built") => FitIsItsOwn(source[v], build[v].data)]_pipelineVars

\* The offline check accepts whatever is built: it comes to the same gap,
\* fences and counts from the files alone.
CheckAcceptsWhatIsBuilt ==
  [][\A v \in Versions :
       Reaches(v, "built") => CheckAccepts(source[v], build[v].data)]_pipelineVars

\* Labels decide nothing before the partitions exist: of two sources that
\* differ in labels only none is refused where the other is published, and
\* every record has the same disposition and destination in both.
Refusals == {"not_partitioned", "not_converged", "leaking"}
SameButLabels(s, r) ==
  DOMAIN s = DOMAIN r /\ \A i \in DOMAIN s : [s[i] EXCEPT !.label = r[i].label] = r[i]

TargetsDoNotDecide ==
  [][\A v, w \in Versions :
       /\ Reaches(v, "built") \/ (build'[v].phase = "built" /\ build[w].phase # build'[w].phase)
       /\ SameButLabels(source[v], source[w])
       => /\ build'[w].phase \notin Refusals
          /\ build'[w].phase = "built" =>
               \A i \in DOMAIN source[v] :
                 LET d == build'[v].data  e == build'[w].data
                 IN  /\ Destination(source[v], d, i) = Destination(source[w], e, i)
                     /\ Disposition(source[v], d, i) = Disposition(source[w], e, i)]_pipelineVars

\* A runtime answers an analysis as unavailable only if an operating state is
\* among the neighbours shown, whose code the index does not project, or if
\* float32 really changes the ranking or a distance.
RankingsDisagreeOnlyByRounding ==
  answer.kind = "analysis" /\ answer.outcome = "unavailable" =>
    LET model == ModelOf(reader.held.model)
    IN  \/ OperatingNeighbor(model, answer.query, answer.top_k)
        \/ RoundingMatters(model, answer.query, answer.top_k)

\* The evaluation ranks every holdout row as the model it evaluates would:
\* the guard repairs whatever the batched distances confuse at the boundary,
\* and the parity audit never ends it.
EvaluationRanksLikeTheModel ==
  answer.kind = "evaluation" =>
    /\ answer.ranking = Nearest(ModelOf(reader.held.model), answer.query, answer.top_k)
    /\ answer.parity

\* Three rankings of the same neighbours, in float64 one by one, in float64 by
\* batches and in float32 by the index, agree wherever they can.
RankingsAgree == RankingsDisagreeOnlyByRounding /\ EvaluationRanksLikeTheModel

=============================================================================
