---------------------------- MODULE CanonicalCheck ----------------------------
(***************************************************************************)
(* What a finished build publishes, and check_canonical_dataset, which     *)
(* judges the files alone: the ledger of dispositions, the canonical rows, *)
(* one file per partition and the manifest.  It recomputes from the rows   *)
(* what the build computed from the source.  The hash of a file is its     *)
(* content, a record is named by its position in the source.               *)
(***************************************************************************)
EXTENDS CanonicalDataset

Partition == <<"train", "validation", "test">>
DispositionNames == {"kept", "corrected", "mapped", "flagged", "rejected"}
DestinationNames == ToSet(Partition) \union {"purge", "rejected"}

Distinct(seq) == FoldLeft(LAMBDA found, e : IF e \in ToSet(found) THEN found ELSE Append(found, e),
                          <<>>, seq)
HowMany(rows, Test(_)) == Len(SelectSeq(rows, Test))

-----------------------------------------------------------------------------
(* The files.                                                              *)

OccurrenceOf(d, i) == CHOOSE n \in DOMAIN d.occurrences : i \in d.occurrences[n]

CanonicalRow(s, d, i) ==
  LET n == OccurrenceOf(d, i)
      purged == d.split[n] = "purge"
  IN  [record |-> i, time |-> s[i].time, value |-> s[i].value, y |-> s[i].label,
       occurrence |-> n,
       partition |-> IF purged THEN NoData ELSE d.split[n],
       exclusion |-> IF purged THEN "purge" ELSE NoData]

\* The rows of one partition file: features and target, nothing else.
Projected(canonical, partition) ==
  LET rows == SelectSeq(canonical, LAMBDA r : r.partition = partition)
  IN  [n \in DOMAIN rows |-> [value |-> rows[n].value, y |-> rows[n].y]]

Frames(s, d) ==
  LET rows == InOrder(Times(s), Eligible(s))
      canonical == [n \in DOMAIN rows |-> CanonicalRow(s, d, rows[n])]
  IN  [canonical |-> canonical,
       ledger |-> [i \in DOMAIN s |-> [record |-> i, disposition |-> Disposition(s, d, i),
                                       destination |-> Destination(s, d, i)]],
       partitions |-> [n \in DOMAIN Partition |-> Projected(canonical, Partition[n])]]

\* _OccurrenceGapFit: a gap with the records and occurrences it was fitted on.
GapFit(gap, canonical, rows) ==
  LET of(i) == CHOOSE n \in DOMAIN canonical : canonical[n].record = i
  IN  [gap |-> gap, records |-> rows,
       occurrences |-> Distinct([n \in DOMAIN rows |-> canonical[of(rows[n])].occurrence])]

OccurrencesAmong(rows) == Cardinality({rows[n].occurrence : n \in DOMAIN rows})

Summary(frames) ==
  [sourceRows |-> Len(frames.ledger), canonicalRows |-> Len(frames.canonical),
   occurrences |-> OccurrencesAmong(frames.canonical),
   dispositions |-> [x \in DispositionNames |->
                       HowMany(frames.ledger, LAMBDA row : row.disposition = x)],
   destinations |-> [x \in DestinationNames |->
                       HowMany(frames.ledger, LAMBDA row : row.destination = x)]]

PartitionSummaries(canonical) ==
  [n \in DOMAIN Partition |->
     LET rows == SelectSeq(canonical, LAMBDA r : r.partition = Partition[n])
     IN  [name |-> Partition[n], rows |-> Len(rows), occurrences |-> OccurrencesAmong(rows)]]

\* What the approved inventory says of a source: its fingerprint, how many
\* rows it has, and the targets of its label map.
ApprovedFor(s) ==
  [source |-> s, rows |-> Len(s), targets |-> {s[i].label : i \in DOMAIN s} \ {UnknownLabel}]

ManifestOf(inventory, frames, fit, fences) ==
  [source |-> inventory.source, targets |-> inventory.targets,
   fit |-> fit, fences |-> fences, summary |-> Summary(frames),
   partitions |-> PartitionSummaries(frames.canonical), artifacts |-> frames]

PublicationOf(s, d) ==
  LET frames == Frames(s, d)
  IN  [frames |-> frames,
       manifest |-> ManifestOf(ApprovedFor(s), frames,
                               GapFit(d.gap, frames.canonical, d.fit), d.fences)]

-----------------------------------------------------------------------------
(* The check.                                                              *)

\* _validate_manifest_shape: the source and the label map are the approved
\* ones, a fit is stated, and the counts of the manifest agree.
ComponentsAreApproved(m, inventory) ==
  m.source = inventory.source /\ m.targets = inventory.targets

FitIsStated(fit) == fit.gap >= 0 /\ fit.records # <<>> /\ fit.occurrences # <<>>

ManifestAddsUp(m, expectedRows) ==
  LET counts == m.summary
      total(registry) == SumFunction(registry)
      inPartitions == FoldLeft(LAMBDA sum, entry : sum + entry.rows, 0, m.partitions)
  IN  /\ counts.sourceRows = expectedRows /\ counts.canonicalRows > 0
      /\ counts.occurrences \in 1..counts.canonicalRows
      /\ total(counts.dispositions) = counts.sourceRows
      /\ total(counts.destinations) = counts.sourceRows
      /\ counts.canonicalRows = counts.sourceRows - counts.destinations["rejected"]
      /\ \A n \in DOMAIN m.partitions :
           /\ m.partitions[n].name = Partition[n]
           /\ m.partitions[n].rows > 0 /\ m.partitions[n].occurrences > 0
           /\ m.partitions[n].rows = counts.destinations[Partition[n]]
           /\ m.partitions[n].rows = Len(m.artifacts.partitions[n])
      /\ counts.canonicalRows = inPartitions + counts.destinations["purge"]
      /\ Len(m.artifacts.canonical) = counts.canonicalRows
      /\ Len(m.artifacts.ledger) = counts.sourceRows

\* _fit_gap_from_canonical: of the train rows, in the order of their texts.
TrainRows(canonical) ==
  LET rows == SelectSeq(canonical, LAMBDA r : r.partition = "train")
  IN  SortSeq(rows, LAMBDA a, b : \/ TextRank(a.time) < TextRank(b.time)
                                  \/ TextRank(a.time) = TextRank(b.time) /\ a.record < b.record)

FitFromCanonical(canonical) ==
  LET train == TrainRows(canonical)
  IN  GapFit(GapOf(Times(train), [n \in DOMAIN train |-> n]), canonical,
             [n \in DOMAIN train |-> train[n].record])

\* _fit_iqr_from_canonical.
FencesFromCanonical(canonical) ==
  LET train == TrainRows(canonical) IN FencesOf(train, [n \in DOMAIN train |-> n])

\* _validate_destination_reconciliation; the gates on coverage and alignment
\* ask the same of the frames before they are written.
DestinationsReconcile(frames) ==
  LET entry(r) == frames.ledger[r.record]
      rows == ToSet(frames.canonical)
  IN  /\ \A n \in DOMAIN frames.ledger :
           /\ frames.ledger[n].disposition \in DispositionNames
           /\ frames.ledger[n].destination \in DestinationNames
           /\ frames.ledger[n].disposition = "rejected" <=> frames.ledger[n].destination = "rejected"
      /\ Cardinality({r.record : r \in rows}) = Len(frames.canonical)
      /\ {r.record : r \in rows} =
           {n \in DOMAIN frames.ledger : frames.ledger[n].destination # "rejected"}
      /\ \A r \in rows :
           \/ r.partition \in ToSet(Partition) /\ r.exclusion = NoData
              /\ entry(r).destination = r.partition
           \/ r.partition = NoData /\ r.exclusion = "purge" /\ entry(r).destination = "purge"
      /\ \A a, b \in rows : a.occurrence = b.occurrence => entry(a).destination = entry(b).destination

\* _partition_temporal_order and _partition_purge_gap, of the rows.
RowsApart(canonical, gap) ==
  LET times(n) == {canonical[k].time : k \in {k \in DOMAIN canonical :
                                               canonical[k].partition = Partition[n]}}
  IN  \A n \in 1..2 : /\ times(n) # {} /\ times(n + 1) # {}
                      /\ Max(times(n)) < Min(times(n + 1))
                      /\ Parts * (Min(times(n + 1)) - Max(times(n))) >= gap

\* _validate_artifact_hashes: the files are the registered ones.
FilesAreRegistered(m, frames) ==
  /\ DOMAIN m.artifacts = DOMAIN frames
  /\ \A name \in DOMAIN frames : m.artifacts[name] = frames[name]

\* _validate_manifest_reconciliations.
ManifestReconciles(m, frames) ==
  /\ DestinationsReconcile(frames)
  /\ m.summary = Summary(frames)
  /\ m.partitions = PartitionSummaries(frames.canonical)

\* check_canonical_dataset, of a directory nobody touched.
Accepts(published, inventory) ==
  LET m == published.manifest
      frames == published.frames
  IN  /\ ComponentsAreApproved(m, inventory) /\ FitIsStated(m.fit)
      /\ ManifestAddsUp(m, inventory.rows)
      /\ \A n \in DOMAIN frames.canonical : frames.canonical[n].y \in inventory.targets
      /\ FilesAreRegistered(m, frames)
      /\ m.fit = FitFromCanonical(frames.canonical)
      /\ m.fences = FencesFromCanonical(frames.canonical)
      /\ \A n \in DOMAIN Partition :
           frames.partitions[n] = Projected(frames.canonical, Partition[n])
      /\ RowsApart(frames.canonical, m.fit.gap)
      /\ ManifestReconciles(m, frames)

\* check_banner_dataset, with the inventory of the same source.
CheckAccepts(s, d) == Accepts(PublicationOf(s, d), ApprovedFor(s))

=============================================================================
