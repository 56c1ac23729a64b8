------------------------------ MODULE SourceAudit ------------------------------
(***************************************************************************)
(* Who reads banner.csv and publishes what it says: two runs of the        *)
(* baseline by tools of different versions (data/baseline.py), one of the  *)
(* label inventory (data/fault_labels.py), and the build of the dataset up *)
(* to the table it starts from (data/canonical.py).  All of them read      *)
(* through the audited port (data/source.py): the digest the manifest      *)
(* approves is compared with the open file before and after it is parsed.  *)
(* Meanwhile the file may be edited in place or replaced, and the manifest *)
(* may approve the other version.                                          *)
(*                                                                         *)
(* A digest is the version of the content; a file is the position of its   *)
(* inode in disk.contents.  Hashing a file is one step.                    *)
(***************************************************************************)
EXTENDS SourceBaseline

CONSTANT Audits   \* [table, expected, plan, limit]: the content of each
                  \* version, the EXPECTED_ constants, the processes that run
                  \* and the bound on disturbances

VARIABLES audit,        \* the member of Audits
          disk,         \* [contents, path, manifest, disturbances]
          runner,       \* process -> where it stands
          baselines,    \* version -> what is published, by directory
          inventories

auditVars == <<audit, disk, runner, baselines, inventories>>

Unpublished == "nothing"
Baseliners == {"baseline", "rebaseline"}
Auditors == Baseliners \union {"inventory", "build"}

ASSUME AuditAssumption ==
  \A a \in Audits : /\ a.plan \subseteq Auditors /\ a.limit \in Nat
                    /\ a.expected.rows > 0 /\ a.expected.labels > 0
                    /\ "first" \in DOMAIN a.table /\ Unpublished \notin DOMAIN a.table
                    /\ \A v \in DOMAIN a.table :
                         /\ a.table[v].columns \in Seq(STRING)
                         /\ a.table[v].rows \in Seq([ToSet(a.table[v].columns) -> Int])

Idle == [phase |-> "idle", identity |-> Unpublished, expected |-> Unpublished,
         inode |-> 0, rounds |-> <<>>, approvals |-> {}]

\* Sources whose audits are over.
NoAudit == [table |-> <<>>, expected |-> [rows |-> 0, labels |-> 0], plan |-> {}, limit |-> 0]

AuditStarts(a) ==
  /\ audit = a
  /\ disk = [contents |-> <<"first">>, path |-> 1, manifest |-> "first", disturbances |-> 0]
  /\ runner = [p \in a.plan |-> Idle]
  /\ baselines = [v \in DOMAIN a.table |-> [read |-> Unpublished, tool |-> 0]]
  /\ inventories = [v \in DOMAIN a.table |-> Unpublished]

TableOf(v) == audit.table[v]
Content(p) == disk.contents[runner[p].inode]
Runs(p, phase) == p \in DOMAIN runner /\ runner[p].phase = phase

Stands(p, r) == runner' = [runner EXCEPT ![p] = r]
Refused(p, reason) == Stands(p, [runner[p] EXCEPT !.phase = reason, !.inode = 0])

-----------------------------------------------------------------------------
(* The operator.                                                           *)

Disturb(d) ==
  /\ disk.disturbances < audit.limit
  /\ disk' = [d EXCEPT !.disturbances = @ + 1]
  /\ UNCHANGED <<audit, runner, baselines, inventories>>

EditInPlace(v) == Disturb([disk EXCEPT !.contents[disk.path] = v])
ReplaceFile(v) ==
  Disturb([disk EXCEPT !.contents = Append(@, v), !.path = Len(disk.contents) + 1])
ApproveVersion(v) == Disturb([disk EXCEPT !.manifest = v])

-----------------------------------------------------------------------------
(* consume_banner_source_audited.                                          *)

RoundsOf(p) == IF p = "build" THEN 1 ELSE 2   \* _ROUND_COUNT

\* The manifest is read again for every round.
AskManifest(p) ==
  /\ Runs(p, "asking")
  /\ Stands(p, [runner[p] EXCEPT !.phase = "opening", !.expected = disk.manifest])
  /\ UNCHANGED <<audit, disk, baselines, inventories>>

OpenSource(p) ==
  /\ Runs(p, "opening")
  /\ IF disk.contents[disk.path] = runner[p].expected
     THEN Stands(p, [runner[p] EXCEPT !.phase = "consuming", !.inode = disk.path])
     ELSE Refused(p, "source_mismatch")
  /\ UNCHANGED <<audit, disk, baselines, inventories>>

\* A round is kept as the digest it found and the version it parsed.
Consume(p) ==
  /\ Runs(p, "consuming")
  /\ Stands(p, [runner[p] EXCEPT !.phase = "rechecking",
                !.rounds = Append(@, [digest |-> runner[p].expected, read |-> Content(p)])])
  /\ UNCHANGED <<audit, disk, baselines, inventories>>

Parses(p, f) ==
  IF p = "inventory" THEN Readable(f) /\ Inventoried(f) ELSE f.readable

Recheck(p) ==
  /\ Runs(p, "rechecking")
  /\ IF Content(p) # runner[p].expected THEN Refused(p, "source_changed")
     ELSE IF ~Parses(p, TableOf(Last(runner[p].rounds).read)) THEN Refused(p, "parsing_failed")
     ELSE Stands(p, [runner[p] EXCEPT !.inode = 0,
                     !.phase = IF Len(runner[p].rounds) < RoundsOf(p) THEN "asking" ELSE "read"])
  /\ UNCHANGED <<audit, disk, baselines, inventories>>

Read(p) == AskManifest(p) \/ OpenSource(p) \/ Consume(p) \/ Recheck(p)

\* _receipts_match_identity.
ReceiptsMatch(p) == \A n \in DOMAIN runner[p].rounds : runner[p].rounds[n].digest = runner[p].identity

-----------------------------------------------------------------------------
(* run_banner_baseline.                                                    *)

Tool(p) == IF p = "rebaseline" THEN 2 ELSE 1
BaselineBytes(v, b) == Payload(v, TableOf(b.read), b.tool, audit.expected)
Made(p, n) == [read |-> runner[p].rounds[n].read, tool |-> Tool(p)]

AnyRounds(p) == TRUE                                         \* mutant
RoundsAgree(p) ==
  LET v == runner[p].identity
  IN  IF p \in Baseliners THEN BaselineBytes(v, Made(p, 1)) = BaselineBytes(v, Made(p, 2))
      ELSE LET f == TableOf(runner[p].rounds[1].read)  g == TableOf(runner[p].rounds[2].read)
           IN  Len(f.rows) = Len(g.rows) /\ Frequencies(f) = Frequencies(g)

BeginBaseline(p) ==
  /\ p \in Baseliners
  /\ Runs(p, "idle")
  /\ Stands(p, [Idle EXCEPT !.phase = "asking", !.identity = disk.manifest])
  /\ UNCHANGED <<audit, disk, baselines, inventories>>

FinishBaseline(p) ==
  /\ p \in Baseliners
  /\ Runs(p, "read")
  /\ IF ~ReceiptsMatch(p) THEN Refused(p, "receipt_mismatch")
     ELSE IF \E n \in {1, 2} : ~PayloadIsValid(BaselineBytes(runner[p].identity, Made(p, n)), audit.expected)
     THEN Refused(p, "sanitization_failed")
     ELSE IF ~RoundsAgree(p) THEN Refused(p, "rounds_differ")
     ELSE IF ~BaselineBytes(runner[p].identity, Made(p, 1)).passed THEN Refused(p, "blocked")
     ELSE Stands(p, [runner[p] EXCEPT !.phase = "comparing"])
  /\ UNCHANGED <<audit, disk, baselines, inventories>>

-----------------------------------------------------------------------------
(* run_fault_label_inventory.                                              *)

\* _load_validated_baseline_expectations.
BaselineServes(v) ==
  /\ baselines[v].read # Unpublished
  /\ ApprovedPayload(BaselineBytes(v, baselines[v]), v, audit.expected)
ExpectationsOf(v) ==
  LET p == Profile(TableOf(baselines[v].read))
  IN  [rows |-> p.volume.rows, labels |-> p.labels.distinct]

\* The operator approves nothing, or the groups one of the versions has.  A run
\* without an approved baseline ends before it reads anything.
BeginInventory ==
  /\ Runs("inventory", "idle")
  /\ BaselineServes(disk.manifest)
  /\ \E approvals \in {{}} \union {TextGroups(ToSet(LabelsOf(audit.table[v]))) : v \in DOMAIN audit.table} :
       Stands("inventory", [Idle EXCEPT !.phase = "asking", !.identity = disk.manifest,
                                      !.expected = Unpublished, !.approvals = approvals])
  /\ UNCHANGED <<audit, disk, baselines, inventories>>

\* _build_inventory_bytes validates what it made.
InventoryOf(v, w, expects) ==
  [of |-> v, expects |-> expects, frequencies |-> Frequencies(TableOf(w))]

FinishInventory ==
  /\ Runs("inventory", "read")
  /\ LET r == runner["inventory"]
         f == TableOf(r.rounds[1].read)
         expects == ExpectationsOf(r.identity)
         refusal == InventoryRefusal(Frequencies(f), Len(f.rows), expects, r.approvals)
     IN  IF ~ReceiptsMatch("inventory") THEN Refused("inventory", "receipt_mismatch")
         ELSE IF ~RoundsAgree("inventory") THEN Refused("inventory", "rounds_differ")
         ELSE IF refusal # "none" THEN Refused("inventory", refusal)
         ELSE IF ~InventoryIsValid(InventoryOf(r.identity, r.rounds[1].read, expects), r.identity, expects)
         THEN Refused("inventory", "serialization_failed")
         ELSE Stands("inventory", [r EXCEPT !.phase = "comparing"])
  /\ UNCHANGED <<audit, disk, baselines, inventories>>

-----------------------------------------------------------------------------
(* _write_artifacts_atomically and _write_inventory_atomically.            *)

SameBaseline(v, b) == BaselineBytes(v, baselines[v]) = BaselineBytes(v, b)
SameInventory(v, w) == Frequencies(TableOf(inventories[v])) = Frequencies(TableOf(w))

Replaces(published) == TRUE                                  \* mutant
\* os.replace of a directory by another fails unless that one is empty.
Vacant(published) == published = Unpublished
Output(p) ==
  LET v == runner[p].identity IN IF p = "inventory" THEN inventories[v] ELSE baselines[v].read

\* An existing directory with the bytes of this run is a success.
CompareOutput(p) ==
  /\ Runs(p, "comparing")
  /\ LET v == runner[p].identity
         same == IF p = "inventory" THEN SameInventory(v, runner[p].rounds[1].read)
                 ELSE SameBaseline(v, Made(p, 1))
     IN  IF Vacant(Output(p)) THEN Stands(p, [runner[p] EXCEPT !.phase = "placing"])
         ELSE IF same THEN Stands(p, [runner[p] EXCEPT !.phase = "passed"])
         ELSE Refused(p, "write_failed")
  /\ UNCHANGED <<audit, disk, baselines, inventories>>

PlaceOutput(p) ==
  /\ Runs(p, "placing")
  /\ Vacant(Output(p))
  /\ LET v == runner[p].identity
     IN  IF p = "inventory"
         THEN /\ inventories' = [inventories EXCEPT ![v] = runner[p].rounds[1].read]
              /\ UNCHANGED baselines
         ELSE /\ baselines' = [baselines EXCEPT ![v] = Made(p, 1)]
              /\ UNCHANGED inventories
  /\ Stands(p, [runner[p] EXCEPT !.phase = "passed"])
  /\ UNCHANGED <<audit, disk>>

LoseThePlace(p) ==
  /\ Runs(p, "placing")
  /\ ~Vacant(Output(p))
  /\ Refused(p, "write_failed")
  /\ UNCHANGED <<audit, disk, baselines, inventories>>

-----------------------------------------------------------------------------
(* build_banner_dataset, up to the table the build starts from.            *)

\* load_fault_label_inventory.
InventoryServes(v) ==
  /\ BaselineServes(v)
  /\ inventories[v] # Unpublished
  /\ InventoryIsValid(InventoryOf(v, inventories[v], ExpectationsOf(v)), v, ExpectationsOf(v))
KnownLabels(v) == DOMAIN Frequencies(TableOf(inventories[v]))

\* _validate_label_map: no two labels have one slug, approved or not.
OneToOne(labels) == Cardinality({Slug(l) : l \in labels}) = Cardinality(labels)

BeginBuild ==
  /\ Runs("build", "idle")
  /\ InventoryServes(disk.manifest)
  /\ IF OneToOne(KnownLabels(disk.manifest))
     THEN Stands("build", [Idle EXCEPT !.phase = "asking", !.identity = disk.manifest])
     ELSE Refused("build", "labels_not_one_to_one")
  /\ UNCHANGED <<audit, disk, baselines, inventories>>

\* What build_canonical_dataset refuses before it partitions anything.
LoadRefusal ==
  LET r == runner["build"]
      f == TableOf(r.rounds[1].read)
  IN  IF ~ReceiptsMatch("build") THEN "labels_of_another_source"
      ELSE IF Report(f) # {} THEN "contract_failed"
      ELSE IF f.rows = <<>> THEN "empty"
      ELSE "none"

RefuseTable ==
  /\ Runs("build", "read")
  /\ LoadRefusal # "none"
  /\ Refused("build", LoadRefusal)
  /\ UNCHANGED <<audit, disk, baselines, inventories>>

LoadTable(v) ==
  /\ Runs("build", "read")
  /\ LoadRefusal = "none"
  /\ runner["build"].identity = v
  /\ Stands("build", [runner["build"] EXCEPT !.phase = "loaded"])
  /\ UNCHANGED <<audit, disk, baselines, inventories>>

-----------------------------------------------------------------------------

AuditStep ==
  \/ \E v \in DOMAIN audit.table : EditInPlace(v) \/ ReplaceFile(v) \/ ApproveVersion(v)
  \/ \E p \in DOMAIN runner :
       \/ Read(p) \/ CompareOutput(p) \/ PlaceOutput(p) \/ LoseThePlace(p)
       \/ BeginBaseline(p) \/ FinishBaseline(p)
  \/ BeginInventory \/ FinishInventory \/ BeginBuild \/ RefuseTable

-----------------------------------------------------------------------------

\* Whatever is published under a digest is what the content with that digest
\* says, and every later reader accepts it: two equal rounds cannot both have
\* missed an edit, since that takes two edits of the open file each.
PublishedIsTrue ==
  \A v \in DOMAIN baselines :
    /\ baselines[v].read # Unpublished =>
         /\ BaselineBytes(v, baselines[v]) = BaselineBytes(v, [baselines[v] EXCEPT !.read = v])
         /\ BaselineServes(v)
    /\ inventories[v] # Unpublished =>
         /\ SameInventory(v, v)
         /\ InventoryServes(v)

\* A run that reported success finds its bytes published for ever, whoever
\* raced it to the directory; the loser is told it could not write.
PassedIsWhatIsPublished ==
  /\ \A p \in DOMAIN runner \intersect Baseliners :
       runner[p].phase = "passed" =>
         LET v == runner[p].identity
         IN  baselines[v].read # Unpublished /\ SameBaseline(v, Made(p, 1))
  /\ Runs("inventory", "passed") =>
       LET r == runner["inventory"]
       IN  inventories[r.identity] # Unpublished /\ SameInventory(r.identity, r.rounds[1].read)

\* The published baselines and inventories can be relied on: they are true, and
\* whoever reported success finds them as he made them.
PublicationIsReliable == PublishedIsTrue /\ PassedIsWhatIsPublished

\* The profile counts by rules of its own what the staged contract reports: a
\* table passes the contract exactly if it has the declared columns in order
\* and the profile counts no missing, infinite or improper cell.
CountedFaultless(p) ==
  /\ \A c \in Declared :
       /\ p.columns[c].missing = 0 /\ p.columns[c].infinite = 0 /\ p.columns[c].violations = 0
  /\ p.temporal.invalid = 0 /\ p.labels.missing = 0 /\ p.labels.invalid = 0

ProfileAgreesWithContract ==
  \A p \in DOMAIN runner \intersect Baseliners :
    runner[p].phase \in {"read", "comparing", "placing", "passed", "blocked"} =>
      LET f == TableOf(runner[p].rounds[1].read)
          profile == Profile(f)
      IN  /\ Report(f) = {} <=> (f.columns = Catalog /\ CountedFaultless(profile))
          /\ AllReconciled(profile) <=>
               Present(f, "id") /\ (f.rows = <<>> \/ Declared \subseteq ToSet(f.columns))

=============================================================================
