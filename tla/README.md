# Formal models of the prescriptive maintenance platform

TLA+ models of the parts of this repository whose correctness depends on the
order in which things happen or on arithmetic at a boundary: documents governed by
several people at once, evidence read while it is being replaced, a text generator
that answers late or never, connections and processes that are lost, a Terraform
run that dies, files edited while they are read, and the chain of computations from
a CSV file to a ranked answer. Each module is translated from the source;
`PROJECT.json` maps every definition to the lines it stands for. Small instances are
checked with TLC, and what matters most is proved with TLAPS for every value of the
constants.

Contents: [1 The system](#1-the-system) - [2 The modules](#2-the-modules) -
[3 Runs](#3-runs) - [4 Bounds](#4-bounds) - [5 Fairness](#5-fairness-and-deadlock) -
[6 Proofs](#6-proofs) - [7 Where the code disagrees](#7-where-the-code-disagrees-with-what-it-says) -
[8 Observations](#8-observations) - [9 Assumptions](#9-what-is-assumed-of-the-outside) -
[10 Not modelled](#10-what-is-not-modelled) - [11 Plan](#11-plan)

Python paths below are relative to `apps/api/src/prescriptive_maintenance/`, delivery
scripts to `infra/aws/demo/scripts/`.

## 1 The system

An API receives measurements of a machine, classifies them against a history,
and answers with a prescription grounded in technical documents that people have
approved. Offline commands turn a CSV of measurements and a set of PDFs into the
artifacts that answer. A web application shows analyses and documents; scripts
publish a demonstration on AWS.

**Documents.** `document_lifecycle.py` holds the aggregate `GovernedDocument`
(versions, each in one of seven states with two processing gates; the current
version; an append-only audit history) and `DocumentGovernanceService`, whose
methods read a snapshot, compute the next document on a copy and publish it by
compare-and-swap on a revision. `document_registry.py` adds the metadata the API
shows, resource identifiers, idempotent registrations and decisions; the routes
of `http_api.py` translate its errors into HTTP. `persistence/document_registry.py`
spreads the aggregate over four PostgreSQL tables. *Hard:* callers that race for
one revision; retries of a command whose answer was lost; answers joined from two
reads; two compare-and-swaps (metadata and lifecycle) on one value; statements of
different transactions that interleave; a `COMMIT` whose effect is unknown.
*Correct when:* there is at most one approved version and once there is one there
always is; no update is lost; a success is stored and a refusal is true; history
is never rewritten; the rows are always one whole document.

**Evidence.** `data/document_indexing.py` stores embedded chunks of document
versions; `knowledge_retrieval.py` ranks those of the approved versions of a fault
class; `governed_retrieval.py` cuts the ranking by a policy;
`grounded_assistant.py` answers questions from it. *Hard:* documents are read one
by one with no lock while they are approved and indexed, and again after the
scorer has run. *Correct when:* all evidence of an answer could have been cited
at one moment, a verification speaks for the moment it was asked, and a refusal
has the cause it names.

**Prescriptions.** `prescription_orchestration.py` retrieves evidence, has
`generation/guardrails.py` verify it, calls a synchronous provider that cannot be
cancelled in a worker thread behind a single slot and a timeout, verifies the
evidence again and builds one of many shapes of a result that validates itself.
*Hard:* the worker outlives the request; thread-local attempt state on threads
that serve many requests; a constructor that may refuse a combination the flow
produces. *Correct when:* the slot is neither leaked nor shared, every request
ends, a result is audited with its own call, and a prescription cites evidence
that was still approved after the provider had answered.

**Analyses.** `analysis_integration.py` runs an analysis, projects its result onto
one of five outcomes, commits it through a unit of work (`persistence/memory.py`,
`persistence/postgres.py`) and then serves it from memory; `services.py` over
`fakes.py` does the same for the demonstration; `analysis_runtime.py` composes one of
them at startup. `persistence/migrations.py` upgrades, downgrades and inspects the
schema under an advisory lock. In the browser, `core/latest-request.ts` and
`api/analysis-client.ts` keep the newest answer under one deadline; `server.mjs` is a
same-origin proxy. *Hard:* commit and cache are two steps; a lost answer to a commit;
one optimistic generation for unrelated analyses; restarts; an inspection without a
lock; answers in any order; a proxy that gives up while the API goes on. *Correct
when:* what was answered as accepted is recorded, the panel speaks of the newest
request and never stays busy, and operators do not collide.

**Data and models.** `data/source.py`, `contract.py`, `profiling.py`, `baseline.py`
and `fault_labels.py` audit a CSV; `data/canonical.py` cuts it into occurrences, fits a
gap on the train records that gap selects, partitions, purges, gates and publishes;
`modeling/knn.py` and `similarity_index.py` train and save; the runtime and
`modeling/evaluation.py` load. *Hard:* files edited while they are parsed; runners
that race for an output; a fit that is a fixed point of its own partition; text order
of timestamps; directories removed and rebuilt while they are loaded; three rankings
of the same neighbours in different precisions. *Correct when:* what is published is
what was audited and its own fit, labels decide nothing before the partitions exist,
what starts is one chain of artifacts and all three rank alike.

**Source documents.** `data/source_documents.py` extracts the authorised PDFs;
`data/document_indexing.py` cleans and chunks their text;
`analysis_artifact_documents.py` loads what a manifest pins. *Hard:* files edited during
extraction, runs over one another's artifacts, offsets after cleaning. *Correct when:*
cited text is text of an authorised version, at the place the citation names, and
nothing visible is lost.

**Delivery.** `aws_delivery.py`, `delivery_gate.py` and `frontend_delivery.py` plan,
deploy, publish and tear down a demonstration through Terraform. *Hard:* a runner that
dies while Terraform works, with resources the state does not record; ECS taking an
update back by itself; objects of other builds deleted while a publication may be cut off. *Correct when:*
what a success reports is what runs, a successful teardown leaves nothing, and the
index in the bucket never names an asset that is not there.

### How they interact

```
 panel --> client --> proxy --> http_api --+--> GovernedDocumentLifecycleService
 (one deadline)    (own deadline)          |        | located snapshot, expected revision
                                           |        v
                                           |    DocumentGovernanceService --get/compare_and_swap-->
                                           |        repository: memory (one lock) | PostgreSQL
                                           |        ^ approved version              (4 tables)
                                           |        |
                                           +--> assistant --> knowledge retrieval <-- chunk repository
                                           |                      ^       ^               ^
                                           |                      |       | currentness   | indexing
                                           +--> analysis --> orchestration --slot--> worker --> provider
                                                  |  ^
                                                  |  +-- composed at startup from: model, index, mapping,
                                                  |      extractions and policies pinned by one manifest
                                                  +--> unit of work: memory | PostgreSQL <-- migrations

 banner.csv --> baseline --> label inventory --> canonical build --> model --> index
                                                  (offline check)      \         |
 PDFs --> extraction --> artifacts, inventory                           evaluation, runtime
```

The document aggregate is the shared state of the running system: governance writes
it, retrieval reads it without a lock, and the orchestration asks retrieval, through a
port, whether what it cites is still approved. Files are the shared state of the
offline part: every command trusts what the one before has published.

## 2 The modules

| Module | Stands for | State and actions |
| --- | --- | --- |
| `DocumentLifecycle` | `document_lifecycle.py`: `GovernedDocument` and its commands | none: `ErrorOf(d, c, at)` is the error a command raises, in the order the code checks, `ResultOf` the document it returns |
| `DocumentAudit` | which snapshots are trusted: the constructor of `GovernedDocument`, `is_document_snapshot_audited` | none: replay of a history from nothing, as a recursive function |
| `AuditedDocument` | what service and repository promise together | `store`; `Execute` runs one whole command on the value stored at that moment, and a command that changes nothing is no step of it |
| `DocumentGovernance` | `DocumentGovernanceService` over an in-memory repository | `call`: per caller, the snapshot read and the draft computed; `Get`, `Mutate`, `CompareAndSwap`, `Reread` |
| `DocumentRegistry` | `GovernedDocumentLifecycleService` and the document routes | adds `metadata` and `api`; `Lookup`, `CompareAndSwapRegistration`, `RereadRegistration`, `Locate`, `Govern` (a step of the governance service), `Respond`, `Pipeline` |
| `PostgresRegistry` | `PostgresDocumentRegistryRepository` under the same service | `tables` (committed rows) and `session` (transaction, statement, what was read, rows to write); one action per statement, `LoseConnection`, `Retry` |
| `PrescriptionOrchestration` | `prescription_orchestration.py`, `generation/guardrails.py`, `generation/service.py` | per thread `pc`, `key`, `evidence`, `call`, `attempt`, `guarded`, `result`; shared `free` (the semaphore) and `calls` (workers with the state they share with a request); `approved` outside |
| `KnowledgeRetrieval` | `knowledge_retrieval.py`, `governed_retrieval.py`, the chunk repository, the assistant | `docs`, `index` and `bare` outside (`Register`, `Build`, `Promote`, indexing); `fault`, `phase`, `todo`, `open`, `found`, `first`, `scored`, `evidence`, `reason` of one retrieval: `Retrieve`, reads, `ApplyPolicy`, `Answer`, and its re-verification |
| `AnalysisProjection` | what `analysis_integration.py` makes of an orchestration; the demonstration, `services.py` over `fakes.py` | none: outcome, citations and metadata as functions of what the result's constructor admits; prediction, result and seeded catalog of the demonstration |
| `SchemaMigrations` | `persistence/migrations.py` | `schema`, `operations` and `operator`: per command the statement it is at, the history it read and its uncommitted work |
| `AnalysisService` | the API process: `IntegratedAnalysisService`, units of work, composition | `call` per request, `cache`, `catalog`, `rows`, `stored`, `generation`, `composed`; `Analyze`, open / add / commit in either store, `PublishResult`, `Demonstrate`, `Restart`, `Migrate` |
| `AnalysisPanel` | `AnalysisWorkspace.tsx`, `latest-request.ts`, `analysis-client.ts`, `server.mjs` | `newest`, `busy`, `view`, `shown`, and per request `client` and `proxy` |
| `AnalysisJourney` | from the button to the database and back | composition of the three above |
| `SourceContract`, `SourceBaseline` | `data/contract.py`, `profiling.py`, `baseline.py`, `fault_labels.py` | none: reports, counts, gates, payload checks, normalisation and approvals of one table |
| `SourceAudit` | the audited port of `data/source.py` and the commands that read through it | `disk` (the file and its edits), `runner`: hash, parse, hash, publish, per command; what the commands have published: `audit`, `baselines`, `inventories` |
| `TemporalPartitions`, `CanonicalDataset` | `data/canonical.py`: grouping, fit, partition, purge; dispositions, refit, gates | `source`, `build` per version: `Turn`, `Refit`, `Settle`, `PassGates`, refusals |
| `CanonicalCheck` | the published files and `check_canonical_dataset` | none: frames, manifest and every check recomputed from them |
| `ArtifactChain` | dataset, model and index directories and who loads them | `directory`, `writer`, `reader`, `removals`: stage, snapshot, compare, place, remove; one action per read of the runtime and the evaluation |
| `NeighborDecision` | `modeling/knn.py`, `similarity_index.py`, `evaluation.py` | none: exact ranking, vote, abstention, float32 index, batched ranking with its guard, parity audit |
| `AnalysisPipeline` | from `banner.csv` to an answered analysis | composition of the rows from `SourceContract` on; `answer` |
| `PageText` | text of a page: normalise, measure, clean with a map, sections, chunks | none |
| `SourceExtraction` | `data/source_documents.py` | `origin`, `file`, `manifest`, `output`, `run`, `artifacts`, `inventory`, `runs`: hash, read page, hash, store, write the inventory; edits, adapters, interruptions |
| `ArtifactDocuments` | `analysis_artifact_documents.py` and indexing of what it loads | `bindings` (what the manifest pins), `runtime` (what was loaded and indexed) |
| `DeliveryGate` | `delivery_gate.py` | none: what a state and a plan must look like |
| `DeliveryTarget` | the AWS account, Terraform and its state bucket | `account`, `orphans`, `rollout`, `rollbacks`, `revisions`, `pushed`, `remote` (the state: its resources, the image its outputs name, and what it holds without any resource), `lock`, `work`, `plan`; one action per resource change, `LoseRunner`, `RollBack` |
| `FrontendPublication` | `frontend_delivery.py`, the bucket and the edge | `bucket`, `edge`, `purges`, and a publication in progress (`step`, `publishing`, `puts`, `deletes`); one action per put, delete, invalidation |
| `AwsDelivery` | `aws_delivery.py` and the two workflows | `head`, `op`, `report`, `calm` (no mishap yet) over the three above: one chain of calls and gates at a time, any of which may fail |

`DocumentLifecycle` and `DocumentAudit` have no state. `AuditedDocument` adds the store,
and `DocumentGovernance` and `DocumentRegistry` extend it; `PostgresRegistry` extends
`DocumentAudit` for the operators and instantiates `AuditedDocument` (`Promise`) with the
snapshot its rows stand for. The `MC*` modules give the constants their values.
`*Proofs` modules hold invariants, lemmas and theorems only.

How steps follow from the code:

- *One lock, one step.* Every method of an in-memory repository holds one lock, so
  `Get`, `CompareAndSwap` and `Reread` are single steps; a service call releases
  it in between, and there every other caller may act. A command's own computation
  is on a private copy.
- *One statement, one step* against PostgreSQL. A reader runs `REPEATABLE READ`:
  its first `SELECT` fixes what the others see. A writer runs `READ COMMITTED` under
  an advisory lock and `FOR UPDATE`. The writes of one transaction become visible at
  its commit; `DDL` waits for transactions that touched its tables.
- *One file operation, one step.* Between two reads, writes or renames of one process
  anything may happen to a file or directory. Hashing a file is one step: an edit
  during the hash is an edit before or after it, or a digest nobody approved.
- *One external call, one step* in the delivery, and inside `terraform apply` one
  resource at a time, so that a runner may be lost between any two.
- *The worker's `finally`* is two steps (`ReleaseSlot`, then `SignalDone`): the slot
  is free before the caller is told, and another request may take it.
- *A lost answer* needs no action in `DocumentGovernance`: a caller may send any
  command with any revision it was once shown, so a retry is a call like any other.
- *Data.* Hashes, actors and reasons are model values; content is its version, so that
  equal hashes mean equal content. Text of an answer is what its validation makes of it
  (supported, insufficient, malformed). Retrieval scores are a choice of hits, and a
  policy a choice of what it keeps. History variables (`seen`, `atScore`, `atCheck`,
  `disturbed`, `erased`) record moments for the properties and are never read by an
  action's guard or by what it does.
- Definitions marked *mutant* are plausible mistakes in a definition; no
  specification uses them.

### Why retrieval is right without a lock

A retrieval collects all documents, scores, and collects again; it keeps its
ranking only when both collections are equal, revisions included. A document whose
revision is the same at two reads had that revision in between, and a record of the
chunk repository is never changed once stored. The second collection starts after
the first has ended, so everything in the ranking was citable when the scorer ended:
`EvidenceHeldTogether`. The stronger claim that *nothing else* was citable at
that moment does not hold, and the code does not need it: a document without eligible
records leaves no trace in a collection, so its version may be indexed and replaced by
one that is not indexed yet between the two, and neither collection shows it.

`CurrentMeansCurrent` rests on a different fact, that a superseded version is never
approved again. The environment of this module has it as the guard of `Promote`
(the new version is newer); that the real aggregate behaves so is the second conjunct
of `DocumentOnlyGrows`, checked and proved for `DocumentGovernance`. A chunk that is
citable after the question was therefore citable when it was asked, unless it was
indexed in between, and the evidence was in the index before.

One retrieval is modelled because retrievals share nothing they write. In the wired
`artifacts` mode the runtime documents are built at startup and do not change, so
the races this module is about belong to the contract of the library, not to that
deployment; `Init` and `Build` include what `_build_lifecycle` produces.

## 3 Runs

| Run | Question | Answer |
| --- | --- | --- |
| `governance` | Two callers send any command with fresh or stale revisions, from the empty store and from snapshots later in a document's life. | The service implements `AtomicSpec`; every answer is true; nothing is lost or rewritten; knowledge in use never disappears; whoever contends for a revision sees it move. |
| `registry` | Two clients register, look up, decide and retry while a pipeline processes. | Registrations are whole; a success is true and a repetition changes nothing. |
| `registry_answers` | Does each route answer with a status it declares? | No, see section 7. |
| `postgres_registry` | Statement by statement, with lost connections and unknown commits. | The rows implement `AtomicSpec`; every refusal has the cause it names, and an ambiguous commit is resolved by the retry. |
| `orchestration` | Two requests share the slot while calls are late, fail or never start and documents are replaced. | The slot is conserved; results are constructible, audited with their own call and grounded in evidence that outlived it. |
| `orchestration_progress` | Does a request end when the provider never answers? | Yes, with the threads of the process scheduled and nothing asked of the provider. |
| `orchestration_totality` | Does `orchestrate` decide for every prediction? | No, see section 7. |
| `retrieval` | Documents are registered, approved, replaced and indexed while one retrieval reads them. | Evidence held at one moment; a verdict speaks for the moment of the question; a refusal tells what happened. |
| `analysis` | Analyses travel from the panel through the proxy to either store while the API restarts, connections are lost and operators migrate. | What is answered as accepted is recorded, the panel shows the newest answer and never stays busy, and no operator finds the schema changed under it. |
| `delivery` | Plans, foundations, deploys and teardowns follow each other, any call failing and the runner dying anywhere. | A success reports what runs; a successful teardown leaves nothing; a teardown is refused only after a mishap; the index keeps its assets. |
| `pipeline` | From tables with faulty cells to answered analyses, with files edited, runners racing and directories replaced. | What is published is its own fit; what starts is one chain; the evaluation ranks like the model, and the index up to float32 rounding. |
| `documents` | From authorised PDFs to cited chunks, with edits, failed runs and runs over one another. | Cited text is authorised and at its place; nothing visible is lost. |

What each property rules out is stated beside its definition; the mutation of the
code that breaks it is under `mutants` in `PROJECT.json`. The ones that carry most:

- `AtomicSpec`, `ImplementsAtomicDocument` (refinements): whoever calls, whatever they
  had read and however many calls are in flight, the document changes by one whole
  command executed on the value stored at that moment; in memory, and in the rows of
  four tables.
- `AnswersAreTrue` and `RepetitionIsHarmless`: the lies a retry protocol can tell
  are success for something not stored, a conflict with oneself, a second version
  for the same upload, a revision that records another decision.
- `StoreIsAudited`, `ApprovedWasProcessed`: the history alone rebuilds every status,
  gate and revision, and no long legal sequence (fail, resume, reject, reprocess)
  approves a version whose extraction predates a restart from nothing.
- `SlotIsConserved`, `MetadataIsOfThisAttempt`, `OnlyUnnamedFaultsEscape`,
  `GeneratedFromLiveEvidence`: consequences of a worker that outlives its request.
- `AcceptedIsRecorded`: whatever the panel, the proxy and the store do, an answer the
  client was given as accepted is the recorded one; a result served was recorded
  first; a demonstration serves what it stored.
- `DeployedIsWhatRuns`, `TeardownLeavesNothing`: reports against the account, the
  state, the bucket and the edge, after any history of failures.
- `GatesJudgeTheFit`: a published gap is a fixed point of the partition it selects, and
  no sound source is refused but for the order of texts (section 8). `TargetsDoNotDecide`:
  two sources that differ in labels only have one fate, record by record.
- `RankingsAgree`: the batched evaluation ranks exactly like the model, and the runtime
  refuses an answer only where float32 changes a ranking or distance, or for operating
  states (section 8).
- `CitationsLocateContent`, `NothingVisibleIsLost`: after cleaning, cutting, overlapping and
  trimming, a citation points at the text it shows and every visible character of a
  page is in some chunk.

## 4 Bounds

| Bound | Where | Why it is enough |
| --- | --- | --- |
| two callers, clients, sessions, threads, operators | all | a race needs two; a third adds another loser. The theorems of section 6 are for any number |
| two versions, two hashes, one actor, two reasons | documents of governance | supersession needs two versions; a wrong hash and a second reason are needed to tell a replay from a similar command |
| `Instants = {1, 2}` | governance | a clock that stands still, advances or goes back |
| `Revisions`, `MaxStaleness = 1` | `DocumentGovernance` | the revisions a call may expect: the ends of a first approval, of a replacement and of a rejection that is reprocessed. One behind is where a replay is recognised; calls further behind are only refused |
| `Seeds` | governance, registries | snapshots reached by commands (folded in the MC module), so that late stages need no long prefix |
| `MaxRevision = 11` | `DocumentRegistry` | the pipeline takes a second version through approval |
| `Revisions = {0, 5, 9}`, one instant | `PostgresRegistry` | first registration, registration of a second version, decision on it: no row to lock, an insert, an update with supersession |
| two calls, one promotion | `PrescriptionOrchestration` | a call that was left behind and one that is waited for; `SignalDone` forgets a state nobody waits for, so calls are used again without end |
| no promotion, one call | `orchestration_progress` | liveness does not depend on the documents, and one call is the most contended case |
| two documents of one class, two versions, one chunk each, `MaxRevision = 3` | `KnowledgeRetrieval` | two documents are needed for a mixture; they may be unregistered at first; one class is mapped to nothing and one is not mapped; a version may be indexed by a named provider or by one that could not be described |
| two requests, `MaxRestarts = 1`, `MaxActivity = 3`, `Targets = {0, 3, 4}`, `MaxOperations = 2`, `TopKs = {1, 3}` | `AnalysisJourney` | overlapping requests, a restart between commit and answer, migrations to nothing, to the latest and to the one before against a commit; `MaxActivity` caps requests, restarts and migrations together |
| two commits that share a bundle, `MaxRevision = 3`, `MaxRollbacks = 1` | `AwsDelivery` | a deploy over another, a placeholder revision, an update ECS takes back, an apply that fails before its first resource |
| `Steps = {0, 1, 2, 12}` half microseconds, `DurationLimit = 15` | `CanonicalDataset` | equal, adjacent and distant records, a fraction with and without its last digit; about two thousand sources |
| `Versions` of two, `RemovalLimit = 1`, `Pins` | `ArtifactChain` | a removal and a rebuild between any two reads |
| `Grid = 3`, `Tolerance = Slip = 1`, one feature, `Queries`, `TopKs` | `NeighborDecision` | distances scaled so that rounding, tolerance and ties all occur; the guard of the batched ranking is taken as twice its error |
| ten spellings, tables of three rows | `SourceAudit` | one table with up to two faulty cells read undisturbed, and pairs of tables with up to three disturbances: an edit in place and back around a misread round needs two, so that two equal misread rounds need four |
| texts of up to four characters, one per class that the code tells apart, and longer ones (up to seven) for spacing, joiners and breaks; chunk limit 3, overlap 1, one alphanumeric character | `PageText` | the code asks for a limit of at least 32 and twelve alphanumeric characters; the cases of the algorithm (break found or not, overlap kept or not, grapheme at the limit) are all met at the small values |
| two extraction runs, one at a time | `SourceExtraction` | a run over the artifacts of another; files are never edited back, which one hash before and after could not see; the manifest is pinned once and the output directory stops being safe at most once |

Counters that have no bound in the code (`MaxRevision`, `MaxActivity`,
`RemovalLimit`, `MaxOperations`, `MaxRestarts`, `MaxRollbacks`, `MaxPromotions`) appear in
guards of environment actions only. Symmetry is used for clients, sessions, threads
and calls in runs without liveness.

The definitions of `PageText` were compared with the Python functions they translate
on 31 627 texts; they agree.

## 5 Fairness and deadlock

- `DocumentGovernance!Spec` has weak fairness of `Serve(p)`: a thread that serves
  a request keeps running, and no step of a request waits for another caller.
  Nobody has to send a request (`Begin` is not fair).
- `PrescriptionOrchestration!FairSpec` has weak fairness of each thread's `Serve(t)`
  and of a worker's steps after its provider came back (`Finish`). `ProviderReturns`
  is *not* fair: a provider may hang for ever. `TimeOut` is part of `Serve`,
  which is what `Event.wait(timeout)` gives.
- `AnalysisJourney!Spec` has weak fairness of the client's own deadline and of nothing
  else: neither the proxy nor the API nor a store has to answer for the panel to settle.
- The other specifications state no fairness and no liveness is claimed for them.

Deadlock is checked in all runs but three: in `analysis`, `pipeline` and `documents` the
system stops when the bounded number of requests or runs is over.

## 6 Proofs

All theorems hold for every value of the constants that satisfies the assumptions
stated in the modules; TLC evaluates these on every run.

### 6.1 One document (`DocumentAuditProofs`)

What one command does to one document or snapshot, whoever sends it.

`CommandsKeepConsistency` shows command by command that one which succeeds on a consistent
document leaves a consistent one. Consistency is inductive, but only as a whole: that
approval keeps one approved version needs that the current one is the approved one, that
the candidate is the latest, and that the gates of each status match. `CommandsOnlyAdd`
adds that the command appends to the history, keeps the content of every version and never
moves the current version back.

`AuditShowsHistory` says what the audit is worth: a snapshot whose history, replayed from
nothing, yields it at its revision has as many revisions as commands, a command as last
event, and behind every status of every version the gates it requires, in order and in one
attempt. It is an induction over the history. The induction theorems of the library take
an operator as parameter, which no installed prover can instantiate, so it is done by
*least counterexample*: `Replayed` is a recursive function (`ReplayUnfolds` states its one
unfolding), and `LeastNatural` gives the smallest position at which a claim about it
fails. In the other direction `CommandsKeepAudit` shows that what a command adds replays
as that command.

The rest is a small theory the services share. A snapshot is `Trusted` if it is typed,
consistent and audited; `Executes(s, t, c, at)` relates two snapshots by one command
(`ExecutionKeepsTrust`, `ExecutionsOnlyAdd`). `RecordedAt(d, n, c)` says that revision `n`
is command `c`: `RecordsStay`, `ExecutedIsRecorded`, `ReplayIsRecorded` and
`RecordedIsRecognised` connect what a history records with what `MatchesLatestCommand`
recognises, and `LastCommandShows` reads the last decision off the status of a version.

### 6.2 Governance and registrations (`DocumentRegistryProofs`)

`StoreStaysConsistent`, `StoreStaysAudited` and `ApprovalsAreJustified` are about the
abstract store, one command at a time; they follow from 6.1.

For the concurrent service `GovernanceInv` adds what a call in flight holds: a snapshot
that is consistent and not newer than the store, equal to the store if its revision is; a
draft that `ResultOf` computed from that snapshot by the command of its caller. Without
the last part nothing relates what a compare-and-swap writes to what is stored. From it
follow `GovernanceTypeOK`, `NoLostUpdate` (a revision identifies one snapshot),
`RevisionsHaveOneAuthor`, `GovernedDocumentIsConsistent` (`Consistent`) and the refinement
`GovernanceIsAtomic` (`AtomicSpec`): only `CompareAndSwap` changes the store, and it does
so by `Execute` of its command at the instant its caller read the clock. The refinement
carries what holds of the abstract store to the service: `HistoryIsAppendOnly` and
`KnowledgeOnlyMovesForward`, the two halves of `DocumentAlwaysGrows`
(`DocumentOnlyGrows`), `SnapshotsAreAudited` (`StoreIsAudited`) and
`ApprovedVersionsWereProcessed` (`ApprovedWasProcessed`).

`CallersAreToldTheTruth` (`AnswersAreTrue`) needs more: `AnswersInv` says of each call
that a success it was told of stays recorded at its revision, and that a race it was told
to have lost was lost to another command. That every seed passes the audit
(`SeedsAreAudited`) is what `compare_and_swap` and the readers check before they hand a
snapshot out.

`RegistrationIsAlwaysWhole`: for any clients, requests and pipeline commands, metadata and
lifecycle agree version by version, although only one of the two kinds of compare-and-swap
knows both. Two facts carry it. A draft of a registration is the metadata its client read
with one row appended, and the check that the stored metadata is a prefix of it, one
shorter, leaves only one possibility: what was read is what is stored
(`AppendedToWhatIsStored`). And every command but a registration keeps the number and the
content of versions (`DecidingKeepsContents`), whatever reason a client gives:
`UpdatedVersion` is typed for a decision that is not well formed. `RegistryInv` needs
neither the consistency of the document nor that revisions identify snapshots, so the
result does not rest on the revision check: validating what is swapped in is enough.

`RepeatingIsHarmless` (`RepetitionIsHarmless`) follows a client from what it reads to its
answer. `HarmlessInv` adds to the above that what a client holds was stored once
(`WasRead`), that the revision it expects is the one its request implies, and, once it is
answered, that a decision it has repeated was not applied (`AnsweredOK`): a repetition
finds its own command recorded, or a later one, and in the second case the revision has
moved. It assumes that approvals and rejections carry a reason (`DecisionsAreJustified`);
the API requires one for a rejection and fills one in for an approval.

### 6.3 PostgreSQL (`PostgresRegistryProofs`)

`TablesImplementTheDocument` (`ImplementsAtomicDocument`): the four tables, read and
written statement by statement by any number of sessions whose connections may be lost
anywhere, stand for a document that changes by whole commands. `PgInv` has four parts. The
committed rows are the rows of one trusted snapshot (`Whole`). At most one session is past
the advisory lock (`OneWriter`). A reader at `REPEATABLE READ` holds rows of one commit,
as old as its first statement, and has assembled them as far as its statement says
(`ViewOK`, `RowsOK`). And the draft of a writer was computed by its command from what is
stored, *if* its expected revision is still the stored one (`DraftOK`); past the check of
the revision it is. So a commit executes the command (`CommitExecutes`), and no other step
changes a committed row. Two facts about commands are needed: one that was not recognised
as a replay changes its document (`FreshCommandsChange`), so that a commit is never a step
without effect, and a draft extends the audited history it started from
(`DraftsExtendAudit`), so that the rows to insert are the new ones.
`AnswersHaveTheirCause` (`RefusalsHaveACause`) is the last part of the invariant
(`AnswerOK`): no reader meets rows of two commits, an unavailability follows a lost
connection, and a retry after an unknown commit is told that it lost only if it did.

### 6.4 Orchestration (`PrescriptionOrchestrationProofs`)

`SlotIsConserved` needs only types and that a new request never forgets a running call.
The other properties relate a request to its call, and are not inductive: what keeps
another step from changing a call whose result a request has read? `OrchestrationInv`
answers with ownership. A call state has at most one owner; when its owner no longer waits
it is disowned (`TimeOut`) or done (`Receive`), and no worker steps in a done call; a call
is forgotten only by its owner's next request or when it has none. So what a request has
read stays true until it is answered (`UntouchedRequestStaysOK`). With, per request, which
refusals may follow which outcome (`ReadyToConclude`), the lemma
`ComposedResultsAreConstructible` shows that the constructor accepts what the flow
composes. The theorems state the type invariant, `SlotIsConserved`,
`OnlyUnnamedFaultsEscape`, `MetadataIsOfThisAttempt` and `GeneratedFromLiveEvidence` for
any number of threads, calls, faults and promotions. They assume that a retrieval key is
not one of the words that stand for other inputs (`FaultsAssumption`), as is the case in
the source.

### 6.5 Retrieval and extraction (`KnowledgeProofs`)

`RetrievalInv` says what a snapshot read some time ago is still worth (`Past`): neither
its revision nor its current version is ahead of the document, and while the revision has
not moved the current version has not either. The environment only moves forward
(`Grows`), so a find of the second collection that equals one of the first was citable all
the time between, and in particular when the scorer ended (`EvidenceAlwaysHeldTogether`);
and evidence found again by a verification was citable when it was asked for, since a
superseded version does not return (`VerdictsAreOfTheQuestion`).

`RefusalsAlwaysHaveACause` (`RefusalsHaveACause`) is about the opposite: what a refusal is
evidence of. While nothing has disturbed a retrieval, each collection is what the
documents it has visited hold at this moment (`SteadyOK`), so two collections differ only
after a disturbance; a document whose visit found nothing was bare at that moment
(`BareOK`), so a refusal for coverage names a moment for every mapped document. All are
for any finite mapping, documents, versions, chunks and providers.

`InventoryTellsTheTruth` (`InventoryMatchesArtifacts`) is about extractions that are
interrupted, repeated with other adapters and overtaken by new files. A source only moves
on (`ReadingOK`): if its fingerprint after the pages is the one before them, every page was
read from that version. What is stored is whole and made from the version it is named after
(`StoredOK`), and a run finds each document it has passed in the store as it left it
(`DoneOK`), until it writes the inventory as its last step or is cut off, which `torn`
remembers. Artifacts of two documents never share a place, since no name occurs twice
(`ExtractionAssumption`). `OnlyAuthorisedTextIsCited` (`CitedTextIsAuthorised`) goes on from
there to a runtime whose manifest binds such artifacts: what loading compares is enough for
a citation to lead to an authorised version of an authorised document, whatever was
extracted since. The text of a page is a value the proofs do not look into.

### 6.6 Analyses (`AnalysisJourneyProofs`)

`MigrationsDoNotCollide` (`OperatorsDoNotCollide`): the schema is always that of one
version (`Wellformed`), one command at most is under the advisory lock (`OneUnderLock`),
and what it has read of the schema is what the schema is (`WorkIsCurrent`). Only
`inspect`, which takes no lock, can meet a table dropped under it, and then it says so.

`AnswersAreRecorded` (`AcceptedIsRecorded`): `RecordInv` follows every request through
either store. A snapshot in memory with the present generation is the store itself
(`SnapshotIsCurrent`); a call that has written rows keeps `DDL` from dropping their
tables, so no operator about to commit lacks one (`TablesAreKept`); what is committed,
cached or accepted is in the rows with its evidence unless the store was erased
(`IsRecorded`). The demonstration keeps every scenario in its catalog.

`PanelShowsTheNewest` (`ShownIsTheNewestAnswer`) needs that no request is ahead of the
newest and that an answered call never changes again.

### 6.7 Audits and artifacts (`PipelineProofs`)

`QuietPublicationIsReliable`: fewer than four disturbances of file, path and manifest
leave `PublicationIsReliable` true, for any tables, expectations and plan of processes. The
audited port compares digests before and after a parse, which an edit in place and back
gets past. `AuditInv` keeps an account of it (`Paid`): each round that read another content
than its receipt names (`Missed`) cost two disturbances, one of which may still be
outstanding while the file is open. Edits that mislead several processes are charged to
each of them, so it does not matter how the processes interleave. Two rounds of one process
are compared before anything is published (`OneRoundIsTrue`): with fewer than four
disturbances one of them is right, and then so is what both say. A run validates its
payloads before it compares them (`sanitization_failed`, `serialization_failed`), so what
is placed serves (`BaselinerOK`, `InventoryRunOK`), and it serves for ever because nothing
published is replaced (`PublishedStays`). Four is exact: with a limit of four TLC finds
a published baseline of a content other than its digest's. `PassedStaysPublished` is the
half of the property that needs no such bound.

`RuntimeIsAlwaysOneChain` assumes nothing of the directories between two reads, so the
proof looks at the reader alone: its comparisons of declared and computed hashes are
enough for arrays, model, index and holdout to be of one version (`ChainInv`). No lock, no
order of renames and no restraint of operators is needed; what they can do is make the
start fail. `PipelineKeepsTheChain` shows that every step of `AnalysisPipeline` is a step of
the chain or leaves it alone, so the result holds there as well.

`GatesAlwaysJudgeTheFit` (`GatesJudgeTheFit`) and `LabelsNeverDecide`
(`TargetsDoNotDecide`) are about the build, for sources of any size. Python's `sorted` is
`Sorted` in `TemporalPartitions`: *the* function that puts a finite set in a strict order,
and `SortedHasEveryMember` and `OnlyOneOrder` show that there is one and only one. From there
occurrences follow each other in time, the boundaries of the split lie between
occurrences, and what the purge removes leaves the gap between partitions; the one gate
left is the order of timestamp texts. A build that goes on has taken turns of its fit, each
from the gap before (`BuildOK`), and one that settled is at a fixed point, which is the
second half of `GatesJudgeTheFit`. `TraceOK` keeps with each build the sequence of gaps it
went through. Those are read off the times, identities and values of the source alone
(`Times`, `Conflicts`), so two sources that differ in labels go through the same sequence,
and end in it at the same place, however their builds interleave.

`RankingsAlwaysAgree` (`RankingsAgree`) is about the answers. A ranking is `Sorted` by
distance and then by reference. The index files its rows in another order, and its order
is the model's renamed by the filing (`RenamedOrder`); what float32 leaves alone among the
first places keeps its place (`SamePlace`). The evaluation computes distances of a batch
that differ by at most `Slip`: the windows within twice the slip of its `k`-th contain
the first `k` by exact distance, because `k` rows would otherwise precede one of them
(`GuardCovers`), and leaving others out changes none of these places
(`FirstPlacesStay`). The vote and the threshold are the same function on both sides, of
the same neighbours, and the proof does not look into them. What is asked is a model that
was built: `SuppliedInv` says that the source is loaded once, before any build
(`LoadedOnce`), that what is built stays, and that directories, writers and the reader
hold built versions only, through removals and replacements (`ServedModels`).

### 6.8 Delivery (`AwsDeliveryProofs`)

`PublicationKeepsDocumentsWhole` follows from what a publication in progress has already
put (`PublicationInv`): assets, root files and configuration go up before the index that
needs them, and what is deleted afterwards is no asset of this build, also over the
leftovers of a publication that was cut off. `DeliveryPublishes` is a refinement, every
step of `AwsDelivery` is a step of `FrontendSpec` or leaves the site alone, and carries it
to the deliveries (`DeliveredDocumentsAreWhole`). `TeardownIsComplete`
(`TeardownLeavesNothing`) rests on `EmptyingInv`: a teardown scans with an empty state,
images exist only in a repository, and the scan that follows passes only over an account
without leftovers.

`TeardownIsPossible` (`TeardownIsRefusedOnlyAfterMishaps`): `TargetInv` says at each stage
what the saved plan and the state in memory have still to do and what of it the account
already shows. A destroy deletes exactly what its state records and leaves it empty
(`TeardownOK`), a
foundation creates each address once (`FoundationOK`), a deploy swaps the task and then
points the service (`DeployOK`). `CalmInv` is the heart: without a mishap, whatever a
state records is so in the account, with service and task related, whenever an operation
is given up, and where it records no resource it is empty (`Bare`); an interrupted
foundation may have created more than its state records, never less. What counts as a
mishap is `LeavesTrouble` and a roll-back; the exceptions are needed: without any one of
them TLC finds the property violated.

`DeployedIsTrue` (`DeployedIsWhatRuns`): from `DeployOK` comes the account; from `SiteInv`
the site. What was purged for a commit stays purged until a *later* commit is published
(`PurgedOK`), and publications follow `main` (`OrderOK`), so that waiting for the
invalidation named after the commit is enough, also when an earlier run of the same commit
was given up half way. This is where each commit must be on `main` once
(`HistoryAssumption`, section 8). After the report only ECS and visitors act, and what
they do is allowed for.

The proof of `AcceptedDeployIsPlanned` showed that `ChangeFor` was ambiguous as first
written (overlapping guards of a `CASE`, of which TLC takes the first); guards of `CASE`
are exclusive now in all modules.

### 6.9 Only model-checked

- Liveness (`SomeoneWins`, `EveryRequestIsAnswered`, `PanelSettles`): temporal reasoning
  with `ENABLED` is out of the prover's reach.
- Computed data: the offline check, profiles and page text (`CheckAcceptsWhatIsBuilt`,
  `ProfileAgreesWithContract`, `CitationsLocateContent`, `NothingVisibleIsLost`,
  `ChunksFitTheLimit`). Their definitions filter and fold sequences; `SelectSeq` and the
  folds of the community modules have no usable definition in the prover, and what they
  compute for every input would need an induction of the kind of 6.1 for each.
- `AuditedSourceIsTaken`: it compares the rules of profile, contract, inventory and build on
  one table, cell by cell, and is as much about such data as the above.

Type correctness is proved for governance, PostgreSQL, orchestration, retrieval and, as
far as the proofs need it, analyses, extraction, audits and delivery (`ServiceTyped`, `OperationInv`,
`TargetTyped`).

## 7 Where the code disagrees with what it says

1. **An answer the contract does not declare** (`registry_answers`,
   `EveryAnswerIsDeclared`). `reprocess` on a version that was only received raises
   `InvalidDocumentRequestError`. `_reprocess_document` (`http_api.py:485-494`) does
   not catch it, unlike approve and reject, and no handler is registered for it, so
   the client sees 500 where the operation declares 409 for a transition that is not
   valid in the current state (`http_api.py:172-175`).
2. **A decision that is not total** (`orchestration_totality`, `DecisionsAreTotal`).
   `canonical_fault_class` accepts keys with percent escapes, as the fault label
   normalisation produces for letters outside ASCII; the identifier of the generation
   contract does not. `orchestrate` then composes a `DEGRADED` result with reason
   `INVALID_PREDICTION` and disposition `FAULT`, which its own constructor refuses, so
   it raises, although its docstring promises "a total, typed decision"
   (`prescription_orchestration.py:718`). `OnlyUnnamedFaultsEscape` and
   `NamedFaultsAreAnswered` say that this is the only case.
3. **A part of an installation that cannot be removed** (`delivery`,
   `TeardownIsRefusedOnlyAfterMishaps`, which passes: it states what does hold). The delivery
   guide (`delivery/README.md:818-819`) says that a complete state, or a non-empty part left by
   an interrupted apply, can be removed. An apply that ends before its first resource leaves
   the data sources read while planning and the outputs that need only variables
   (`outputs.tf:16-54`): the list of the state is not empty (`aws_delivery.py:1336`), yet it
   names nothing to destroy (`delivery_gate.py:909-913`), so that neither a teardown nor
   another foundation starts. An apply that stops between task and service leaves a part
   every gate refuses (`delivery_gate.py:1081-1086`). A roll-back by the ECS circuit breaker
   and a runner lost while it destroys are refused too. The property excepts these and says
   there is no other case.

## 8 Observations

Consequences of the code that the models showed and that contradict no statement a run
could refute; each is what the named property allows for.

*Documents and evidence*
- Any lifecycle command on a mapped document during a retrieval, even one that leaves
  the evidence alone, ends it as `INDEX_INTEGRITY_FAILED`.
- `chunk_id` does not include how a text was extracted. Extracting again with another OCR
  adapter and indexing, or indexing again after a failed embedding, collides in
  `InMemoryChunkRepository` (the batch is refused); under another provider it leaves two
  records of one chunk, and retrieval of that version is refused from then on.
  `chunking.chunk_id_collision` cannot occur: the ordinal is part of the identity.
- A chunk may exceed its limit with *two* graphemes when a joiner, a blank and marks meet a
  preferred break (33 characters at a limit of 32), where `apps/api/README.md` allows it for a single one;
  and a letter joined to a leading blank may be dropped. Both need control or
  format characters, which make an extraction suspect, and only completed ones are
  loaded: `ChunksFitTheLimit` and `NothingVisibleIsLost` are stated for what is served.

*Analyses*
- Demonstration identifiers are fixed per outcome: two requests of one scenario with
  different `top_k` share one entry, and `GET` serves the newest.
- `analysis-client.ts` takes 502 and 504 for "the API was never reached", although
  `server.mjs` may answer 504 after the API has committed.
- After an interrupted commit the client is told *unavailable* whether or not the analysis
  is stored; `AcceptedIsRecorded` says nothing of refused requests for that reason.

*Data and models*
- The gate and the offline check sort train records by the text of their timestamps
  (`contract.py:75-88`): a longer fraction sorts before a shorter one, so two train records
  within a microsecond make a sound source refused. `docs/validation/data-pipeline.md`
  speaks of timestamp and stable position.
- The refit need not converge: some sound sources are refused as "did not converge".
- An inventory with approved textual equivalences cannot be built from:
  `_validate_label_map` (`canonical.py:2784-2797`) asks for one label per slug.
- The build reads its source in one audited round, while baseline and inventory ask for
  two equal ones; a file edited in place and back during that one parse goes unnoticed.
  `PublicationIsReliable` allows for it.
- A baseline or inventory run that loses the race for its output reports
  `output_write_failed` although identical bytes are published. The baseline syncs its
  files before the rename, the inventory does not.
- Operating states: `_rankings_match` (`analysis_integration.py:1137`) compares codes; the
  model says `operating_state_<state>` (`knn.py:484-486`, `528-531`), the index files the fault
  code (`similarity_index.py:459`). With an operating state among the neighbours an analysis
  is unavailable, so that in `artifacts` mode the outcome `normal` of
  `docs/model-cards/temporal-knn-v3.md` does not occur; `RankingsAgree` states the exception.
- Distances that float32 cannot tell apart make an answerable analysis unavailable.

*Delivery*
- The invalidation of CloudFront is named after the commit (`frontend_delivery.py:352`), and one with
  a known name is answered with the old one. Were `main` forced back to a commit it had before, a
  deploy would purge nothing and leave copies of the later build at the edge. `HistoryAssumption`
  has each commit on `main` once; `DeployedIsWhatRuns` needs it.
- `aws-demo-deploy.yml` has no step that builds `apps/web/dist`, so `aws_delivery.py:1274-1276`
  would end a deploy after its apply; the model takes the bundle as built.
- The inventory of orphans asks by the three tags of the profile and by the names configured
  now. The tags alone show that a modelled account is empty (`AnsweredMeansEmpty`), the names
  repeat it for resources that lost theirs; untagged resources of an earlier configuration
  are not seen.

## 9 What is assumed of the outside

- *Clock*: any instant of a small set at every reading, also an earlier one.
- *PostgreSQL*: a lost transaction is rolled back and its locks released; a commit is
  one step; an insert waits for a transaction that has inserted the same key;
  `REPEATABLE READ` reads one snapshot; advisory, row and table locks exclude.
- *Provider*: answers anything, fails, late or never; it cannot be interrupted.
- *Currentness port*: truthful when it answers, and it may fail. For the port that
  `knowledge_retrieval.py` implements this is what `CurrentMeansCurrent` establishes.
- *Scorer*: returns some of the candidates it was given, none, or fails.
- *Processing pipeline*: sends lifecycle commands through the same governance service,
  so each is one step of `AtomicSpec` in `DocumentRegistry`.
- *File system*: renames are atomic, equal digests mean equal content; anyone may edit,
  remove or put back a file between two operations. A PDF that is to be extracted is only
  ever replaced by a version that was not there before.
- *Sources*: the names of the documents are distinct, and each version is pages that a
  library may read (`ExtractionAssumption`); an audit starts with the file the manifest
  approves, over tables of interpreted cells with positive expectations (`AuditAssumption`);
  a source that was loaded is records with a time, an identity, a value and a label
  (`OriginAssumption`), and those that are ranked have references (`PipelineAssumption`).
- *numpy*: the guard of the batched ranking covers the error of its products (`Slip`); no
  two rows have one reference (`DecisionAssumption`).
- *PDF and OCR libraries*: yield some text per page, or fail; control and format characters
  make a page suspect.
- *Terraform*: changes one resource at a time in the order of dependencies; an apply starts
  from what was read while planning, data sources included, writes outputs as soon as what
  they need is there, and in a destroy takes outputs and data sources away at any time; the
  state records what was done unless the runner is lost; a lock may survive its holder.
- *ECS, S3, CloudFront*: a rollout ends or is taken back; puts and deletes are immediate; an
  invalidation with a known reference is the old one.
- *Browser*: a timer fires; answers arrive in any order or never.

## 10 What is not modelled

`PROJECT.json` lists every component with its reason. Left out as a whole: prompt
formatting, the Bedrock adapter, readiness (one shared probe with no effect on any
other component), sign-in in the browser, presentation and the generator of the web
contract, repository gates. Inside modelled components:

- *Documents*: titles, file names and media types are folded into the declared size;
  aggregates do not interact, so there is one; a downgrade of the lifecycle migration
  drops its tables and leaves metadata rows written with them (`migrations.py:363`), which
  the model of the registry does not start from.
- *Generation*: the grounding checks of a text are one outcome. *Retrieval*: corruption of
  single fields of a record is not told apart from a duplicate; scores are above or
  below a threshold; the pgvector writer is left out.
- *Analyses*: the documents and assistant panels follow the rule of the analysis panel;
  assistant and health routes, middlewares, and limits on the body of a request are left out.
- *Data and models*: Markdown reports, the loader of the quality policy, the open-set study,
  `similarity_postgres.py`, metrics, benchmarks and golden cases; floating-point features
  are one integer feature, and one pair of measures stands for the numeric columns.
- *Delivery*: session windows and real time, the image lifecycle that keeps two images, limits
  of captured output (folded into a failing call), the constants of `plan_audit.py`, the
  scans of workflow files, `delivery_regression.py` and its siblings, which test the
  scripts.

## 11 Plan

1. *Proofs.* The parts of `AuditedSourceIsTaken` that compare one rule with another on a
   single row.
2. *Models.* Readiness with overlapping checks and a probe that hangs; the browser session
   with late token answers; a downgrade under stored documents, composing
   `SchemaMigrations` with `PostgresRegistry`.
3. *Instances.* A third client against `DocumentRegistry` with the present symmetry, and
   three commits for `AwsDelivery`, when a run of more than a few minutes is acceptable.
