---------------------------- MODULE ArtifactChain ----------------------------
(***************************************************************************)
(* The three artifact directories - canonical dataset, k-NN model and      *)
(* similarity index - and who touches them: the writers, which stage a     *)
(* directory and rename it into place, the operator who removes one to     *)
(* build it again, and a reader, which is the runtime of the API at        *)
(* startup or the offline evaluation.                                      *)
(*                                                                         *)
(* Content is the version it was built from: distinct versions have        *)
(* distinct hashes everywhere.  Between two file operations of one process *)
(* anything may happen to a directory.                                     *)
(***************************************************************************)
EXTENDS Naturals

CONSTANTS Versions,
          Pins,           \* what the manifest of a runtime may name
          RemovalLimit    \* bound on removals

VARIABLES directory,   \* kind -> [of, whole]
          writer,      \* kind and version -> [phase, holds]
          reader,      \* [role, pin, step, held]
          removals

chainVars == <<directory, writer, reader, removals>>

ASSUME ChainAssumption ==
  /\ RemovalLimit \in Nat
  /\ "nothing" \notin Versions
  /\ Pins \subseteq [model : Versions, index : Versions]

Kinds == {"dataset", "model", "index"}
Nothing == "nothing"
Absent == [of |-> Nothing, whole |-> FALSE]

Has(k, c) == directory[k].of = c
Whole(c) == [of |-> c, whole |-> TRUE]

NothingHeld == [dataset |-> Nothing, model |-> Nothing, vectors |-> Nothing,
                refs |-> Nothing, index |-> Nothing, holdout |-> Nothing]

\* The runtime is started with a manifest that pins a model and an index.
NoPin == [model |-> Nothing, index |-> Nothing]
Readers ==
  {[role |-> "runtime", step |-> "begun", pin |-> pin, held |-> NothingHeld] : pin \in Pins}
    \union {[role |-> "evaluation", step |-> "begun", pin |-> NoPin, held |-> NothingHeld]}

ChainInit ==
  /\ directory = [k \in Kinds |-> Absent]
  /\ writer = [k \in Kinds |-> [v \in Versions |-> [phase |-> "idle", holds |-> v]]]
  /\ reader \in Readers
  /\ removals = 0

-----------------------------------------------------------------------------
(* Writers: _write_artifacts_atomically, save_knn_model and                *)
(* save_similarity_index_from_knn_artifact end alike.  A process that dies *)
(* takes no further step: nobody reads the directory it was staging.       *)

Writer(k, v, phase, holds) ==
  writer' = [writer EXCEPT ![k][v] = [phase |-> phase, holds |-> holds]]

\* The model is trained in memory on the dataset of its version.
Stage(k, v) ==
  /\ k # "index"
  /\ writer[k][v].phase = "idle"
  /\ Writer(k, v, "staged", v)
  /\ UNCHANGED <<directory, reader, removals>>

\* The index is made from the model directory, whatever is there:
\* _read_source_model_snapshot copies the files, then load_knn_model verifies
\* the copy.
SnapshotModelManifest(v) ==
  /\ writer["index"][v].phase = "idle"
  /\ directory["model"] # Absent
  /\ Writer("index", v, "copying", directory["model"].of)
  /\ UNCHANGED <<directory, reader, removals>>

SnapshotModelArrays(v) ==
  /\ writer["index"][v].phase = "copying"
  /\ \/ /\ Has("model", writer["index"][v].holds)
        /\ Writer("index", v, "staged", writer["index"][v].holds)
     \/ /\ ~Has("model", writer["index"][v].holds) \/ ~directory["model"].whole
        /\ Writer("index", v, "ended", writer["index"][v].holds)
  /\ UNCHANGED <<directory, reader, removals>>

\* if destination.exists(): equal files end the run, others refuse it.
Compare(k, v) ==
  /\ writer[k][v].phase = "staged"
  /\ Writer(k, v, IF directory[k] = Absent THEN "placing" ELSE "ended", writer[k][v].holds)
  /\ UNCHANGED <<directory, reader, removals>>

\* os.replace of one directory by another succeeds only over an empty one,
\* which one half removed may be.
Place(k, v) ==
  /\ writer[k][v].phase = "placing"
  /\ \/ /\ ~directory[k].whole
        /\ directory' = [directory EXCEPT ![k] = Whole(writer[k][v].holds)]
     \/ /\ directory[k] # Absent
        /\ UNCHANGED directory
  /\ Writer(k, v, "ended", writer[k][v].holds)
  /\ UNCHANGED <<reader, removals>>

\* The operator removes a directory, file by file, to build it again.
StartRemoval(k) ==
  /\ removals < RemovalLimit
  /\ directory[k].whole
  /\ directory' = [directory EXCEPT ![k].whole = FALSE]
  /\ removals' = removals + 1
  /\ UNCHANGED <<writer, reader>>

EndRemoval(k) ==
  /\ directory[k] # Absent /\ ~directory[k].whole
  /\ directory' = [directory EXCEPT ![k] = Absent]
  /\ UNCHANGED <<writer, reader, removals>>

-----------------------------------------------------------------------------
(* The reader.  A read of a whole directory succeeds; of one half removed  *)
(* it may fail; a check that fails ends the start.                         *)

Runtime == reader.role = "runtime"
At(step) == reader.step = step

Goes(step, held) ==
  /\ reader' = [reader EXCEPT !.step = step, !.held = held]
  /\ UNCHANGED <<directory, writer, removals>>
Fails == Goes("failed", NothingHeld)

\* Read a file of directory k that must be of one of the accepted versions,
\* and keep its version under the given name.
Reads(k, accepted, name, step) ==
  \/ \E c \in accepted : Has(k, c) /\ Goes(step, [reader.held EXCEPT ![name] = c])
  \/ /\ \A c \in accepted : Has(k, c) => ~directory[k].whole
     /\ Fails

\* verify_artifact_sha256 of the model manifest, against the pin, which also
\* names the dataset the index must be compatible with.
VerifyModelManifest ==
  /\ Runtime /\ At("begun")
  /\ Reads("model", {reader.pin.model}, "dataset", "bound")

\* _load_dataset_binding.
BindDataset ==
  /\ ~Runtime /\ At("begun")
  /\ Reads("dataset", Versions, "dataset", "bound")

\* load_knn_model: the manifest, the hashes of the arrays, the arrays.
ReadModelManifest == At("bound") /\ Reads("model", Versions, "model", "described")
HashArrays ==
  At("described") /\ Reads("model", {reader.held.model}, "model", "hashed")
LoadVectors == At("hashed") /\ Reads("model", Versions, "vectors", "half_read")
LoadRefs == At("half_read") /\ Reads("model", Versions, "refs", "read")

\* Their logical hashes must be the declared ones, and the identity computed
\* from them the expected one.
ArraysWereHashed == TRUE                                     \* mutant
ArraysAreDeclared == reader.held.vectors = reader.held.model /\ reader.held.refs = reader.held.model

AcceptModel ==
  /\ At("read")
  /\ IF ArraysAreDeclared /\ (Runtime => reader.held.model = reader.pin.model)
     THEN Goes(IF Runtime THEN "model" ELSE "index_verified", reader.held)
     ELSE Fails

VerifyIndexManifest ==
  At("model") /\ Reads("index", {reader.pin.index}, "index", "index_verified")

\* load_similarity_index: the manifest must state the expected dataset and, for
\* a runtime, the pinned identity; then every file is taken from the bytes
\* whose hash was checked.
Compatible(c) == c = reader.held.dataset /\ (Runtime => c = reader.pin.index)
ReadIndexManifest ==
  At("index_verified") /\ Reads("index", {c \in Versions : Compatible(c)}, "index", "index_described")
ReadIndexFiles ==
  At("index_described") /\ Reads("index", {reader.held.index}, "index", "index_read")

\* The last comparisons of _compose_artifacts_runtime, and of
\* freeze_evaluation_plan.
JoinChain ==
  /\ At("index_read")
  /\ IF /\ reader.held.index = reader.held.model
        /\ ~Runtime => reader.held.model = reader.held.dataset
     THEN Goes(IF Runtime THEN "ready" ELSE "frozen", reader.held)
     ELSE Fails

\* _load_holdout_once.
ReadHoldout ==
  At("frozen") /\ Reads("dataset", {reader.held.dataset}, "holdout", "ready")

ReaderStep ==
  \/ VerifyModelManifest \/ BindDataset \/ ReadModelManifest \/ HashArrays
  \/ LoadVectors \/ LoadRefs \/ AcceptModel \/ VerifyIndexManifest
  \/ ReadIndexManifest \/ ReadIndexFiles \/ JoinChain \/ ReadHoldout

\* Steps of the writer of one kind and version that need no training.
WriterStep(k, v) ==
  Compare(k, v) \/ Place(k, v)

IndexStep(v) == SnapshotModelManifest(v) \/ SnapshotModelArrays(v)
OperatorStep(k) == StartRemoval(k) \/ EndRemoval(k)

ChainNext ==
  \/ ReaderStep
  \/ \E v \in Versions : IndexStep(v)
  \/ \E k \in Kinds : OperatorStep(k) \/ \E v \in Versions : Stage(k, v) \/ WriterStep(k, v)

ChainSpec == ChainInit /\ [][ChainNext]_chainVars

-----------------------------------------------------------------------------

\* A runtime that starts, and an evaluation that runs, hold the parts of one
\* version: the arrays the model manifest declares, although they are hashed
\* and loaded in separate reads, the index made from that very model, and for
\* an evaluation the dataset it was trained on with its own holdout.
RuntimeIsOneChain ==
  At("ready") =>
    /\ reader.held.vectors = reader.held.model
    /\ reader.held.refs = reader.held.model
    /\ reader.held.index = reader.held.model
    /\ Runtime => reader.held.model = reader.pin.model
    /\ ~Runtime => {reader.held.dataset, reader.held.holdout} = {reader.held.model}

=============================================================================
