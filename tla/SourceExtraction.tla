--------------------------- MODULE SourceExtraction ----------------------------
(***************************************************************************)
(* Inventory and extraction of the authorised PDFs (data/                  *)
(* source_documents.py).  A run reads the public manifest once and then    *)
(* takes the documents one after the other: it hashes the open file, reads *)
(* it page by page, hashes it again, and replaces the artifact kept for    *)
(* that hash; the inventory is written last.  Meanwhile the files may be   *)
(* edited in place and the manifest published anew, and a run may be cut   *)
(* off anywhere.                                                           *)
(*                                                                         *)
(* A file holds one of the versions its origin lists, and the number of a  *)
(* version stands for its hash.  A version is [readable, size, pages]; a   *)
(* page is [native, scans]: the text pdfium finds, and what recognising    *)
(* its image may give, a [text, confidence] or a failure.                  *)
(***************************************************************************)
EXTENDS PageText

CONSTANTS
    Names,      \* SOURCE_DOCUMENT_NAMES, in their order
    Origins     \* the sources and the mishaps each behaviour may meet

VARIABLES
    origin,     \* [versions, mishaps, adapters, runs]: one of Origins
    file,       \* the version each file holds
    manifest,   \* the version of each file the public manifest authorises (0: no entry)
    output,     \* the directory given for the artifacts
    run,        \* where the run is
    artifacts,  \* what is stored under each <<name, version>>
    inventory,  \* inventory.v1.json
    runs,       \* runs that may still start (a bound)
    torn,       \* history: the last run did not reach its inventory
    authorised  \* history: everything the manifest ever authorised

extraction == <<origin, file, manifest, output, run, artifacts, inventory, runs, torn, authorised>>

NameSet == {Names[i] : i \in DOMAIN Names}

PdfPages == [native : Seq(STRING), scans : SUBSET [text : Seq(STRING), confidence : STRING]]
PdfFiles == [readable : BOOLEAN, size : Nat, pages : Seq(PdfPages)]
ASSUME ExtractionAssumption ==
    /\ Names \in Seq(STRING) /\ IsInjective(Names)
    /\ \A o \in Origins : /\ o.versions \in [NameSet -> Seq(PdfFiles) \ {<<>>}]
                          /\ o.runs \in Nat
Version(name, v) == origin.versions[name][v]
NoAdapter == "none"
Unreadable == <<"unreadable">>     \* get_textpage or get_text_range raises
Unavailable == <<"unavailable">>   \* the page itself cannot be loaded
NoFile == [source |-> 0]           \* nothing is stored

May(mishap) == mishap \in origin.mishaps

--------------------------------------------------------------------------------
(* One page.                                                                *)

Page(method, status, text, signals, failure) ==
    [method |-> method, status |-> status, text |-> text,
     signals |-> signals, failure |-> failure]

\* _ocr_failure_page: what the PDF says of the page is better than nothing.
RecognitionFailed(native, failure) ==
    IF Visible(native) > 0
    THEN Page("native", "suspect", native, Signals(native, "native"), failure)
    ELSE Page("ocr", "failed", <<>>, Signals(<<>>, "native"), failure)

\* _extract_page_with_ocr.
Recognised(native, scan) ==
    CASE scan.confidence = "raises"  -> RecognitionFailed(native, "page.ocr_failed")
      [] scan.confidence = "invalid" -> RecognitionFailed(native, "page.ocr_invalid_result")
      [] OTHER ->
           LET text == Normalized(scan.text)
               signals == Signals(text, scan.confidence)
           IN  IF Visible(text) = 0 THEN RecognitionFailed(native, "page.ocr_empty")
               ELSE Page("ocr", IF signals = {} THEN "extracted" ELSE "suspect",
                         text, signals, "none")

\* _extract_page.
PageOf(page, adapter, scan) ==
    LET native == IF page.native = Unreadable THEN <<>> ELSE Normalized(page.native)
        signals == Signals(native, "native")
        trigger == IF page.native = Unreadable THEN {"unreadable"} ELSE signals
        Native(status) == Page("native", status, native, signals, "none")
    IN  CASE page.native = Unavailable ->
               Page("none", "failed", <<>>, Signals(<<>>, "native"), "page.unavailable")
          [] page.native # Unavailable /\ trigger = {} -> Native("extracted")
          [] page.native # Unavailable /\ trigger # {} /\ Visible(native) > 0
             /\ trigger \subseteq ReviewOnly ->
               Native("suspect")
          [] OTHER ->
               IF adapter # NoAdapter THEN Recognised(native, scan)
               ELSE IF Visible(native) > 0 THEN Native("suspect")
               ELSE Page("none", "ocr_required", <<>>, signals, "none")

--------------------------------------------------------------------------------
(* One document.                                                            *)

Statuses(pages) == {pages[i].status : i \in DOMAIN pages}

\* _document_status.
DocumentStatus(pages) ==
    CASE Statuses(pages) \subseteq {"failed"} -> "failed"
      [] "failed" \in Statuses(pages) /\ Statuses(pages) # {"failed"} -> "partial"
      [] OTHER -> IF "ocr_required" \in Statuses(pages) THEN "ocr_required"
                  ELSE IF "suspect" \in Statuses(pages) THEN "attention_required"
                  ELSE "completed"

\* _DocumentExtraction; source 0: no fingerprint, hence no artifact.
Extraction(name, source, pages, failure) ==
    [name |-> name, source |-> source, pages |-> pages, failure |-> failure,
     status |-> IF failure = "none" THEN DocumentStatus(pages) ELSE "failed"]

\* _failed_document.
FailedDocument(name, failure) == Extraction(name, 0, <<>>, failure)

\* _initial_integrity_failure finds nothing to say: size, then hash.
Authentic(actual, expected) == actual = expected

\* _document_payload: what extraction.v1.json says.
Payload(document, adapter) ==
    [adapter |-> adapter, name |-> document.name, source |-> document.source,
     pages |-> document.pages, failure |-> document.failure, status |-> document.status]

\* _inventory_status.
InventoryStatus(documents) ==
    LET found == {documents[i].status : i \in DOMAIN documents}
    IN  CASE found \cap {"failed", "partial"} # {} -> "partial"
          [] found \subseteq {"completed", "attention_required", "ocr_required"} ->
               IF "ocr_required" \in found THEN "ocr_required"
               ELSE IF "attention_required" \in found THEN "attention_required"
               ELSE "completed"

\* _page_counts.
PageCounts(pages) ==
    LET Count(P(_)) == Cardinality({i \in DOMAIN pages : P(pages[i])})
    IN  [native |-> Count(LAMBDA p : p.method = "native"),
         ocr |-> Count(LAMBDA p : p.method = "ocr"),
         required |-> Count(LAMBDA p : p.status = "ocr_required"),
         suspect |-> Count(LAMBDA p : p.status = "suspect"),
         failed |-> Count(LAMBDA p : p.status = "failed")]

\* _inventory_document_payload.
InventoryEntry(document) ==
    [name |-> document.name, source |-> document.source, status |-> document.status,
     failure |-> document.failure, counts |-> PageCounts(document.pages)]

\* _inventory_payload.
InventoryOf(documents, adapter) ==
    [adapter |-> adapter, status |-> InventoryStatus(documents),
     documents |-> [i \in DOMAIN documents |-> InventoryEntry(documents[i])]]

--------------------------------------------------------------------------------
(* The run.                                                                 *)

Idle == [phase |-> "idle"]
Current == Names[run.at]
Sources == <<origin, file, manifest, output, authorised>>

Outputs ==
    {[linked |-> FALSE, worktree |-> "inside", ignored |-> TRUE],
     [linked |-> FALSE, worktree |-> "inside", ignored |-> FALSE],
     [linked |-> TRUE, worktree |-> "outside", ignored |-> FALSE],
     [linked |-> FALSE, worktree |-> "unknown", ignored |-> TRUE]}

\* _safe_output_path: no component of the path is a link.
SafePath(o) == ~o.linked
\* _git_worktree_root: Git says which worktree the path is in, or there is none.
WorktreeIsKnown(o) == o.worktree # "unknown"
\* git check-ignore.
Ignored(o) == o.worktree = "outside" \/ o.ignored
\* _require_git_ignored, before each file is written.
Protected == SafePath(output) /\ WorktreeIsKnown(output) /\ Ignored(output)

\* _load_manifest: every document has its entry.
Complete(entries) == \A name \in NameSet : entries[name] # 0

\* extract_source_documents, up to its loop: the manifest is read once.
Start(adapter) ==
    /\ run = Idle /\ runs > 0
    /\ Protected /\ Complete(manifest)
    /\ runs' = runs - 1
    /\ run' = [phase |-> "next", at |-> 1, adapter |-> adapter, manifest |-> manifest,
               before |-> 0, count |-> 0, pages |-> <<>>, failure |-> "none", done |-> <<>>]
    /\ torn' = TRUE
    /\ UNCHANGED <<Sources, artifacts, inventory>>

\* The document is done, and no artifact is written for it.
Report(document) ==
    run' = [run EXCEPT !.phase = "next", !.at = @ + 1, !.done = Append(@, document)]

\* The file cannot be opened or read, is not the one authorised, or is a PDF
\* whose pages are read next.
Open ==
    /\ run.phase = "next" /\ run.at <= Len(Names)
    /\ LET before == file[Current]
           content == Version(Current, before)
       IN  \/ /\ May("failures")
              /\ Report(FailedDocument(Current, "document.source_access_failed"))
           \/ /\ ~Authentic(before, run.manifest[Current])
              /\ Report(FailedDocument(Current,
                   IF content.size # Version(Current, run.manifest[Current]).size
                   THEN "document.source_size_mismatch"
                   ELSE "document.source_hash_mismatch"))
           \/ /\ Authentic(before, run.manifest[Current])
              /\ run' = [run EXCEPT !.phase = "pages", !.before = before,
                           !.count = Len(content.pages), !.pages = <<>>,
                           !.failure = IF content.readable THEN "none"
                                       ELSE "document.pdf_unreadable"]
    /\ UNCHANGED <<Sources, artifacts, inventory, runs, torn>>

\* The next page, of what the file holds by now.
ReadPage ==
    /\ run.phase = "pages" /\ run.failure = "none" /\ Len(run.pages) < run.count
    /\ LET content == Version(Current, file[Current])
           n == Len(run.pages) + 1
       IN  IF ~content.readable \/ n > Len(content.pages)
           THEN run' = [run EXCEPT !.failure = "document.pdf_processing_failed"]
           ELSE \E scan \in content.pages[n].scans :
                   run' = [run EXCEPT !.pages =
                             Append(@, PageOf(content.pages[n], run.adapter, scan))]
    /\ UNCHANGED <<Sources, artifacts, inventory, runs, torn>>

CloseUnchecked == run' = [run EXCEPT !.phase = "write"]      \* mutant
\* _extract_document: the second fingerprint decides over everything else.
CloseDocument ==
    IF file[Current] # run.before
    THEN Report(FailedDocument(Current, "document.source_changed"))
    ELSE run' = [run EXCEPT !.phase = "write"]

Close ==
    /\ run.phase = "pages"
    /\ run.failure # "none" \/ Len(run.pages) = run.count
    /\ CloseDocument
    /\ UNCHANGED <<Sources, artifacts, inventory, runs, torn>>

Document ==
    Extraction(Current, run.before, IF run.failure = "none" THEN run.pages ELSE <<>>,
               run.failure)

KeepArtifact(old, new) == IF old = NoFile THEN new ELSE old               \* mutant
\* _write_json_if_changed: the file is replaced in one step, or left alone
\* because it says the same already.
Replaced(old, new) == new

Write ==
    /\ run.phase = "write" /\ Protected
    /\ artifacts' = [artifacts EXCEPT ![<<Current, run.before>>] =
                       Replaced(@, Payload(Document, run.adapter))]
    /\ Report(Document)
    /\ UNCHANGED <<Sources, inventory, runs, torn>>

Finish ==
    /\ run.phase = "next" /\ run.at > Len(Names) /\ Protected
    /\ inventory' = InventoryOf(run.done, run.adapter)
    /\ torn' = FALSE
    /\ run' = Idle
    /\ UNCHANGED <<Sources, artifacts, runs>>

\* A write is refused or fails (SourceDocumentOutputError).
FailToWrite ==
    /\ run.phase = "write" \/ (run.phase = "next" /\ run.at > Len(Names))
    /\ ~Protected \/ May("failures")
    /\ run' = Idle
    /\ UNCHANGED <<Sources, artifacts, inventory, runs, torn>>

\* The process ends.
Crash ==
    /\ May("failures") /\ run # Idle
    /\ run' = Idle
    /\ UNCHANGED <<Sources, artifacts, inventory, runs, torn>>

\* External: a file is edited in place, never back to what it was.
Edit(name) ==
    /\ file[name] < Len(origin.versions[name])
    /\ file' = [file EXCEPT ![name] = @ + 1]
    /\ UNCHANGED <<origin, manifest, output, run, artifacts, inventory, runs, torn, authorised>>

\* External: the directory is no longer a safe one (a link, tracked by Git, or
\* Git does not answer); once in a behaviour (a bound).
ChangeOutput ==
    /\ May("output") /\ Protected
    /\ output' \in Outputs \ {output}
    /\ UNCHANGED <<origin, file, manifest, run, artifacts, inventory, runs, torn, authorised>>

\* External: an entry of the public manifest is lost.
LoseEntry(name) ==
    /\ May("output") /\ manifest[name] # 0
    /\ manifest' = [manifest EXCEPT ![name] = 0]
    /\ UNCHANGED <<origin, file, output, run, artifacts, inventory, runs, torn, authorised>>

\* External: the public manifest is published for what the file holds.
Publish(name) ==
    /\ manifest[name] # file[name]
    /\ manifest' = [manifest EXCEPT ![name] = file[name]]
    /\ authorised' = authorised \cup {<<name, file[name]>>}
    /\ UNCHANGED <<origin, file, output, run, artifacts, inventory, runs, torn>>

ExtractionInit ==
    /\ origin \in Origins
    /\ file = [name \in NameSet |-> 1]
    /\ manifest = file
    /\ output = [linked |-> FALSE, worktree |-> "inside", ignored |-> TRUE]
    /\ run = Idle
    /\ artifacts = [at \in UNION {{name} \X DOMAIN origin.versions[name] : name \in NameSet} |-> NoFile]
    /\ inventory = NoFile
    /\ runs = origin.runs
    /\ torn = FALSE
    /\ authorised = {<<name, 1>> : name \in NameSet}

ExtractionStep ==
    \/ \E adapter \in origin.adapters : Start(adapter)
    \/ Open \/ ReadPage \/ Close \/ Write \/ Finish \/ FailToWrite \/ Crash \/ ChangeOutput
    \/ \E name \in NameSet : Edit(name) \/ Publish(name) \/ LoseEntry(name)

--------------------------------------------------------------------------------
(* Properties.                                                              *)

\* Unless a run was cut off, the inventory speaks of the artifacts that are
\* stored: same adapter, same state, same page counts, whatever older
\* inventories, other versions and earlier attempts left behind.
InventoryMatchesArtifacts ==
    ~torn /\ inventory # NoFile =>
        \A i \in DOMAIN inventory.documents :
            LET entry == inventory.documents[i]
            IN  entry.source # 0 =>
                  LET stored == artifacts[<<entry.name, entry.source>>]
                  IN  /\ stored # NoFile
                      /\ stored.adapter = inventory.adapter
                      /\ InventoryEntry(stored) = entry

================================================================================
