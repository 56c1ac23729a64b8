--------------------------- MODULE ArtifactDocuments ---------------------------
(***************************************************************************)
(* From the stored extractions to the documents a runtime cites: the       *)
(* extraction is chunked and represented (data/document_indexing.py), and  *)
(* a runtime loads the extractions its manifest pins, byte for byte        *)
(* (analysis_artifact_documents.py), while extraction runs may replace     *)
(* them.                                                                   *)
(***************************************************************************)
EXTENDS SourceExtraction

VARIABLES
    bindings,   \* ArtifactsManifest.documents, pinned by its own hash in the settings
    runtime     \* what the last start of the API made of them

documentVars == <<extraction, bindings, runtime>>

--------------------------------------------------------------------------------
(* Chunking of one extraction.                                              *)

\* _parse_extraction: what the indexer keeps of it, the pages numbered from 1.
Structured(payload) ==
    [name |-> payload.name, source |-> payload.source, status |-> payload.status,
     adapter |-> payload.adapter,
     pages |-> [n \in DOMAIN payload.pages |-> [number |-> n] @@ payload.pages[n]]]

\* ExtractionProvenance.
Provenance(document, page) ==
    [source |-> document.source, status |-> document.status, adapter |-> document.adapter,
     page |-> page.number, method |-> page.method, quality |-> page.status,
     signals |-> page.signals, failure |-> page.failure]

\* One chunk, with everything chunk_id is a digest of.
Chunk(document, page, n, title, k, source, content) ==
    [document |-> document.name, version |-> document.source,
     page |-> page.number, section |-> n, title |-> title, piece |-> k,
     from |-> source[1], to |-> source[2], content |-> content,
     provenance |-> Provenance(document, page)]

\* The chunks of section n of a page, cut at the given bounds.
SectionChunks(document, page, items, n, section, bounds) ==
    [k \in DOMAIN bounds |->
       LET from == section.from + bounds[k][1]
           to == section.from + bounds[k][2]
       IN  Chunk(document, page, n, section.title, k, SourceBounds(items, from, to),
                 Slice(Characters(items), from, to))]

SectionsChunks(document, page, items, sections) ==
    FlattenSeq([n \in DOMAIN sections |->
      SectionChunks(document, page, items, n, sections[n],
                    ChunkBounds(Slice(Characters(items), sections[n].from, sections[n].to)))])

CleanedChunks(document, page, items) ==
    IF items = <<>> THEN <<>>
    ELSE SectionsChunks(document, page, items, Sections(Characters(items)))

PageChunks(document, page) == CleanedChunks(document, page, Cleaned(page.text))

\* _page_failure: the page's own failure comes before what chunking says of it.
PageFailures(document) ==
    {[page |-> page.number,
      code |-> IF page.failure # "none" THEN page.failure
               ELSE IF page.text = <<>> THEN "chunking.page_text_unavailable"
               ELSE "chunking.page_empty_after_cleanup"] :
     page \in {p \in ToSet(document.pages) : Cleaned(p.text) = <<>>}}

WithOrdinals(chunks) == [i \in DOMAIN chunks |-> [ordinal |-> i] @@ chunks[i]]

\* chunk_extracted_document: one ordinal per chunk, through all pages.
ChunksOf(document) ==
    WithOrdinals(FlattenSeq([n \in DOMAIN document.pages |->
                               PageChunks(document, document.pages[n])]))

\* _chunking_status; an embedding made here never fails, so that this is also
\* _indexing_status.
IndexingStatus(document, chunks) ==
    CASE chunks = <<>> -> "failed"
      [] chunks # <<>> /\ PageFailures(document) # {} -> "partial"
      [] OTHER ->
           IF document.status = "completed" /\ Statuses(document.pages) = {"extracted"}
           THEN "completed" ELSE "attention_required"

\* document_chunk_id: a digest of where the chunk is and of what it says, but
\* not of how its page was extracted.
ChunkId(chunk) ==
    [key \in DOMAIN chunk \ {"provenance"} |-> chunk[key]]

ChunkIds(chunks) == [i \in DOMAIN chunks |-> ChunkId(chunks[i])]

\* index_extracted_document with LocalHashEmbeddingProvider, which represents
\* every chunk.
IndexedAs(document, chunks) ==
    [document |-> document.name, version |-> document.source,
     status |-> IndexingStatus(document, chunks), chunks |-> chunks]

Indexed(payload) == IndexedAs(Structured(payload), ChunksOf(Structured(payload)))

--------------------------------------------------------------------------------
(* The runtime.                                                             *)

NotStarted == [phase |-> "not_started", loaded |-> <<>>, lifecycle |-> <<>>, metadata |-> {}]
Refused == [phase |-> "refused", loaded |-> <<>>, lifecycle |-> <<>>, metadata |-> {}]

StoredAt == {at \in DOMAIN artifacts : artifacts[at] # NoFile}

\* External: somebody reviews stored extractions and pins them, in some order,
\* numbered as versions of their documents, with the chunks they have now.
\* Once in a behaviour (a bound).
Binding(at, number) ==
    [at |-> at, extraction |-> artifacts[at], version |-> number,
     document |-> at[1], source |-> at[2],
     chunks |-> ChunkIds(Indexed(artifacts[at]).chunks)]

Numbered(pinned) ==
    {numbers \in [DOMAIN pinned -> 1..Len(pinned)] :
       May("failures") \/ \A i \in DOMAIN pinned :
         numbers[i] = Cardinality({j \in 1..i : pinned[j][1] = pinned[i][1]})}

Pin ==
    /\ bindings = <<>> /\ StoredAt # {}
    /\ \E pinned \in {s \in UNION {[1..n -> StoredAt] : n \in {1, 2}} : IsInjective(s)} :
         \E numbers \in Numbered(pinned) :
           bindings' = [i \in DOMAIN pinned |-> Binding(pinned[i], numbers[i])]
    /\ UNCHANGED <<extraction, runtime>>

AcceptsAnyStatus(binding) ==                                              \* mutant
    /\ artifacts[binding.at] = binding.extraction
    /\ LET result == Indexed(artifacts[binding.at])
       IN  result.chunks # <<>> /\ ChunkIds(result.chunks) = binding.chunks
Describes(binding, result) ==
    /\ result.status = "completed" /\ result.chunks # <<>>
    /\ result.document = binding.document /\ result.version = binding.source
    /\ ChunkIds(result.chunks) = binding.chunks

\* _load_documents, of one binding.
Accepts(binding) ==
    /\ artifacts[binding.at] = binding.extraction    \* its bytes have the hash pinned
    /\ Describes(binding, Indexed(artifacts[binding.at]))

\* No version and no chunk twice, and the versions of a document are 1 to n.
Consistent ==
    /\ \A i, j \in DOMAIN bindings : i # j =>
         /\ <<bindings[i].document, bindings[i].source>> # <<bindings[j].document, bindings[j].source>>
         /\ ToSet(bindings[i].chunks) \cap ToSet(bindings[j].chunks) = {}
    /\ \A i \in DOMAIN bindings :
         LET versions == SelectSeq(bindings, LAMBDA b : b.document = bindings[i].document)
         IN  {versions[k].version : k \in DOMAIN versions} = 1..Len(versions)

\* _build_lifecycle: register, start, extraction, indexing and approve for each
\* version in turn; the approval of the next supersedes it.
Commands == 5
Lifecycle(loaded) ==
    LET documents == {loaded[i].document : i \in DOMAIN loaded}
        Of(d) == {loaded[i] : i \in {i \in DOMAIN loaded : loaded[i].document = d}}
    IN  [d \in documents |->
           [revision |-> Commands * Cardinality(Of(d)),
            effective |-> (CHOOSE b \in Of(d) : b.version = Cardinality(Of(d))).source]]

\* _persistence_documents: the rows analyses refer to.
Metadata(loaded) ==
    {[document |-> loaded[i].document, source |-> loaded[i].source,
      chunks |-> loaded[i].chunks] : i \in DOMAIN loaded}

\* build_artifact_document_runtime: all of the bindings or nothing.  With
\* PostgreSQL the rows stored there must describe the same versions and chunks.
Load ==
    /\ bindings # <<>> /\ runtime = NotStarted
    /\ \/ /\ Consistent /\ \A i \in DOMAIN bindings : Accepts(bindings[i])
          /\ runtime' = [phase |-> "serving",
                         lifecycle |-> Lifecycle(bindings),
                         metadata |-> Metadata(bindings),
                         loaded |-> [i \in DOMAIN bindings |->
                           [extraction |-> artifacts[bindings[i].at],
                            chunks |-> Indexed(artifacts[bindings[i].at]).chunks]]]
       \/ /\ ~Consistent \/ (\E i \in DOMAIN bindings : ~Accepts(bindings[i])) \/ May("failures")
          /\ runtime' = Refused
    /\ UNCHANGED <<extraction, bindings>>

Stop ==
    /\ May("failures") /\ runtime # NotStarted
    /\ runtime' = NotStarted
    /\ UNCHANGED <<extraction, bindings>>

DocumentsInit == ExtractionInit /\ bindings = <<>> /\ runtime = NotStarted

Extract == ExtractionStep /\ UNCHANGED <<bindings, runtime>>

DocumentsNext == Extract \/ Pin \/ Load \/ Stop

DocumentsSpec == DocumentsInit /\ [][DocumentsNext]_documentVars

--------------------------------------------------------------------------------
(* Properties.                                                              *)

Loaded == {runtime.loaded[i] : i \in DOMAIN runtime.loaded}

\* README of the API, on chunks: cleaning the slice of the page that a chunk
\* points at gives its content.  Here for everything a runtime may cite.
CitationsLocateContent ==
    \A d \in Loaded : \A i \in DOMAIN d.chunks :
        LET chunk == d.chunks[i]
            text == d.extraction.pages[chunk.page].text
        IN  Characters(Cleaned(Slice(text, chunk.from, chunk.to))) = chunk.content

\* What a reader of the page sees is in some chunk of it.  The chunker alone
\* does not promise this: it drops controls, and a letter joined to a blank.
\* The signals of the extraction, the status made of them and the runtime's
\* refusal of anything but a completed document do.
NothingVisibleIsLost ==
    \A d \in Loaded : \A n \in DOMAIN d.extraction.pages :
        LET text == d.extraction.pages[n].text
        IN  \A i \in {i \in DOMAIN text : text[i] \notin Blank \cup {Mark}} :
              \E k \in DOMAIN d.chunks :
                /\ d.chunks[k].page = n
                /\ d.chunks[k].from < i /\ i <= d.chunks[k].to

WholeGraphemes(text) == \A i \in 1..Len(text) - 1 : ~Boundary(text, i)

\* Whatever was extracted and could be indexed: no chunk begins or ends within
\* a grapheme, and only a single grapheme is longer than the limit (or one that
\* a joiner ties to a blank, where a break was preferred).
ChunksFitTheLimit ==
    run = Idle =>
      \A at \in StoredAt : \A chunk \in ToSet(Indexed(artifacts[at]).chunks) :
        LET text == artifacts[at].pages[chunk.page].text
            Cut(i) == /\ i > 0 /\ i < Len(text) /\ At(text, i - 1) \notin Blank \cup Controls
                      /\ At(text, i) = Mark
        IN  /\ ~Cut(chunk.from) /\ ~Cut(chunk.to)
            /\ \/ Len(chunk.content) <= MaxCharacters
               \/ WholeGraphemes(chunk.content)
               \/ "zwj" \in ToSet(chunk.content)

\* Everything a runtime may cite is what some adapter reads on the pages of a
\* version the public manifest authorised at some time: not of a file that was
\* edited while it was read, nor of another version, nor of half a document.
\* An analysis that cites it finds the rows its evidence refers to.
CitedTextIsAuthorised ==
    \A d \in Loaded :
      LET document == d.extraction
          content == Version(document.name, document.source)
      IN  /\ \E row \in runtime.metadata :
               /\ row.document = document.name /\ row.source = document.source
               /\ row.chunks = ChunkIds(d.chunks)
          /\ <<document.name, document.source>> \in authorised
          /\ Len(document.pages) = Len(content.pages)
          /\ \A n \in DOMAIN document.pages : \E scan \in content.pages[n].scans :
               document.pages[n] = PageOf(content.pages[n], document.adapter, scan)

================================================================================
