------------------------------- MODULE PageText --------------------------------
(***************************************************************************)
(* What happens to the text of one page between the PDF and the chunks:    *)
(* it is normalised and its quality measured (data/source_documents.py),   *)
(* then cleaned with a map back to the source, split into sections and cut *)
(* into chunks that never cut a grapheme (data/document_indexing.py).      *)
(*                                                                         *)
(* A text is a sequence of characters; one character stands for each class *)
(* the code tells apart.  Offsets are the code's: from 0, half open.       *)
(***************************************************************************)
EXTENDS Naturals, Sequences, FiniteSets, SequencesExt, FiniteSetsExt

CONSTANTS
    MaxCharacters,      \* ChunkingConfiguration.max_characters (at least 32)
    OverlapCharacters,  \* ChunkingConfiguration.overlap_characters
    MinAlphanumeric     \* _MINIMUM_ALPHANUMERIC_CHARACTERS (12)

ASSUME ChunkingAssumption ==
    /\ MaxCharacters \in Nat \ {0} /\ OverlapCharacters \in Nat
    /\ OverlapCharacters < MaxCharacters
    /\ MinAlphanumeric \in Nat

--------------------------------------------------------------------------------
(* Characters.                                                              *)

Blank == {" ", "nl", "cr", "ff"}          \* isspace
Alphanumeric == {"a", "A"}                \* isalnum: a lower and an upper case letter
Controls == {"cr", "ff", "nul", "zwj"}    \* category Cc or Cf, but not \n and \t
Mark == "mark"                            \* category M, selectors and modifiers
Replacement == "fffd"

At(text, i) == text[i + 1]
Slice(text, from, to) == SubSeq(text, from + 1, to)

\* The items of a sequence at the positions that pass a test.
Those(s, Pass(_)) ==
    LET at == SelectSeq([i \in DOMAIN s |-> i], Pass)
    IN  [n \in DOMAIN at |-> s[at[n]]]

\* A sequence without what it begins and ends with.
Stripped(s, Drop(_)) ==
    LET kept == {i \in DOMAIN s : ~Drop(s[i])}
    IN  IF kept = {} THEN <<>> ELSE SubSeq(s, Min(kept), Max(kept))

SecondOfPair(text, i) == i > 1 /\ text[i] = "nl" /\ text[i - 1] = "cr"

--------------------------------------------------------------------------------
(* Extraction: the text of a page and its quality.                          *)

\* _normalize_text.
Normalized(text) ==
    LET joined == Those(text, LAMBDA i : ~SecondOfPair(text, i))
        plain == [i \in DOMAIN joined |->
                    CASE joined[i] = "cr" -> "nl"
                      [] joined[i] = "surrogate" -> Replacement
                      [] OTHER -> joined[i]]
    IN  Stripped(plain, LAMBDA c : c \in Blank)

Number(text, kind) == Cardinality({i \in DOMAIN text : text[i] \in kind})
Visible(text) == Len(text) - Number(text, Blank)

\* _measure_text: the signals.  confidence says how the recogniser felt about
\* the page: nothing reported, a low mean or a low point, or good throughout.
Signals(text, confidence) ==
    LET letters == Number(text, Alphanumeric)
    IN  (IF Visible(text) = 0 THEN {"empty"}
         ELSE (IF letters < MinAlphanumeric THEN {"too_short"} ELSE {}) \cup
              (IF 2 * letters < Visible(text) THEN {"low_ratio"} ELSE {}))
        \cup (IF Number(text, {Replacement}) > 0 THEN {"replacement"} ELSE {})
        \cup (IF Number(text, Controls) > 0 THEN {"control"} ELSE {})
        \cup (IF confidence \in {"unreported", "low"} THEN {confidence} ELSE {})

\* Worth a look by a person, but not worth an OCR (_NATIVE_REVIEW_ONLY_SIGNALS).
ReviewOnly == {"too_short", "low_ratio"}

--------------------------------------------------------------------------------
(* Cleaning, with the span of the source each character stands for.         *)

Removed == {"nul"}          \* _REMOVED_TECHNICAL_NOISE
Newlines == {"cr", "ff"}    \* normalised to a line break here

\* The characters that are not noise, line breaks made alike.
Denoised(text) ==
    LET item == [i \in DOMAIN text |->
           [char |-> IF text[i] \in Newlines THEN "nl" ELSE text[i],
            from |-> i - 1,
            to |-> IF i < Len(text) /\ SecondOfPair(text, i + 1) THEN i + 1 ELSE i]]
    IN  Those(item, LAMBDA i : text[i] \notin Removed /\ ~SecondOfPair(text, i))

\* Item i is a blank with nothing but blanks between it and the end of its line.
EndsLine(items, i) ==
    \E k \in i + 1..Len(items) + 1 :
        /\ k > Len(items) \/ items[k].char = "nl"
        /\ \A n \in i..k - 1 : items[n].char = " "

\* The fourth line break in a row, or a later one.
Surplus(items, i) == i > 3 /\ \A n \in i - 3..i : items[n].char = "nl"

LinesTrimmed(items) == Those(items, LAMBDA i : ~EndsLine(items, i))
LinesCollapsed(items) == Those(items, LAMBDA i : ~Surplus(items, i))

\* _clean_technical_noise_with_mapping.
Cleaned(text) ==
    Stripped(LinesCollapsed(LinesTrimmed(Denoised(text))), LAMBDA item : item.char = "nl")

SpanOfCleanedText(items, from, to) == <<from, to>>                       \* mutant
\* _CleanedPageText.source_bounds.
SourceBounds(items, from, to) == <<items[from + 1].from, items[to].to>>

Characters(items) == [i \in DOMAIN items |-> items[i].char]

--------------------------------------------------------------------------------
(* Graphemes.                                                               *)

BoundaryOfMarks(text, i) ==                                              \* mutant
    i <= 0 \/ i >= Len(text) \/ At(text, i) # "zwj"
\* _is_grapheme_boundary.
Boundary(text, i) ==
    \/ i <= 0 \/ i >= Len(text)
    \/ At(text, i) \notin {Mark, "zwj"} /\ At(text, i - 1) # "zwj"

NextBoundary(text, i, maximum) ==
    Min({k \in i..maximum : k = maximum \/ Boundary(text, k)})
PreviousBoundary(text, i, minimum) ==
    Max({k \in minimum..i : k = minimum \/ Boundary(text, k)})

\* From i on, the first grapheme that does not begin with a blank.
SkipBlanks(text, i, maximum) ==
    LET skip[k \in i..maximum] ==
          IF k < maximum /\ At(text, k) \in Blank
          THEN skip[NextBoundary(text, k + 1, maximum)] ELSE k
    IN  skip[i]

\* _trim_bounds.
Trimmed(text, from, to) ==
    LET start == SkipBlanks(text, from, to)
    IN  <<start,
          Max({k \in start..to :
                 k = start \/ ~(At(text, k - 1) \in Blank /\ Boundary(text, k - 1))})>>

--------------------------------------------------------------------------------
(* Sections.                                                                *)

LineFrom(text, i) ==
    Slice(text, i, Min({k \in i..Len(text) : k = Len(text) \/ At(text, k) = "nl"}))

NoTitle == <<>>
\* _heading_title: a Markdown heading, or a line of upper case letters that does
\* not end like a sentence.  The limits of 120 characters and 12 words are wide.
TitleOf(text) ==
    LET hashes == {n \in 1..6 : n < Len(text) /\ text[n + 1] = " "
                              /\ \A i \in 1..n : text[i] = "#"}
    IN  IF hashes # {}
        THEN Stripped(Slice(text, Max(hashes), Len(text)), LAMBDA c : c \in Blank)
        ELSE IF text # <<>> /\ Last(text) # "." /\ Number(text, {"A"}) > 0
                /\ Number(text, {"a"}) = 0
             THEN text ELSE NoTitle

Title(line) == TitleOf(Stripped(line, LAMBDA c : c \in Blank))

LineStarts(text) == {i \in 0..Len(text) - 1 : i = 0 \/ At(text, i - 1) = "nl"}
Headings(text) == {i \in LineStarts(text) : Title(LineFrom(text, i)) # NoTitle}

Section(title, bounds) == [title |-> title, from |-> bounds[1], to |-> bounds[2]]

\* The sections that begin at the given places, in their order.
SectionsFrom(text, starts) ==
    SelectSeq([n \in DOMAIN starts |->
                 Section(Title(LineFrom(text, starts[n])),
                         Trimmed(text, starts[n],
                                 IF n < Len(starts) THEN starts[n + 1] ELSE Len(text)))],
              LAMBDA s : s.from < s.to)

\* _split_sections.
Sections(text) ==
    LET headings == Headings(text)
    IN  IF headings = {} THEN <<Section(NoTitle, <<0, Len(text)>>)>>
        ELSE SectionsFrom(text, SetToSortSeq(headings \cup {0}, <))

--------------------------------------------------------------------------------
(* Chunks of one section.                                                   *)

Delimiters == <<<<"nl", "nl">>, <<"nl">>, <<".", " ">>, <<" ">>>>

\* _preferred_break.
PreferredBreak(text, cursor, hardEnd) ==
    LET least == cursor + Max({(hardEnd - cursor) \div 2, 1})
        found(d) == {p \in least..hardEnd - Len(d) : Slice(text, p, p + Len(d)) = d}
        usable == {n \in DOMAIN Delimiters : found(Delimiters[n]) # {}}
    IN  IF usable = {} THEN hardEnd
        ELSE Max(found(Delimiters[Min(usable)])) + Len(Delimiters[Min(usable)])

\* A chunk ends before its limit, unless it would be empty.
EndBefore(text, cursor, hardEnd) ==
    LET wanted == IF hardEnd = Len(text) THEN hardEnd
                  ELSE PreferredBreak(text, cursor, hardEnd)
        end == PreviousBoundary(text, wanted, cursor)
    IN  IF end = cursor THEN NextBoundary(text, hardEnd, Len(text)) ELSE end

\* Where the chunk that begins at cursor ends, blanks included.
ChunkEnd(text, cursor) == EndBefore(text, cursor, Min({cursor + MaxCharacters, Len(text)}))

NextCursor(text, cursor, end) ==
    SkipBlanks(text, NextBoundary(text, Max({cursor + 1, end - OverlapCharacters}), end), end)

\* The chunks of a text, given where the chunk that begins at each place ends.
BoundsBy(text, end) ==
    LET from[cursor \in 0..Len(text)] ==
          IF cursor = Len(text) THEN <<>>
          ELSE SelectSeq(<<Trimmed(text, cursor, end[cursor])>>, LAMBDA b : b[1] < b[2])
               \o (IF end[cursor] = Len(text) THEN <<>>
                   ELSE from[NextCursor(text, cursor, end[cursor])])
    IN  from[0]

\* _chunk_bounds.
ChunkBounds(text) ==
    BoundsBy(text, [cursor \in 0..Len(text) - 1 |-> ChunkEnd(text, cursor)])

================================================================================
