---------------------------- MODULE SourceContract ----------------------------
(***************************************************************************)
(* The contract of the raw banner table (data/contract.py): which columns, *)
(* in which order, and what each cell may hold.  Validation goes in stages *)
(* and a stage that finds something hides what later ones would find.      *)
(*                                                                         *)
(* A frame is a parsed table, [columns, rows], rows mapping the columns to *)
(* cells.  One pair of redundant measures stands for the numeric columns;  *)
(* a cell is a number, an instant or a label, all natural, or one of the   *)
(* marks below.                                                            *)
(*                                                                         *)
(* The second half is what the labels of such a table must be              *)
(* (data/fault_labels.py): a raw label is normalized as text, never by     *)
(* meaning, and turned into a slug; the inventory of a source lists its    *)
(* raw labels with their frequencies, and labels that become equal need    *)
(* the approval of exactly their group.  A label is its place in Spelling, *)
(* where it is written as a sequence of characters; a character stands for *)
(* others that are treated alike.                                          *)
(***************************************************************************)
EXTENDS Integers, FiniteSets, SequencesExt

Catalog == <<"id", "created_at", "left", "right", "fault">>
Measures == {"left", "right"}
Declared == ToSet(Catalog)

Missing == -1    \* an empty CSV cell
Infinite == -2   \* in a measure only
Improper == -3   \* outside the domain: a measure below its physical minimum,
                 \* text that is no instant of the profile, a blank label

\* Bytes read_csv raises for: a row too long, or text that is not UTF-8.
Unparseable == [columns |-> <<>>, rows |-> <<>>, readable |-> FALSE]
Table(columns, rows) == [columns |-> columns, rows |-> rows, readable |-> TRUE]

Present(f, c) == c \in ToSet(f.columns)
Cells(f, c) == [n \in DOMAIN f.rows |-> f.rows[n][c]]
Holding(f, c, marks) == Cardinality({n \in DOMAIN f.rows : f.rows[n][c] \in marks})

\* banner_value_violates_domain.  An identifier the parser accepted is in its
\* domain.
ViolatesDomain(c, cell) == c # "id" /\ cell \in {Infinite, Improper}

-----------------------------------------------------------------------------

Finding(code, c) == [code |-> code, column |-> c]

\* _validate_structure.  The parser renames a repeated column, so a table of
\* another width lacks a column or has a further one.
StructureFindings(f) ==
  IF f.columns = Catalog THEN {}
  ELSE IF Len(f.columns) = Len(Catalog)
  THEN IF ToSet(f.columns) = Declared THEN {Finding("column_order_mismatch", "none")}
       ELSE {Finding("column_name_mismatch", Catalog[n]) :
               n \in {m \in DOMAIN Catalog : Catalog[m] # f.columns[m]}}
  ELSE {Finding("column_missing", c) : c \in Declared \ ToSet(f.columns)}
       \union {Finding("column_extra", "none") : c \in ToSet(f.columns) \ Declared}

MissingFindings(f) ==
  {Finding(IF c \in Measures THEN "nan_not_allowed" ELSE "null_not_allowed", c) :
     c \in {d \in Declared : Holding(f, d, {Missing}) > 0}}

InfiniteFindings(f) ==
  {Finding("infinite_not_allowed", c) : c \in {d \in Measures : Holding(f, d, {Infinite}) > 0}}

\* The checks of the schema, after the stages above found nothing.
DomainCode(c) ==
  CASE c \in Measures -> "physical_lower_bound"
    [] c = "created_at" -> "timestamp_format"
    [] c = "fault" -> "empty_fault"
DomainFindings(f) ==
  {Finding(DomainCode(c), c) :
     c \in {d \in Declared \ {"id"} : \E n \in DOMAIN f.rows : ViolatesDomain(d, f.rows[n][d])}}

WithoutInfinities(f) ==                                      \* mutant
  IF StructureFindings(f) # {} THEN StructureFindings(f) ELSE MissingFindings(f)

\* validate_banner_dataframe without an allowlist: the blocking violations.
\* The stage on dtypes follows the one on missing values; the parser was given
\* the dtypes, so it finds nothing.
Report(f) ==
  IF StructureFindings(f) # {} THEN StructureFindings(f)
  ELSE IF MissingFindings(f) # {} THEN MissingFindings(f)
  ELSE IF InfiniteFindings(f) # {} THEN InfiniteFindings(f)
  ELSE DomainFindings(f)

-----------------------------------------------------------------------------
(* Fault labels.                                                           *)

CONSTANT Spelling   \* raw labels, as sequences of characters

Characters == {"a", "b", "c", "A", "wide a", "nbsp", " ", "-", "_", "%", "e acute", "control"}

ASSUME SpellingAssumption == \A l \in DOMAIN Spelling : ToSet(Spelling[l]) \subseteq Characters

\* NFKC and casefold, where they do something.
Composed(ch) == CASE ch = "wide a" -> "a" [] ch = "nbsp" -> " " [] OTHER -> ch
Folded(ch) == IF ch = "A" THEN "a" ELSE ch
Whitespace == {" ", "nbsp"}
Separators == {"-", "_"}

\* _collapse_frozen_whitespace, which also trims.
Collapsed(text) ==
  LET kept == SelectSeq([n \in DOMAIN text |-> n],
                LAMBDA n : \/ text[n] \notin Whitespace
                           \/ /\ n < Len(text) /\ text[n + 1] \notin Whitespace
                              /\ \E m \in 1..n - 1 : text[m] \notin Whitespace)
  IN  [n \in DOMAIN kept |-> IF text[kept[n]] \in Whitespace THEN " " ELSE text[kept[n]]]

Separated(text) ==
  Collapsed([n \in DOMAIN text |-> IF text[n] \in Separators THEN " " ELSE text[n]])

Composition(text) == [n \in DOMAIN text |-> Composed(text[n])]
Folding(text) == [n \in DOMAIN text |-> Folded(text[n])]

NormalizedButSeparators(l) == Folding(Collapsed(Composition(Spelling[l])))    \* mutant
\* normalize_fault_label.
Normalized(l) == Separated(Folding(Collapsed(Composition(Spelling[l]))))
Acceptable(l) == "control" \notin ToSet(Spelling[l]) /\ Normalized(l) # <<>>

\* _stable_slug: letters and digits stay, a space is a hyphen, anything else
\* the escapes of its bytes.
Escaped(ch) ==
  CASE ch \in {"a", "b", "c"} -> <<ch>>
    [] ch = " " -> <<"-">>
    [] ch = "%" -> <<"%", "2", "5">>
    [] ch = "e acute" -> <<"%", "C", "3", "%", "A", "9">>
    [] OTHER -> <<"%", "?">>
Slug(l) ==
  LET text == Normalized(l) IN FlattenSeq([n \in DOMAIN text |-> Escaped(text[n])])

-----------------------------------------------------------------------------
(* A round over the source.                                                *)

\* _analyze_fault_descriptor reads the label column only, and refuses a label
\* that is missing, blank or cannot be normalized.
Readable(f) == f.readable /\ Present(f, "fault")
Inventoried(f) ==
  \A n \in DOMAIN f.rows : f.rows[n]["fault"] >= 0 /\ Acceptable(f.rows[n]["fault"])

Frequencies(f) ==
  LET labels == Cells(f, "fault")
  IN  [l \in ToSet(labels) |-> Cardinality({n \in DOMAIN labels : labels[n] = l})]

\* _collision_groups.
TextGroups(labels) ==
  {g \in {{k \in labels : Normalized(k) = Normalized(l)} : l \in labels} : Cardinality(g) > 1}
SlugGroups(labels) ==
  {g \in {{Normalized(k) : k \in {m \in labels : Slug(m) = Slug(l)}} : l \in labels} :
     Cardinality(g) > 1}

\* The order of the refusals of run_fault_label_inventory, for two equal
\* rounds; expects are the counts of the baseline.
InventoryRefusal(frequencies, rows, expects, approvals) ==
  LET labels == DOMAIN frequencies
  IN  CASE rows # expects.rows -> "row_count_mismatch"
        [] rows = expects.rows /\ Cardinality(labels) # expects.labels -> "label_count_mismatch"
        [] OTHER ->
             IF SlugGroups(labels) # {} THEN "slug_collision"
             ELSE IF ~ approvals \subseteq TextGroups(labels) THEN "approval_invalid"
             ELSE IF approvals # TextGroups(labels) THEN "collision_unresolved"
             ELSE "none"

\* _validate_inventory_payload, by any reader with the manifest's version and
\* the counts of its baseline.
InventoryIsValid(inventory, v, expects) ==
  LET labels == DOMAIN inventory.frequencies
  IN  /\ inventory.of = v
      /\ inventory.expects = expects
      /\ Cardinality(labels) = expects.labels
      /\ FoldFunction(+, 0, inventory.frequencies) = expects.rows
      /\ \A l \in labels : inventory.frequencies[l] > 0 /\ Acceptable(l)
      /\ SlugGroups(labels) = {}

\* The label of a record is the first of its slug.
LabelOf(l) == CHOOSE k \in DOMAIN Spelling :
  Slug(k) = Slug(l) /\ \A m \in DOMAIN Spelling : Slug(m) = Slug(l) => k <= m

=============================================================================
