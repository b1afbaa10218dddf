--------------------------- MODULE DatasetProfile ---------------------------
(***************************************************************************)
(* What the dataset inspector makes of a CSV file: the profile of a        *)
(* bounded sample, which methods are selected and specifications validated *)
(* by, and the exact preflights, which read the two columns of an          *)
(* inferential analysis completely.                                        *)
(*                                                                         *)
(* A cell is a text from a few that stand for the kinds the inspector      *)
(* tells apart.  A file is a record: where it lies and what fstat says of  *)
(* it, its content hash, its header cells, and its rows of cells, which    *)
(* need not have the header's width.                                       *)
(***************************************************************************)
EXTENDS Integers, Sequences, FiniteSets

CONSTANTS
    SampleRows,   \* max_sample_rows
    SampleCells,  \* _MAX_SAMPLE_CELLS
    Listed,       \* _LOW_CARDINALITY_LIMIT
    IdNames       \* the column names _ID_NAME_PATTERN matches

Least(a, b) == IF a <= b THEN a ELSE b
Most(a, b) == IF a >= b THEN a ELSE b
-----------------------------------------------------------------------------
(* Cells                                                                   *)

MissingTexts == {"", "n/a"}
BooleanTexts == {"true", "no"}
DateTexts == {"2024-01-31"}
DecimalTexts == {"2.0"}
NumberOf ==
    [text \in {"1", "01", "2", "2.0", "3", "-5"} |->
        CASE text \in {"1", "01"} -> 1
          [] text \in {"2", "2.0"} -> 2
          [] text = "3" -> 3
          [] text = "-5" -> -5]
Numbers == DOMAIN NumberOf

\* _classify_value
Kind(text) ==
    CASE text \in BooleanTexts -> "boolean"
      [] text \in DecimalTexts -> "number"
      [] text \in Numbers \ DecimalTexts -> "integer"
      [] text \in DateTexts -> "datetime"
      [] OTHER -> "string"

\* _safe_display: what a spreadsheet would take for a formula is quoted.
Formulas == {"-5", "=a"}
Shown(text) == IF text \in Formulas THEN "'" \o text ELSE text
-----------------------------------------------------------------------------
(* The file                                                                *)

\* A file has a header, whose cells are shown by their text or their place; Altered is the
\* hash of a content no file has, Elsewhere names columns none has.
Altered == "h2"
Elsewhere == <<"other", "another">>
HeaderCells == [text : STRING, stripped : STRING, shown : STRING \ {"", Elsewhere[1]}]
CsvFiles ==
    [place : STRING, kind : STRING, links : Nat, size : STRING, moving : BOOLEAN,
     hash : STRING \ {Altered}, nul : BOOLEAN, banner : BOOLEAN,
     header : Seq(HeaderCells) \ {<<>>}, rows : Seq(Seq(STRING))]

\* The path is inside the workspace and crosses no link, the file is a regular one
\* with one name, neither empty nor too large, it is the content that was expected
\* and stays the same while it is read, and it is text.
Opens(file, expected) ==
    /\ file.place = "inside" /\ file.kind = "regular" /\ file.links = 1
    /\ file.size = "fits"
    /\ ~file.moving /\ file.hash = expected /\ ~file.nul

\* A header cell has the text read, that text without the blanks around it, and what
\* is shown of it: the column's name everywhere but in the program that is run.
Width(file) == Len(file.header)
Names(file) == [i \in DOMAIN file.header |-> file.header[i].shown]
Renamed(file) == \E i \in DOMAIN file.header : file.header[i].shown # file.header[i].stripped
Repeats(names) == \E i, j \in DOMAIN names : i < j /\ names[i] = names[j]
ColumnAt(file, name) == CHOOSE i \in DOMAIN file.header : file.header[i].shown = name

\* _sample_row: missing fields are padded and extra fields are ignored.
Cell(file, row, i) == IF i <= Len(file.rows[row]) THEN file.rows[row][i] ELSE ""
Rows(file) == DOMAIN file.rows

\* _sample_target: the first rows and a reservoir of the others.
Capacity(file) == Least(SampleRows, Most(1, SampleCells \div Width(file)))
Samples(file) ==
    LET taken == Least(Len(file.rows), Capacity(file))
        head == Least(taken, (Capacity(file) + 1) \div 2)
    IN  {sample \in SUBSET Rows(file) : Cardinality(sample) = taken /\ 1 .. head \subseteq sample}
-----------------------------------------------------------------------------
(* The profile                                                             *)

InferredType(kinds, unique) ==
    CASE kinds = {} -> "empty"
      [] kinds = {"integer"} -> "integer"
      [] kinds # {} /\ kinds # {"integer"} /\ kinds \subseteq {"integer", "number"} -> "number"
      [] kinds = {"string"} -> IF unique <= Listed THEN "categorical" ELSE "string"
      [] kinds \in {{"boolean"}, {"datetime"}} -> CHOOSE kind \in kinds : TRUE
      [] OTHER -> "mixed"

\* _profile_column.  Values are told apart by their texts, numbers by their value
\* only in the range.
Column(name, cells) ==
    LET present == {k \in DOMAIN cells : cells[k] \notin MissingTexts}
        texts == {cells[k] : k \in present}
        type == InferredType({Kind(t) : t \in texts}, Cardinality(texts))
        listed == type = "categorical"
    IN  [name |-> name, type |-> type, mixed |-> type = "mixed",
         missing |-> Cardinality(DOMAIN cells \ present),
         unique |-> Cardinality(texts),
         range |-> IF type = "mixed" THEN {} ELSE {NumberOf[t] : t \in texts \cap Numbers},
         listed |-> listed,
         values |-> IF listed THEN {Shown(t) : t \in texts} ELSE {},
         id |-> /\ Cardinality(present) >= 2
                /\ 100 * Cardinality(texts) >= 98 * Cardinality(present)
                /\ name \in IdNames \/ type = "string"]

\* Of the warnings only the two that make the profile lossy are ever read again.
Lossy(file, sample) ==
    \/ Renamed(file)
    \/ \E k \in sample, i \in DOMAIN file.header :
          Shown(Cell(file, k, i)) # Cell(file, k, i)

\* inspect_csv_dataset
ProfileOf(file, sample) ==
    [columns |-> [i \in DOMAIN file.header |->
                     Column(Names(file)[i], [k \in sample |-> Cell(file, k, i)])],
     hash |-> file.hash, rows |-> Len(file.rows), profiled |-> Cardinality(sample),
     lossy |-> Lossy(file, sample)]

Complete(profile) == profile.profiled = profile.rows
-----------------------------------------------------------------------------
(* The exact preflights                                                    *)

\* What both refuse: a name that is not the source's, a row of another width, a value
\* of a numeric column that is no number.
ExactMut(file, expected, names) ==
    /\ Opens(file, expected)
    /\ ~Renamed(file) /\ ~Repeats(Names(file))
    /\ \A name \in names : \E i \in DOMAIN file.header : Names(file)[i] = name
Exact(file, expected, names) ==
    /\ Opens(file, expected)
    /\ ~Renamed(file) /\ ~Repeats(Names(file))
    /\ \A name \in names : \E i \in DOMAIN file.header : Names(file)[i] = name
    /\ \A k \in Rows(file) : Len(file.rows[k]) = Width(file)
NumbersOnly(file, name) ==
    \A k \in Rows(file) : Cell(file, k, ColumnAt(file, name)) \in MissingTexts \cup Numbers

NoPreflight == [exact |-> FALSE, refused |-> FALSE]
Refused == [exact |-> FALSE, refused |-> TRUE]

\* The numbers of one group, by row.
GroupNumbers(file, outcome, group, value) ==
    LET o == ColumnAt(file, outcome)
        rows == {k \in Rows(file) : /\ Cell(file, k, ColumnAt(file, group)) = value
                                    /\ Cell(file, k, o) \in Numbers}
    IN  [k \in rows |-> NumberOf[Cell(file, k, o)]]
Varies(numbers) == \E j, k \in DOMAIN numbers : numbers[j] # numbers[k]

TwoGroupPreflight(file, expected, outcome, group, groups) ==
    IF Exact(file, expected, {outcome, group}) /\ NumbersOnly(file, outcome)
    THEN [exact |-> TRUE, refused |-> FALSE,
          counts |-> [v \in groups |->
                         Cardinality(DOMAIN GroupNumbers(file, outcome, group, v))],
          varies |-> [v \in groups |-> Varies(GroupNumbers(file, outcome, group, v))]]
    ELSE Refused

Pairs(file, x, y) ==
    {k \in Rows(file) : \A name \in {x, y} : Cell(file, k, ColumnAt(file, name)) \in Numbers}

CorrelationPreflight(file, expected, x, y) ==
    IF Exact(file, expected, {x, y}) /\ NumbersOnly(file, x) /\ NumbersOnly(file, y)
    THEN [exact |-> TRUE, refused |-> FALSE, pairs |-> Cardinality(Pairs(file, x, y))]
    ELSE Refused
=============================================================================
