---------------------------- MODULE WorkbookFile ----------------------------
(***************************************************************************)
(* A project file as a workbook: exported, worked on by an analyst in a    *)
(* spreadsheet program, and read again (generate/spreadsheet.py).  A sheet *)
(* is a sequence of labelled rows, which are found by their labels and not *)
(* by their places; a figure has a type in the file, another in its cell   *)
(* and maybe a third when it comes back.  The sheet of formulas, which is  *)
(* not read back, is Workbook.                                             *)
(***************************************************************************)
EXTENDS Integers, Sequences, SequencesExt

CONSTANTS
    Exported,      \* what is exported: label -> value, or series of values
    Series,        \* the labels that have a series: the lines of the statements
    IntegerFields, \* INTEGER_FIELDS
    Texts,         \* the labels that have text
    Typed,         \* [Labels -> SUBSET of cells]: what an analyst may type
    MaxChanges     \* bound: edits of the workbook

Labels == DOMAIN Exported
Figures == Labels \ (Texts \cup IntegerFields \cup Series)

\* Numbers are in halves, so that the odd ones are not whole.
IsWhole(n) == n % 2 = 0

\* A value of the file has a kind: "int", "float", "text" or "null".  So has a
\* cell: "whole" or "real", as it is written, "text", "formula", "date" or "blank".
ASSUME FileConstants ==
    /\ IsFiniteSet(Labels) /\ Series \cup IntegerFields \cup Texts \subseteq Labels
    /\ Series \cap (IntegerFields \cup Texts) = {} /\ IntegerFields \cap Texts = {}
    /\ \A l \in Labels \ Series : Exported[l].kind =
          IF l \in Texts THEN "text" ELSE IF l \in IntegerFields THEN "int" ELSE "float"
    /\ \A l \in Series : \A y \in DOMAIN Exported[l] : Exported[l][y].kind \in {"float", "null"}
    /\ \A l \in IntegerFields : IsWhole(Exported[l].of)

\* Labels are no headings or remarks; what is typed is a figure where one
\* belongs, and is written "whole" if it is.
ASSUME TypedConstants ==
    /\ Labels \cap {"header", "remark"} = {}
    /\ \A l \in Labels : \A c \in Typed[l] :
          /\ c = [of |-> c.of, kind |-> c.kind]
          /\ c.kind \in IF l \in Texts THEN {"text", "date"}
                         ELSE {"whole", "real"} \cup (IF l \in Series THEN {"blank"} ELSE {})
          /\ c.kind = "whole" => IsWhole(c.of)

VARIABLES
    sheets,        \* "fields" and "statements": sequences of rows
    meant,         \* history: what the analyst has typed, by label
    spoiled,       \* history: a row is gone, a header moved, or a type is wrong
    reading,       \* "none", "refused" or "ingested": after that nothing moves
    changes        \* bound: how many edits there have been

workbook == <<sheets, meant, spoiled, reading, changes>>

-----------------------------------------------------------------------------
(* Writing.                                                                *)

\* _append: text is text whatever it begins with, and a float is written as one.
Cell(v) ==
    [of |-> v.of, kind |-> CASE v.kind = "int" -> "whole" [] v.kind = "float" -> "real"
                             [] v.kind = "text" -> "text" [] v.kind = "null" -> "blank"]

Header == [label |-> "header", cells |-> <<>>]
Remark == [label |-> "remark", cells |-> <<>>]

FieldRow(l) == [label |-> l, cells |-> <<Cell(Exported[l])>>]
StatementRow(l) == [label |-> l, cells |-> [y \in DOMAIN Exported[l] |-> Cell(Exported[l][y])]]

\* _write_pairs, _write_provenance and _write_statements, with their footnotes.
Written ==
    LET rows(labels, row(_)) ==
          <<Header>> \o [i \in 1 .. Len(SetToSeq(labels)) |-> row(SetToSeq(labels)[i])]
                     \o <<Remark>>
    IN  [fields |-> rows(Labels \ Series, FieldRow),
         statements |-> rows(Series, StatementRow)]

-----------------------------------------------------------------------------
(* Reading.                                                                *)

\* What the library makes of a cell; a formula has no value until it is
\* calculated.
Value(c) ==
    [of |-> IF c.kind = "formula" THEN 0 ELSE c.of,
     kind |-> CASE c.kind = "whole" -> "int" [] c.kind = "real" -> "float"
                [] c.kind \in {"blank", "formula"} -> "null" [] OTHER -> c.kind]

\* Mutant: the type of a cell is taken as it comes.
NarrowNothing(l, v) == v

\* _narrow: a whole float of an integer field, and a date as its text.
Narrow(l, v) ==
    IF l \in IntegerFields /\ v.kind = "float" /\ IsWhole(v.of) THEN [v EXCEPT !.kind = "int"]
    ELSE IF v.kind = "date" THEN [v EXCEPT !.kind = "text"] ELSE v

\* read_workbook: float(value), or null.
Floated(v) == IF v.kind = "int" THEN [v EXCEPT !.kind = "float"] ELSE v

\* The rows below the header's place, the last of two with one label.
RowOf(rows, l) == SelectLastInSubSeq(rows, 2, Len(rows), LAMBDA r : r.label = l)

Found(rows, labels) == \A l \in labels : RowOf(rows, l) # 0

\* The years are read off the first row, whatever it is.
Readable ==
    /\ Found(sheets.fields, Labels \ Series)
    /\ Head(sheets.statements).label = "header"

ReadField(l) == Narrow(l, Value(sheets.fields[RowOf(sheets.fields, l)].cells[1]))
ReadSeries(l) ==
    LET cells == sheets.statements[RowOf(sheets.statements, l)].cells
    IN  [y \in DOMAIN cells |-> Floated(Value(cells[y]))]

ReadWorkbook == [l \in Labels |-> IF l \in Series THEN ReadSeries(l) ELSE ReadField(l)]

\* ProjectFile: every field is there, and of its type.  The years a null may
\* stand in are the gate's to judge.
Accepted(file) ==
    /\ \A l \in Texts : file[l].kind = "text"
    /\ \A l \in IntegerFields : file[l].kind = "int"
    /\ \A l \in Figures : file[l].kind \in {"int", "float"}
    /\ \A l \in Series : \A y \in DOMAIN file[l] : file[l][y].kind \in {"float", "null"}

-----------------------------------------------------------------------------
(* The analyst, with a spreadsheet program, and the two commands.           *)

FileInit ==
    /\ sheets = Written
    /\ meant = [l \in Labels |-> IF l \in Series
                                 THEN [y \in DOMAIN Exported[l] |-> Exported[l][y].of]
                                 ELSE <<Exported[l].of>>]
    /\ spoiled = FALSE
    /\ reading = "none"
    /\ changes = 0

Change == reading = "none" /\ changes < MaxChanges /\ changes' = changes + 1 /\ UNCHANGED reading

\* A number, a date or a text is typed over what is there.
TypeCell(sheet, i, j, c) ==
    LET l == sheets[sheet][i].label
    IN  /\ Change
        /\ l \in Labels /\ c \in Typed[l]
        /\ sheets' = [sheets EXCEPT ![sheet][i].cells[j] = c]
        /\ meant' = [meant EXCEPT ![l][j] = c.of]
        /\ spoiled' = \/ spoiled
                      \/ l \in IntegerFields /\ ~IsWhole(c.of)

\* Rows are sorted, or one is moved.
MoveRow(sheet, i) ==
    /\ Change
    /\ i < Len(sheets[sheet])
    /\ sheets' = [sheets EXCEPT ![sheet][i] = sheets[sheet][i + 1],
                                ![sheet][i + 1] = sheets[sheet][i]]
    /\ spoiled' = (spoiled \/ i = 1)
    /\ UNCHANGED meant

InsertRemark(sheet, i) ==
    /\ Change
    /\ sheets' = [sheets EXCEPT ![sheet] = InsertAt(@, i, Remark)]
    /\ spoiled' = (spoiled \/ i = 1)
    /\ UNCHANGED meant

DeleteRow(sheet, i) ==
    /\ Change
    /\ sheets' = [sheets EXCEPT ![sheet] = RemoveAt(@, i)]
    /\ spoiled' = (spoiled \/ sheets[sheet][i].label # "remark")
    /\ UNCHANGED meant

\* Saved by a program that has one numeric type.
Recast(c) == IF c.kind = "real" /\ IsWhole(c.of) THEN [c EXCEPT !.kind = "whole"] ELSE c

Save ==
    /\ Change
    /\ sheets' = [s \in DOMAIN sheets |->
                   [i \in DOMAIN sheets[s] |->
                     [sheets[s][i] EXCEPT !.cells = [j \in DOMAIN @ |-> Recast(@[j])]]]]
    /\ UNCHANGED <<meant, spoiled>>

\* _ingest, as far as the schema: what the statements say of each other is the
\* gate's.  A statement that is missing has no place in the file.
IngestBook ==
    /\ reading = "none"
    /\ reading' = IF Readable /\ Found(sheets.statements, Series) /\ Accepted(ReadWorkbook)
                  THEN "ingested" ELSE "refused"
    /\ UNCHANGED <<sheets, meant, spoiled, changes>>

FileNext ==
    \/ \E s \in DOMAIN sheets : \E i \in DOMAIN sheets[s] :
          \/ \E j \in DOMAIN sheets[s][i].cells, c \in UNION {Typed[l] : l \in Labels} :
                TypeCell(s, i, j, c)
          \/ MoveRow(s, i) \/ InsertRemark(s, i) \/ DeleteRow(s, i)
    \/ Save \/ IngestBook

FileSpec == FileInit /\ [][FileNext]_workbook

-----------------------------------------------------------------------------
(* Properties.                                                             *)

\* A workbook that is ingested gives the file it was made from with what the
\* analyst typed and nothing else.  It is refused only for a row that is gone,
\* a header that is not first, or a fraction where a whole number belongs: not
\* because rows were moved or remarks put between them, nor because the program
\* changed the types of the cells (spreadsheet.py, _append, _narrow,
\* read_workbook).
IngestedAsTyped ==
    /\ reading = "refused" => spoiled
    /\ reading = "ingested" =>
          LET file == ReadWorkbook
          IN  \A l \in Labels :
                meant[l] = IF l \in Series THEN [y \in DOMAIN file[l] |-> file[l][y].of]
                           ELSE <<file[l].of>>
=============================================================================
