----------------------------- MODULE DocumentText -----------------------------
(***************************************************************************)
(* A .tsvt file and the document read from it (internal/engine/grid.go     *)
(* and document.go): the grid of its rows, and a layout that keeps where   *)
(* its comment lines stood between them.                                   *)
(*                                                                         *)
(* A line of a file is the sequence of its fields, each written as the     *)
(* cell it parses to; a line has at least one field, blank if the line is  *)
(* empty.  A document is [cells, layout].                                  *)
(***************************************************************************)
EXTENDS Structural

CONSTANTS HashText,    \* texts that begin with "# "
          BangText,    \* texts that begin with "#!"
          Malformed,   \* texts that begin with "=" and do not parse
          BoolColumns  \* the columns TRUE and FALSE, whose cells read as constants

ASSUME HashAssumption == Blank \notin HashText \cup BangText \cup Malformed

FileLine == Seq(Cell) \ {<<>>}
File == Seq(FileLine)

\* A line of the layout: a comment held verbatim, or a marker for the next row.
DocLine == [isRow : BOOLEAN, comment : Seq(Cell)]

Marker == [isRow |-> TRUE, comment |-> <<>>]
Comment(line) == [isRow |-> FALSE, comment |-> line]

Document == [cells : Grid, layout : Seq(DocLine)]

\* A shebang is a comment on the first line only.
IsComment(file, i) == LET first == file[i][1].text IN
                      first \in HashText \/ (i = 1 /\ first \in BangText)

-----------------------------------------------------------------------------

Markers(layout) == {i \in DOMAIN layout : layout[i].isRow}

MarkersBefore(layout, i) == Cardinality({j \in Markers(layout) : j < i})

\* Where the marker of a row stands; one past the end when there is none.
MarkerIndex(layout, row) ==
  IF row \in 0..(Cardinality(Markers(layout)) - 1)
  THEN CHOOSE i \in Markers(layout) : MarkersBefore(layout, i) = row
  ELSE Len(layout) + 1

\* Mutant: one marker, however many rows the grid grew by.
AppendMarker(layout, n) == IF n > 0 THEN Append(layout, Marker) ELSE layout

AppendMarkers(layout, n) == layout \o [k \in 1..n |-> Marker]

\* Mutant: the marker goes right after that of the row above.
SpliceAfter(layout, row) ==
  InsertAt(layout, IF row = 0 THEN 1 ELSE MarkerIndex(layout, row - 1) + 1, Marker)

SpliceMarker(layout, row) == InsertAt(layout, MarkerIndex(layout, row), Marker)

RemoveMarker(layout, row) == RemoveAt(layout, MarkerIndex(layout, row))

-----------------------------------------------------------------------------

LayoutOf(file) == [i \in DOMAIN file |-> IF IsComment(file, i) THEN Comment(file[i]) ELSE Marker]

Columns(ref) == IF ref.kind \in {"cell", "call"} THEN {ref.from["col"]}
                ELSE IF ref.kind \in {"range", "foreign"} THEN {ref.from["col"], ref.to["col"]}
                ELSE {}

\* The text of a cell parses.  A printed formula need not: a call may have lost the
\* parentheses it needs, and TRUE1 is a constant before a number.
Readable(c) ==
  /\ c.text \notin Malformed
  /\ \A i \in DOMAIN c.refs : /\ Columns(c.refs[i]) \cap BoolColumns = {}
                              /\ c.refs[i] = Misspelt => ~c.rendered

\* What is not readable fails the whole file; in a comment it is not looked at.
Parses(file) == \A i \in Markers(LayoutOf(file)) :
                  \A k \in DOMAIN file[i] : Readable(file[i][k])

ParseDocument(file) ==
  LET layout == LayoutOf(file) IN
  [cells  |-> [r \in 1..Cardinality(Markers(layout)) |-> file[MarkerIndex(layout, r - 1)]],
   layout |-> layout]

\* The cell that the text of a cell reads as: in a printed formula the calls that are
\* spelled like cells are cells.
AsRead(c) ==
  [c EXCEPT !.refs = [i \in DOMAIN c.refs |->
     IF c.rendered /\ c.refs[i].kind = "call" THEN [kind |-> "cell", from |-> c.refs[i].from]
     ELSE c.refs[i]]]

\* A row with no cells is written as an empty line, and that line has one field.
Fields(row) == IF row = <<>> THEN <<BlankCell>> ELSE [k \in DOMAIN row |-> AsRead(row[k])]

TextOf(doc) ==
  [i \in DOMAIN doc.layout |->
     IF doc.layout[i].isRow THEN Fields(doc.cells[MarkersBefore(doc.layout, i) + 1])
     ELSE doc.layout[i].comment]

-----------------------------------------------------------------------------
(***************************************************************************)
(* The operations on a document: that of the sheet, and the layout with it.*)
(***************************************************************************)

DocSetCell(doc, row, col, c) ==
  LET cells == Set(doc.cells, row, col, c) IN
  [cells  |-> cells,
   layout |-> AppendMarkers(doc.layout, Len(cells) - Len(doc.cells))]

DocInsertRow(doc, at) ==
  LET cells == InsertRowOf(doc.cells, at) IN
  IF Len(cells) = Len(doc.cells) THEN doc
  ELSE [cells  |-> cells,
        layout |-> SpliceMarker(doc.layout, Lower(at, Len(doc.cells)))]

DocDeleteRow(doc, at) ==
  LET cells == DeleteRowOf(doc.cells, at) IN
  IF Len(cells) = Len(doc.cells) THEN doc
  ELSE [cells |-> cells, layout |-> RemoveMarker(doc.layout, at)]

\* Column operations never touch the line layout.
DocInsertCol(doc, at) == [cells |-> InsertColOf(doc.cells, at), layout |-> doc.layout]

DocDeleteCol(doc, at) == [cells |-> DeleteColOf(doc.cells, at), layout |-> doc.layout]

-----------------------------------------------------------------------------

\* The k-th number of a set, in order.
Nth(S, k) == CHOOSE i \in S : Cardinality({j \in S : j < i}) = k - 1
=============================================================================
