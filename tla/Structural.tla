------------------------------ MODULE Structural ------------------------------
(***************************************************************************)
(* The grid of cells and the five edits of it: Set, InsertRow, DeleteRow,  *)
(* InsertCol and DeleteCol (internal/engine/model.go and structural.go).   *)
(* Inserting or deleting a line moves cells, and rewrites every reference  *)
(* of every formula so that it follows the cells it named.                 *)
(*                                                                         *)
(* A formula is its text with the references cut out, and the sequence of  *)
(* the references; a literal has none.  Cut out with them are the calls    *)
(* that rendering may misspell.  Rows and columns are counted from 0, as   *)
(* in the code; row 0 of the grid is cells[1].                             *)
(***************************************************************************)
EXTENDS Integers, SequencesExt

CONSTANTS CellText,   \* the texts of cells, references cut out
          Blank       \* the empty text

ASSUME BlankAssumption == Blank \in CellText

Axis == {"row", "col"}

\* A row number written as 0 (A0) parses, and is line -1.
Line == Int

Position == [Axis -> Line]

\* Where a reference stands in its formula the code may put an error instead.
RefError == [kind |-> "#REF!"]

Reference == [kind : {"cell"}, from : Position]
               \cup [kind : {"range", "foreign"}, from : Position, to : Position]

\* A call without arguments whose name ends in digits, LOG10(), is printed without its
\* parentheses (callTail).  In capitals that is spelled like a cell, here from; after a
\* pipe, or in small letters, it is no formula at all.
CellLikeCall == [kind : {"call"}, from : Position]
Misspelt == [kind |-> "misspelt"]

Operand == Reference \cup {RefError} \cup CellLikeCall \cup {Misspelt}

\* rendered: the formula was re-serialised, so its own spelling is gone.  What the
\* new spelling reads as is that of DocumentText.
Cell == [text : CellText, refs : Seq(Operand), rendered : BOOLEAN]

BlankCell == [text |-> Blank, refs |-> <<>>, rendered |-> FALSE]

Row == Seq(Cell)
Grid == Seq(Row)

At(row, col) == [i \in Axis |-> IF i = "row" THEN row ELSE col]

-----------------------------------------------------------------------------
(***************************************************************************)
(* One line is inserted or deleted; coordinates on its axis are shifted.   *)
(***************************************************************************)

Edit == [op : {"insert", "delete"}, axis : Axis, at : Line]

Insert(axis, at) == [op |-> "insert", axis |-> axis, at |-> at]
Delete(axis, at) == [op |-> "delete", axis |-> axis, at |-> at]

\* Mutant: the line inserted before is left out of the shift.
ShiftPast(at, x) == IF x > at THEN x + 1 ELSE x

ShiftUp(at, x) == IF x >= at THEN x + 1 ELSE x

ShiftDown(at, x) == IF x > at THEN x - 1 ELSE x

\* A range's low end at the deleted line stays: the next line slides into it.
DeleteLo(at, x) == ShiftDown(at, x)

\* A range's high end at the deleted line falls back to the line before it.
DeleteHi(at, x) == IF x >= at THEN x - 1 ELSE x

NewLo(e, x) == IF e.op = "insert" THEN ShiftUp(e.at, x) ELSE DeleteLo(e.at, x)
NewHi(e, x) == IF e.op = "insert" THEN ShiftUp(e.at, x) ELSE DeleteHi(e.at, x)

WithLine(p, axis, x) == [p EXCEPT ![axis] = x]

Lower(x, y) == IF x <= y THEN x ELSE y
Higher(x, y) == IF x <= y THEN y ELSE x

ShiftPoint(ref, e) ==
  LET x == ref.from[e.axis] IN
  IF e.op = "delete" /\ x = e.at THEN RefError
  ELSE [kind |-> "cell", from |-> WithLine(ref.from, e.axis, NewLo(e, x))]

\* Mutant: a range is shifted corner by corner, as two cells would be.
ShiftCorners(ref, e) ==
  LET x == ref.from[e.axis]
      y == ref.to[e.axis]
  IN IF NewLo(e, x) > NewHi(e, y) THEN RefError
     ELSE [kind |-> "range", from |-> WithLine(ref.from, e.axis, NewLo(e, x)),
                             to |-> WithLine(ref.to, e.axis, NewHi(e, y))]

\* The corners keep their roles: a reversed range stays reversed.
ShiftSpan(ref, e) ==
  LET x == ref.from[e.axis]
      y == ref.to[e.axis]
      lo == NewLo(e, Lower(x, y))
      hi == NewHi(e, Higher(x, y))
  IN IF lo > hi THEN RefError
     ELSE [kind |-> "range",
           from |-> WithLine(ref.from, e.axis, IF x > y THEN hi ELSE lo),
           to   |-> WithLine(ref.to, e.axis, IF x > y THEN lo ELSE hi)]

\* A cross-sheet reference names cells of another file: no edit of this one moves it.
ShiftReference(ref, e) == IF ref.kind = "cell" THEN ShiftPoint(ref, e)
                          ELSE IF ref.kind = "range" THEN ShiftSpan(ref, e)
                          ELSE ref

\* The saved text becomes the printed formula, which need not read as this one.
RewriteCell(c, e) ==
  LET shifted == [i \in DOMAIN c.refs |-> ShiftReference(c.refs[i], e)] IN
  IF shifted = c.refs THEN c ELSE [text |-> c.text, refs |-> shifted, rendered |-> TRUE]

RewriteRow(row, e) == [c \in DOMAIN row |-> RewriteCell(row[c], e)]

RewriteAll(cells, e) == [r \in DOMAIN cells |-> RewriteRow(cells[r], e)]

-----------------------------------------------------------------------------

Blanks(n) == [c \in 1..n |-> BlankCell]

WidestRow(cells) == Max({0} \cup {Len(cells[r]) : r \in DOMAIN cells})

\* The row falls in at the end when the grid is shorter; references shift by at all the same.
InsertLine(cells, at) == InsertAt(cells, Lower(at, Len(cells)) + 1, Blanks(WidestRow(cells)))

DeleteLine(cells, at) == RemoveAt(cells, at + 1)

InsertColumn(cells, at) ==
  [r \in DOMAIN cells |-> IF at > Len(cells[r]) THEN cells[r]
                          ELSE InsertAt(cells[r], at + 1, BlankCell)]

DeleteColumn(cells, at) ==
  [r \in DOMAIN cells |-> IF at >= Len(cells[r]) THEN cells[r]
                          ELSE RemoveAt(cells[r], at + 1)]

-----------------------------------------------------------------------------
(***************************************************************************)
(* The operations on a sheet.  An edit out of range changes nothing.       *)
(***************************************************************************)

InsertRowOf(cells, at) ==
  IF at < 0 THEN cells ELSE RewriteAll(InsertLine(cells, at), Insert("row", at))

DeleteRowOf(cells, at) ==
  IF at \notin 0..(Len(cells) - 1) THEN cells
  ELSE RewriteAll(DeleteLine(cells, at), Delete("row", at))

InsertColOf(cells, at) ==
  IF at < 0 THEN cells ELSE RewriteAll(InsertColumn(cells, at), Insert("col", at))

DeleteColOf(cells, at) ==
  IF at \notin 0..(WidestRow(cells) - 1) THEN cells
  ELSE RewriteAll(DeleteColumn(cells, at), Delete("col", at))

\* Only the target row is widened; rows the grid grows by have no cells at all.
GrowCells(cells, row, col) ==
  [r \in 1..Higher(Len(cells), row + 1) |->
     LET old == IF r <= Len(cells) THEN cells[r] ELSE <<>>
     IN IF r = row + 1 THEN old \o Blanks(col + 1 - Len(old)) ELSE old]

Set(cells, row, col, c) == [GrowCells(cells, row, col) EXCEPT ![row + 1][col + 1] = c]

-----------------------------------------------------------------------------
(***************************************************************************)
(* What references mean: the lines and the positions they cover, and where *)
(* an edit leaves them.                                                    *)
(***************************************************************************)

\* The lines of an axis a reference covers, whichever corner comes first.
Span(ref, axis) ==
  LET x == ref.from[axis]
      y == IF ref.kind = "cell" THEN x ELSE ref.to[axis]
  IN Lower(x, y)..Higher(x, y)

Hull(ref) == {At(row, col) : row \in Span(ref, "row"), col \in Span(ref, "col")}

InGrid(cells, p) == /\ p["row"] + 1 \in DOMAIN cells
                    /\ p["col"] + 1 \in DOMAIN cells[p["row"] + 1]

TextAt(cells, p) == cells[p["row"] + 1][p["col"] + 1].text

\* The number a line has after an edit; none when the edit deletes it.
After(e, x) == IF e.op = "insert" THEN {IF x < e.at THEN x ELSE x + 1}
               ELSE IF x = e.at THEN {} ELSE {IF x < e.at THEN x ELSE x - 1}

Places(e, p) == {WithLine(p, e.axis, y) : y \in After(e, p[e.axis])}
=============================================================================
