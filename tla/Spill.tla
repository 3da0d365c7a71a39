-------------------------------- MODULE Spill --------------------------------
(***************************************************************************)
(* Rendering the computed values of a sheet (internal/engine/model.go):    *)
(* every cell shows its own text, then each array result, in row-major     *)
(* order, is written down and right from its anchor, or shows #SPILL!      *)
(* there when a cell it would cover is taken.                              *)
(*                                                                         *)
(* A cell is a literal, or a formula with its value: a text, or an array.  *)
(* Rows and columns are counted from 0; the sheet is ragged, what it is    *)
(* rendered to is not.                                                     *)
(***************************************************************************)
EXTENDS Integers, Sequences, FiniteSetsExt

CONSTANTS Text,        \* what a cell may show
          Blank,       \* the empty text
          SpillError,  \* "#SPILL!"
          Sheets       \* the sheets rendered

ASSUME TextAssumption == Blank \in Text /\ SpillError \in Text

\* An array has at least one row, and rows of one length.
IsArray(v) == /\ v.kind = "array"
              /\ v.height \in Nat \ {0} /\ v.width \in Nat \ {0}
              /\ v.texts \in [0..(v.height - 1) -> [0..(v.width - 1) -> Text]]

IsCell(v) == v \in [kind : {"literal", "scalar"}, text : Text] \/ IsArray(v)

ASSUME SheetsAssumption ==
  \A s \in Sheets :
    /\ Len(s) \in Nat /\ DOMAIN s = 1..Len(s)
    /\ \A r \in DOMAIN s : /\ Len(s[r]) \in Nat /\ DOMAIN s[r] = 1..Len(s[r])
                           /\ \A c \in DOMAIN s[r] : IsCell(s[r][c])

VARIABLES sheet,   \* the sheet being rendered
          out,     \* the grid of texts written so far
          spilled  \* the anchors whose arrays have been dealt with

renderVars == <<sheet, out, spilled>>

-----------------------------------------------------------------------------

At(row, col) == [row |-> row, col |-> col]

InSheet(s, at) == at.row + 1 \in DOMAIN s /\ at.col + 1 \in DOMAIN s[at.row + 1]

CellAt(s, at) == s[at.row + 1][at.col + 1]

Addresses(s) == UNION {{At(r - 1, c - 1) : c \in DOMAIN s[r]} : r \in DOMAIN s}

Anchors(s) == {at \in Addresses(s) : CellAt(s, at).kind = "array"}

\* The cells an array is to be written to, its anchor among them.
Area(s, at) ==
  [row : at.row..(at.row + CellAt(s, at).height - 1),
   col : at.col..(at.col + CellAt(s, at).width - 1)]

\* The text an array shows at a cell of its target.
Element(s, at, t) == CellAt(s, at).texts[t.row - at.row][t.col - at.col]

\* The extent of the output: the sheet's own, and that of every target.
Rows(s) == Max({Len(s)} \cup {at.row + CellAt(s, at).height : at \in Anchors(s)})
Cols(s) == Max({0} \cup {Len(s[r]) : r \in DOMAIN s}
                   \cup {at.col + CellAt(s, at).width : at \in Anchors(s)})

\* Mutant: a formula that shows nothing makes room.
LooksEmpty(s, at) == InSheet(s, at) => CellAt(s, at).kind # "array" /\ CellAt(s, at).text = Blank

\* A formula that shows nothing is not empty: only a blank literal is.
IsEmptyCell(s, at) == InSheet(s, at) => CellAt(s, at).kind = "literal" /\ CellAt(s, at).text = Blank

SpillBlocked(s, at) == \E t \in Area(s, at) : t # at /\ ~IsEmptyCell(s, t)

-----------------------------------------------------------------------------

\* An array renders its first element at its anchor, until it spills.
ScalarText(s, at) == IF ~InSheet(s, at) THEN Blank
                     ELSE IF CellAt(s, at).kind = "array" THEN Element(s, at, at)
                     ELSE CellAt(s, at).text

FillScalars(s) ==
  [r \in 0..(Rows(s) - 1) |-> [c \in 0..(Cols(s) - 1) |-> ScalarText(s, At(r, c))]]

\* Mutant: a blocked array is written as far as there is room.
SpillAround(s, at, grid) ==
  [r \in DOMAIN grid |-> [c \in DOMAIN grid[r] |->
     LET t == At(r, c) IN
     IF t \in Area(s, at) /\ (t = at \/ IsEmptyCell(s, t)) THEN Element(s, at, t)
     ELSE grid[r][c]]]

Spilled(s, at, grid) ==
  IF SpillBlocked(s, at)
  THEN [grid EXCEPT ![at.row][at.col] = SpillError]
  ELSE [r \in DOMAIN grid |-> [c \in DOMAIN grid[r] |->
          LET t == At(r, c) IN
          IF t \in Area(s, at) THEN Element(s, at, t) ELSE grid[r][c]]]

Precedes(a, b) == a.row < b.row \/ (a.row = b.row /\ a.col < b.col)

RenderInit == /\ sheet \in Sheets
              /\ out = FillScalars(sheet)
              /\ spilled = {}

SpillNext(at) ==
  /\ at \in Anchors(sheet) \ spilled
  /\ \A b \in Anchors(sheet) \ spilled : b = at \/ Precedes(at, b)
  /\ out' = Spilled(sheet, at, out)
  /\ spilled' = spilled \cup {at}
  /\ UNCHANGED sheet

RenderNext == \E at \in Anchors(sheet) : SpillNext(at)

RenderSpec == RenderInit /\ [][RenderNext]_renderVars

-----------------------------------------------------------------------------
(***************************************************************************)
(* Correctness.                                                            *)
(***************************************************************************)

\* The output is a rectangle of texts.
RenderTypeOK == /\ spilled \subseteq Anchors(sheet)
                /\ out \in [0..(Rows(sheet) - 1) -> [0..(Cols(sheet) - 1) -> Text]]

Shown(at) == out[at.row][at.col]

\* Every array, blocked or not, has its whole target inside the output, so no
\* write of spill is out of range however far it reaches past the sheet.
TargetsInRange ==
  \A at \in Anchors(sheet) : \A t \in Area(sheet, at) :
    t.row \in DOMAIN out /\ t.col \in DOMAIN out[t.row]

\* A spill never writes over the user's content: from the first step of the
\* rendering to the last a cell with a text or a formula shows its own text, its
\* own first element if it is an array, or #SPILL! if that array is blocked.
ContentSurvives ==
  \A at \in Addresses(sheet) :
    \/ CellAt(sheet, at).kind = "literal" /\ CellAt(sheet, at).text = Blank
    \/ Shown(at) = ScalarText(sheet, at)
    \/ at \in Anchors(sheet) /\ SpillBlocked(sheet, at) /\ Shown(at) = SpillError

\* Those arrays that were dealt with and write a cell, the last of them in front.
Painters(t) == {at \in spilled : ~SpillBlocked(sheet, at) /\ t \in Area(sheet, at)}

\* What the output shows, cell by cell: an array that could not spill shows the
\* error and nothing else of it is written, and where the targets of arrays meet
\* in an empty cell the one whose anchor is later in row-major order is seen. No
\* array is cut off at the end of the output (spillArrays, outputExtent).
LastArrayWins ==
  /\ TargetsInRange
  /\ \A r \in DOMAIN out : \A c \in DOMAIN out[r] :
       LET t == At(r, c) IN
       IF t \in spilled /\ SpillBlocked(sheet, t) THEN out[r][c] = SpillError
       ELSE IF Painters(t) = {} THEN out[r][c] = ScalarText(sheet, t)
       ELSE \E at \in Painters(t) : /\ \A b \in Painters(t) : b = at \/ Precedes(b, at)
                                    /\ out[r][c] = Element(sheet, at, t)
=============================================================================
