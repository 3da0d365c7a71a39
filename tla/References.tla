------------------------------ MODULE References ------------------------------
(***************************************************************************)
(* What a cell reads and what reads it (internal/engine/references.go):    *)
(* the spans a frontend highlights as precedents, and the formula cells it *)
(* highlights as dependents, of a document that is being edited.           *)
(***************************************************************************)
EXTENDS Document

\* walkRefs: the references of a cell, without their order; those of a literal are
\* none, and neither what an edit made #REF! nor a call is one.
WalkRefs(cell) == {ref \in ToSet(cell.refs) : ref.kind \in {"cell", "range", "foreign"}}

\* A row written as 0 names no cell.
IsAddress(p) == p["row"] >= 0

To(ref) == IF ref.kind = "cell" THEN ref.from ELSE ref.to

RefSpan(ref) == IF ref.kind = "foreign" \/ ~IsAddress(ref.from) \/ ~IsAddress(To(ref))
                THEN {} ELSE {[from |-> ref.from, to |-> To(ref)]}

Precedents(cells, at) ==
  IF ~InGrid(cells, at) THEN {}
  ELSE UNION {RefSpan(ref) : ref \in WalkRefs(cells[at["row"] + 1][at["col"] + 1])}

\* Mutant: the corners are taken as written.
IsInAsWritten(span, at) ==
  \A axis \in Axis : at[axis] >= span.from[axis] /\ at[axis] <= span.to[axis]

\* The corners of a range come in any order.
IsIn(span, at) ==
  \A axis \in Axis : /\ at[axis] >= Lower(span.from[axis], span.to[axis])
                     /\ at[axis] <= Higher(span.from[axis], span.to[axis])

Covers(spans, at) == \E span \in spans : IsIn(span, at)

\* A set: the code lists them in row-major order.
Dependents(cells, at) ==
  {p \in Positions(cells) : InGrid(cells, p) /\ Covers(Precedents(cells, p), at)}

-----------------------------------------------------------------------------

\* An edit keeps the graph of dependencies: the dependents of a cell that is kept
\* are afterwards those of its dependents that are kept, where they are now. No
\* arrow is lost, none appears between cells that had none, and none is left
\* pointing where a cell was; that holds of blank cells and of the short rows'
\* missing cells too.
DependentsFollowCells ==
  LET dependents == [p \in Positions(doc.cells) |-> Dependents(doc.cells, p)] IN
  \A e \in Edits : InRange(doc.cells, e) =>
    LET now == Edited(doc.cells, e) IN
    \A p \in Positions(doc.cells) : \A q \in Places(e, p) :
      Dependents(now, q) = UNION {Places(e, d) : d \in dependents[p]}
=============================================================================
