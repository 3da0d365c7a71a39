------------------------------- MODULE Document -------------------------------
(***************************************************************************)
(* The life of a document: read from a file once, then edited, each        *)
(* operation returning a new document (internal/engine/document.go).       *)
(***************************************************************************)
EXTENDS DocumentText

CONSTANTS Sources,    \* the files a document is read from
          Menu,       \* the cells a user may write
          GridDim,    \* Limits.GridDim: how far an edit may grow the grid
          MaxRows,    \* bound: rows of the documents considered
          MaxCols,    \* bound: cells in a row
          MaxLine     \* bound: lines a reference may name

ASSUME SourcesAssumption == \A f \in Sources : f \in File /\ Parses(f)
ASSUME MenuAssumption == Menu \subseteq {c \in Cell : Readable(c)}
ASSUME BoundsAssumption == GridDim \in Nat /\ MaxRows \in Nat /\ MaxCols \in Nat /\ MaxLine \in Nat

VARIABLE doc

\* The lines at which an edit may be asked for: before the grid, in it, past it.
Lines == -1..(GridDim + 1)

Init == \E f \in Sources : doc = ParseDocument(f)

SetCell(row, col, c) == /\ row \in 0..(GridDim - 1) /\ col \in 0..(GridDim - 1)
                        /\ doc' = DocSetCell(doc, row, col, c)

InsertRow(at) == doc' = DocInsertRow(doc, at)

DeleteRow(at) == doc' = DocDeleteRow(doc, at)

InsertCol(at) == doc' = DocInsertCol(doc, at)

DeleteCol(at) == doc' = DocDeleteCol(doc, at)

Named(ref) == IF ref.kind \notin {"cell", "range", "foreign"} THEN {}
              ELSE {ref.from["row"], ref.from["col"]}
                     \cup IF ref.kind = "cell" THEN {} ELSE {ref.to["row"], ref.to["col"]}

\* The bounds on what is explored; none of them is in the code.
Within(d) ==
  /\ Len(d.cells) <= MaxRows
  /\ \A r \in DOMAIN d.cells :
       /\ Len(d.cells[r]) <= MaxCols
       /\ \A c \in DOMAIN d.cells[r] : \A i \in DOMAIN d.cells[r][c].refs :
            \A x \in Named(d.cells[r][c].refs[i]) : x <= MaxLine

Next == /\ \/ \E row, col \in Lines, c \in Menu : SetCell(row, col, c)
           \/ \E at \in Lines : \/ InsertRow(at)
                                \/ DeleteRow(at)
                                \/ InsertCol(at)
                                \/ DeleteCol(at)
        /\ Within(doc')

Spec == Init /\ [][Next]_doc

-----------------------------------------------------------------------------
(***************************************************************************)
(* Correctness.                                                            *)
(***************************************************************************)

\* The type of the document.
TypeOK == doc \in Document

\* The layout has one marker for every row: Text never runs past the rows, nor
\* leaves one unwritten, and DeleteRow always finds the marker it removes.
MarkersMatch == Cardinality(Markers(doc.layout)) = Len(doc.cells)

-----------------------------------------------------------------------------

\* What an edit does to a grid, whichever operation asks for it.
Edited(cells, e) ==
  IF e.op = "insert"
  THEN IF e.axis = "row" THEN InsertRowOf(cells, e.at) ELSE InsertColOf(cells, e.at)
  ELSE IF e.axis = "row" THEN DeleteRowOf(cells, e.at) ELSE DeleteColOf(cells, e.at)

Edits == [op : {"insert", "delete"}, axis : Axis, at : Lines]

\* The edits that do something: the others must leave the grid as it is.
InRange(cells, e) ==
  /\ e.at >= 0
  /\ e.op = "delete" => IF e.axis = "row" THEN e.at < Len(cells) ELSE e.at < WidestRow(cells)

Filled(cells, S) == {p \in S : InGrid(cells, p) /\ TextAt(cells, p) # Blank}

Positions(cells) ==
  {At(row, col) : row \in 0..(Len(cells) - 1), col \in 0..(WidestRow(cells) - 1)}

WhollyInGrid(cells, ref) == \A h \in Hull(ref) : InGrid(cells, h)

\* Every cell an edit keeps is found where the line moved it, with its text; and
\* each reference in it names, after the edit, exactly the cells with text that it
\* named before, where those are now.  Only a reference with none left in its hull
\* on the edited axis becomes #REF!; one all of whose cells exist still has all of
\* its cells, for an inserted line is as long as what it runs through; a cross-sheet
\* reference never changes (insertLine, rewriteAll, shiftReference).
ReferencesFollowCells ==
  \A e \in Edits : InRange(doc.cells, e) =>
    LET now == Edited(doc.cells, e) IN
    \A p \in Filled(doc.cells, Positions(doc.cells)) : \A q \in Places(e, p) :
      /\ InGrid(now, q) /\ TextAt(now, q) = TextAt(doc.cells, p)
      /\ LET old == doc.cells[p["row"] + 1][p["col"] + 1].refs
             new == now[q["row"] + 1][q["col"] + 1].refs
         IN \A i \in DOMAIN old :
              IF old[i].kind \notin {"cell", "range"} THEN new[i] = old[i]
              ELSE IF new[i] = RefError THEN UNION {Places(e, h) : h \in Hull(old[i])} = {}
              ELSE /\ Filled(now, Hull(new[i])) =
                        UNION {Places(e, h) : h \in Filled(doc.cells, Hull(old[i]))}
                   /\ WhollyInGrid(doc.cells, old[i]) => WhollyInGrid(now, new[i])

\* Formulas an edit rewrote are spelled anew; all else about them is compared.
Unspelled(cells) ==
  [r \in DOMAIN cells |->
     [c \in DOMAIN cells[r] |-> [text |-> cells[r][c].text, refs |-> cells[r][c].refs]]]

\* Deleting the line just inserted restores the document: the cells, every
\* reference, and the place of every comment.
DeleteUndoesInsert ==
  /\ \A at \in 0..Len(doc.cells) :
       LET back == DocDeleteRow(DocInsertRow(doc, at), at) IN
       Unspelled(back.cells) = Unspelled(doc.cells) /\ back.layout = doc.layout
  /\ \A at \in 0..WidestRow(doc.cells) :
       Unspelled(DocDeleteCol(DocInsertCol(doc, at), at).cells) = Unspelled(doc.cells)

-----------------------------------------------------------------------------

\* The comment lines in order, each with the number of rows above it.
Anchors(d) ==
  LET comments == DOMAIN d.layout \ Markers(d.layout)
  IN [k \in 1..Cardinality(comments) |->
        [line |-> d.layout[Nth(comments, k)].comment,
         above |-> MarkersBefore(d.layout, Nth(comments, k))]]

\* No edit loses, changes or reorders a comment, and none moves it past a row: it
\* stays below the rows it was below and above the rows it was above.  A row
\* inserted in the gap of a comment goes below it.
CommentsAnchored ==
  [][LET old == Anchors(doc)
         new == Anchors(doc')
         Kept == \A k \in DOMAIN old : new[k].above = old[k].above
         Grew == Len(doc'.cells) > Len(doc.cells)
         Shrank == Len(doc'.cells) < Len(doc.cells)
     IN /\ Len(new) = Len(old)
        /\ \A k \in DOMAIN old : new[k].line = old[k].line
        /\ old # <<>> => \A at \in Lines :
             /\ Grew /\ InsertRow(at) =>
                  \A k \in DOMAIN old :
                    new[k].above = IF old[k].above > Lower(at, Len(doc.cells))
                                   THEN old[k].above + 1 ELSE old[k].above
             /\ Shrank /\ DeleteRow(at) =>
                  \A k \in DOMAIN old :
                    new[k].above = IF old[k].above > at THEN old[k].above - 1 ELSE old[k].above
        /\ Grew => Kept \/ \E at \in Lines : InsertRow(at)
        /\ ~Grew /\ ~Shrank => Kept]_doc
=============================================================================
