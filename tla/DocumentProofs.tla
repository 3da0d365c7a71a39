---------------------------- MODULE DocumentProofs ----------------------------
(***************************************************************************)
(* The theorems about a document under any sequence of edits.  The         *)
(* invariant they are read off is small: the layout has one marker for     *)
(* every row of the grid, so that Text writes every row and never runs     *)
(* past the last, and DeleteRow finds the marker it removes.  What an edit *)
(* does to references, dependents and comments holds of every such         *)
(* document.                                                               *)
(***************************************************************************)
EXTENDS References, DocumentTextProofs

LEMMA InitMatches ==
  ASSUME Init
  PROVE  Matched(doc)
BY SourcesAssumption, ParseMatches DEF Init

LEMMA NextMatches ==
  ASSUME Matched(doc), [Next]_doc
  PROVE  Matched(doc')
<1>0. GridDim \in Nat /\ Lines \subseteq Int
  BY BoundsAssumption DEF Lines
<1>1. CASE UNCHANGED doc
  BY <1>1
<1>2. ASSUME NEW row \in Lines, NEW col \in Lines, NEW c \in Menu, SetCell(row, col, c)
      PROVE  Matched(doc')
  <2>1. row \in Nat /\ col \in Nat /\ c \in Cell
    BY <1>0, <1>2, MenuAssumption DEF SetCell
  <2>2. Matched(DocSetCell(doc, row, col, c))
    BY <2>1, SetCellMatches
  <2> QED BY <1>2, <2>2 DEF SetCell
<1>3. ASSUME NEW at \in Lines, InsertRow(at)  PROVE Matched(doc')
  BY <1>0, <1>3, InsertRowMatches DEF InsertRow
<1>4. ASSUME NEW at \in Lines, DeleteRow(at)  PROVE Matched(doc')
  BY <1>0, <1>4, DeleteRowMatches DEF DeleteRow
<1>5. ASSUME NEW at \in Lines, InsertCol(at)  PROVE Matched(doc')
  BY <1>0, <1>5, ColumnsMatch DEF InsertCol
<1>6. ASSUME NEW at \in Lines, DeleteCol(at)  PROVE Matched(doc')
  BY <1>0, <1>6, ColumnsMatch DEF DeleteCol
<1> QED BY <1>1, <1>2, <1>3, <1>4, <1>5, <1>6 DEF Next

\* The invariant the theorems below are read off.
THEOREM DocumentInvariance == Spec => []Matched(doc)
<1>1. Init => Matched(doc)
  BY InitMatches
<1>2. Matched(doc) /\ [Next]_doc => Matched(doc)'
  BY NextMatches DEF Matched
<1> QED BY <1>1, <1>2, PTL DEF Spec

\* Every document reached by edits is a grid of cells with a line layout.
THEOREM DocumentTypeCorrect == Spec => []TypeOK
<1>1. Matched(doc) => TypeOK
  BY DEF Matched, TypeOK
<1> QED BY <1>1, DocumentInvariance, PTL

\* The layout has exactly one marker for every row of the grid.
THEOREM MarkersAlwaysMatch == Spec => []MarkersMatch
<1>1. Matched(doc) => MarkersMatch
  BY DEF Matched, MarkersMatch
<1> QED BY <1>1, DocumentInvariance, PTL

\* Text indexes the rows by the markers it has passed: that is always a row of the
\* grid, and every row is reached by one marker.
TextReadsRows ==
  /\ \A i \in Markers(doc.layout) : MarkersBefore(doc.layout, i) + 1 \in DOMAIN doc.cells
  /\ \A r \in DOMAIN doc.cells : \E i \in Markers(doc.layout) : MarkersBefore(doc.layout, i) + 1 = r

\* Document.Text never indexes past the grid and writes each of its rows.
THEOREM TextIsComplete == Spec => []TextReadsRows
<1>1. ASSUME Matched(doc)  PROVE TextReadsRows
  <2> DEFINE M == Markers(doc.layout)
             n == Len(doc.cells)
  <2>1. /\ doc.layout \in Seq(DocLine) /\ n \in Nat /\ Cardinality(M) = n /\ DOMAIN doc.cells = 1..n
    BY <1>1, MatchedFields DEF Grid
  <2>2. M \in SUBSET Nat /\ IsFiniteSet(M)
    BY <2>1, MarkersFinite
  <2>3. ASSUME NEW i \in M  PROVE MarkersBefore(doc.layout, i) + 1 \in 1..n
    <3>1. MarkersBefore(doc.layout, i) = Rank(M, i)
      BY DEF MarkersBefore, Rank
    <3>2. Rank(M, i) \in 0..(n - 1)
      BY <2>1, <2>2, RankRange
    <3> QED BY <2>1, <3>1, <3>2
  <2>4. ASSUME NEW r \in 1..n  PROVE \E i \in M : MarkersBefore(doc.layout, i) + 1 = r
    <3>1. r - 1 \in 0..(n - 1) /\ (r - 1) + 1 = r
      BY <2>1
    <3>2. MarkerIndex(doc.layout, r - 1) \in M
          /\ MarkersBefore(doc.layout, MarkerIndex(doc.layout, r - 1)) = r - 1
      BY <2>1, <3>1, MarkerFound
    <3> QED BY <3>1, <3>2
  <2> QED BY <2>1, <2>3, <2>4 DEF TextReadsRows
<1> QED BY <1>1, DocumentInvariance, PTL

\* A grid whose references were shifted there and back is the grid, spelled anew.
LEMMA GridRestored ==
  ASSUME NEW cells \in Grid, NEW axis \in Axis, NEW at \in Int
  PROVE  Unspelled(RewriteAll(RewriteAll(cells, Insert(axis, at)), Delete(axis, at)))
           = Unspelled(cells)
<1> DEFINE ins == Insert(axis, at)
           del == Delete(axis, at)
           back == RewriteAll(RewriteAll(cells, ins), del)
<1>1. /\ DOMAIN back = DOMAIN cells
      /\ \A r \in DOMAIN cells : /\ DOMAIN back[r] = DOMAIN cells[r]
                                 /\ \A c \in DOMAIN cells[r] :
                                      back[r][c] = RewriteCell(RewriteCell(cells[r][c], ins), del)
  <2> HIDE DEF ins, del
  <2> QED BY DEF RewriteAll, RewriteRow
<1>2. ASSUME NEW r \in DOMAIN cells, NEW c \in DOMAIN cells[r]
      PROVE  back[r][c].text = cells[r][c].text /\ back[r][c].refs = cells[r][c].refs
  <2>1. cells[r][c] \in Cell
    <3>1. cells[r] \in Seq(Cell)
      BY DEF Grid, Row
    <3> QED BY <3>1
  <2> HIDE DEF ins, del, back
  <2>2. back[r][c] = RewriteCell(RewriteCell(cells[r][c], ins), del)
    BY <1>1
  <2> QED BY <2>1, <2>2, CellRestored DEF ins, del
<1> HIDE DEF back
<1>3. Unspelled(back) = Unspelled(cells)
  BY <1>1, <1>2 DEF Unspelled
<1> QED BY <1>3 DEF back, ins, del

LEMMA RowEditsRestored ==
  ASSUME NEW d, Matched(d), NEW at \in 0..Len(d.cells)
  PROVE  LET back == DocDeleteRow(DocInsertRow(d, at), at) IN
         Unspelled(back.cells) = Unspelled(d.cells) /\ back.layout = d.layout
<1> DEFINE cells == InsertRowOf(d.cells, at)
           layout == SpliceMarker(d.layout, at)
           new == [cells |-> cells, layout |-> layout]
           backCells == DeleteRowOf(cells, at)
<1>1. /\ d.cells \in Grid /\ d.layout \in Seq(DocLine)
      /\ Len(d.cells) \in Nat /\ Cardinality(Markers(d.layout)) = Len(d.cells)
      /\ at \in Int /\ ~(at < 0) /\ Lower(at, Len(d.cells)) = at
  BY MatchedFields DEF Lower
<1>2. cells \in Grid /\ Len(cells) = Len(d.cells) + 1
  BY <1>1, InsertRowType
<1>3. Len(backCells) = Len(d.cells)
  <2> HIDE DEF cells
  <2>1. at \in 0..(Len(cells) - 1)
    BY <1>1, <1>2
  <2> QED BY <1>1, <1>2, <2>1, DeleteRowType
<1>4. Unspelled(backCells) = Unspelled(d.cells)
  BY <1>1, RowsRestored, GridRestored DEF Axis
<1>5. RemoveMarker(layout, at) = d.layout
  BY <1>1, MarkerRestored
<1>6. DocInsertRow(d, at) = new
  BY <1>1, <1>2 DEF DocInsertRow
<1> HIDE DEF cells, layout, backCells
<1>7. DocDeleteRow(new, at) = [cells |-> backCells, layout |-> RemoveMarker(layout, at)]
  BY <1>1, <1>2, <1>3 DEF DocDeleteRow, backCells
<1> QED BY <1>4, <1>5, <1>6, <1>7

\* Whatever the document, deleting the line just inserted restores its cells, its
\* references and, for a row, the place of every comment.
THEOREM DeleteIsUndo == Spec => []DeleteUndoesInsert
<1>1. ASSUME Matched(doc)  PROVE DeleteUndoesInsert
  <2>1. doc.cells \in Grid /\ WidestRow(doc.cells) \in Nat
    BY <1>1, MatchedFields, WidestRowType
  <2>2. ASSUME NEW at \in 0..WidestRow(doc.cells)
        PROVE  Unspelled(DocDeleteCol(DocInsertCol(doc, at), at).cells) = Unspelled(doc.cells)
    <3>1. DocDeleteCol(DocInsertCol(doc, at), at).cells = DeleteColOf(InsertColOf(doc.cells, at), at)
      BY DEF DocInsertCol, DocDeleteCol
    <3>2. at \in Int
      BY <2>1
    <3> QED BY <2>1, <3>1, <3>2, ColumnsRestored, GridRestored DEF Axis
  <2> QED BY <1>1, <2>2, RowEditsRestored DEF DeleteUndoesInsert
<1> QED BY <1>1, DocumentInvariance, PTL

\* An edit in range moves the cells of a grid and rewrites what is in them.
LEMMA EditedMoves ==
  ASSUME NEW cells \in Grid, NEW e \in Edit, InRange(cells, e)
  PROVE  \E mid \in Grid : Moves(cells, mid, e) /\ Edited(cells, e) = RewriteAll(mid, e)
<1>1. e \in [op : {"insert", "delete"}, axis : Axis, at : Int] /\ e.at \in Int /\ Len(cells) \in Nat
  BY DEF Edit, Line, Grid
<1>2. CASE e.op = "insert" /\ e.axis = "row"
  <2>1. e = Insert("row", e.at) /\ ~(e.at < 0) /\ e.at >= 0
    BY <1>1, <1>2 DEF Insert, InRange
  <2>2. Edited(cells, e) = RewriteAll(InsertLine(cells, e.at), e)
    BY <1>2, <2>1 DEF Edited, InsertRowOf
  <2>3. InsertLine(cells, e.at) \in Grid
    <3>1. Blanks(WidestRow(cells)) \in Row
      BY WidestRowType, BlanksType
    <3>2. Lower(e.at, Len(cells)) + 1 \in 1..(Len(cells) + 1)
      BY <1>1, <2>1 DEF Lower
    <3> QED BY <3>1, <3>2, InsertAtProperties DEF InsertLine, Grid, Inserted
  <2> QED BY <1>2, <2>1, <2>2, <2>3, InsertRowMoves
<1>3. CASE e.op = "delete" /\ e.axis = "row"
  <2>1. e = Delete("row", e.at) /\ e.at >= 0 /\ e.at < Len(cells) /\ e.at \in 0..(Len(cells) - 1)
    BY <1>1, <1>3 DEF Delete, InRange
  <2>2. Edited(cells, e) = RewriteAll(DeleteLine(cells, e.at), e)
    BY <1>3, <2>1 DEF Edited, DeleteRowOf
  <2>3. DeleteLine(cells, e.at) \in Grid
    <3>1. e.at + 1 \in 1..Len(cells)
      BY <1>1, <2>1
    <3> QED BY <3>1, RemoveAtProperties DEF DeleteLine, Grid
  <2> QED BY <1>3, <2>1, <2>2, <2>3, DeleteRowMoves
<1>4. CASE e.op = "insert" /\ e.axis = "col"
  <2>1. e = Insert("col", e.at) /\ ~(e.at < 0) /\ e.at >= 0
    BY <1>1, <1>4 DEF Insert, InRange
  <2>2. Edited(cells, e) = RewriteAll(InsertColumn(cells, e.at), e)
    BY <1>4, <2>1 DEF Edited, InsertColOf
  <2>3. InsertColumn(cells, e.at) \in Grid
    <3>1. ASSUME NEW row \in Row, ~(e.at > Len(row))  PROVE InsertAt(row, e.at + 1, BlankCell) \in Row
      <4>1. e.at + 1 \in 1..(Len(row) + 1)
        BY <1>1, <2>1, <3>1 DEF Row
      <4> QED BY <4>1, BlankCellType, InsertAtProperties DEF Row, Inserted
    <3> QED BY <3>1 DEF InsertColumn, Grid
  <2> QED BY <1>4, <2>1, <2>2, <2>3, InsertColMoves
<1>5. CASE e.op = "delete" /\ e.axis = "col"
  <2>1. e = Delete("col", e.at) /\ e.at >= 0 /\ e.at \in 0..(WidestRow(cells) - 1)
    BY <1>1, <1>5, WidestRowType DEF Delete, InRange, Axis
  <2>2. Edited(cells, e) = RewriteAll(DeleteColumn(cells, e.at), e)
    BY <1>5, <2>1 DEF Edited, DeleteColOf
  <2>3. DeleteColumn(cells, e.at) \in Grid
    <3>1. ASSUME NEW row \in Row, ~(e.at >= Len(row))  PROVE RemoveAt(row, e.at + 1) \in Row
      <4>1. e.at + 1 \in 1..Len(row)
        BY <1>1, <2>1, <3>1 DEF Row
      <4> QED BY <4>1, RemoveAtProperties DEF Row
    <3> QED BY <3>1 DEF DeleteColumn, Grid
  <2> QED BY <1>5, <2>1, <2>2, <2>3, DeleteColMoves
<1> QED BY <1>1, <1>2, <1>3, <1>4, <1>5 DEF Axis

LEMMA RewrittenGrid ==
  ASSUME NEW mid \in Grid, NEW e \in Edit, NEW q
  PROVE  LET now == RewriteAll(mid, e) IN
         /\ InGrid(now, q) <=> InGrid(mid, q)
         /\ InGrid(mid, q) => CellOf(now, q) = RewriteCell(CellOf(mid, q), e)
BY DEF RewriteAll, RewriteRow, InGrid, CellOf

\* What Moves says of the grid with its references rewritten.
LEMMA EditedCells ==
  ASSUME NEW cells \in Grid, NEW e \in Edit, InRange(cells, e)
  PROVE  LET now == Edited(cells, e) IN
         /\ \A p \in Position : InGrid(cells, p) =>
              \A q \in Places(e, p) : /\ InGrid(now, q)
                                      /\ CellOf(now, q) = RewriteCell(CellOf(cells, p), e)
         /\ \A q \in Position : InGrid(now, q) /\ TextAt(now, q) # Blank =>
              \E p \in Position : InGrid(cells, p) /\ q \in Places(e, p)
         /\ e.op = "insert" =>
              \A q \in Position : InGrid(cells, q) /\ q[e.axis] = e.at => InGrid(now, q)
<1> DEFINE now == Edited(cells, e)
<1>1. PICK mid \in Grid : Moves(cells, mid, e) /\ now = RewriteAll(mid, e)
  BY EditedMoves
<1> HIDE DEF now
<1>2. \A q : /\ InGrid(now, q) <=> InGrid(mid, q)
             /\ InGrid(mid, q) => CellOf(now, q) = RewriteCell(CellOf(mid, q), e)
  BY <1>1, RewrittenGrid
<1>3. ASSUME NEW q \in Position, InGrid(now, q), TextAt(now, q) # Blank
      PROVE  InGrid(mid, q) /\ CellOf(mid, q) # BlankCell
  <2>1. InGrid(mid, q) /\ CellOf(now, q).text = CellOf(mid, q).text
    <3>1. InGrid(mid, q) /\ CellOf(now, q) = RewriteCell(CellOf(mid, q), e)
      BY <1>2, <1>3
    <3> QED BY <3>1, RewrittenCell
  <2>2. TextAt(now, q) = CellOf(now, q).text
    BY DEF TextAt, CellOf
  <2> QED BY <1>3, <2>1, <2>2 DEF BlankCell
<1>4. ASSUME NEW p \in Position, InGrid(cells, p), NEW q \in Places(e, p)
      PROVE  InGrid(now, q) /\ CellOf(now, q) = RewriteCell(CellOf(cells, p), e)
  BY <1>1, <1>2, <1>4 DEF Moves
<1>5. ASSUME NEW q \in Position, InGrid(now, q), TextAt(now, q) # Blank
      PROVE  \E p \in Position : InGrid(cells, p) /\ q \in Places(e, p)
  BY <1>1, <1>3, <1>5 DEF Moves
<1>6. ASSUME e.op = "insert", NEW q \in Position, InGrid(cells, q), q[e.axis] = e.at
      PROVE  InGrid(now, q)
  BY <1>1, <1>2, <1>6 DEF Moves
<1> QED BY <1>4, <1>5, <1>6 DEF now

LEMMA TextMoves ==
  ASSUME NEW cells \in Grid, NEW e \in Edit, InRange(cells, e),
         NEW p \in Position, InGrid(cells, p), NEW q \in Places(e, p)
  PROVE  /\ q \in Position
         /\ InGrid(Edited(cells, e), q) /\ TextAt(Edited(cells, e), q) = TextAt(cells, p)
<1>1. InGrid(Edited(cells, e), q) /\ CellOf(Edited(cells, e), q) = RewriteCell(CellOf(cells, p), e)
  BY EditedCells
<1>2. CellOf(Edited(cells, e), q).text = CellOf(cells, p).text
  BY <1>1, RewrittenCell
<1> QED BY <1>1, <1>2, PlacesMembers DEF TextAt, CellOf

\* What a reference names after an edit: the cells it named, where those are now.
LEMMA ReferenceKeepsCells ==
  ASSUME NEW cells \in Grid, NEW e \in Edit, InRange(cells, e),
         NEW ref \in InSheet, ShiftReference(ref, e) # RefError
  PROVE  LET now == Edited(cells, e)
             new == ShiftReference(ref, e)
         IN /\ Filled(now, Hull(new)) = UNION {Places(e, h) : h \in Filled(cells, Hull(ref))}
            /\ WhollyInGrid(cells, ref) => WhollyInGrid(now, new)
<1> DEFINE now == Edited(cells, e)
           new == ShiftReference(ref, e)
<1>1. /\ \A p \in Hull(ref) : Places(e, p) \subseteq Hull(new)
      /\ \A p \in Position : Places(e, p) \cap Hull(new) # {} => p \in Hull(ref)
      /\ \A q \in Hull(new) : \/ \E p \in Hull(ref) : q \in Places(e, p)
                              \/ e.op = "insert" /\ q[e.axis] = e.at /\ q \in Hull(ref)
  BY HullFollows
<1>2. Hull(ref) \subseteq Position
  BY HullMembers
<1>3. Hull(new) \subseteq Position
  <2>1. new \in InSheet
    BY ReferenceFollows
  <2> HIDE DEF new
  <2> QED BY <2>1, HullMembers
<1>4. \A p \in Position : InGrid(cells, p) =>
        \A q \in Places(e, p) : InGrid(now, q) /\ TextAt(now, q) = TextAt(cells, p)
  BY TextMoves
<1>5. /\ \A q \in Position : InGrid(now, q) /\ TextAt(now, q) # Blank =>
           \E p \in Position : InGrid(cells, p) /\ q \in Places(e, p)
      /\ e.op = "insert" =>
           \A q \in Position : InGrid(cells, q) /\ q[e.axis] = e.at => InGrid(now, q)
  BY EditedCells
<1> HIDE DEF now, new
<1>6. ASSUME NEW q \in Filled(now, Hull(new))
      PROVE  \E h \in Filled(cells, Hull(ref)) : q \in Places(e, h)
  <2>1. q \in Hull(new) /\ InGrid(now, q) /\ TextAt(now, q) # Blank
    BY DEF Filled
  <2>2. PICK p \in Position : InGrid(cells, p) /\ q \in Places(e, p)
    BY <1>3, <1>5, <2>1
  <2>3. p \in Hull(ref)
    BY <1>1, <2>1, <2>2
  <2>4. TextAt(cells, p) # Blank
    BY <1>4, <2>1, <2>2
  <2> QED BY <2>2, <2>3, <2>4 DEF Filled
<1>7. ASSUME NEW h \in Filled(cells, Hull(ref)), NEW q \in Places(e, h)
      PROVE  q \in Filled(now, Hull(new))
  <2>1. h \in Hull(ref) /\ h \in Position /\ InGrid(cells, h) /\ TextAt(cells, h) # Blank
    BY <1>2 DEF Filled
  <2> QED BY <1>1, <1>4, <2>1 DEF Filled
<1>8. Filled(now, Hull(new)) = UNION {Places(e, h) : h \in Filled(cells, Hull(ref))}
  BY <1>6, <1>7
<1>9. ASSUME WhollyInGrid(cells, ref), NEW q \in Hull(new)  PROVE InGrid(now, q)
  <2>1. CASE \E p \in Hull(ref) : q \in Places(e, p)
    BY <1>2, <1>4, <1>9, <2>1 DEF WhollyInGrid
  <2>2. CASE e.op = "insert" /\ q[e.axis] = e.at /\ q \in Hull(ref)
    BY <1>2, <1>5, <1>9, <2>2 DEF WhollyInGrid
  <2> QED BY <1>1, <2>1, <2>2
<1> QED BY <1>8, <1>9 DEF WhollyInGrid, now, new

\* Whatever the document and whichever line is inserted or deleted, every reference
\* names afterwards exactly the cells with text that it named before.
THEOREM ReferencesAlwaysFollow == Spec => []ReferencesFollowCells
<1>1. ASSUME Matched(doc)  PROVE ReferencesFollowCells
  <2> DEFINE cells == doc.cells
  <2>1. cells \in Grid
    BY <1>1, MatchedFields
  <2> HIDE DEF cells
  <2>2. SUFFICES ASSUME NEW e \in Edits, InRange(cells, e),
                        NEW p \in Filled(cells, Positions(cells)), NEW q \in Places(e, p)
                 PROVE  LET now == Edited(cells, e)
                            old == cells[p["row"] + 1][p["col"] + 1].refs
                            new == now[q["row"] + 1][q["col"] + 1].refs
                        IN /\ InGrid(now, q) /\ TextAt(now, q) = TextAt(cells, p)
                           /\ \A i \in DOMAIN old :
                                IF old[i].kind \notin {"cell", "range"} THEN new[i] = old[i]
                                ELSE IF new[i] = RefError
                                THEN UNION {Places(e, h) : h \in Hull(old[i])} = {}
                                ELSE /\ Filled(now, Hull(new[i])) =
                                          UNION {Places(e, h) : h \in Filled(cells, Hull(old[i]))}
                                     /\ WhollyInGrid(cells, old[i]) => WhollyInGrid(now, new[i])
    BY Zenon DEF ReferencesFollowCells, cells
  <2> DEFINE now == Edited(cells, e)
             old == CellOf(cells, p).refs
             new == CellOf(now, q).refs
  <2>3. e \in Edit
    BY BoundsAssumption DEF Edits, Edit, Lines, Line
  <2>4. p \in Position /\ InGrid(cells, p)
    <3>1. InGrid(cells, p)
      BY DEF Filled
    <3>2. p \in Position
      BY <2>1, WidestRowType DEF Filled, Positions, At, Position, Axis, Line, Grid
    <3> QED BY <3>1, <3>2
  <2>5. InGrid(now, q) /\ TextAt(now, q) = TextAt(cells, p)
    BY <2>1, <2>2, <2>3, <2>4, TextMoves
  <2>6. new = [i \in DOMAIN old |-> ShiftReference(old[i], e)]
    <3>1. CellOf(now, q) = RewriteCell(CellOf(cells, p), e)
      BY <2>1, <2>2, <2>3, <2>4, EditedCells
    <3> QED BY <3>1, RewrittenCell
  <2>7. old \in Seq(Operand)
    <3>1. CellOf(cells, p) \in Cell
      BY <2>1, <2>4 DEF InGrid, CellOf, Grid, Row
    <3> QED BY <3>1 DEF Cell
  <2> HIDE DEF old, new, now
  <2>8. ASSUME NEW i \in DOMAIN old
        PROVE  IF old[i].kind \notin {"cell", "range"} THEN new[i] = old[i]
               ELSE IF new[i] = RefError THEN UNION {Places(e, h) : h \in Hull(old[i])} = {}
               ELSE /\ Filled(now, Hull(new[i])) =
                         UNION {Places(e, h) : h \in Filled(cells, Hull(old[i]))}
                    /\ WhollyInGrid(cells, old[i]) => WhollyInGrid(now, new[i])
    <3>1. old[i] \in Operand /\ new[i] = ShiftReference(old[i], e)
      BY <2>6, <2>7
    <3>2. CASE old[i].kind \notin {"cell", "range"}
      BY <3>1, <3>2 DEF ShiftReference
    <3>3. CASE old[i].kind \in {"cell", "range"}
      <4>1. old[i] \in InSheet
        BY <3>1, <3>3, OperandShape
      <4>2. CASE new[i] = RefError
        <5>1. \A h \in Hull(old[i]) : Places(e, h) = {}
          BY <2>3, <3>1, <4>1, <4>2, NothingLeft
        <5> QED BY <3>3, <4>2, <5>1
      <4>3. CASE new[i] # RefError
        <5>1. /\ Filled(now, Hull(new[i])) =
                   UNION {Places(e, h) : h \in Filled(cells, Hull(old[i]))}
              /\ WhollyInGrid(cells, old[i]) => WhollyInGrid(now, new[i])
          BY <2>1, <2>2, <2>3, <3>1, <4>1, <4>3, ReferenceKeepsCells DEF now
        <5> QED BY <3>3, <4>3, <5>1
      <4> QED BY <4>2, <4>3
    <3> QED BY <3>2, <3>3
  <2> QED BY <2>5, <2>8 DEF now, old, new, CellOf
<1> QED BY <1>1, DocumentInvariance, PTL

-----------------------------------------------------------------------------
(***************************************************************************)
(* The graph of dependencies.                                              *)
(***************************************************************************)

\* A reference whose every row is one of a file: row 0 of A0 is none.
Addressed(ref) == Span(ref, "row") \subseteq Nat

\* A reference lists as a precedent exactly when it covers real rows, and then its
\* span, read from any corner, is its hull.
LEMMA SpanIsHull ==
  ASSUME NEW ref \in Reference, NEW at \in Position
  PROVE  Covers(RefSpan(ref), at) <=> ref \in InSheet /\ Addressed(ref) /\ at \in Hull(ref)
<1>1. CASE ref \notin InSheet
  <2>1. ref.kind = "foreign"
    BY <1>1 DEF Reference, InSheet
  <2> QED BY <1>1, <2>1 DEF RefSpan, Covers
<1>2. CASE ref \in InSheet
  <2> DEFINE x(axis) == ref.from[axis]
             y(axis) == To(ref)[axis]
  <2>1. \A axis \in Axis : Span(ref, axis) = Lower(x(axis), y(axis))..Higher(x(axis), y(axis))
    BY <1>2 DEF Span, To
  <2>2. ref.from \in Position /\ To(ref) \in Position /\ ref.kind # "foreign"
    BY <1>2, ReferenceShape DEF To, InSheet
  <2>3. \A axis \in Axis : x(axis) \in Int /\ y(axis) \in Int /\ at[axis] \in Int
    BY <2>2 DEF Position, Line
  <2>4. Addressed(ref) <=> IsAddress(ref.from) /\ IsAddress(To(ref))
    <3> DEFINE lo == Lower(x("row"), y("row"))
               hi == Higher(x("row"), y("row"))
    <3>1. Span(ref, "row") = lo..hi /\ x("row") \in Int /\ y("row") \in Int
      BY <2>1, <2>3 DEF Axis
    <3>2. lo \in Int /\ hi \in Int /\ lo <= hi /\ (lo >= 0 <=> x("row") >= 0 /\ y("row") >= 0)
      BY <3>1 DEF Lower, Higher
    <3> HIDE DEF lo, hi, x, y
    <3>3. lo..hi \subseteq Nat <=> lo >= 0
      <4>1. lo \in lo..hi
        BY <3>2
      <4>2. ASSUME lo >= 0  PROVE lo..hi \subseteq Nat
        BY <3>2, <4>2
      <4> QED BY <3>2, <4>1, <4>2
    <3> QED BY <3>1, <3>2, <3>3 DEF Addressed, IsAddress, x, y
  <2>5. IsIn([from |-> ref.from, to |-> To(ref)], at) <=> at \in Hull(ref)
    <3>1. at \in Hull(ref) <=> \A axis \in Axis : at[axis] \in Span(ref, axis)
      BY <1>2, HullMembers
    <3>2. \A axis \in Axis : at[axis] \in Span(ref, axis) <=>
            at[axis] >= Lower(x(axis), y(axis)) /\ at[axis] <= Higher(x(axis), y(axis))
      BY <2>1, <2>3 DEF Lower, Higher
    <3> QED BY <3>1, <3>2 DEF IsIn
  <2>6. RefSpan(ref) = IF Addressed(ref) THEN {[from |-> ref.from, to |-> To(ref)]} ELSE {}
    BY <2>2, <2>4 DEF RefSpan
  <2> QED BY <1>2, <2>5, <2>6 DEF Covers
<1> QED BY <1>1, <1>2

\* Cell d reads position at.
ReadsAt(cells, d, at) ==
  \E i \in DOMAIN CellOf(cells, d).refs :
    LET ref == CellOf(cells, d).refs[i] IN
    ref \in InSheet /\ Addressed(ref) /\ at \in Hull(ref)

LEMMA CellOfType ==
  ASSUME NEW cells \in Grid, NEW d, InGrid(cells, d)
  PROVE  CellOf(cells, d) \in Cell /\ CellOf(cells, d).refs \in Seq(Operand)
<1>1. CellOf(cells, d) \in Cell
  BY DEF InGrid, CellOf, Grid, Row
<1> QED BY <1>1 DEF Cell

LEMMA CoversIsReads ==
  ASSUME NEW cells \in Grid, NEW d \in Position, InGrid(cells, d), NEW at \in Position
  PROVE  Covers(Precedents(cells, d), at) <=> ReadsAt(cells, d, at)
<1> DEFINE refs == CellOf(cells, d).refs
<1>1. refs \in Seq(Operand) /\ \A i \in DOMAIN refs : refs[i] \in Operand
  <2>1. refs \in Seq(Operand)
    BY CellOfType
  <2> HIDE DEF refs
  <2> QED BY <2>1
<1>2. Precedents(cells, d) = UNION {RefSpan(ref) : ref \in WalkRefs(CellOf(cells, d))}
  BY DEF Precedents, CellOf
<1>3. \A ref : ref \in WalkRefs(CellOf(cells, d)) <=>
              ref \in Reference /\ \E i \in DOMAIN refs : ref = refs[i]
  <2>1. \A ref : ref \in WalkRefs(CellOf(cells, d)) <=>
              ref.kind \in {"cell", "range", "foreign"} /\ \E i \in DOMAIN refs : ref = refs[i]
    BY DEF WalkRefs, ToSet
  <2> HIDE DEF refs
  <2> QED BY <1>1, <2>1, OperandShape
<1> HIDE DEF refs
<1>4. Covers(Precedents(cells, d), at) <=>
        \E i \in DOMAIN refs : refs[i] \in Reference /\ Covers(RefSpan(refs[i]), at)
  BY <1>2, <1>3 DEF Covers
<1>5. \A i \in DOMAIN refs : refs[i] \in InSheet => refs[i] \in Reference
  BY DEF InSheet
<1> QED BY <1>1, <1>4, <1>5, SpanIsHull DEF ReadsAt, refs

LEMMA DependentsAre ==
  ASSUME NEW cells \in Grid, NEW at \in Position
  PROVE  \A d : d \in Dependents(cells, at) <=>
                  d \in Position /\ InGrid(cells, d) /\ ReadsAt(cells, d, at)
<1>1. Len(cells) \in Nat /\ WidestRow(cells) \in Nat /\ DOMAIN cells = 1..Len(cells)
  BY WidestRowType DEF Grid
<1>2. ASSUME NEW d \in Positions(cells)  PROVE d \in Position
  BY <1>1, <1>2 DEF Positions, At, Position, Axis, Line
<1>3. ASSUME NEW d \in Position, InGrid(cells, d)  PROVE d \in Positions(cells)
  <2>1. d["row"] \in Int /\ d["col"] \in Int /\ d = At(d["row"], d["col"])
    BY PositionLines DEF At, Position, Axis
  <2>2. d["row"] + 1 \in 1..Len(cells) /\ d["col"] + 1 \in DOMAIN cells[d["row"] + 1]
    BY <1>1, <1>3 DEF InGrid
  <2>3. /\ DOMAIN cells[d["row"] + 1] = 1..Len(cells[d["row"] + 1])
        /\ Len(cells[d["row"] + 1]) \in Nat /\ Len(cells[d["row"] + 1]) <= WidestRow(cells)
    BY <1>1, <2>2, WidestRowBounds DEF Grid, Row
  <2>4. d["row"] \in 0..(Len(cells) - 1) /\ d["col"] \in 0..(WidestRow(cells) - 1)
    BY <1>1, <2>1, <2>2, <2>3
  <2> QED BY <2>1, <2>4 DEF Positions
<1> QED BY <1>2, <1>3, CoversIsReads DEF Dependents

\* Shifting a reference keeps it on rows that exist, or off them.
LEMMA AddressedFollows ==
  ASSUME NEW ref \in InSheet, NEW e \in Edit, e.at >= 0, ShiftReference(ref, e) # RefError
  PROVE  Addressed(ShiftReference(ref, e)) <=> Addressed(ref)
<1> DEFINE new == ShiftReference(ref, e)
           S == Span(ref, "row")
           N == Span(new, "row")
<1>1. /\ N \ (IF e.op = "insert" THEN {e.at} ELSE {}) = AfterAll(e, S) \/ e.axis # "row"
      /\ AfterAll(e, S) # {} \/ e.axis # "row"
      /\ e.axis # "row" => N = S
  BY ReferenceFollows DEF Axis
<1>2. S \subseteq Int /\ N \subseteq Int /\ e.at \in Int /\ e.op \in {"insert", "delete"}
  BY SpanType DEF Edit, Line
<1> HIDE DEF new, S, N
<1>3. CASE e.axis # "row"
  BY <1>1, <1>3 DEF Addressed, S, N, new
<1>4. CASE e.axis = "row"
  <2>1. \A x \in Int : \A z \in After(e, x) : z >= 0 <=> x >= 0
    BY <1>2 DEF After
  <2>2. \A x \in Int : x < 0 => After(e, x) = {x}
    BY <1>2 DEF After
  <2>3. ASSUME S \subseteq Nat  PROVE N \subseteq Nat
    <3>1. \A z \in AfterAll(e, S) : z >= 0
      BY <1>2, <2>1, <2>3 DEF AfterAll
    <3>2. \A z \in N : z = e.at \/ z \in AfterAll(e, S)
      BY <1>1, <1>4
    <3> QED BY <1>2, <3>1, <3>2
  <2>4. ASSUME N \subseteq Nat, NEW x \in S, x < 0  PROVE FALSE
    <3>1. x \in AfterAll(e, S)
      BY <1>2, <2>2, <2>4 DEF AfterAll
    <3>2. x \in N
      BY <1>1, <1>4, <3>1
    <3> QED BY <2>4, <3>2
  <2> QED BY <1>2, <2>3, <2>4 DEF Addressed, S, N, new
<1> QED BY <1>3, <1>4

\* One cell, one reference: it reads after the edit what it read before.
LEMMA ReadsFollow ==
  ASSUME NEW cells \in Grid, NEW e \in Edit, InRange(cells, e),
         NEW d \in Position, InGrid(cells, d), NEW f \in Places(e, d),
         NEW p \in Position, NEW q \in Places(e, p)
  PROVE  ReadsAt(Edited(cells, e), f, q) <=> ReadsAt(cells, d, p)
<1> DEFINE old == CellOf(cells, d).refs
           new == CellOf(Edited(cells, e), f).refs
<1>1. new = [i \in DOMAIN old |-> ShiftReference(old[i], e)]
  <2>1. CellOf(Edited(cells, e), f) = RewriteCell(CellOf(cells, d), e)
    BY EditedCells
  <2> QED BY <2>1, RewrittenCell
<1>2. old \in Seq(Operand)
  BY CellOfType
<1> HIDE DEF old, new
<1>3. ASSUME NEW i \in DOMAIN old
      PROVE  (new[i] \in InSheet /\ Addressed(new[i]) /\ q \in Hull(new[i])) <=>
             (old[i] \in InSheet /\ Addressed(old[i]) /\ p \in Hull(old[i]))
  <2>1. old[i] \in Operand /\ new[i] = ShiftReference(old[i], e)
    BY <1>1, <1>2
  <2>2. CASE old[i] \notin InSheet
    <3>1. old[i].kind \notin {"cell", "range"}
      BY <2>1, <2>2, OperandShape
    <3>2. new[i] = old[i]
      BY <2>1, <3>1 DEF ShiftReference
    <3> QED BY <2>2, <3>2
  <2>3. CASE old[i] \in InSheet /\ new[i] = RefError
    <3>1. p \notin Hull(old[i])
      BY <2>1, <2>3, NothingLeft
    <3>2. new[i] \notin InSheet
      BY <2>3 DEF InSheet, RefError
    <3> QED BY <3>1, <3>2
  <2>4. CASE old[i] \in InSheet /\ new[i] # RefError
    <3>1. new[i] \in InSheet
      BY <2>1, <2>4, ReferenceFollows
    <3>2. Addressed(new[i]) <=> Addressed(old[i])
      BY <2>1, <2>4, AddressedFollows DEF InRange
    <3>3. q \in Hull(new[i]) <=> p \in Hull(old[i])
      <4>1. /\ \A h \in Hull(old[i]) : Places(e, h) \subseteq Hull(new[i])
            /\ \A h \in Position : Places(e, h) \cap Hull(new[i]) # {} => h \in Hull(old[i])
        BY <2>1, <2>4, HullFollows
      <4> QED BY <4>1
    <3> QED BY <2>4, <3>1, <3>2, <3>3
  <2> QED BY <2>2, <2>3, <2>4
<1>4. DOMAIN new = DOMAIN old
  BY <1>1
<1> QED BY <1>3, <1>4 DEF ReadsAt, old, new

\* A cell that reads anything after an edit was somewhere before it.
LEMMA ReaderWasThere ==
  ASSUME NEW cells \in Grid, NEW e \in Edit, InRange(cells, e),
         NEW f \in Position, InGrid(Edited(cells, e), f), NEW q, ReadsAt(Edited(cells, e), f, q)
  PROVE  \E d \in Position : InGrid(cells, d) /\ f \in Places(e, d)
<1>1. PICK mid \in Grid : Moves(cells, mid, e) /\ Edited(cells, e) = RewriteAll(mid, e)
  BY EditedMoves
<1>2. InGrid(mid, f) /\ CellOf(Edited(cells, e), f) = RewriteCell(CellOf(mid, f), e)
  BY <1>1, RewrittenGrid
<1>3. DOMAIN CellOf(Edited(cells, e), f).refs = DOMAIN CellOf(mid, f).refs
  <2>1. CellOf(Edited(cells, e), f).refs
          = [i \in DOMAIN CellOf(mid, f).refs |-> ShiftReference(CellOf(mid, f).refs[i], e)]
    BY <1>2, RewrittenCell
  <2> QED BY <2>1
<1>4. DOMAIN CellOf(mid, f).refs # {}
  BY <1>3 DEF ReadsAt
<1>5. CellOf(mid, f) # BlankCell
  BY <1>4 DEF BlankCell
<1> QED BY <1>1, <1>2, <1>5 DEF Moves

\* Whatever the document and the edit, what Sheet.Dependents finds for a cell is
\* afterwards what it found before, where it is now: the highlighted graph moves
\* with the cells.
THEOREM DependentsAlwaysFollow == Spec => []DependentsFollowCells
<1>1. ASSUME Matched(doc)  PROVE DependentsFollowCells
  <2> DEFINE cells == doc.cells
  <2>1. cells \in Grid /\ Len(cells) \in Nat /\ WidestRow(cells) \in Nat
    BY <1>1, MatchedFields, WidestRowType
  <2> HIDE DEF cells
  <2>2. SUFFICES ASSUME NEW e \in Edits, InRange(cells, e),
                        NEW p \in Positions(cells), NEW q \in Places(e, p)
                 PROVE  Dependents(Edited(cells, e), q) = UNION {Places(e, d) : d \in Dependents(cells, p)}
    BY DEF DependentsFollowCells, cells
  <2> DEFINE now == Edited(cells, e)
  <2>3. e \in Edit
    BY BoundsAssumption DEF Edits, Edit, Lines, Line
  <2>4. p \in Position /\ q \in Position
    <3>1. p \in Position
      BY <2>1 DEF Positions, At, Position, Axis, Line
    <3> QED BY <2>2, <2>3, <3>1, PlacesMembers
  <2>5. now \in Grid
    <3>1. PICK mid \in Grid : now = RewriteAll(mid, e)
      BY <2>1, <2>2, <2>3, EditedMoves
    <3> QED BY <2>3, <3>1, RewriteAllType
  <2> HIDE DEF now
  <2>6. ASSUME NEW f \in Dependents(now, q)  PROVE \E d \in Dependents(cells, p) : f \in Places(e, d)
    <3>1. f \in Position /\ InGrid(now, f) /\ ReadsAt(now, f, q)
      BY <2>4, <2>5, DependentsAre
    <3>2. PICK d \in Position : InGrid(cells, d) /\ f \in Places(e, d)
      BY <2>1, <2>2, <2>3, <3>1, ReaderWasThere DEF now
    <3>3. ReadsAt(cells, d, p)
      BY <2>1, <2>2, <2>3, <2>4, <3>1, <3>2, ReadsFollow DEF now
    <3> QED BY <2>1, <2>4, <3>2, <3>3, DependentsAre
  <2>7. ASSUME NEW d \in Dependents(cells, p), NEW f \in Places(e, d)  PROVE f \in Dependents(now, q)
    <3>1. d \in Position /\ InGrid(cells, d) /\ ReadsAt(cells, d, p)
      BY <2>1, <2>4, DependentsAre
    <3>2. f \in Position /\ InGrid(now, f)
      BY <2>1, <2>2, <2>3, <3>1, TextMoves, <2>7 DEF now
    <3>3. ReadsAt(now, f, q)
      BY <2>1, <2>2, <2>3, <2>4, <2>7, <3>1, ReadsFollow DEF now
    <3> QED BY <2>4, <2>5, <3>2, <3>3, DependentsAre
  <2> QED BY <2>6, <2>7 DEF now
<1> QED BY <1>1, DocumentInvariance, PTL

-----------------------------------------------------------------------------
(***************************************************************************)
(* Comments.  Anchors reads nothing but the layout, and every operation    *)
(* does one of four things to that: nothing, a marker spliced in, a marker *)
(* taken out, markers at the end.                                          *)
(***************************************************************************)

LEMMA AnchorsAre ==
  ASSUME NEW d, Matched(d)
  PROVE  /\ Len(Anchors(d)) = Cardinality(Comments(d.layout))
         /\ DOMAIN Anchors(d) = 1..Cardinality(Comments(d.layout))
         /\ \A k \in DOMAIN Anchors(d) : /\ Anchors(d)[k].line = NthComment(d.layout, k)
                                         /\ Anchors(d)[k].above = RowsAbove(d.layout, k)
<1>1. d.layout \in Seq(DocLine)
  BY MatchedFields
<1>2. Cardinality(Comments(d.layout)) \in Nat
  BY <1>1, CommentsFinite, FS_CardinalityType
<1>3. Anchors(d) = [k \in 1..Cardinality(Comments(d.layout)) |->
                      [line |-> NthComment(d.layout, k), above |-> RowsAbove(d.layout, k)]]
  BY DEF Anchors, Comments, NthComment, RowsAbove
<1> QED BY <1>2, <1>3

\* The same comments in the same order.
SameComments(d, e) ==
  /\ Len(Anchors(e)) = Len(Anchors(d)) /\ DOMAIN Anchors(e) = DOMAIN Anchors(d)
  /\ \A k \in DOMAIN Anchors(d) : Anchors(e)[k].line = Anchors(d)[k].line

Kept(d, e) == \A k \in DOMAIN Anchors(d) : Anchors(e)[k].above = Anchors(d)[k].above

LEMMA SetKeepsComments ==
  ASSUME NEW d, Matched(d), NEW row \in Nat, NEW col \in Nat, NEW c \in Cell
  PROVE  LET e == DocSetCell(d, row, col, c) IN
         /\ SameComments(d, e) /\ Kept(d, e) /\ Len(e.cells) >= Len(d.cells)
<1> DEFINE e == DocSetCell(d, row, col, c)
           n == Len(e.cells) - Len(d.cells)
<1>1. Matched(e)
  BY SetCellMatches
<1>2. e.layout = AppendMarkers(d.layout, n)
  BY DEF DocSetCell
<1>3. n \in Nat
  <2>1. e.cells = Set(d.cells, row, col, c)
    BY DEF DocSetCell
  <2>2. Len(e.cells) = Higher(Len(d.cells), row + 1) /\ Len(d.cells) \in Nat
    BY <2>1, MatchedFields, SetType
  <2> HIDE DEF e
  <2> QED BY <2>2 DEF Higher
<1>4. d.layout \in Seq(DocLine) /\ Len(d.cells) \in Nat /\ Len(e.cells) \in Nat
  BY <1>1, MatchedFields
<1> HIDE DEF e, n
<1>5. /\ Comments(e.layout) = Comments(d.layout)
      /\ \A j \in Comments(d.layout) : e.layout[j] = d.layout[j]
                                       /\ MarkersBefore(e.layout, j) = MarkersBefore(d.layout, j)
  BY <1>2, <1>3, <1>4, AppendedComments
<1>6. ASSUME NEW k \in 1..Cardinality(Comments(d.layout))
      PROVE  /\ NthComment(e.layout, k) = NthComment(d.layout, k)
             /\ RowsAbove(e.layout, k) = RowsAbove(d.layout, k)
  <2>1. Nth(Comments(d.layout), k) \in Comments(d.layout)
    BY <1>4, NthCommentIn
  <2> QED BY <1>5, <2>1 DEF NthComment, RowsAbove
<1>7. SameComments(d, e) /\ Kept(d, e)
  BY <1>1, <1>5, <1>6, AnchorsAre DEF SameComments, Kept
<1>8. Len(e.cells) >= Len(d.cells)
  BY <1>3, <1>4 DEF n
<1> QED BY <1>7, <1>8 DEF e

LEMMA InsertKeepsComments ==
  ASSUME NEW d, Matched(d), NEW at \in Int
  PROVE  LET e == DocInsertRow(d, at) IN
         /\ SameComments(d, e)
         /\ IF Len(e.cells) > Len(d.cells)
            THEN \A k \in DOMAIN Anchors(d) :
                   Anchors(e)[k].above = IF Anchors(d)[k].above > Lower(at, Len(d.cells))
                                         THEN Anchors(d)[k].above + 1 ELSE Anchors(d)[k].above
            ELSE e = d
<1> DEFINE e == DocInsertRow(d, at)
           cells == InsertRowOf(d.cells, at)
           row == Lower(at, Len(d.cells))
<1>1. Matched(e)
  BY InsertRowMatches
<1>2. d.cells \in Grid /\ d.layout \in Seq(DocLine) /\ Len(d.cells) \in Nat
      /\ Cardinality(Markers(d.layout)) = Len(d.cells)
  BY MatchedFields
<1>3. Len(cells) = IF at < 0 THEN Len(d.cells) ELSE Len(d.cells) + 1
  BY <1>2, InsertRowType
<1>4. e = IF Len(cells) = Len(d.cells) THEN d
          ELSE [cells |-> cells, layout |-> SpliceMarker(d.layout, row)]
  BY DEF DocInsertRow
<1> HIDE DEF e, cells
<1>5. CASE at < 0
  <2>1. e = d
    BY <1>3, <1>4, <1>5
  <2>2. ~(Len(e.cells) > Len(d.cells)) /\ SameComments(d, e)
    BY <1>2, <2>1 DEF SameComments
  <2> QED BY <2>1, <2>2 DEF e
<1>6. CASE ~(at < 0)
  <2>1. row \in 0..Cardinality(Markers(d.layout))
    BY <1>2, <1>6 DEF Lower
  <2> HIDE DEF row
  <2>2. e.layout = SpliceMarker(d.layout, row) /\ Len(e.cells) = Len(d.cells) + 1
    BY <1>2, <1>3, <1>4, <1>6
  <2>3. /\ Cardinality(Comments(e.layout)) = Cardinality(Comments(d.layout))
        /\ \A k \in 1..Cardinality(Comments(d.layout)) :
             /\ NthComment(e.layout, k) = NthComment(d.layout, k)
             /\ RowsAbove(e.layout, k) = IF RowsAbove(d.layout, k) > row THEN RowsAbove(d.layout, k) + 1
                                                                        ELSE RowsAbove(d.layout, k)
    BY <1>2, <2>1, <2>2, SpliceKeepsComments
  <2>4. SameComments(d, e)
    BY <1>1, <2>3, AnchorsAre DEF SameComments
  <2>5. \A k \in DOMAIN Anchors(d) :
          Anchors(e)[k].above = IF Anchors(d)[k].above > row
                                THEN Anchors(d)[k].above + 1 ELSE Anchors(d)[k].above
    BY <1>1, <2>3, AnchorsAre
  <2>6. Len(e.cells) > Len(d.cells)
    BY <1>2, <2>2
  <2> QED BY <2>4, <2>5, <2>6 DEF e, row
<1> QED BY <1>5, <1>6

LEMMA DeleteKeepsComments ==
  ASSUME NEW d, Matched(d), NEW at \in Int
  PROVE  LET e == DocDeleteRow(d, at) IN
         /\ SameComments(d, e)
         /\ IF Len(e.cells) < Len(d.cells)
            THEN \A k \in DOMAIN Anchors(d) :
                   Anchors(e)[k].above = IF Anchors(d)[k].above > at
                                         THEN Anchors(d)[k].above - 1 ELSE Anchors(d)[k].above
            ELSE e = d
<1> DEFINE e == DocDeleteRow(d, at)
           cells == DeleteRowOf(d.cells, at)
<1>1. Matched(e)
  BY DeleteRowMatches
<1>2. d.cells \in Grid /\ d.layout \in Seq(DocLine) /\ Len(d.cells) \in Nat
      /\ Cardinality(Markers(d.layout)) = Len(d.cells)
  BY MatchedFields
<1>3. Len(cells) = IF at \in 0..(Len(d.cells) - 1) THEN Len(d.cells) - 1 ELSE Len(d.cells)
  BY <1>2, DeleteRowType
<1>4. e = IF Len(cells) = Len(d.cells) THEN d
          ELSE [cells |-> cells, layout |-> RemoveMarker(d.layout, at)]
  BY DEF DocDeleteRow
<1> HIDE DEF e, cells
<1>5. CASE at \notin 0..(Len(d.cells) - 1)
  <2>1. e = d
    BY <1>3, <1>4, <1>5
  <2>2. ~(Len(e.cells) < Len(d.cells)) /\ SameComments(d, e)
    BY <1>2, <2>1 DEF SameComments
  <2> QED BY <2>1, <2>2 DEF e
<1>6. CASE at \in 0..(Len(d.cells) - 1)
  <2>1. at \in 0..(Cardinality(Markers(d.layout)) - 1)
    BY <1>2, <1>6
  <2>2. e.layout = RemoveMarker(d.layout, at) /\ Len(e.cells) = Len(d.cells) - 1
    BY <1>2, <1>3, <1>4, <1>6
  <2>3. /\ Cardinality(Comments(e.layout)) = Cardinality(Comments(d.layout))
        /\ \A k \in 1..Cardinality(Comments(d.layout)) :
             /\ NthComment(e.layout, k) = NthComment(d.layout, k)
             /\ RowsAbove(e.layout, k) = IF RowsAbove(d.layout, k) > at THEN RowsAbove(d.layout, k) - 1
                                                                       ELSE RowsAbove(d.layout, k)
    BY <1>2, <2>1, <2>2, RemoveKeepsComments
  <2>4. SameComments(d, e)
    BY <1>1, <2>3, AnchorsAre DEF SameComments
  <2>5. \A k \in DOMAIN Anchors(d) :
          Anchors(e)[k].above = IF Anchors(d)[k].above > at
                                THEN Anchors(d)[k].above - 1 ELSE Anchors(d)[k].above
    BY <1>1, <2>3, AnchorsAre
  <2>6. Len(e.cells) < Len(d.cells)
    BY <1>2, <2>2
  <2> QED BY <2>4, <2>5, <2>6 DEF e
<1> QED BY <1>5, <1>6

LEMMA ColumnsKeepComments ==
  ASSUME NEW d, Matched(d), NEW at \in Int, NEW e, e = DocInsertCol(d, at) \/ e = DocDeleteCol(d, at)
  PROVE  SameComments(d, e) /\ Kept(d, e) /\ Len(e.cells) = Len(d.cells)
<1>1. e.layout = d.layout
  BY DEF DocInsertCol, DocDeleteCol
<1>2. Anchors(e) = Anchors(d)
  BY <1>1 DEF Anchors
<1>3. Len(e.cells) = Len(d.cells)
  <2>1. d.cells \in Grid
    BY MatchedFields
  <2>2. Len(InsertColOf(d.cells, at)) = Len(d.cells) /\ Len(DeleteColOf(d.cells, at)) = Len(d.cells)
    BY <2>1, InsertColType, DeleteColType
  <2> QED BY <2>2 DEF DocInsertCol, DocDeleteCol
<1> QED BY <1>2, <1>3 DEF SameComments, Kept

\* No step loses, changes or reorders a comment.
LEMMA StepKeepsComments ==
  ASSUME Matched(doc), [Next]_doc
  PROVE  /\ SameComments(doc, doc')
         /\ Len(doc'.cells) > Len(doc.cells) => Kept(doc, doc') \/ \E at \in Lines : InsertRow(at)
         /\ Len(doc'.cells) = Len(doc.cells) => Kept(doc, doc')
<1> DEFINE Same == SameComments(doc, doc') /\ Kept(doc, doc')
           Result == /\ SameComments(doc, doc')
                     /\ Len(doc'.cells) > Len(doc.cells) => Kept(doc, doc') \/ \E at \in Lines : InsertRow(at)
                     /\ Len(doc'.cells) = Len(doc.cells) => Kept(doc, doc')
<1>0. GridDim \in Nat /\ Lines \subseteq Int /\ Len(doc.cells) \in Nat
  BY BoundsAssumption, MatchedFields DEF Lines
<1>1. CASE UNCHANGED doc
  BY <1>1 DEF SameComments, Kept
<1>2. ASSUME NEW row \in Lines, NEW col \in Lines, NEW c \in Menu, SetCell(row, col, c)
      PROVE  Result
  <2>1. row \in Nat /\ col \in Nat /\ c \in Cell /\ doc' = DocSetCell(doc, row, col, c)
    BY <1>0, <1>2, MenuAssumption DEF SetCell
  <2>2. Same
    BY <2>1, SetKeepsComments
  <2> QED BY <2>2
<1>3. ASSUME NEW at \in Lines, InsertRow(at)  PROVE Result
  <2>1. SameComments(doc, doc') /\ (Len(doc'.cells) > Len(doc.cells) \/ doc' = doc)
    BY <1>0, <1>3, InsertKeepsComments DEF InsertRow
  <2>2. CASE doc' = doc
    BY <2>1, <2>2 DEF Kept
  <2>3. CASE Len(doc'.cells) > Len(doc.cells)
    <3>1. Len(doc'.cells) # Len(doc.cells)
      BY <1>0, <2>3
    <3> QED BY <1>3, <2>1, <3>1
  <2> QED BY <2>1, <2>2, <2>3
<1>4. ASSUME NEW at \in Lines, DeleteRow(at)  PROVE Result
  <2>1. SameComments(doc, doc') /\ (Len(doc'.cells) < Len(doc.cells) \/ doc' = doc)
    BY <1>0, <1>4, DeleteKeepsComments DEF DeleteRow
  <2>2. CASE doc' = doc
    BY <2>1, <2>2 DEF Kept
  <2>3. CASE Len(doc'.cells) < Len(doc.cells)
    <3>1. Len(doc'.cells) \in Nat
      BY <1>0, <1>4, DeleteRowMatches, MatchedFields DEF DeleteRow
    <3>2. Len(doc'.cells) # Len(doc.cells) /\ ~(Len(doc'.cells) > Len(doc.cells))
      BY <1>0, <2>3, <3>1
    <3> QED BY <2>1, <3>2
  <2> QED BY <2>1, <2>2, <2>3
<1>5. ASSUME NEW at \in Lines, InsertCol(at) \/ DeleteCol(at)  PROVE Result
  <2>1. Same
    BY <1>0, <1>5, ColumnsKeepComments DEF InsertCol, DeleteCol
  <2> QED BY <2>1
<1> QED BY <1>1, <1>2, <1>3, <1>4, <1>5 DEF Next

\* No step moves a comment past a row: inserting a row pushes down the comments
\* below it, deleting one draws them up, and every other edit leaves them.
THEOREM CommentsStayAnchored == Spec => CommentsAnchored
<1> DEFINE Grew == Len(doc'.cells) > Len(doc.cells)
           Shrank == Len(doc'.cells) < Len(doc.cells)
           old == Anchors(doc)
           new == Anchors(doc')
           Anchored ==
             /\ Len(new) = Len(old)
             /\ \A k \in DOMAIN old : new[k].line = old[k].line
             /\ old # <<>> => \A at \in Lines :
                  /\ Grew /\ InsertRow(at) =>
                       \A k \in DOMAIN old :
                         new[k].above = IF old[k].above > Lower(at, Len(doc.cells))
                                        THEN old[k].above + 1 ELSE old[k].above
                  /\ Shrank /\ DeleteRow(at) =>
                       \A k \in DOMAIN old :
                         new[k].above = IF old[k].above > at THEN old[k].above - 1 ELSE old[k].above
             /\ Grew => (\A k \in DOMAIN old : new[k].above = old[k].above)
                          \/ \E at \in Lines : InsertRow(at)
             /\ ~Grew /\ ~Shrank => \A k \in DOMAIN old : new[k].above = old[k].above
<1>1. ASSUME Matched(doc), [Next]_doc  PROVE [Anchored]_doc
  <2>0. GridDim \in Nat /\ Lines \subseteq Int /\ Len(doc.cells) \in Nat
    BY <1>1, BoundsAssumption, MatchedFields DEF Lines
  <2>1. Len(doc'.cells) \in Nat
    BY <1>1, NextMatches, MatchedFields
  <2>2. /\ SameComments(doc, doc')
        /\ Grew => Kept(doc, doc') \/ \E at \in Lines : InsertRow(at)
        /\ Len(doc'.cells) = Len(doc.cells) => Kept(doc, doc')
    BY <1>1, StepKeepsComments
  <2>3. ~Grew /\ ~Shrank => Len(doc'.cells) = Len(doc.cells)
    BY <2>0, <2>1
  <2>4. ASSUME NEW at \in Lines, Grew, InsertRow(at)
        PROVE  \A k \in DOMAIN old :
                 new[k].above = IF old[k].above > Lower(at, Len(doc.cells))
                                THEN old[k].above + 1 ELSE old[k].above
    <3>1. at \in Int /\ doc' = DocInsertRow(doc, at)
      BY <2>0, <2>4 DEF InsertRow
    <3> QED BY <1>1, <2>4, <3>1, InsertKeepsComments
  <2>5. ASSUME NEW at \in Lines, Shrank, DeleteRow(at)
        PROVE  \A k \in DOMAIN old :
                 new[k].above = IF old[k].above > at THEN old[k].above - 1 ELSE old[k].above
    <3>1. at \in Int /\ doc' = DocDeleteRow(doc, at)
      BY <2>0, <2>5 DEF DeleteRow
    <3> QED BY <1>1, <2>5, <3>1, DeleteKeepsComments
  <2> HIDE DEF Grew, Shrank, old, new
  <2>6. Anchored
    BY <2>2, <2>3, <2>4, <2>5 DEF SameComments, Kept, old, new
  <2> QED BY <2>6
<1>2. [][Anchored]_doc => CommentsAnchored
  BY DEF CommentsAnchored
<1> HIDE DEF Anchored
<1> QED BY <1>1, <1>2, DocumentInvariance, PTL DEF Spec
=============================================================================
