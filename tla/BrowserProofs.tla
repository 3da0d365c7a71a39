---------------------------- MODULE BrowserProofs ----------------------------
(***************************************************************************)
(* Whatever mix of calls a page makes, the text of every view parses, if   *)
(* the formulas printed in it do, to a document that is written as the     *)
(* same text.  That rests on the comments: a comment line must read as one *)
(* again wherever it ends up, although a shebang is one on the first line  *)
(* only; and on the cells: one that does not parse and was not printed     *)
(* never comes in.                                                         *)
(***************************************************************************)
EXTENDS Browser, DocumentTextProofs

GoodCell == {c \in Cell : c.rendered \/ Readable(c)}

\* A comment line that, written back where it stands, reads as a comment again.
ReadsAsComment(line, i) ==
  /\ line \in FileLine
  /\ line[1].text \in HashText \/ (i = 1 /\ line[1].text \in BangText)

CommentsRead(layout) == \A i \in Comments(layout) : ReadsAsComment(layout[i].comment, i)

\* The documents the bridge writes.
Writable(d) == Matched(d) /\ d.cells \in Seq(Seq(GoodCell)) /\ CommentsRead(d.layout)

LEMMA GoodBlank == BlankCell \in GoodCell /\ Readable(BlankCell)
BY BlankCellType, HashAssumption DEF GoodCell, BlankCell, Readable

\* Reading a cell's text changes neither the text nor what is readable, and a second
\* reading changes nothing.
LEMMA ReadCell ==
  ASSUME NEW c \in Cell
  PROVE  /\ AsRead(c) \in Cell /\ AsRead(c).text = c.text /\ AsRead(c).rendered = c.rendered
         /\ AsRead(AsRead(c)) = AsRead(c)
         /\ Readable(c) => Readable(AsRead(c))
<1> DEFINE plain(ref) == IF c.rendered /\ ref.kind = "call" THEN [kind |-> "cell", from |-> ref.from]
                         ELSE ref
           read == [i \in DOMAIN c.refs |-> plain(c.refs[i])]
           new == [text |-> c.text, refs |-> read, rendered |-> c.rendered]
<1>1. /\ c.refs \in Seq(Operand) /\ c.text \in CellText /\ c.rendered \in BOOLEAN
      /\ c = [text |-> c.text, refs |-> c.refs, rendered |-> c.rendered]
  BY DEF Cell
<1>2. AsRead(c) = new
  BY <1>1 DEF AsRead
<1>3. ASSUME NEW ref \in Operand
      PROVE  /\ plain(ref) \in Operand /\ plain(plain(ref)) = plain(ref)
             /\ Columns(plain(ref)) = Columns(ref) /\ (plain(ref) = Misspelt <=> ref = Misspelt)
  <2>1. CASE c.rendered /\ ref.kind = "call"
    <3>1. ref \in CellLikeCall
      BY <2>1 DEF Operand, Reference, RefError, Misspelt
    <3>2. plain(ref) = [kind |-> "cell", from |-> ref.from] /\ ref.from \in Position
      BY <2>1, <3>1 DEF CellLikeCall
    <3>3. plain(ref) \in Reference
      BY <3>2 DEF Reference
    <3> HIDE DEF plain
    <3>4. plain(ref) # Misspelt /\ ref # Misspelt
      BY <2>1, <3>2 DEF Misspelt
    <3>5. Columns(plain(ref)) = Columns(ref)
      BY <2>1, <3>2 DEF Columns
    <3>6. plain(plain(ref)) = plain(ref)
      BY <3>2 DEF plain
    <3> QED BY <3>3, <3>4, <3>5, <3>6 DEF Operand
  <2>2. CASE ~(c.rendered /\ ref.kind = "call")
    <3>1. plain(ref) = ref
      BY <2>2
    <3> HIDE DEF plain
    <3> QED BY <3>1
  <2> QED BY <2>1, <2>2
<1> HIDE DEF plain
<1>4. /\ read \in Seq(Operand) /\ DOMAIN read = DOMAIN c.refs
      /\ \A i \in DOMAIN c.refs : c.refs[i] \in Operand /\ read[i] = plain(c.refs[i])
  BY <1>1, <1>3
<1> HIDE DEF read
<1>5. new \in Cell
  BY <1>1, <1>4 DEF Cell
<1>6. AsRead(new) = new
  <2>1. AsRead(new) = [text |-> c.text, refs |-> [i \in DOMAIN read |-> plain(read[i])],
                       rendered |-> c.rendered]
    BY DEF AsRead, plain
  <2>2. [i \in DOMAIN read |-> plain(read[i])] = [i \in DOMAIN read |-> read[i]]
    BY <1>3, <1>4
  <2>3. read = [i \in DOMAIN read |-> read[i]]
    BY <1>4
  <2> QED BY <2>1, <2>2, <2>3
<1>7. ASSUME Readable(c)  PROVE Readable(new)
  <2>1. /\ c.text \notin Malformed
        /\ \A i \in DOMAIN c.refs : /\ Columns(c.refs[i]) \cap BoolColumns = {}
                                    /\ c.refs[i] = Misspelt => ~c.rendered
    BY <1>7 DEF Readable
  <2>2. \A i \in DOMAIN read : /\ Columns(read[i]) \cap BoolColumns = {}
                               /\ read[i] = Misspelt => ~c.rendered
    BY <1>3, <1>4, <2>1
  <2>3. new.text = c.text /\ new.refs = read /\ new.rendered = c.rendered
    OBVIOUS
  <2> HIDE DEF new, read
  <2>4. \A i \in DOMAIN new.refs : /\ Columns(new.refs[i]) \cap BoolColumns = {}
                                   /\ new.refs[i] = Misspelt => ~new.rendered
    BY <2>2, <2>3
  <2>5. new.text \notin Malformed
    BY <2>1, <2>3
  <2> QED BY <2>4, <2>5 DEF Readable
<1> QED BY <1>2, <1>5, <1>6, <1>7

\* The fields of a row are a line, read as they stand.
LEMMA RowFields ==
  ASSUME NEW row \in Seq(GoodCell)
  PROVE  /\ Fields(row) \in Seq(GoodCell) \ {<<>>}
         /\ Fields(Fields(row)) = Fields(row)
         /\ (\A k \in DOMAIN row : Readable(row[k]))
              => \A k \in DOMAIN Fields(row) : Readable(Fields(row)[k])
         /\ row # <<>> => Fields(row)[1].text = row[1].text
<1>1. Len(row) \in Nat /\ DOMAIN row = 1..Len(row) /\ \A k \in DOMAIN row : row[k] \in GoodCell
  OBVIOUS
<1>2. ASSUME NEW c \in GoodCell
      PROVE  /\ AsRead(c) \in GoodCell /\ AsRead(c).text = c.text /\ AsRead(AsRead(c)) = AsRead(c)
             /\ Readable(c) => Readable(AsRead(c))
  BY ReadCell DEF GoodCell
<1>3. AsRead(BlankCell) = BlankCell
  <2>1. /\ BlankCell = [text |-> Blank, refs |-> <<>>, rendered |-> FALSE]
        /\ DOMAIN BlankCell.refs = {}
    BY DEF BlankCell
  <2> DEFINE read == [i \in DOMAIN BlankCell.refs |->
                        IF BlankCell.rendered /\ BlankCell.refs[i].kind = "call"
                        THEN [kind |-> "cell", from |-> BlankCell.refs[i].from]
                        ELSE BlankCell.refs[i]]
  <2>2. read = <<>>
    BY <2>1
  <2>3. AsRead(BlankCell) = [BlankCell EXCEPT !.refs = read]
    BY DEF AsRead
  <2> HIDE DEF read
  <2> QED BY <2>1, <2>2, <2>3
<1>4. CASE row = <<>>
  <2>1. Fields(row) = <<BlankCell>>
    BY <1>4 DEF Fields
  <2>2. Fields(<<BlankCell>>) = [k \in {1} |-> BlankCell]
    BY <1>3 DEF Fields
  <2>3. <<BlankCell>> = [k \in {1} |-> BlankCell]
    OBVIOUS
  <2>4. Fields(row) \in Seq(GoodCell) /\ Fields(row) # <<>>
    BY <2>1, GoodBlank
  <2>5. Fields(Fields(row)) = Fields(row)
    BY <2>1, <2>2, <2>3
  <2>6. \A k \in DOMAIN Fields(row) : Readable(Fields(row)[k])
    BY <2>1, <2>3, GoodBlank
  <2> QED BY <1>4, <2>4, <2>5, <2>6
<1>5. CASE row # <<>>
  <2> DEFINE new == [k \in 1..Len(row) |-> AsRead(row[k])]
  <2>1. Fields(row) = new /\ Len(row) >= 1
    BY <1>1, <1>5 DEF Fields
  <2>2. new \in Seq(GoodCell) /\ Len(new) = Len(row) /\ \A k \in 1..Len(row) : new[k] = AsRead(row[k])
    BY <1>1, <1>2
  <2> HIDE DEF new
  <2>3. new # <<>> /\ DOMAIN new = 1..Len(row)
    BY <1>1, <2>1, <2>2
  <2>4. Fields(new) = [k \in 1..Len(row) |-> AsRead(new[k])]
    BY <2>3 DEF Fields
  <2>5. \A k \in 1..Len(row) : AsRead(new[k]) = new[k]
    BY <1>1, <1>2, <2>2
  <2>6. new = [k \in 1..Len(row) |-> new[k]]
    BY <2>2, <2>3
  <2>7. Fields(new) = new
    BY <2>4, <2>5, <2>6
  <2>8. new[1].text = row[1].text
    BY <1>1, <1>2, <2>1, <2>2
  <2>9. (\A k \in DOMAIN row : Readable(row[k])) => \A k \in DOMAIN new : Readable(new[k])
    BY <1>1, <1>2, <2>2, <2>3
  <2> QED BY <2>1, <2>2, <2>3, <2>7, <2>8, <2>9
<1> QED BY <1>4, <1>5

-----------------------------------------------------------------------------
(***************************************************************************)
(* Writing and reading.                                                    *)
(***************************************************************************)

LEMMA LayoutRead ==
  ASSUME NEW file \in File
  PROVE  /\ LayoutOf(file) \in Seq(DocLine) /\ Len(LayoutOf(file)) = Len(file)
         /\ \A i \in 1..Len(file) : file[i] \in FileLine
         /\ \A i : i \in Markers(LayoutOf(file)) <=> i \in 1..Len(file) /\ ~IsComment(file, i)
         /\ \A i : i \in Comments(LayoutOf(file)) <=> i \in 1..Len(file) /\ IsComment(file, i)
         /\ \A i \in Comments(LayoutOf(file)) : LayoutOf(file)[i].comment = file[i]
<1> DEFINE layout == LayoutOf(file)
<1>1. /\ Len(file) \in Nat /\ DOMAIN file = 1..Len(file)
      /\ \A i \in 1..Len(file) : file[i] \in FileLine
  BY DEF File
<1>2. \A i \in 1..Len(file) : Comment(file[i]) \in DocLine
  BY <1>1 DEF FileLine, Comment, DocLine
<1>3. /\ layout \in Seq(DocLine) /\ Len(layout) = Len(file)
      /\ \A i \in 1..Len(file) : layout[i] = IF IsComment(file, i) THEN Comment(file[i]) ELSE Marker
  BY <1>1, <1>2, MarkerType DEF LayoutOf
<1> HIDE DEF layout
<1>4. /\ \A i \in 1..Len(file) : layout[i].isRow <=> ~IsComment(file, i)
      /\ \A i \in 1..Len(file) : IsComment(file, i) => layout[i].comment = file[i]
  <2>1. ASSUME NEW i \in 1..Len(file)
        PROVE  (layout[i].isRow <=> ~IsComment(file, i))
               /\ (IsComment(file, i) => layout[i].comment = file[i])
    <3>1. CASE IsComment(file, i)
      <4>1. layout[i] = Comment(file[i])
        BY <1>3, <3>1, Zenon
      <4>2. ~layout[i].isRow /\ layout[i].comment = file[i]
        BY <4>1 DEF Comment
      <4> QED BY <3>1, <4>2, Zenon
    <3>2. CASE ~IsComment(file, i)
      <4>1. layout[i] = Marker
        BY <1>3, <3>2, Zenon
      <4>2. layout[i].isRow
        BY <4>1 DEF Marker
      <4> QED BY <3>2, <4>2, Zenon
    <3> QED BY <3>1, <3>2
  <2> QED BY <2>1
<1>5. /\ \A i : i \in Markers(layout) <=> i \in 1..Len(file) /\ layout[i].isRow
      /\ \A i : i \in Comments(layout) <=> i \in 1..Len(file) /\ ~layout[i].isRow
  BY <1>3, CommentsFinite DEF Markers
<1> QED BY <1>1, <1>3, <1>4, <1>5 DEF layout

\* The marker with so many before it.
LEMMA MarkerFoundAgain ==
  ASSUME NEW layout \in Seq(DocLine), NEW i \in Markers(layout)
  PROVE  /\ MarkersBefore(layout, i) \in 0..(Cardinality(Markers(layout)) - 1)
         /\ MarkerIndex(layout, MarkersBefore(layout, i)) = i
<1> DEFINE M == Markers(layout)
           k == MarkerIndex(layout, Rank(M, i))
<1>1. M \in SUBSET Nat /\ IsFiniteSet(M)
  BY MarkersFinite
<1>2. Rank(M, i) \in 0..(Cardinality(M) - 1) /\ MarkersBefore(layout, i) = Rank(M, i)
  BY <1>1, RankRange DEF MarkersBefore, Rank
<1>3. k \in M /\ Rank(M, k) = Rank(M, i)
  BY <1>2, MarkerFound DEF MarkersBefore, Rank
<1> HIDE DEF k, M
<1>4. ~(i < k) /\ ~(k < i)
  <2>1. Rank(M, i) \in Int
    BY <1>2, <1>1, FS_CardinalityType
  <2>2. ~(Rank(M, i) < Rank(M, i))
    BY <2>1
  <2>3. i \in M
    BY DEF M
  <2> QED BY <1>1, <1>3, <2>2, <2>3, RankGrows
<1>5. k = i
  BY <1>1, <1>3, <1>4 DEF M
<1> QED BY <1>2, <1>5 DEF k, M

\* The lines a document is written as.
LEMMA TextLines ==
  ASSUME NEW d, Writable(d)
  PROVE  /\ TextOf(d) \in File /\ Len(TextOf(d)) = Len(d.layout)
         /\ \A i \in Markers(d.layout) :
              /\ MarkersBefore(d.layout, i) + 1 \in 1..Len(d.cells)
              /\ TextOf(d)[i] = Fields(d.cells[MarkersBefore(d.layout, i) + 1])
              /\ TextOf(d)[i] \in Seq(GoodCell) \ {<<>>}
         /\ \A i \in Comments(d.layout) : TextOf(d)[i] = d.layout[i].comment
<1> DEFINE L == d.layout
           T == TextOf(d)
           n == Len(L)
<1>1. /\ L \in Seq(DocLine) /\ Len(d.cells) \in Nat /\ Cardinality(Markers(L)) = Len(d.cells)
      /\ d.cells \in Seq(Seq(GoodCell))
  BY MatchedFields DEF Writable
<1>2. T = [i \in DOMAIN L |-> IF L[i].isRow THEN Fields(d.cells[MarkersBefore(L, i) + 1])
                              ELSE L[i].comment]
  BY DEF TextOf
<1>3. /\ n \in Nat /\ DOMAIN L = 1..n
      /\ \A i : i \in Markers(L) <=> i \in 1..n /\ L[i].isRow
      /\ \A i : i \in Comments(L) <=> i \in 1..n /\ ~L[i].isRow
  BY <1>1, CommentsFinite DEF Markers
<1> HIDE DEF T, L, n
<1>4. ASSUME NEW i \in Markers(L)
      PROVE  /\ MarkersBefore(L, i) + 1 \in 1..Len(d.cells)
             /\ T[i] = Fields(d.cells[MarkersBefore(L, i) + 1])
             /\ T[i] \in Seq(GoodCell) \ {<<>>}
  <2>1. MarkersBefore(L, i) + 1 \in 1..Len(d.cells)
    BY <1>1, MarkerFoundAgain
  <2>2. T[i] = Fields(d.cells[MarkersBefore(L, i) + 1])
    BY <1>2, <1>3
  <2>3. ASSUME NEW row \in Seq(GoodCell)  PROVE Fields(row) \in Seq(GoodCell) \ {<<>>}
    BY RowFields
  <2>4. d.cells[MarkersBefore(L, i) + 1] \in Seq(GoodCell)
    BY <1>1, <2>1
  <2> QED BY <2>1, <2>2, <2>3, <2>4
<1>5. ASSUME NEW i \in Comments(L)  PROVE T[i] = L[i].comment /\ T[i] \in FileLine
  <2>1. T[i] = L[i].comment
    BY <1>2, <1>3
  <2> QED BY <2>1 DEF Writable, CommentsRead, ReadsAsComment, L
<1>6. \A i \in 1..n : T[i] \in FileLine
  <2>1. Seq(GoodCell) \ {<<>>} \subseteq FileLine
    BY DEF GoodCell, FileLine
  <2>2. \A i \in 1..n : i \in Markers(L) \/ i \in Comments(L)
    BY <1>3
  <2> QED BY <1>4, <1>5, <2>1, <2>2
<1>7. T \in File /\ Len(T) = n
  <2>1. T = [i \in 1..n |-> T[i]]
    BY <1>2, <1>3
  <2> QED BY <1>3, <1>6, <2>1 DEF File
<1> QED BY <1>4, <1>5, <1>7 DEF T, L, n

LEMMA WritableParts ==
  ASSUME NEW d, Writable(d)
  PROVE  /\ Matched(d) /\ d.layout \in Seq(DocLine) /\ d.cells \in Grid /\ d.cells \in Seq(Seq(GoodCell))
         /\ Len(d.cells) \in Nat /\ Cardinality(Markers(d.layout)) = Len(d.cells)
         /\ CommentsRead(d.layout)
BY MatchedFields DEF Writable

\* The lines read back as rows were written as rows.
LEMMA RowsWereRows ==
  ASSUME NEW d, Writable(d), NEW i \in Markers(LayoutOf(TextOf(d)))
  PROVE  /\ i \in Markers(d.layout)
         /\ \E r \in 1..Len(d.cells) : TextOf(d)[i] = Fields(d.cells[r]) /\ d.cells[r] \in Seq(GoodCell)
<1> DEFINE L == d.layout
           T == TextOf(d)
<1>1. /\ T \in File /\ Len(T) = Len(L)
      /\ \A j \in Markers(L) : /\ MarkersBefore(L, j) + 1 \in 1..Len(d.cells)
                               /\ T[j] = Fields(d.cells[MarkersBefore(L, j) + 1])
      /\ \A j \in Comments(L) : T[j] = L[j].comment
  BY TextLines
<1>2. L \in Seq(DocLine) /\ d.cells \in Seq(Seq(GoodCell))
  BY MatchedFields DEF Writable
<1>3. \A j : j \in 1..Len(L) => j \in Markers(L) \/ j \in Comments(L)
  BY <1>2 DEF Comments
<1>4. CommentsRead(L)
  BY DEF Writable
<1> HIDE DEF L, T
<1>5. i \in 1..Len(T) /\ ~IsComment(T, i)
  BY <1>1, LayoutRead DEF T
<1>6. i \notin Comments(L)
  <2>1. i \in Comments(L) => T[i][1].text \in HashText \/ (i = 1 /\ T[i][1].text \in BangText)
    BY <1>1, <1>4 DEF CommentsRead, ReadsAsComment
  <2> QED BY <1>5, <2>1 DEF IsComment
<1>7. i \in Markers(L)
  BY <1>1, <1>3, <1>5, <1>6
<1> QED BY <1>1, <1>2, <1>7 DEF L, T

\* A document the bridge writes is read back without an error, if what was printed is.
LEMMA TextParses ==
  ASSUME NEW d, Writable(d), PrintsReadably(d.cells)
  PROVE  Parses(TextOf(d))
<1> DEFINE T == TextOf(d)
<1>1. ASSUME NEW row \in Seq(GoodCell), row \in ToSet(d.cells)
      PROVE  \A k \in DOMAIN row : Readable(row[k])
  <2>1. \A k \in DOMAIN row : row[k].rendered => Readable(row[k])
    BY <1>1 DEF PrintsReadably
  <2>2. \A k \in DOMAIN row : row[k] \in GoodCell
    BY <1>1
  <2> QED BY <2>1, <2>2 DEF GoodCell
<1>2. ASSUME NEW i \in Markers(LayoutOf(T))
      PROVE  \A k \in DOMAIN T[i] : Readable(T[i][k])
  <2>1. PICK r \in 1..Len(d.cells) : T[i] = Fields(d.cells[r]) /\ d.cells[r] \in Seq(GoodCell)
    BY RowsWereRows
  <2>2. d.cells[r] \in ToSet(d.cells)
    BY WritableParts DEF ToSet, Grid
  <2> HIDE DEF T
  <2> QED BY <1>1, <2>1, <2>2, RowFields
<1> QED BY <1>2 DEF Parses, T

\* A file whose rows read as they stand is written back as it was read.
LEMMA WriteAfterRead ==
  ASSUME NEW file \in File, \A i \in Markers(LayoutOf(file)) : Fields(file[i]) = file[i]
  PROVE  TextOf(ParseDocument(file)) = file
<1> DEFINE L == LayoutOf(file)
           d == ParseDocument(file)
           T == TextOf(d)
           n == Cardinality(Markers(L))
<1>1. /\ L \in Seq(DocLine) /\ Len(L) = Len(file)
      /\ \A i \in 1..Len(file) : file[i] \in FileLine
      /\ \A i \in Comments(L) : L[i].comment = file[i]
  BY LayoutRead
<1>2. d = [cells |-> [r \in 1..n |-> file[MarkerIndex(L, r - 1)]], layout |-> L]
  BY DEF ParseDocument
<1>3. d.layout = L /\ \A r \in 1..n : d.cells[r] = file[MarkerIndex(L, r - 1)]
  BY <1>2
<1>0. n \in Nat
  BY <1>1, MarkersFinite
<1>4. /\ Len(L) \in Nat /\ DOMAIN L = 1..Len(L)
      /\ \A i : i \in Markers(L) <=> i \in 1..Len(L) /\ L[i].isRow
      /\ \A i : i \in Comments(L) <=> i \in 1..Len(L) /\ ~L[i].isRow
  BY <1>1, CommentsFinite DEF Markers
<1> HIDE DEF L, d
<1>5. T = [i \in DOMAIN L |-> IF L[i].isRow THEN Fields(d.cells[MarkersBefore(L, i) + 1])
                              ELSE L[i].comment]
  BY <1>3 DEF TextOf
<1> HIDE DEF T
<1>6. ASSUME NEW i \in 1..Len(L)  PROVE T[i] = file[i]
  <2>1. CASE i \in Comments(L)
    BY <1>1, <1>4, <1>5, <2>1
  <2>2. CASE i \in Markers(L)
    <3>1. MarkersBefore(L, i) \in 0..(n - 1) /\ MarkerIndex(L, MarkersBefore(L, i)) = i
      BY <1>1, <2>2, MarkerFoundAgain
    <3>2. MarkersBefore(L, i) + 1 \in 1..n /\ (MarkersBefore(L, i) + 1) - 1 = MarkersBefore(L, i)
      <4> HIDE DEF n
      <4> QED BY <1>0, <3>1
    <3>3. d.cells[MarkersBefore(L, i) + 1] = file[i]
      BY <1>3, <3>1, <3>2
    <3>4. T[i] = Fields(file[i])
      BY <1>4, <1>5, <2>2, <3>3
    <3> QED BY <2>2, <3>4 DEF L
  <2> QED BY <1>4, <2>1, <2>2
<1>7. T = [i \in 1..Len(L) |-> file[i]]
  BY <1>4, <1>5, <1>6
<1>8. file = [i \in 1..Len(file) |-> file[i]]
  BY DEF File
<1>9. T = file
  BY <1>1, <1>7, <1>8
<1> QED BY <1>9 DEF T, d

\* A file that parses is read as a document the bridge writes.
LEMMA ReadIsWritable ==
  ASSUME NEW file \in File, Parses(file)
  PROVE  Writable(ParseDocument(file))
<1> DEFINE L == LayoutOf(file)
           n == Cardinality(Markers(L))
           cells == [r \in 1..n |-> file[MarkerIndex(L, r - 1)]]
<1>1. /\ L \in Seq(DocLine) /\ Len(L) = Len(file)
      /\ \A i \in 1..Len(file) : file[i] \in FileLine
      /\ \A i : i \in Markers(L) <=> i \in 1..Len(file) /\ ~IsComment(file, i)
      /\ \A i : i \in Comments(L) <=> i \in 1..Len(file) /\ IsComment(file, i)
      /\ \A i \in Comments(L) : L[i].comment = file[i]
  BY LayoutRead
<1>2. Matched(ParseDocument(file))
  BY ParseMatches
<1>3. ParseDocument(file) = [cells |-> cells, layout |-> L]
  BY DEF ParseDocument
<1>4. \A i \in Markers(L) : \A k \in DOMAIN file[i] : Readable(file[i][k])
  BY DEF Parses
<1>5. n \in Nat
  BY <1>1, MarkersFinite
<1> HIDE DEF L
<1>6. ASSUME NEW r \in 1..n  PROVE file[MarkerIndex(L, r - 1)] \in Seq(GoodCell)
  <2> DEFINE i == MarkerIndex(L, r - 1)
  <2>1. r - 1 \in 0..(n - 1)
    <3> HIDE DEF n
    <3> QED BY <1>5
  <2>2. i \in Markers(L)
    BY <1>1, <2>1, MarkerFound
  <2> HIDE DEF i
  <2>3. file[i] \in Seq(Cell) /\ \A k \in DOMAIN file[i] : Readable(file[i][k])
    BY <1>1, <1>4, <2>2 DEF FileLine
  <2>4. \A k \in 1..Len(file[i]) : file[i][k] \in GoodCell
    BY <2>3 DEF GoodCell
  <2>5. file[i] \in Seq(GoodCell)
    BY <2>3, <2>4
  <2> QED BY <2>5 DEF i
<1>7. cells \in Seq(Seq(GoodCell))
  <2> HIDE DEF n
  <2> QED BY <1>5, <1>6
<1>8. CommentsRead(L)
  BY <1>1 DEF CommentsRead, ReadsAsComment, IsComment
<1> HIDE DEF cells
<1> QED BY <1>2, <1>3, <1>7, <1>8 DEF Writable

-----------------------------------------------------------------------------
(***************************************************************************)
(* Every operation leaves a document the bridge can write: no cell with a  *)
(* malformed formula comes in, and a comment on the first line stays there.*)
(***************************************************************************)

LEMMA GoodRow ==
  ASSUME NEW row
  PROVE  row \in Seq(GoodCell) <=>
           row \in Row /\ \A k \in DOMAIN row : row[k].rendered \/ Readable(row[k])
<1>1. ASSUME row \in Seq(GoodCell)
      PROVE  row \in Row /\ \A k \in DOMAIN row : row[k].rendered \/ Readable(row[k])
  <2>1. \A k \in DOMAIN row : row[k] \in GoodCell
    BY <1>1
  <2>2. row \in Seq(Cell)
    BY <1>1 DEF GoodCell
  <2> QED BY <2>1, <2>2 DEF GoodCell, Row
<1>2. ASSUME row \in Row, \A k \in DOMAIN row : row[k].rendered \/ Readable(row[k])
      PROVE  row \in Seq(GoodCell)
  <2>1. \A k \in 1..Len(row) : row[k] \in GoodCell
    BY <1>2 DEF GoodCell, Row
  <2> QED BY <1>2, <2>1 DEF Row
<1> QED BY <1>1, <1>2

LEMMA GoodGrid ==
  ASSUME NEW cells \in Grid
  PROVE  cells \in Seq(Seq(GoodCell)) <=>
           \A r \in 1..Len(cells) : \A k \in DOMAIN cells[r] :
             cells[r][k].rendered \/ Readable(cells[r][k])
<1>1. \A r \in 1..Len(cells) : cells[r] \in Row
  BY DEF Grid
<1>2. cells \in Seq(Seq(GoodCell)) <=> \A r \in 1..Len(cells) : cells[r] \in Seq(GoodCell)
  BY DEF Grid
<1> QED BY <1>1, <1>2, GoodRow

LEMMA RewriteKeepsGood ==
  ASSUME NEW cells \in Grid, cells \in Seq(Seq(GoodCell)), NEW e \in Edit
  PROVE  RewriteAll(cells, e) \in Seq(Seq(GoodCell))
<1> DEFINE new == RewriteAll(cells, e)
<1>1. new \in Grid /\ Len(new) = Len(cells)
  BY RewriteAllType
<1>2. ASSUME NEW r \in 1..Len(cells)
      PROVE  \A k \in DOMAIN new[r] : new[r][k].rendered \/ Readable(new[r][k])
  <2>1. new[r] = [k \in DOMAIN cells[r] |-> RewriteCell(cells[r][k], e)]
    BY DEF RewriteAll, RewriteRow, Grid
  <2>2. \A k \in DOMAIN cells[r] : cells[r][k].rendered \/ Readable(cells[r][k])
    BY GoodGrid
  <2> HIDE DEF new
  <2>3. ASSUME NEW k \in DOMAIN new[r]  PROVE new[r][k].rendered \/ Readable(new[r][k])
    <3>1. k \in DOMAIN cells[r] /\ new[r][k] = RewriteCell(cells[r][k], e)
      BY <2>1
    <3>2. RewriteCell(cells[r][k], e) = cells[r][k] \/ RewriteCell(cells[r][k], e).rendered
      BY DEF RewriteCell
    <3> QED BY <2>2, <3>1, <3>2
  <2> QED BY <2>3
<1> HIDE DEF new
<1>3. new \in Seq(Seq(GoodCell))
  BY <1>1, <1>2, GoodGrid
<1> QED BY <1>3 DEF new

\* The four edits of a grid.
LEMMA EditsKeepGood ==
  ASSUME NEW cells \in Grid, cells \in Seq(Seq(GoodCell)), NEW at \in Int
  PROVE  /\ InsertRowOf(cells, at) \in Seq(Seq(GoodCell))
         /\ DeleteRowOf(cells, at) \in Seq(Seq(GoodCell))
         /\ InsertColOf(cells, at) \in Seq(Seq(GoodCell))
         /\ DeleteColOf(cells, at) \in Seq(Seq(GoodCell))
<1>0. /\ Len(cells) \in Nat /\ DOMAIN cells = 1..Len(cells)
      /\ \A r \in 1..Len(cells) : cells[r] \in Seq(GoodCell) /\ Len(cells[r]) \in Nat
  BY DEF Grid
<1>1. Seq(Seq(GoodCell)) \subseteq Grid
  BY DEF GoodCell, Grid, Row
<1>2. ASSUME NEW axis \in Axis  PROVE Insert(axis, at) \in Edit /\ Delete(axis, at) \in Edit
  BY EditType
<1>3. InsertRowOf(cells, at) \in Seq(Seq(GoodCell))
  <2>1. CASE at < 0
    BY <2>1 DEF InsertRowOf
  <2>2. CASE ~(at < 0)
    <3>1. Lower(at, Len(cells)) + 1 \in 1..(Len(cells) + 1)
      BY <1>0, <2>2 DEF Lower
    <3>2. Blanks(WidestRow(cells)) \in Seq(GoodCell)
      BY GoodBlank, WidestRowType DEF Blanks
    <3>3. InsertLine(cells, at) \in Seq(Seq(GoodCell))
      BY <3>1, <3>2, InsertAtProperties DEF InsertLine, Inserted
    <3>4. RewriteAll(InsertLine(cells, at), Insert("row", at)) \in Seq(Seq(GoodCell))
      BY <1>1, <1>2, <3>3, RewriteKeepsGood DEF Axis
    <3> QED BY <2>2, <3>4 DEF InsertRowOf
  <2> QED BY <2>1, <2>2
<1>4. DeleteRowOf(cells, at) \in Seq(Seq(GoodCell))
  <2>1. CASE at \notin 0..(Len(cells) - 1)
    BY <2>1 DEF DeleteRowOf
  <2>2. CASE at \in 0..(Len(cells) - 1)
    <3>1. at + 1 \in 1..Len(cells)
      BY <1>0, <2>2
    <3>2. DeleteLine(cells, at) \in Seq(Seq(GoodCell))
      BY <3>1, RemoveAtProperties DEF DeleteLine
    <3>3. RewriteAll(DeleteLine(cells, at), Delete("row", at)) \in Seq(Seq(GoodCell))
      BY <1>1, <1>2, <3>2, RewriteKeepsGood DEF Axis
    <3> QED BY <2>2, <3>3 DEF DeleteRowOf
  <2> QED BY <2>1, <2>2
<1>5. InsertColOf(cells, at) \in Seq(Seq(GoodCell))
  <2>1. CASE at < 0
    BY <2>1 DEF InsertColOf
  <2>2. CASE ~(at < 0)
    <3>1. ASSUME NEW r \in 1..Len(cells)
          PROVE  (IF at > Len(cells[r]) THEN cells[r] ELSE InsertAt(cells[r], at + 1, BlankCell))
                   \in Seq(GoodCell)
      <4>1. CASE at > Len(cells[r])
        BY <1>0, <4>1
      <4>2. CASE ~(at > Len(cells[r]))
        <5>1. at + 1 \in 1..(Len(cells[r]) + 1) /\ cells[r] \in Seq(GoodCell)
          BY <1>0, <2>2, <4>2
        <5>2. InsertAt(cells[r], at + 1, BlankCell) \in Seq(GoodCell)
          BY <5>1, GoodBlank, InsertAtProperties DEF Inserted
        <5> QED BY <4>2, <5>2
      <4> QED BY <4>1, <4>2
    <3>2. InsertColumn(cells, at) \in Seq(Seq(GoodCell))
      BY <1>0, <3>1 DEF InsertColumn
    <3>3. RewriteAll(InsertColumn(cells, at), Insert("col", at)) \in Seq(Seq(GoodCell))
      BY <1>1, <1>2, <3>2, RewriteKeepsGood DEF Axis
    <3> QED BY <2>2, <3>3 DEF InsertColOf
  <2> QED BY <2>1, <2>2
<1>6. DeleteColOf(cells, at) \in Seq(Seq(GoodCell))
  <2>1. CASE at \notin 0..(WidestRow(cells) - 1)
    BY <2>1 DEF DeleteColOf
  <2>2. CASE at \in 0..(WidestRow(cells) - 1)
    <3>0. at >= 0
      BY <2>2, WidestRowType
    <3>1. ASSUME NEW r \in 1..Len(cells)
          PROVE  (IF at >= Len(cells[r]) THEN cells[r] ELSE RemoveAt(cells[r], at + 1))
                   \in Seq(GoodCell)
      <4>1. CASE at >= Len(cells[r])
        BY <1>0, <4>1
      <4>2. CASE ~(at >= Len(cells[r]))
        <5>1. at + 1 \in 1..Len(cells[r]) /\ cells[r] \in Seq(GoodCell)
          BY <1>0, <3>0, <4>2
        <5>2. RemoveAt(cells[r], at + 1) \in Seq(GoodCell)
          BY <5>1, RemoveAtProperties
        <5> QED BY <4>2, <5>2
      <4> QED BY <4>1, <4>2
    <3>2. DeleteColumn(cells, at) \in Seq(Seq(GoodCell))
      BY <1>0, <3>1 DEF DeleteColumn
    <3>3. RewriteAll(DeleteColumn(cells, at), Delete("col", at)) \in Seq(Seq(GoodCell))
      BY <1>1, <1>2, <3>2, RewriteKeepsGood DEF Axis
    <3> QED BY <2>2, <3>3 DEF DeleteColOf
  <2> QED BY <2>1, <2>2
<1> QED BY <1>3, <1>4, <1>5, <1>6

\* A marker is spliced in below a comment on the first line.
LEMMA SpliceKeepsRead ==
  ASSUME NEW layout \in Seq(DocLine), CommentsRead(layout), NEW row \in Int
  PROVE  CommentsRead(SpliceMarker(layout, row))
<1> DEFINE i == MarkerIndex(layout, row)
           new == InsertAt(layout, i, Marker)
<1>1. i \in 1..(Len(layout) + 1) /\ Len(layout) \in Nat
  BY MarkerIndexInRange
<1>2. i \in Markers(layout) \/ i = Len(layout) + 1
  <2>1. CASE row \in 0..(Cardinality(Markers(layout)) - 1)
    BY <2>1, MarkerFound
  <2>2. CASE row \notin 0..(Cardinality(Markers(layout)) - 1)
    BY <2>2 DEF MarkerIndex
  <2> QED BY <2>1, <2>2
<1>3. \A j : j \in Comments(layout) <=> j \in 1..Len(layout) /\ ~layout[j].isRow
  BY CommentsFinite
<1>4. \A j \in Comments(layout) : j = 1 => i # 1
  BY <1>1, <1>2, <1>3 DEF Comments
<1> HIDE DEF i
<1>5. /\ new \in Seq(DocLine) /\ Len(new) = Len(layout) + 1
      /\ \A j \in 1..(Len(layout) + 1) :
           new[j] = IF j < i THEN layout[j] ELSE IF j = i THEN Marker ELSE layout[j - 1]
  BY <1>1, MarkerType, InsertAtProperties DEF Inserted
<1> HIDE DEF new
<1>6. \A j : j \in Comments(new) <=> j \in 1..Len(new) /\ ~new[j].isRow
  BY <1>5, CommentsFinite
<1>7. ASSUME NEW j \in Comments(new)  PROVE ReadsAsComment(new[j].comment, j)
  <2>1. j \in 1..(Len(layout) + 1) /\ ~new[j].isRow /\ j # i
    <3>1. new[i] = Marker
      BY <1>1, <1>5
    <3> QED BY <1>5, <1>6, <3>1, MarkerType
  <2>2. CASE j < i
    <3>1. j \in 1..Len(layout) /\ new[j] = layout[j]
      BY <1>1, <1>5, <2>1, <2>2
    <3> QED BY <1>3, <2>1, <3>1 DEF CommentsRead
  <2>3. CASE ~(j < i)
    <3>1. j - 1 \in 1..Len(layout) /\ new[j] = layout[j - 1]
      BY <1>1, <1>5, <2>1, <2>3
    <3>2. j - 1 \in Comments(layout)
      BY <1>3, <2>1, <3>1
    <3>3. j - 1 # 1
      BY <1>1, <1>4, <2>1, <2>3, <3>2
    <3>4. ReadsAsComment(new[j].comment, j - 1)
      BY <3>1, <3>2 DEF CommentsRead
    <3> QED BY <3>3, <3>4 DEF ReadsAsComment
  <2> QED BY <2>2, <2>3
<1> QED BY <1>7 DEF CommentsRead, SpliceMarker, new, i

LEMMA RemoveKeepsRead ==
  ASSUME NEW layout \in Seq(DocLine), CommentsRead(layout),
         NEW row \in 0..(Cardinality(Markers(layout)) - 1)
  PROVE  CommentsRead(RemoveMarker(layout, row))
<1> DEFINE i == MarkerIndex(layout, row)
           new == RemoveAt(layout, i)
<1>1. i \in Markers(layout) /\ i \in 1..Len(layout) /\ Len(layout) \in Nat
  BY MarkerFound, MarkersFinite
<1>2. \A j : j \in Comments(layout) <=> j \in 1..Len(layout) /\ ~layout[j].isRow
  BY CommentsFinite
<1> HIDE DEF i
<1>3. /\ new \in Seq(DocLine) /\ Len(new) = Len(layout) - 1
      /\ \A j \in 1..(Len(layout) - 1) : new[j] = IF j < i THEN layout[j] ELSE layout[j + 1]
  BY <1>1, RemoveAtProperties
<1> HIDE DEF new
<1>4. \A j : j \in Comments(new) <=> j \in 1..Len(new) /\ ~new[j].isRow
  BY <1>3, CommentsFinite
<1>5. ASSUME NEW j \in Comments(new)  PROVE ReadsAsComment(new[j].comment, j)
  <2>1. j \in 1..(Len(layout) - 1) /\ ~new[j].isRow
    BY <1>3, <1>4
  <2>2. CASE j < i
    <3>1. j \in 1..Len(layout) /\ new[j] = layout[j]
      BY <1>1, <1>3, <2>1, <2>2
    <3> QED BY <1>2, <2>1, <3>1 DEF CommentsRead
  <2>3. CASE ~(j < i)
    <3>1. j + 1 \in 1..Len(layout) /\ new[j] = layout[j + 1] /\ j + 1 # 1
      BY <1>1, <1>3, <2>1, <2>3
    <3>2. ReadsAsComment(new[j].comment, j + 1)
      BY <1>2, <2>1, <3>1 DEF CommentsRead
    <3> QED BY <3>1, <3>2 DEF ReadsAsComment
  <2> QED BY <2>2, <2>3
<1> QED BY <1>5 DEF CommentsRead, RemoveMarker, new, i

LEMMA AppendKeepsRead ==
  ASSUME NEW layout \in Seq(DocLine), CommentsRead(layout), NEW n \in Nat
  PROVE  CommentsRead(AppendMarkers(layout, n))
BY AppendedComments DEF CommentsRead

LEMMA SetCellWritable ==
  ASSUME NEW d, Writable(d), NEW row \in Nat, NEW col \in Nat, NEW c \in GoodCell
  PROVE  Writable(DocSetCell(d, row, col, c))
<1> DEFINE new == DocSetCell(d, row, col, c)
           cells == Set(d.cells, row, col, c)
           grown == Len(cells) - Len(d.cells)
<1>1. Matched(new)
  BY WritableParts, SetCellMatches DEF GoodCell
<1>2. cells \in Seq(Seq(GoodCell)) /\ Len(cells) = Higher(Len(d.cells), row + 1)
  <2>1. BlankCell \in GoodCell /\ d.cells \in Seq(Seq(GoodCell))
    BY WritableParts, GoodBlank
  <2> QED BY <2>1, SetKeepsType
<1> HIDE DEF cells
<1>3. grown \in Nat
  BY <1>2, WritableParts DEF Higher
<1> HIDE DEF grown
<1>4. CommentsRead(AppendMarkers(d.layout, grown))
  BY <1>3, WritableParts, AppendKeepsRead
<1>5. new = [cells |-> cells, layout |-> AppendMarkers(d.layout, grown)]
  BY DEF DocSetCell, cells, grown
<1> HIDE DEF new
<1>6. Writable(new)
  BY <1>1, <1>2, <1>4, <1>5 DEF Writable
<1> QED BY <1>6 DEF new

LEMMA EditsWritable ==
  ASSUME NEW d, Writable(d), NEW at \in Int
  PROVE  /\ Writable(DocInsertRow(d, at)) /\ Writable(DocDeleteRow(d, at))
         /\ Writable(DocInsertCol(d, at)) /\ Writable(DocDeleteCol(d, at))
<1>1. /\ Matched(d) /\ d.layout \in Seq(DocLine) /\ d.cells \in Grid /\ d.cells \in Seq(Seq(GoodCell))
      /\ Len(d.cells) \in Nat /\ Cardinality(Markers(d.layout)) = Len(d.cells)
      /\ CommentsRead(d.layout)
  BY WritableParts
<1>2. /\ InsertRowOf(d.cells, at) \in Seq(Seq(GoodCell))
      /\ DeleteRowOf(d.cells, at) \in Seq(Seq(GoodCell))
      /\ InsertColOf(d.cells, at) \in Seq(Seq(GoodCell))
      /\ DeleteColOf(d.cells, at) \in Seq(Seq(GoodCell))
  BY <1>1, EditsKeepGood
<1>3. Writable(DocInsertRow(d, at))
  <2> DEFINE new == DocInsertRow(d, at)
             layout == SpliceMarker(d.layout, Lower(at, Len(d.cells)))
  <2>1. Matched(new)
    BY <1>1, InsertRowMatches
  <2>2. Lower(at, Len(d.cells)) \in Int
    BY <1>1 DEF Lower
  <2>3. CommentsRead(layout)
    BY <1>1, <2>2, SpliceKeepsRead
  <2>4. new = d \/ new = [cells |-> InsertRowOf(d.cells, at), layout |-> layout]
    BY DEF DocInsertRow
  <2> HIDE DEF new, layout
  <2>5. Writable(new)
    BY <1>2, <2>1, <2>3, <2>4 DEF Writable
  <2> QED BY <2>5 DEF new
<1>4. Writable(DocDeleteRow(d, at))
  <2> DEFINE new == DocDeleteRow(d, at)
             layout == RemoveMarker(d.layout, at)
  <2>1. Matched(new)
    BY <1>1, DeleteRowMatches
  <2>2. CASE at \notin 0..(Len(d.cells) - 1)
    <3>1. DeleteRowOf(d.cells, at) = d.cells
      BY <2>2 DEF DeleteRowOf
    <3>2. new = d
      BY <3>1 DEF DocDeleteRow
    <3> QED BY <3>2
  <2>3. CASE at \in 0..(Len(d.cells) - 1)
    <3>1. CommentsRead(layout)
      BY <1>1, <2>3, RemoveKeepsRead
    <3>2. new = d \/ new = [cells |-> DeleteRowOf(d.cells, at), layout |-> layout]
      BY DEF DocDeleteRow
    <3> HIDE DEF new, layout
    <3>3. Writable(new)
      BY <1>2, <2>1, <3>1, <3>2 DEF Writable
    <3> QED BY <3>3 DEF new
  <2> QED BY <2>2, <2>3
<1>5. ASSUME NEW new, new = DocInsertCol(d, at) \/ new = DocDeleteCol(d, at)  PROVE Writable(new)
  <2>1. Matched(new)
    BY <1>1, <1>5, ColumnsMatch
  <2>2. new.layout = d.layout
        /\ (new.cells = InsertColOf(d.cells, at) \/ new.cells = DeleteColOf(d.cells, at))
    BY <1>5 DEF DocInsertCol, DocDeleteCol
  <2> QED BY <1>1, <1>2, <2>1, <2>2 DEF Writable
<1> QED BY <1>3, <1>4, <1>5

-----------------------------------------------------------------------------
(***************************************************************************)
(* Calls.                                                                  *)
(***************************************************************************)

\* The invariant: the page holds a file, and a view is how the bridge renders a
\* document that it can write.
ViewInv == /\ text \in File
           /\ Answered => \E d : Writable(d) /\ view = Render(d)

LEMMA CallKeeps ==
  ASSUME ViewInv, NEW d, NEW refused \in BOOLEAN, Call(d, refused),
         Parses(text) /\ ~refused => Writable(d)
  PROVE  ViewInv'
<1>1. CASE ~Parses(text) \/ refused
  BY <1>1 DEF ViewInv, Call, Answered
<1>2. CASE ~(~Parses(text) \/ refused)
  <2>1. Writable(d) /\ view' = Render(d) /\ text' = view'.text
    BY <1>2 DEF Call
  <2>2. text' = TextOf(d)
    BY <2>1 DEF Render
  <2>3. text' \in File
    BY <2>1, <2>2, TextLines
  <2> QED BY <2>1, <2>3 DEF ViewInv
<1> QED BY <1>1, <1>2

\* Every view is rendered from a document the bridge can write.
THEOREM ViewInvariance == Spec => []ViewInv
<1>1. Init => ViewInv
  BY FilesAssumption DEF Init, ViewInv, Answered
<1>2. ASSUME ViewInv, [Next]_vars  PROVE ViewInv'
  <2>0. /\ text \in File /\ GridDim \in Nat /\ Lines \subseteq Int
        /\ Parses(text) => Writable(Parsed)
    BY <1>2, LimitsAssumption, ReadIsWritable DEF ViewInv, Lines, Parsed
  <2>1. CASE UNCHANGED vars
    BY <1>2, <2>1 DEF ViewInv, Answered, vars
  <2>2. CASE Compute
    BY <1>2, <2>0, <2>2, CallKeeps DEF Compute
  <2>3. ASSUME NEW row \in Lines, NEW col \in Lines, NEW c \in Typed, SetCell(row, col, c)
        PROVE  ViewInv'
    <3> DEFINE refused == ~({row, col} \subseteq 0..(GridDim - 1)) \/ ~Readable(c)
    <3>1. ASSUME Parses(text), ~refused  PROVE Writable(DocSetCell(Parsed, row, col, c))
      <4>1. row \in Nat /\ col \in Nat
        BY <2>0, <3>1
      <4>2. c \in GoodCell
        BY <3>1, TypedAssumption DEF GoodCell
      <4> QED BY <2>0, <3>1, <4>1, <4>2, SetCellWritable
    <3>2. Call(DocSetCell(Parsed, row, col, c), refused) /\ refused \in BOOLEAN
      BY <2>3 DEF SetCell
    <3> HIDE DEF refused
    <3> QED BY <1>2, <3>1, <3>2, CallKeeps
  <2>4. ASSUME NEW at \in Lines, NEW d,
               d \in {DocInsertRow(Parsed, at), DocDeleteRow(Parsed, at),
                      DocInsertCol(Parsed, at), DocDeleteCol(Parsed, at)},
               Call(d, FALSE)
        PROVE  ViewInv'
    <3>1. Parses(text) => Writable(d)
      BY <2>0, <2>4, EditsWritable
    <3> QED BY <1>2, <2>4, <3>1, CallKeeps
  <2>5. ASSUME NEW at \in Lines,
               InsertRow(at) \/ DeleteRow(at) \/ InsertCol(at) \/ DeleteCol(at)
        PROVE  ViewInv'
    BY <2>4, <2>5 DEF InsertRow, DeleteRow, InsertCol, DeleteCol
  <2> QED BY <1>2, <2>1, <2>2, <2>3, <2>5 DEF Next
<1> QED BY <1>1, <1>2, PTL DEF Spec

\* The text of every view parses, if every formula that an edit printed in it does, and
\* the document it parses to is written as the same text again: a page that computes
\* without editing never sees its text change.
THEOREM TextStaysFixed == Spec => []TextIsFixedPoint
<1>1. ASSUME ViewInv  PROVE TextIsFixedPoint
  <2>1. SUFFICES ASSUME Answered, PrintsReadably(view.source)
                 PROVE  Parses(view.text) /\ TextOf(ParseDocument(view.text)) = view.text
    BY DEF TextIsFixedPoint
  <2>2. PICK d : Writable(d) /\ view = Render(d)
    BY <1>1, <2>1 DEF ViewInv
  <2>3. view.text = TextOf(d) /\ view.source = d.cells
    BY <2>2 DEF Render, Source
  <2>4. TextOf(d) \in File /\ \A i \in Markers(LayoutOf(TextOf(d))) : Fields(TextOf(d)[i]) = TextOf(d)[i]
    BY <2>2, TextLines, RowsWereRows, RowFields
  <2>5. Parses(TextOf(d))
    BY <2>1, <2>2, <2>3, TextParses
  <2> QED BY <2>3, <2>4, <2>5, WriteAfterRead
<1> QED BY <1>1, ViewInvariance, PTL

-----------------------------------------------------------------------------
(***************************************************************************)
(* The grid of a view and the grid its text is read back as.               *)
(***************************************************************************)

\* When no row begins like a shebang, the lines read back as rows are those of the
\* plain rows, in their order.
LEMMA PlainRowsReadBack ==
  ASSUME NEW d, Writable(d),
         \A r \in DOMAIN d.cells : d.cells[r] # <<>> => d.cells[r][1].text \notin BangText
  PROVE  LET S == PlainRows(d.cells)
             T == Markers(LayoutOf(TextOf(d)))
             f == [r \in S |-> MarkerIndex(d.layout, r - 1)]
         IN /\ SameOrder(S, T, f)
            /\ \A r \in S : TextOf(d)[f[r]] = Fields(d.cells[r])
<1> DEFINE L == d.layout
           n == Len(d.cells)
           file == TextOf(d)
           S == PlainRows(d.cells)
           T == Markers(LayoutOf(file))
           f == [r \in S |-> MarkerIndex(L, r - 1)]
<1>1. /\ L \in Seq(DocLine) /\ d.cells \in Seq(Seq(GoodCell)) /\ n \in Nat /\ DOMAIN d.cells = 1..n
      /\ Cardinality(Markers(L)) = n /\ CommentsRead(L)
  BY WritableParts
<1>2. /\ file \in File /\ Len(file) = Len(L)
      /\ \A i \in Markers(L) : /\ MarkersBefore(L, i) + 1 \in 1..n
                               /\ file[i] = Fields(d.cells[MarkersBefore(L, i) + 1])
      /\ \A i \in Comments(L) : file[i] = L[i].comment
  BY TextLines
<1>3. /\ Markers(L) \subseteq 1..Len(L) /\ \A i : i \in 1..Len(L) => i \in Markers(L) \/ i \in Comments(L)
      /\ Markers(L) \in SUBSET Nat /\ IsFiniteSet(Markers(L))
  BY <1>1, MarkersFinite DEF Comments
<1>4. \A r : r \in S <=> r \in 1..n /\ (d.cells[r] = <<>> \/ d.cells[r][1].text \notin HashText)
  BY <1>1 DEF PlainRows
<1> HIDE DEF L, n, file, S
<1>5. \A i : i \in T <=> i \in 1..Len(L) /\ ~IsComment(file, i)
  BY <1>2, LayoutRead
<1>6. ASSUME NEW r \in 1..n
      PROVE  /\ MarkerIndex(L, r - 1) \in Markers(L)
             /\ MarkersBefore(L, MarkerIndex(L, r - 1)) = r - 1
             /\ file[MarkerIndex(L, r - 1)] = Fields(d.cells[r])
  <2>1. r - 1 \in 0..(Cardinality(Markers(L)) - 1) /\ (r - 1) + 1 = r
    BY <1>1
  <2>2. MarkerIndex(L, r - 1) \in Markers(L) /\ MarkersBefore(L, MarkerIndex(L, r - 1)) = r - 1
    BY <1>1, <2>1, MarkerFound
  <2> QED BY <1>2, <2>1, <2>2
<1>7. ASSUME NEW r \in 1..n, NEW i, file[i] = Fields(d.cells[r])
      PROVE  r \in S <=> ~IsComment(file, i)
  <2>1. CASE d.cells[r] = <<>>
    <3>1. file[i] = <<BlankCell>>
      BY <1>7, <2>1 DEF Fields
    <3>2. file[i][1].text = Blank
      BY <3>1 DEF BlankCell
    <3>3. ~IsComment(file, i)
      BY <3>2, HashAssumption DEF IsComment
    <3> QED BY <1>4, <2>1, <3>3
  <2>2. CASE d.cells[r] # <<>>
    <3>1. file[i][1].text = d.cells[r][1].text
      BY <1>1, <1>7, <2>2, RowFields
    <3>2. d.cells[r][1].text \notin BangText
      BY <1>1, <2>2
    <3>3. IsComment(file, i) <=> d.cells[r][1].text \in HashText
      BY <3>1, <3>2 DEF IsComment
    <3> QED BY <1>4, <2>2, <3>3
  <2> QED BY <2>1, <2>2
<1>8. ASSUME NEW r \in S  PROVE f[r] \in T /\ file[f[r]] = Fields(d.cells[r])
  <2>1. r \in 1..n
    BY <1>4
  <2>2. f[r] = MarkerIndex(L, r - 1)
    OBVIOUS
  <2>3. f[r] \in Markers(L) /\ file[f[r]] = Fields(d.cells[r])
    BY <1>6, <2>1, <2>2
  <2> HIDE DEF f
  <2>4. ~IsComment(file, f[r])
    BY <1>7, <2>1, <2>3
  <2> QED BY <1>3, <1>5, <2>3, <2>4
<1>9. ASSUME NEW t \in T  PROVE \E r \in S : f[r] = t
  <2>1. t \in 1..Len(L) /\ ~IsComment(file, t)
    BY <1>5
  <2>2. t \in Markers(L)
    <3>1. t \in Comments(L) => IsComment(file, t)
      BY <1>1, <1>2 DEF CommentsRead, ReadsAsComment, IsComment
    <3> QED BY <1>3, <2>1, <3>1
  <2> DEFINE r == MarkersBefore(L, t) + 1
  <2>3. r \in 1..n /\ file[t] = Fields(d.cells[r])
    BY <1>2, <2>2
  <2>4. MarkersBefore(L, t) \in 0..(Cardinality(Markers(L)) - 1) /\ MarkerIndex(L, MarkersBefore(L, t)) = t
    BY <1>1, <2>2, MarkerFoundAgain
  <2>5. r - 1 = MarkersBefore(L, t)
    BY <1>1, <2>4
  <2> HIDE DEF r
  <2>6. r \in S
    BY <1>7, <2>1, <2>3
  <2>7. f[r] = t
    BY <2>4, <2>5, <2>6
  <2> QED BY <2>6, <2>7
<1>10. ASSUME NEW r \in S, NEW s \in S, r < s  PROVE f[r] < f[s]
  <2> DEFINE i == MarkerIndex(L, r - 1)
             j == MarkerIndex(L, s - 1)
  <2>1. r \in 1..n /\ s \in 1..n
    BY <1>4
  <2>2. /\ i \in Markers(L) /\ Rank(Markers(L), i) = r - 1
        /\ j \in Markers(L) /\ Rank(Markers(L), j) = s - 1
    BY <1>6, <2>1 DEF MarkersBefore, Rank
  <2> HIDE DEF i, j
  <2>3. i # j
    BY <1>10, <2>1, <2>2
  <2>4. ~(j < i)
    <3>1. ~(s - 1 < r - 1)
      BY <1>10, <2>1
    <3> QED BY <1>3, <2>2, <3>1, RankGrows
  <2>5. i < j
    BY <1>3, <2>2, <2>3, <2>4
  <2> QED BY <2>5 DEF i, j
<1> HIDE DEF f, T
<1>11. SameOrder(S, T, f)
  BY <1>8, <1>9, <1>10 DEF SameOrder
<1> QED BY <1>8, <1>11 DEF S, T, f, file, L

LEMMA MarkerIsNth ==
  ASSUME NEW layout, NEW k \in Int, k - 1 \in 0..(Cardinality(Markers(layout)) - 1)
  PROVE  MarkerIndex(layout, k - 1) = Nth(Markers(layout), k)
BY DEF MarkerIndex, Nth, MarkersBefore

\* Whatever the calls, the text of a view is read back as the grid of the view, but
\* for rows without cells, which come back with one, and rows that read as comments,
\* which do not come back.
THEOREM ViewsDescribePlainRows == Spec => []ViewDescribesPlainRows
<1>1. ASSUME ViewInv  PROVE ViewDescribesPlainRows
  <2>1. SUFFICES ASSUME Answered, Parses(view.text),
                        \A row \in ToSet(view.source) : row # <<>> => row[1].text \notin BangText
                 PROVE  ParseDocument(view.text).cells
                          = [k \in 1..Cardinality(PlainRows(view.source)) |->
                               Fields(view.source[Nth(PlainRows(view.source), k)])]
    BY DEF ViewDescribesPlainRows
  <2>2. PICK d : Writable(d) /\ view = Render(d)
    BY <1>1, <2>1 DEF ViewInv
  <2>3. view.text = TextOf(d) /\ view.source = d.cells
    BY <2>2 DEF Render, Source
  <2>4. \A r \in DOMAIN d.cells : d.cells[r] # <<>> => d.cells[r][1].text \notin BangText
    <3>1. ToSet(d.cells) = {d.cells[r] : r \in DOMAIN d.cells}
      BY DEF ToSet
    <3> QED BY <2>1, <2>3, <3>1
  <2> DEFINE S == PlainRows(d.cells)
             L == LayoutOf(TextOf(d))
             T == Markers(L)
             f == [r \in S |-> MarkerIndex(d.layout, r - 1)]
  <2>5. /\ SameOrder(S, T, f)
        /\ \A r \in S : TextOf(d)[f[r]] = Fields(d.cells[r])
    BY <2>2, <2>4, PlainRowsReadBack
  <2>6. S \in SUBSET Nat /\ IsFiniteSet(S)
    <3>1. S \subseteq 1..Len(d.cells) /\ Len(d.cells) \in Nat
      BY <2>2, WritableParts DEF PlainRows, Grid
    <3> HIDE DEF S
    <3>2. IsFiniteSet(1..Len(d.cells))
      BY <3>1, FS_Interval
    <3>3. S \in SUBSET (1..Len(d.cells))
      BY <3>1
    <3>4. IsFiniteSet(S)
      BY <3>2, <3>3, FS_Subset
    <3> QED BY <3>3, <3>4
  <2>7. L \in Seq(DocLine)
    BY <2>2, TextLines, LayoutRead
  <2>8. T \in SUBSET Nat
    <3> HIDE DEF L
    <3> QED BY <2>7, MarkersFinite
  <2> HIDE DEF S, T, f
  <2>9. /\ Cardinality(T) = Cardinality(S) /\ Cardinality(S) \in Nat
        /\ \A k \in 1..Cardinality(S) : Nth(T, k) = f[Nth(S, k)]
    BY <2>5, <2>6, <2>8, SameOrderRank, FS_CardinalityType
  <2>10. ASSUME NEW k \in 1..Cardinality(S)
         PROVE  TextOf(d)[MarkerIndex(L, k - 1)] = Fields(d.cells[Nth(S, k)])
    <3>1. MarkerIndex(L, k - 1) = Nth(T, k)
      <4>1. k \in Int /\ k - 1 \in 0..(Cardinality(T) - 1)
        BY <2>9
      <4> HIDE DEF L
      <4> QED BY <4>1, MarkerIsNth DEF T
    <3>2. Nth(S, k) \in S
      BY <2>6, NthMember
    <3> QED BY <2>5, <2>9, <3>1, <3>2
  <2>11. ParseDocument(TextOf(d)).cells
           = [k \in 1..Cardinality(T) |-> TextOf(d)[MarkerIndex(L, k - 1)]]
    BY DEF ParseDocument, T
  <2> HIDE DEF L
  <2>12. ParseDocument(TextOf(d)).cells = [k \in 1..Cardinality(S) |-> Fields(d.cells[Nth(S, k)])]
    BY <2>9, <2>10, <2>11
  <2> QED BY <2>3, <2>12 DEF S
<1> QED BY <1>1, ViewInvariance, PTL
=============================================================================
