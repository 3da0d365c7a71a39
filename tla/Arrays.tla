-------------------------------- MODULE Arrays --------------------------------
(***************************************************************************)
(* The builtins that take a range as rows and columns, and nest            *)
(* (internal/engine/builtins_array.go, builtins_lookup.go): a formula      *)
(* reads a range and each call around it consumes the value of the call    *)
(* inside it "exactly as if it were a range of the same shape".            *)
(*                                                                         *)
(* A value is a scalar or an array of scalars.                             *)
(***************************************************************************)
EXTENDS Scalars

CONSTANTS Ranges,      \* what the range of the formula may hold: matrices
          Conditions,  \* what FILTER's second range may hold
          Keys         \* what is looked up

\* The shape every builtin takes for granted: m[1] exists and every row is as
\* long as it, and not empty.
Rectangular(m) == /\ Len(m) >= 1 /\ Len(m[1]) >= 1
                  /\ \A i \in DOMAIN m : Len(m[i]) = Len(m[1])

IsMatrix(m) == m \in Seq(Seq([kind : Kinds, num : Int, text : Nat])) /\ Rectangular(m)

\* What the ranges and keys are taken for.
InputsAreCells == /\ \A m \in Ranges \cup Conditions : IsMatrix(m)
                  /\ \A k \in Keys : IsScalar(k)

VARIABLES val,   \* the value of the innermost calls so far
          call   \* the call that made it

vars == <<val, call>>

Array(m) == [kind |-> "array", arr |-> m]

-----------------------------------------------------------------------------
(* Arrays *)

\* A scalar argument is a block of one cell.
ArgMatrix(v) == IF v.kind = "array" THEN v.arr ELSE <<<<v>>>>

Flatten1D(m) == FlattenSeq(m)

Transpose(m) == [j \in 1..Len(m[1]) |-> [i \in 1..Len(m) |-> m[i][j]]]

\* Rows are told apart by the texts of their cells.
RowKey(row) == [j \in DOMAIN row |-> row[j].text]

\* Mutant: of rows that are alike the last is kept.
UniqueLast(m) ==
  LET Add(out, row) == Append(SelectSeq(out, LAMBDA o : RowKey(o) # RowKey(row)), row)
  IN  FoldLeft(Add, <<>>, m)

Unique(m) ==
  LET Add(out, row) == IF \E k \in DOMAIN out : RowKey(out[k]) = RowKey(row)
                       THEN out ELSE Append(out, row)
  IN  FoldLeft(Add, <<>>, m)

\* Mutant: a row goes in front of those it ties with.
InsertBeforeTies(out, row) ==
  LET stop == SelectLastInSeq(out, LAMBDA o : LessValue(o[1], row[1]))
  IN  InsertAt(out, stop + 1, row)

\* One turn of the insertion sort that SliceStable is for up to twenty rows: a
\* row moves up past every row it is less than, and stops at the first it is not.
Insert(out, row) ==
  LET stop == SelectLastInSeq(out, LAMBDA o : ~LessValue(row[1], o[1]))
  IN  InsertAt(out, stop + 1, row)

Sort(m) == FoldLeft(Insert, <<>>, m)

\* The rows whose parallel condition holds; rows beyond the conditions do not.
FilterRows(m, cond) ==
  FoldLeftDomain(LAMBDA out, i : IF i <= Len(cond) /\ Truthy(cond[i])
                                 THEN Append(out, m[i]) ELSE out, <<>>, m)

Filter(m, cond) == IF FilterRows(m, cond) = <<>> THEN Error(NA)
                   ELSE Array(FilterRows(m, cond))

Flatten(m) == [i \in 1..Len(Flatten1D(m)) |-> <<Flatten1D(m)[i]>>]

-----------------------------------------------------------------------------
(* Lookups; indexes count from 1 *)

TableIndex(m, row, col) ==
  IF row \in 1..Len(m) /\ col \in 1..Len(m[1]) THEN m[row][col] ELSE Error(REF)

\* No match, #N/A in the code, is 0.
TableMatch(key, m) == SelectInSeq(Flatten1D(m), LAMBDA cell : EqualValues(key, cell))

LookupVertical(key, m, idx) ==
  LET r == SelectInSeq(m, LAMBDA row : EqualValues(key, row[1]))
  IN  IF r = 0 THEN Error(NA) ELSE IF idx \in 1..Len(m[r]) THEN m[r][idx] ELSE Error(REF)

\* Mutant: the row asked for is checked against the width.
LookupWithinWidth(key, m, idx) ==
  LET c == SelectInSeq(m[1], LAMBDA cell : EqualValues(key, cell))
  IN  IF c = 0 THEN Error(NA) ELSE IF idx \in 1..Len(m[1]) THEN m[idx][c] ELSE Error(REF)

LookupHorizontal(key, m, idx) ==
  LET c == SelectInSeq(m[1], LAMBDA cell : EqualValues(key, cell))
  IN  IF c = 0 THEN Error(NA) ELSE IF idx \in 1..Len(m) THEN m[idx][c] ELSE Error(REF)

-----------------------------------------------------------------------------

Init == val \in {Array(m) : m \in Ranges} /\ call = "range"

Becomes(name, v) == call' = name /\ val' = v

ArrayTranspose == Becomes("transpose", Array(Transpose(ArgMatrix(val))))
ArrayUnique == Becomes("unique", Array(Unique(ArgMatrix(val))))
ArraySort == Becomes("sort", Array(Sort(ArgMatrix(val))))
ArrayFlatten == Becomes("flatten", Array(Flatten(ArgMatrix(val))))
ArrayFilter(c) == Becomes("filter", Filter(ArgMatrix(val), Flatten1D(c)))
Index(row, col) == Becomes("index", TableIndex(ArgMatrix(val), row, col))

Next == \/ ArrayTranspose \/ ArrayUnique \/ ArraySort \/ ArrayFlatten
        \/ \E c \in Conditions : ArrayFilter(c)
        \/ \E row, col \in 1..2 : Index(row, col)

Spec == Init /\ [][Next]_vars

-----------------------------------------------------------------------------

\* The two axes are treated alike: TRANSPOSE undoes itself, HLOOKUP of the
\* transposed block is VLOOKUP of the block, INDEX swaps its indexes, for indexes
\* inside the block and outside it, and MATCH finds a key at the same place of a
\* row and of a column (builtins_lookup.go has code of its own for each axis).
TransposeSwapsAxes ==
  LET m == ArgMatrix(val)
      t == Transpose(m)
      indexes == 0..(Len(m) + Len(t) + 1)
  IN  /\ Transpose(t) = m
      /\ 1 \in {Len(m), Len(t)} => \A k \in Keys : TableMatch(k, t) = TableMatch(k, m)
      /\ \A k \in Keys, i \in indexes : LookupHorizontal(k, t, i) = LookupVertical(k, m, i)
      /\ \A i, j \in indexes : TableIndex(t, j, i) = TableIndex(m, i, j)

\* Do the texts of a block tell its values apart? TRUE() and the text TRUE are
\* two values of one text.
TextTellsValues(m) ==
  \A i, k \in DOMAIN m : \A j \in DOMAIN m[1] : m[i][j].text = m[k][j].text => m[i][j] = m[k][j]

\* A lookup finds in a table what it finds in the table without its repeated
\* rows, as long as values that show alike are alike.
LookupSurvivesUnique ==
  [][call' = "unique" /\ TextTellsValues(ArgMatrix(val)) =>
       \A k \in Keys, i \in 0..3 :
         LookupVertical(k, val'.arr, i) = LookupVertical(k, ArgMatrix(val), i)]_vars

\* Is SORT's order one that a column can be sorted by? A number and a text compare
\* as texts, so 9 < 10 < "1a" < 9 is none.
Sortable(m) ==
  LET Less(i, j) == LessValue(m[i][1], m[j][1])
  IN  \A i, j, k \in DOMAIN m : Less(i, k) => Less(i, j) \/ Less(j, k)

\* Each row stands after those less than it and those it ties with that stood before it.
InPlace(m, sorted) ==
  LET Less(i, j) == LessValue(m[i][1], m[j][1])
      Place(i) == Cardinality({j \in DOMAIN m : Less(j, i) \/ (j <= i /\ ~Less(i, j))})
  IN  Len(sorted) = Len(m) /\ \A i \in DOMAIN m : sorted[Place(i)] = m[i]

\* SORT puts whole rows in ascending order of their first cells, and rows that
\* tie in the order they had (sort.SliceStable), wherever its comparison is an
\* order ("by their first column, ascending").
SortIsStable ==
  [][call' = "sort" /\ Sortable(ArgMatrix(val)) => InPlace(ArgMatrix(val), val'.arr)]_vars
=============================================================================
