---------------------------- MODULE RangeProofs -----------------------------
(***************************************************************************)
(* What Standalone promises of what is computed of ranges, proved of every *)
(* value of its constants: blocks of any size in the arrays and lookups,   *)
(* columns of any length in the aggregates and the series.                 *)
(***************************************************************************)
EXTENDS StandaloneProofs

-----------------------------------------------------------------------------
(* The arrays and the lookups. *)

\* The scalars a block is of, and the blocks.
Atom == [kind : A!Kinds, num : Int, text : Nat]
Matrix == {m \in Seq(Seq(Atom)) : A!Rectangular(m)}

\* The block of h rows and w columns that has the element e[i, j] there.
IsBlock(m, h, w) ==
  /\ h \in Nat \ {0} /\ w \in Nat \ {0}
  /\ DOMAIN m = 1..h /\ Len(m) = h
  /\ \A i \in 1..h : /\ m[i] \in Seq(Atom) /\ DOMAIN m[i] = 1..w /\ Len(m[i]) = w
                     /\ \A j \in 1..w : m[i][j] \in Atom

LEMMA MatrixIsBlock ==
  ASSUME NEW m \in Matrix
  PROVE  IsBlock(m, Len(m), Len(m[1]))
<1> DEFINE Row == Seq(Atom)
           h == Len(m)
           w == Len(m[1])
<1>1. m \in Seq(Row) /\ A!Rectangular(m)
  BY DEF Matrix
<1> HIDE DEF Row
<1>2. h \in Nat /\ DOMAIN m = 1..h
  BY <1>1, LenProperties
<1>3. \A i \in 1..h : m[i] \in Row
  BY <1>1, ElementOfSeq
<1>4. h >= 1 /\ w >= 1 /\ \A i \in 1..h : Len(m[i]) = w
  BY <1>1, <1>2 DEF A!Rectangular
<1>5. w \in Nat \ {0} /\ h \in Nat \ {0}
  <2>1. m[1] \in Row
    BY <1>2, <1>3, <1>4
  <2> QED BY <1>2, <1>4, <2>1, LenProperties DEF Row
<1>6. ASSUME NEW i \in 1..h
      PROVE  /\ m[i] \in Seq(Atom) /\ DOMAIN m[i] = 1..w /\ Len(m[i]) = w
             /\ \A j \in 1..w : m[i][j] \in Atom
  <2>1. m[i] \in Seq(Atom) /\ Len(m[i]) = w
    BY <1>3, <1>4 DEF Row
  <2> HIDE DEF w
  <2> QED BY <2>1, LenProperties, ElementOfSeq
<1> QED BY <1>2, <1>5, <1>6 DEF IsBlock

\* A block of rows made of such elements is one.
LEMMA BlockIsMatrix ==
  ASSUME NEW m \in Seq(Seq(Atom)), NEW w \in Nat \ {0}, m # <<>>,
         \A i \in DOMAIN m : Len(m[i]) = w
  PROVE  m \in Matrix /\ Len(m[1]) = w
<1> DEFINE Row == Seq(Atom)
<1>1. m \in Seq(Row)
  OBVIOUS
<1> HIDE DEF Row
<1>2. Len(m) \in Nat \ {0} /\ DOMAIN m = 1..Len(m)
  BY <1>1, EmptySeq, LenProperties
<1>3. Len(m[1]) = w
  <2>1. 1 \in DOMAIN m
    BY <1>2
  <2> QED BY <2>1
<1>4. A!Rectangular(m)
  BY <1>2, <1>3 DEF A!Rectangular
<1> QED BY <1>3, <1>4 DEF Matrix

\* A function of the first n numbers is a sequence.
LEMMA FunctionIsSeq ==
  ASSUME NEW S, NEW n \in Nat, NEW f \in [1..n -> S]
  PROVE  f \in Seq(S) /\ Len(f) = n /\ DOMAIN f = 1..n
<1>1. f \in Seq(S)
  BY SeqDef
<1>2. Len(f) \in Nat /\ 1..Len(f) = 1..n
  BY <1>1, LenProperties
<1>3. Len(f) = n
  <2>1. Len(f) # 0 => Len(f) \in 1..n
    BY <1>2
  <2>2. n # 0 => n \in 1..Len(f)
    BY <1>2
  <2> QED BY <1>2, <2>1, <2>2
<1> QED BY <1>1, <1>3

\* A table of elements.
LEMMA TableIsMatrix ==
  ASSUME NEW h \in Nat \ {0}, NEW w \in Nat \ {0}, NEW m \in [1..h -> [1..w -> Atom]]
  PROVE  m \in Matrix /\ Len(m) = h /\ Len(m[1]) = w
<1> DEFINE Row == Seq(Atom)
<1>1. \A i \in 1..h : m[i] \in Row /\ Len(m[i]) = w
  BY FunctionIsSeq
<1> HIDE DEF Row
<1>2. m \in [1..h -> Row]
  BY <1>1
<1>3. m \in Seq(Row) /\ Len(m) = h /\ DOMAIN m = 1..h
  BY <1>2, FunctionIsSeq
<1>4. m # <<>>
  BY <1>3, EmptySeq
<1>5. \A i \in DOMAIN m : Len(m[i]) = w
  BY <1>1, <1>3
<1>6. m \in Matrix /\ Len(m[1]) = w
  BY <1>3, <1>4, <1>5, BlockIsMatrix DEF Row
<1> QED BY <1>3, <1>6

\* The transposed block has the rows for columns.
TransposeFacts(m) ==
  LET t == A!Transpose(m)
  IN  /\ t \in Matrix /\ Len(t) = Len(m[1]) /\ Len(t[1]) = Len(m)
      /\ \A i \in 1..Len(m), j \in 1..Len(m[1]) : t[j][i] = m[i][j]
      /\ \A j \in 1..Len(m[1]) : Len(t[j]) = Len(m)

LEMMA TransposeIs ==
  ASSUME NEW m \in Matrix
  PROVE  TransposeFacts(m)
<1> DEFINE h == Len(m)
           w == Len(m[1])
           t == A!Transpose(m)
<1>1. IsBlock(m, h, w)
  BY MatrixIsBlock
<1>2. t = [j \in 1..w |-> [i \in 1..h |-> m[i][j]]]
  BY DEF A!Transpose
<1> HIDE DEF h, w, t
<1>3. t \in [1..w -> [1..h -> Atom]]
  BY <1>1, <1>2 DEF IsBlock
<1>6. t \in Matrix /\ Len(t) = w /\ Len(t[1]) = h
  <2>1. h \in Nat \ {0} /\ w \in Nat \ {0}
    BY <1>1 DEF IsBlock
  <2> QED BY <1>3, <2>1, TableIsMatrix
<1>7. \A i \in 1..h, j \in 1..w : t[j][i] = m[i][j]
  BY <1>2
<1>8. \A j \in 1..w : Len(t[j]) = h
  BY <1>6, MatrixIsBlock DEF IsBlock
<1> QED BY <1>6, <1>7, <1>8 DEF TransposeFacts, h, w, t

\* Blocks with the same elements are the same.
LEMMA SameBlock ==
  ASSUME NEW m \in Matrix, NEW t \in Matrix, Len(m) = Len(t), Len(m[1]) = Len(t[1]),
         \A i \in 1..Len(m), j \in 1..Len(m[1]) : m[i][j] = t[i][j]
  PROVE  m = t
<1> DEFINE Row == Seq(Atom)
           h == Len(m)
           w == Len(m[1])
<1>1. IsBlock(m, h, w) /\ IsBlock(t, h, w)
  BY MatrixIsBlock
<1> HIDE DEF h, w
<1>2. \A i \in 1..h : m[i] = t[i]
  <2> TAKE i \in 1..h
  <2>1. m[i] \in Seq(Atom) /\ t[i] \in Seq(Atom) /\ Len(m[i]) = w /\ Len(t[i]) = w
    BY <1>1 DEF IsBlock
  <2>2. \A j \in 1..w : m[i][j] = t[i][j]
    BY DEF h, w
  <2> QED BY <2>1, <2>2, SeqEqual
<1>3. m \in Seq(Row) /\ t \in Seq(Row)
  BY DEF Matrix
<1> HIDE DEF Row
<1> QED BY <1>1, <1>2, <1>3, SeqEqual DEF h

LEMMA TransposeAgain ==
  ASSUME NEW m \in Matrix
  PROVE  A!Transpose(A!Transpose(m)) = m
<1> DEFINE t == A!Transpose(m)
           u == A!Transpose(t)
<1>1. TransposeFacts(m)
  BY TransposeIs
<1>2. t \in Matrix /\ Len(t) = Len(m[1]) /\ Len(t[1]) = Len(m)
      /\ \A i \in 1..Len(m), j \in 1..Len(m[1]) : t[j][i] = m[i][j]
  BY <1>1 DEF TransposeFacts
<1> HIDE DEF t
<1>3. TransposeFacts(t)
  BY <1>2, TransposeIs
<1>4. u \in Matrix /\ Len(u) = Len(t[1]) /\ Len(u[1]) = Len(t)
      /\ \A i \in 1..Len(t), j \in 1..Len(t[1]) : u[j][i] = t[i][j]
  BY <1>3 DEF TransposeFacts
<1> HIDE DEF u
<1>5. u = m
  BY <1>2, <1>4, SameBlock
<1> QED BY <1>5 DEF t, u

\* The elements of one row, or of one column.
LEMMA FlattenRun ==
  ASSUME NEW s \in Seq(Seq(Atom)), s # <<>>
  PROVE  \E f : RunFacts(Atom, f, s) /\ A!FlattenSeq(s) = f[Len(s)]
<1>1. A!FlattenSeq(s) = F!FlattenSeq(s)
  BY Zenon DEF A!FlattenSeq, F!FlattenSeq
<1> QED BY <1>1, FlattenIs, RunType

LEMMA FlattenRow ==
  ASSUME NEW m \in Matrix, Len(m) = 1
  PROVE  A!FlattenSeq(m) = m[1]
<1>1. m \in Seq(Seq(Atom)) /\ m # <<>>
  BY EmptySeq DEF Matrix
<1>2. PICK f : RunFacts(Atom, f, m) /\ A!FlattenSeq(m) = f[1]
  BY <1>1, FlattenRun
<1> QED BY <1>2 DEF RunFacts

LEMMA FlattenColumn ==
  ASSUME NEW m \in Matrix, Len(m[1]) = 1
  PROVE  A!FlattenSeq(m) = [i \in 1..Len(m) |-> m[i][1]]
<1> DEFINE h == Len(m)
           firsts == [i \in 1..h |-> m[i][1]]
<1>1. IsBlock(m, h, 1)
  BY MatrixIsBlock
<1>2. m \in Seq(Seq(Atom)) /\ m # <<>>
  BY <1>1, EmptySeq DEF Matrix, IsBlock
<1>3. PICK f : RunFacts(Atom, f, m) /\ A!FlattenSeq(m) = f[h]
  BY <1>2, FlattenRun
<1>4. h \in Nat \ {0} /\ \A i \in 1..h : m[i] \in Seq(Atom) /\ Len(m[i]) = 1
  BY <1>1 DEF IsBlock
<1>5. /\ \A i \in 1..h : f[i] \in Seq(Atom)
      /\ f[1] = m[1]
      /\ \A i \in 1..h : i # 1 => f[i] = f[i - 1] \o m[i]
  BY <1>3 DEF RunFacts
<1> HIDE DEF h
<1> DEFINE T == {i \in Nat : i \in 1..h => Len(f[i]) = i /\ \A k \in 1..i : f[i][k] = m[k][1]}
<1>6. 0 \in T
  OBVIOUS
<1>7. ASSUME NEW i \in Nat, i \in T PROVE i + 1 \in T
  <2> SUFFICES ASSUME i + 1 \in 1..h
               PROVE  Len(f[i + 1]) = i + 1 /\ \A k \in 1..(i + 1) : f[i + 1][k] = m[k][1]
    OBVIOUS
  <2>1. CASE i = 0
    BY <1>4, <1>5, <2>1
  <2>2. CASE i # 0
    <3>1. i \in 1..h /\ i + 1 # 1 /\ (i + 1) - 1 = i
      BY <1>4, <2>2
    <3>2. f[i + 1] = f[i] \o m[i + 1]
      BY <1>5, <3>1
    <3>3. f[i] \in Seq(Atom) /\ m[i + 1] \in Seq(Atom) /\ Len(m[i + 1]) = 1
          /\ Len(f[i]) = i /\ \A k \in 1..i : f[i][k] = m[k][1]
      BY <1>4, <1>5, <1>7, <3>1
    <3>4. JoinFacts(Atom, f[i], m[i + 1])
      BY <3>3, Joins
    <3>5. Len(f[i + 1]) = i + 1
      BY <3>2, <3>3, <3>4 DEF JoinFacts
    <3>6. f[i + 1][i + 1] = m[i + 1][1]
      <4>1. 1 \in 1..1
        OBVIOUS
      <4> QED BY <3>2, <3>3, <3>4, <4>1 DEF JoinFacts
    <3>7. ASSUME NEW k \in 1..i PROVE f[i + 1][k] = m[k][1]
      BY <3>2, <3>3, <3>4 DEF JoinFacts
    <3>8. \A k \in 1..(i + 1) : k = i + 1 \/ k \in 1..i
      OBVIOUS
    <3> QED BY <3>5, <3>6, <3>7, <3>8
  <2> QED BY <2>1, <2>2
<1> HIDE DEF T
<1>8. h \in T
  BY <1>4, <1>6, <1>7, Upward
<1>9. f[h] \in Seq(Atom) /\ Len(f[h]) = h /\ \A k \in 1..h : f[h][k] = m[k][1]
  BY <1>4, <1>5, <1>8 DEF T
<1>10. firsts \in Seq(Atom) /\ Len(firsts) = h /\ \A k \in 1..h : firsts[k] = m[k][1]
  <2>1. firsts \in [1..h -> Atom]
    BY <1>1 DEF IsBlock, h
  <2> QED BY <1>4, <2>1, FunctionIsSeq
<1> HIDE DEF firsts
<1>11. f[h] = firsts
  BY <1>9, <1>10, SeqEqual
<1> QED BY <1>3, <1>11 DEF firsts, h

\* One row flattens to what it does as a column.
LEMMA FlattenTurned ==
  ASSUME NEW m \in Matrix, 1 \in {Len(m), Len(A!Transpose(m))}
  PROVE  A!FlattenSeq(A!Transpose(m)) = A!FlattenSeq(m)
<1> DEFINE t == A!Transpose(m)
<1>0. TransposeFacts(m)
  BY TransposeIs
<1>1. t \in Matrix /\ Len(t) = Len(m[1]) /\ Len(t[1]) = Len(m)
      /\ \A i \in 1..Len(m), j \in 1..Len(m[1]) : t[j][i] = m[i][j]
  BY <1>0 DEF TransposeFacts
<1> HIDE DEF t
<1>2. ASSUME NEW a \in Matrix, NEW b \in Matrix, Len(a) = 1, Len(b) = Len(a[1]), Len(b[1]) = 1,
             \A j \in 1..Len(b) : b[j][1] = a[1][j]
      PROVE  A!FlattenSeq(b) = A!FlattenSeq(a)
  <2>1. A!FlattenSeq(b) = [i \in 1..Len(b) |-> b[i][1]]
    BY <1>2, FlattenColumn
  <2>2. A!FlattenSeq(a) = a[1]
    BY <1>2, FlattenRow
  <2>3. a[1] = [i \in 1..Len(b) |-> a[1][i]]
    <3>1. a[1] \in Seq(Atom)
      BY MatrixIsBlock DEF IsBlock
    <3> QED BY <1>2, <3>1, LenProperties
  <2> QED BY <1>2, <2>1, <2>2, <2>3
<1>3. CASE Len(m) = 1
  <2>1. 1 \in 1..Len(m)
    BY <1>3
  <2> QED BY <1>1, <1>2, <1>3, <2>1 DEF t
<1>4. CASE Len(t) = 1
  <2>1. A!FlattenSeq(m) = A!FlattenSeq(t)
    <3>1. 1 \in 1..Len(m[1])
      BY <1>1, <1>4
    <3> QED BY <1>1, <1>2, <1>4, <3>1
  <2> QED BY <2>1 DEF t
<1> QED BY <1>3, <1>4 DEF t

\* The first of a set of places, 0 if there is none.
FirstOf(places) == IF places # {} THEN A!Min(places) ELSE 0
RowsFound(k, m) == {i \in 1..Len(m) : A!EqualValues(k, m[i][1])}
ColumnsFound(k, m) == {j \in 1..Len(m[1]) : A!EqualValues(k, m[1][j])}

LEMMA VerticalIs ==
  ASSUME NEW k, NEW m, NEW i, NEW r, r = FirstOf(RowsFound(k, m))
  PROVE  A!LookupVertical(k, m, i)
         = IF r = 0 THEN A!Error(A!NA) ELSE IF i \in 1..Len(m[r]) THEN m[r][i] ELSE A!Error(A!REF)
BY Zenon DEF A!LookupVertical, A!SelectInSeq, FirstOf, RowsFound

LEMMA HorizontalIs ==
  ASSUME NEW k, NEW m, NEW i, NEW c, c = FirstOf(ColumnsFound(k, m))
  PROVE  A!LookupHorizontal(k, m, i)
         = IF c = 0 THEN A!Error(A!NA) ELSE IF i \in 1..Len(m) THEN m[i][c] ELSE A!Error(A!REF)
BY Zenon DEF A!LookupHorizontal, A!SelectInSeq, FirstOf, ColumnsFound

LEMMA FirstIsIn ==
  ASSUME NEW n \in Nat, NEW places \in SUBSET (1..n)
  PROVE  /\ places = {} => FirstOf(places) = 0
         /\ places # {} => /\ FirstOf(places) \in places
                           /\ \A p \in places : FirstOf(places) <= p
<1>1. CASE places = {}
  BY <1>1 DEF FirstOf
<1>2. CASE places # {}
  <2>1. places \in SUBSET Nat
    OBVIOUS
  <2>2. PICK m \in places : \A p \in places : m <= p
    BY <1>2, <2>1, LeastOf
  <2>3. A!Min(places) = m
    BY <2>1, <2>2, LeastIs DEF A!Min
  <2> QED BY <1>2, <2>2, <2>3 DEF FirstOf
<1> QED BY <1>1, <1>2

\* Each axis has code of its own, and it is the same code.
LEMMA AxesAgree ==
  ASSUME NEW m \in Matrix
  PROVE  A!Transpose(A!Transpose(m)) = m
         /\ (1 \in {Len(m), Len(A!Transpose(m))} =>
               \A k : A!TableMatch(k, A!Transpose(m)) = A!TableMatch(k, m))
         /\ (\A k, i : A!LookupHorizontal(k, A!Transpose(m), i) = A!LookupVertical(k, m, i))
         /\ (\A i, j : A!TableIndex(A!Transpose(m), j, i) = A!TableIndex(m, i, j))
<1> DEFINE t == A!Transpose(m)
           h == Len(m)
           w == Len(m[1])
<1>1. t \in Matrix /\ Len(t) = w /\ Len(t[1]) = h
      /\ \A i \in 1..h, j \in 1..w : t[j][i] = m[i][j]
  <2>1. TransposeFacts(m)
    BY TransposeIs
  <2> QED BY <2>1 DEF TransposeFacts
<1>2. IsBlock(m, h, w) /\ IsBlock(t, w, h)
  BY <1>1, MatrixIsBlock
<1>3. 1 \in {h, Len(t)} => \A k : A!TableMatch(k, t) = A!TableMatch(k, m)
  <2>1. 1 \in {h, Len(t)} => A!Flatten1D(t) = A!Flatten1D(m)
    BY FlattenTurned DEF A!Flatten1D
  <2> QED BY <2>1, Zenon DEF A!TableMatch
<1> HIDE DEF t, h, w
<1>4. ASSUME NEW k, NEW i PROVE A!LookupHorizontal(k, t, i) = A!LookupVertical(k, m, i)
  <2> DEFINE places == RowsFound(k, m)
             r == FirstOf(places)
  <2>1. h \in Nat /\ 1 \in 1..w /\ places \in SUBSET (1..h)
    BY <1>2 DEF IsBlock, RowsFound, h
  <2>2. ColumnsFound(k, t) = places
    BY <1>1, <2>1 DEF ColumnsFound, RowsFound, h
  <2> HIDE DEF places
  <2>3. r = 0 \/ r \in 1..h
    BY <2>1, FirstIsIn
  <2>4. A!LookupHorizontal(k, t, i)
        = IF r = 0 THEN A!Error(A!NA) ELSE IF i \in 1..Len(t) THEN t[i][r] ELSE A!Error(A!REF)
    BY <2>2, HorizontalIs
  <2>5. A!LookupVertical(k, m, i)
        = IF r = 0 THEN A!Error(A!NA) ELSE IF i \in 1..Len(m[r]) THEN m[r][i] ELSE A!Error(A!REF)
    BY VerticalIs DEF places
  <2>6. r # 0 => Len(m[r]) = Len(t) /\ \A j \in 1..Len(t) : t[j][r] = m[r][j]
    BY <1>1, <1>2, <2>3 DEF IsBlock
  <2> HIDE DEF r
  <2> QED BY <2>4, <2>5, <2>6
<1>5. ASSUME NEW i, NEW j PROVE A!TableIndex(t, j, i) = A!TableIndex(m, i, j)
  BY <1>1 DEF A!TableIndex, h, w
<1>6. A!Transpose(t) = m
  BY TransposeAgain DEF t
<1> QED BY <1>3, <1>4, <1>5, <1>6 DEF t, h

\* Rows of one width, and sequences of them.
Row(w) == {row \in Seq(Atom) : Len(row) = w}

LEMMA MatrixIsRows ==
  ASSUME NEW m \in Matrix
  PROVE  m \in Seq(Row(Len(m[1]))) /\ m # <<>> /\ Len(m[1]) \in Nat \ {0}
<1> DEFINE w == Len(m[1])
<1>1. IsBlock(m, Len(m), w)
  BY MatrixIsBlock
<1>2. m \in [1..Len(m) -> Row(w)]
  <2>1. \A i \in 1..Len(m) : m[i] \in Row(w)
    BY <1>1 DEF IsBlock, Row
  <2>2. m \in Seq(Seq(Atom))
    BY DEF Matrix
  <2>3. m = [i \in 1..Len(m) |-> m[i]]
    BY <2>2, LenProperties
  <2> QED BY <2>1, <2>3
<1>3. Len(m) \in Nat \ {0} /\ w \in Nat \ {0}
  BY <1>1 DEF IsBlock
<1>4. m \in Seq(Row(w))
  BY <1>2, <1>3, FunctionIsSeq
<1> QED BY <1>3, <1>4, EmptySeq

LEMMA RowsAreMatrix ==
  ASSUME NEW w \in Nat \ {0}, NEW m \in Seq(Row(w)), m # <<>>
  PROVE  m \in Matrix /\ Len(m[1]) = w
<1>1. Row(w) \subseteq Seq(Atom)
  BY DEF Row
<1>2. m \in Seq(Seq(Atom))
  BY <1>1, SeqMonotonic
<1>3. \A i \in DOMAIN m : Len(m[i]) = w
  <2>1. \A i \in 1..Len(m) : m[i] \in Row(w)
    BY ElementOfSeq
  <2> QED BY <2>1, LenProperties DEF Row
<1> QED BY <1>2, <1>3, BlockIsMatrix

(* UNIQUE and SORT, row by row. *)

UniqueStep(out, m, x) ==
  IF \E k \in DOMAIN out : A!RowKey(out[k]) = A!RowKey(m[x]) THEN out ELSE Append(out, m[x])
IterUnique(iter, m) ==
  iter = [s \in SUBSET (DOMAIN m) |->
            IF s = {} THEN <<>> ELSE LET x == A!Max(s) IN UniqueStep(iter[s \ {x}], m, x)]

LEMMA UniqueUnfolds ==
  ASSUME NEW m
  PROVE  A!Unique(m) = (CHOOSE iter : IterUnique(iter, m))[DOMAIN m]
BY Zenon DEF A!Unique, A!FoldLeft, A!MapThenFoldSet, IterUnique, UniqueStep

LEMMA UniqueStepType ==
  ASSUME NEW S, NEW m \in Seq(S), NEW x \in 1..Len(m), NEW out \in Seq(S)
  PROVE  UniqueStep(out, m, x) \in Seq(S)
<1>1. m[x] \in S
  BY ElementOfSeq
<1>2. Append(out, m[x]) \in Seq(S)
  BY <1>1, AppendProperties
<1> QED BY <1>2 DEF UniqueStep

\* The rows kept of the first i rows.
IsUniqueWalk(v, S, m) ==
  /\ v \in [0..Len(m) -> Seq(S)] /\ v[0] = <<>> /\ v[Len(m)] = A!Unique(m)
  /\ \A i \in 1..Len(m) : v[i] = UniqueStep(v[i - 1], m, i)

LEMMA UniqueWalks ==
  ASSUME NEW S, NEW m \in Seq(S)
  PROVE  \E v : IsUniqueWalk(v, S, m)
<1> DEFINE n == Len(m)
           Runs == Seq(S)
           g == [p \in (1..n) \X Runs |-> UniqueStep(p[2], m, p[1])]
<1>1. n \in Nat /\ DOMAIN m = 1..n /\ <<>> \in Runs
  BY EmptySeq, LenProperties
<1>2. \A i \in 1..n, out \in Runs : UniqueStep(out, m, i) \in Runs /\ g[<<i, out>>] = UniqueStep(out, m, i)
  BY UniqueStepType
<1>3. g \in [(1..n) \X Runs -> Runs]
  BY <1>2
<1> HIDE DEF g, Runs, n
<1>4. \A s : A!Max(s) = Greatest(s)
  BY DEF A!Max, Greatest
<1>5. \A s \in SUBSET (1..n) : s # {} => Greatest(s) \in s
  BY <1>1, GreatestIn
<1>6. \E iter : IterUnique(iter, m)
  <2>1. PICK f : IsFolded(f, Runs, n, <<>>, g)
    BY <1>1, <1>3, FoldExists
  <2>2. ASSUME NEW s \in SUBSET (1..n)
        PROVE  f[s] = IF s = {} THEN <<>> ELSE LET x == A!Max(s) IN UniqueStep(f[s \ {x}], m, x)
    <3>1. CASE s = {}
      BY <2>1, <3>1 DEF IsFolded
    <3>2. CASE s # {}
      <4> DEFINE x == Greatest(s)
                 rest == s \ {x}
      <4>1. x \in 1..n /\ rest \in SUBSET (1..n)
        BY <1>5, <3>2
      <4>2. f[rest] \in Runs /\ f[s] = g[<<x, f[rest]>>]
        BY <2>1, <3>2, <4>1 DEF IsFolded
      <4> HIDE DEF x, rest
      <4>3. f[s] = UniqueStep(f[rest], m, x)
        BY <1>2, <4>1, <4>2
      <4> QED BY <1>4, <3>2, <4>3 DEF x, rest
    <3> QED BY <3>1, <3>2
  <2>3. f = [s \in SUBSET (1..n) |-> f[s]]
    BY <2>1 DEF IsFolded
  <2>4. IterUnique(f, m)
    BY <1>1, <2>2, <2>3, Zenon DEF IterUnique
  <2> QED BY <2>4
<1> DEFINE iter == CHOOSE iter : IterUnique(iter, m)
<1>7. IterUnique(iter, m)
  BY <1>6
<1>8. A!Unique(m) = iter[1..n]
  BY <1>1, UniqueUnfolds
<1> HIDE DEF iter
<1>9. \A s \in SUBSET (1..n) :
        iter[s] = IF s = {} THEN <<>> ELSE UniqueStep(iter[s \ {Greatest(s)}], m, Greatest(s))
  BY <1>1, <1>4, <1>7, Zenon DEF IterUnique
<1>10. iter[{}] = <<>>
  BY <1>9
<1>11. \A s \in SUBSET (1..n) : s # {} /\ iter[s \ {Greatest(s)}] \in Runs =>
                                   iter[s] = g[<<Greatest(s), iter[s \ {Greatest(s)}]>>]
  <2> TAKE s \in SUBSET (1..n)
  <2> HAVE s # {} /\ iter[s \ {Greatest(s)}] \in Runs
  <2> QED BY <1>2, <1>5, <1>9
<1>12. PICK v : IsWalk(v, Runs, n, <<>>, g) /\ v[n] = iter[1..n]
  <2>1. IsIteration(iter, Runs, n, <<>>, g)
    BY <1>10, <1>11 DEF IsIteration
  <2>2. Walks(iter, Runs, n, <<>>, g)
    BY <1>1, <1>3, <2>1, FoldedAlong
  <2> QED BY <2>2 DEF Walks
<1>13. v \in [0..n -> Runs] /\ v[0] = <<>> /\ \A i \in 1..n : v[i] = UniqueStep(v[i - 1], m, i)
  <2>1. v \in [0..n -> Runs] /\ v[0] = <<>> /\ \A i \in 1..n : v[i] = g[<<i, v[i - 1]>>]
    BY <1>12 DEF IsWalk
  <2>2. ASSUME NEW i \in 1..n PROVE v[i] = UniqueStep(v[i - 1], m, i)
    <3>1. i - 1 \in 0..n
      BY <1>1
    <3> QED BY <1>2, <2>1, <3>1
  <2> QED BY <2>1, <2>2
<1>14. IsUniqueWalk(v, S, m)
  BY <1>8, <1>12, <1>13 DEF IsUniqueWalk, Runs, n
<1> QED BY <1>14

\* A row put in at a place, and the rows around it.
InsertFacts(S, out, p, e) ==
  LET into == A!InsertAt(out, p, e)
  IN  /\ into \in Seq(S) /\ Len(into) = Len(out) + 1 /\ into[p] = e
      /\ \A j \in 1..Len(out) : into[IF j < p THEN j ELSE j + 1] = out[j]

LEMMA Inserts ==
  ASSUME NEW S, NEW out \in Seq(S), NEW e \in S, NEW p \in 1..(Len(out) + 1)
  PROVE  InsertFacts(S, out, p, e)
<1> DEFINE n == Len(out)
           front == SubSeq(out, 1, p - 1)
           back == SubSeq(out, p, n)
           mid == front \o <<e>>
           into == mid \o back
<1>1. n \in Nat /\ p \in 1..(n + 1) /\ <<e>> \in Seq(S) /\ Len(<<e>>) = 1 /\ <<e>>[1] = e
  BY LenProperties
<1>2. into = A!InsertAt(out, p, e)
  BY DEF A!InsertAt
<1>3. front \in Seq(S) /\ Len(front) = p - 1 /\ \A j \in 1..(p - 1) : front[j] = out[j]
  <2>1. CutFacts(S, out, 1, p - 1)
    BY <1>1, Cuts
  <2> QED BY <1>1, <2>1 DEF CutFacts
<1>4. back \in Seq(S) /\ Len(back) = n + 1 - p /\ \A j \in 1..(n + 1 - p) : back[j] = out[p + j - 1]
  <2>1. CutFacts(S, out, p, n)
    BY <1>1, Cuts
  <2> QED BY <1>1, <2>1 DEF CutFacts
<1> HIDE DEF front, back
<1>5. JoinFacts(S, front, <<e>>)
  BY <1>1, <1>3, Joins
<1>6. mid \in Seq(S) /\ Len(mid) = p /\ mid[p] = e /\ \A j \in 1..(p - 1) : mid[j] = out[j]
  <2>1. mid \in Seq(S) /\ Len(mid) = (p - 1) + 1 /\ \A j \in 1..(p - 1) : mid[j] = front[j]
    BY <1>1, <1>3, <1>5 DEF JoinFacts
  <2>2. mid[(p - 1) + 1] = e
    <3>1. 1 \in 1..Len(<<e>>)
      BY <1>1
    <3> QED BY <1>1, <1>3, <1>5, <3>1 DEF JoinFacts
  <2>3. (p - 1) + 1 = p
    BY <1>1
  <2> QED BY <1>3, <2>1, <2>2, <2>3
<1> HIDE DEF mid
<1>7. JoinFacts(S, mid, back)
  BY <1>4, <1>6, Joins
<1>8. into \in Seq(S) /\ Len(into) = n + 1 /\ into[p] = e /\ \A j \in 1..(p - 1) : into[j] = out[j]
  BY <1>1, <1>4, <1>6, <1>7 DEF JoinFacts
<1>9. ASSUME NEW j \in 1..n, ~(j < p) PROVE into[j + 1] = out[j]
  <2>1. j + 1 - p \in 1..(n + 1 - p) /\ p + (j + 1 - p) = j + 1 /\ p + (j + 1 - p) - 1 = j
    BY <1>1, <1>9
  <2>2. into[p + (j + 1 - p)] = back[j + 1 - p]
    BY <1>4, <1>6, <1>7, <2>1 DEF JoinFacts
  <2> QED BY <1>4, <2>1, <2>2
<1> HIDE DEF into
<1>10. \A j \in 1..n : into[IF j < p THEN j ELSE j + 1] = out[j]
  BY <1>1, <1>8, <1>9
<1> QED BY <1>2, <1>8, <1>10 DEF InsertFacts

\* The place a row is put in: past the last row it is not less than.
NotLess(out, row) == {i \in 1..Len(out) : ~A!LessValue(row[1], out[i][1])}
StopOf(out, row) == IF NotLess(out, row) # {} THEN A!Max(NotLess(out, row)) ELSE 0

LEMMA InsertIs ==
  ASSUME NEW out, NEW row
  PROVE  A!Insert(out, row) = A!InsertAt(out, StopOf(out, row) + 1, row)
BY Zenon DEF A!Insert, A!SelectLastInSeq, StopOf, NotLess

LEMMA StopIs ==
  ASSUME NEW out, NEW row, Len(out) \in Nat
  PROVE  /\ StopOf(out, row) \in 0..Len(out)
         /\ StopOf(out, row) # 0 => StopOf(out, row) \in NotLess(out, row)
         /\ \A k \in NotLess(out, row) : k <= StopOf(out, row)
<1> DEFINE stops == NotLess(out, row)
           n == Len(out)
<1>1. stops \in SUBSET (1..n) /\ n \in Nat
  BY DEF NotLess
<1>2. A!Max(stops) = Greatest(stops)
  BY DEF A!Max, Greatest
<1>3. CASE stops = {}
  BY <1>1, <1>3 DEF StopOf
<1>4. CASE stops # {}
  <2> HIDE DEF stops
  <2>1. Greatest(stops) \in stops
    BY <1>1, <1>4, GreatestIn
  <2>2. \A k \in stops : k <= Greatest(stops)
    <3> DEFINE T == {k \in Nat : \E x \in stops : k = n - x}
    <3>1. \A x \in stops : n - x \in T
      BY <1>1
    <3>2. T # {} /\ T \in SUBSET Nat
      BY <1>4, <3>1
    <3>3. PICK k \in T : \A j \in T : k <= j
      BY <3>2, LeastOf
    <3>4. PICK x \in stops : k = n - x
      BY <3>3
    <3>5. \A y \in stops : x >= y
      <4>1. \A y \in stops : n - x <= n - y
        BY <3>1, <3>3, <3>4
      <4> HIDE DEF T
      <4>2. x \in 1..n /\ n \in Nat
        BY <1>1
      <4> TAKE y \in stops
      <4>3. y \in 1..n /\ n - x <= n - y
        BY <1>1, <4>1
      <4> QED BY <4>2, <4>3
    <3>6. \A y \in stops : Greatest(stops) >= y
      BY <3>5 DEF Greatest
    <3> QED BY <1>1, <2>1, <3>6
  <2>3. StopOf(out, row) = Greatest(stops)
    BY <1>2, <1>4 DEF StopOf, stops
  <2> QED BY <1>1, <2>1, <2>2, <2>3 DEF stops
<1> QED BY <1>3, <1>4

SortStep(out, m, x) == A!Insert(out, m[x])

LEMMA SortStepType ==
  ASSUME NEW S, NEW m \in Seq(S), NEW x \in 1..Len(m), NEW out \in Seq(S)
  PROVE  SortStep(out, m, x) \in Seq(S)
<1>1. m[x] \in S
  BY ElementOfSeq
<1>2. Len(out) \in Nat
  BY LenProperties
<1>3. StopOf(out, m[x]) + 1 \in 1..(Len(out) + 1)
  <2>1. StopOf(out, m[x]) \in 0..Len(out)
    BY <1>2, StopIs
  <2> QED BY <1>2, <2>1
<1>4. InsertFacts(S, out, StopOf(out, m[x]) + 1, m[x])
  BY <1>1, <1>3, Inserts
<1> QED BY <1>4, InsertIs DEF InsertFacts, SortStep

IterSort(iter, m) ==
  iter = [s \in SUBSET (DOMAIN m) |->
            IF s = {} THEN <<>> ELSE LET x == A!Max(s) IN SortStep(iter[s \ {x}], m, x)]

LEMMA SortUnfolds ==
  ASSUME NEW m
  PROVE  A!Sort(m) = (CHOOSE iter : IterSort(iter, m))[DOMAIN m]
BY Zenon DEF A!Sort, A!FoldLeft, A!MapThenFoldSet, IterSort, SortStep

\* The first i rows in order.
IsSortWalk(v, S, m) ==
  /\ v \in [0..Len(m) -> Seq(S)] /\ v[0] = <<>> /\ v[Len(m)] = A!Sort(m)
  /\ \A i \in 1..Len(m) : v[i] = SortStep(v[i - 1], m, i)

LEMMA SortWalks ==
  ASSUME NEW S, NEW m \in Seq(S)
  PROVE  \E v : IsSortWalk(v, S, m)
<1> DEFINE n == Len(m)
           Runs == Seq(S)
           g == [p \in (1..n) \X Runs |-> SortStep(p[2], m, p[1])]
<1>1. n \in Nat /\ DOMAIN m = 1..n /\ <<>> \in Runs
  BY EmptySeq, LenProperties
<1>2. \A i \in 1..n, out \in Runs : SortStep(out, m, i) \in Runs /\ g[<<i, out>>] = SortStep(out, m, i)
  BY SortStepType
<1>3. g \in [(1..n) \X Runs -> Runs]
  BY <1>2
<1> HIDE DEF g, Runs, n
<1>4. \A s : A!Max(s) = Greatest(s)
  BY DEF A!Max, Greatest
<1>5. \A s \in SUBSET (1..n) : s # {} => Greatest(s) \in s
  BY <1>1, GreatestIn
<1>6. \E iter : IterSort(iter, m)
  <2>1. PICK f : IsFolded(f, Runs, n, <<>>, g)
    BY <1>1, <1>3, FoldExists
  <2>2. ASSUME NEW s \in SUBSET (1..n)
        PROVE  f[s] = IF s = {} THEN <<>> ELSE LET x == A!Max(s) IN SortStep(f[s \ {x}], m, x)
    <3>1. CASE s = {}
      BY <2>1, <3>1 DEF IsFolded
    <3>2. CASE s # {}
      <4> DEFINE x == Greatest(s)
                 rest == s \ {x}
      <4>1. x \in 1..n /\ rest \in SUBSET (1..n)
        BY <1>5, <3>2
      <4>2. f[rest] \in Runs /\ f[s] = g[<<x, f[rest]>>]
        BY <2>1, <3>2, <4>1 DEF IsFolded
      <4> HIDE DEF x, rest
      <4>3. f[s] = SortStep(f[rest], m, x)
        BY <1>2, <4>1, <4>2
      <4> QED BY <1>4, <3>2, <4>3 DEF x, rest
    <3> QED BY <3>1, <3>2
  <2>3. f = [s \in SUBSET (1..n) |-> f[s]]
    BY <2>1 DEF IsFolded
  <2>4. IterSort(f, m)
    BY <1>1, <2>2, <2>3, Zenon DEF IterSort
  <2> QED BY <2>4
<1> DEFINE iter == CHOOSE iter : IterSort(iter, m)
<1>7. IterSort(iter, m)
  BY <1>6
<1>8. A!Sort(m) = iter[1..n]
  BY <1>1, SortUnfolds
<1> HIDE DEF iter
<1>9. \A s \in SUBSET (1..n) :
        iter[s] = IF s = {} THEN <<>> ELSE SortStep(iter[s \ {Greatest(s)}], m, Greatest(s))
  BY <1>1, <1>4, <1>7, Zenon DEF IterSort
<1>10. iter[{}] = <<>>
  BY <1>9
<1>11. \A s \in SUBSET (1..n) : s # {} /\ iter[s \ {Greatest(s)}] \in Runs =>
                                   iter[s] = g[<<Greatest(s), iter[s \ {Greatest(s)}]>>]
  <2> TAKE s \in SUBSET (1..n)
  <2> HAVE s # {} /\ iter[s \ {Greatest(s)}] \in Runs
  <2> QED BY <1>2, <1>5, <1>9
<1>12. PICK v : IsWalk(v, Runs, n, <<>>, g) /\ v[n] = iter[1..n]
  <2>1. IsIteration(iter, Runs, n, <<>>, g)
    BY <1>10, <1>11 DEF IsIteration
  <2>2. Walks(iter, Runs, n, <<>>, g)
    BY <1>1, <1>3, <2>1, FoldedAlong
  <2> QED BY <2>2 DEF Walks
<1>13. v \in [0..n -> Runs] /\ v[0] = <<>> /\ \A i \in 1..n : v[i] = SortStep(v[i - 1], m, i)
  <2>1. v \in [0..n -> Runs] /\ v[0] = <<>> /\ \A i \in 1..n : v[i] = g[<<i, v[i - 1]>>]
    BY <1>12 DEF IsWalk
  <2>2. ASSUME NEW i \in 1..n PROVE v[i] = SortStep(v[i - 1], m, i)
    <3>1. i - 1 \in 0..n
      BY <1>1
    <3> QED BY <1>2, <2>1, <3>1
  <2> QED BY <2>1, <2>2
<1>14. IsSortWalk(v, S, m)
  BY <1>8, <1>12, <1>13 DEF IsSortWalk, Runs, n
<1> QED BY <1>14

(* FILTER and FLATTEN. *)

FilterStep(out, m, cond, places, x) ==
  IF places[x] <= Len(cond) /\ A!Truthy(cond[places[x]]) THEN Append(out, m[places[x]]) ELSE out
IterFilter(iter, m, cond) ==
  iter = [s \in SUBSET (DOMAIN [i \in DOMAIN m |-> i]) |->
            IF s = {} THEN <<>>
            ELSE LET x == A!Max(s) IN FilterStep(iter[s \ {x}], m, cond, [i \in DOMAIN m |-> i], x)]
Dropped(m, cond) == {i \in DOMAIN m : ~(i <= Len(cond) /\ A!Truthy(cond[i]))}

LEMMA FilterUnfolds ==
  ASSUME NEW m, NEW cond
  PROVE  A!FilterRows(m, cond)
         = (CHOOSE iter : IterFilter(iter, m, cond))[DOMAIN [i \in DOMAIN m |-> i]]
BY Zenon DEF A!FilterRows, A!FoldLeftDomain, A!FoldLeft, A!MapThenFoldSet, IterFilter, FilterStep

LEMMA FilterIsKept ==
  ASSUME NEW S, NEW m \in Seq(S), NEW cond, NEW iter
  PROVE  IterFilter(iter, m, cond) <=> IterKept(iter, m, Dropped(m, cond))
<1> DEFINE n == Len(m)
           drop == Dropped(m, cond)
<1>1. n \in Nat /\ DOMAIN m = 1..n
  BY LenProperties
<1>2. \A s : A!Max(s) = Greatest(s)
  BY DEF A!Max, Greatest
<1>3. \A s \in SUBSET (1..n) : s # {} => Greatest(s) \in 1..n
  <2> SUFFICES ASSUME NEW s \in SUBSET (1..n), s # {} PROVE Greatest(s) \in s
    OBVIOUS
  <2> QED BY <1>1, GreatestIn
<1>4. DOMAIN [i \in DOMAIN m |-> i] = DOMAIN m
  OBVIOUS
<1>5. ASSUME NEW k \in 1..n, NEW out
      PROVE  FilterStep(out, m, cond, [i \in DOMAIN m |-> i], k) = KeptStep(out, m, drop, k)
  <2> DEFINE places == [i \in DOMAIN m |-> i]
  <2>1. places[k] = k
    BY <1>1
  <2>2. k \in drop <=> ~(k <= Len(cond) /\ A!Truthy(cond[k]))
    BY <1>1 DEF Dropped
  <2> HIDE DEF places, drop
  <2>3. FilterStep(out, m, cond, places, k)
        = IF k <= Len(cond) /\ A!Truthy(cond[k]) THEN Append(out, m[k]) ELSE out
    BY <2>1, Zenon DEF FilterStep
  <2>4. FilterStep(out, m, cond, places, k) = KeptStep(out, m, drop, k)
    <3>1. CASE k \in drop
      BY <2>2, <2>3, <3>1, Zenon DEF KeptStep
    <3>2. CASE k \notin drop
      BY <2>2, <2>3, <3>2, Zenon DEF KeptStep
    <3> QED BY <3>1, <3>2
  <2> QED BY <2>4, Zenon DEF places
<1> HIDE DEF drop
<1>6. \A s \in SUBSET (1..n) :
        (IF s = {} THEN <<>>
         ELSE LET x == A!Max(s) IN FilterStep(iter[s \ {x}], m, cond, [i \in DOMAIN m |-> i], x))
        = (IF s = {} THEN <<>> ELSE KeptStep(iter[s \ {Greatest(s)}], m, drop, Greatest(s)))
  BY <1>2, <1>3, <1>5, Zenon
<1> QED BY <1>1, <1>4, <1>6, Zenon DEF IterFilter, IterKept, KeptStep, drop

\* What is filtered are rows of the block.
LEMMA FilterType ==
  ASSUME NEW S, NEW m \in Seq(S), NEW cond
  PROVE  A!FilterRows(m, cond) \in Seq(S)
<1> DEFINE drop == Dropped(m, cond)
           iter == CHOOSE iter : IterFilter(iter, m, cond)
<1>1. \E f : IterFilter(f, m, cond)
  BY KeptExists, FilterIsKept
<1>2. IterFilter(iter, m, cond)
  BY <1>1
<1> HIDE DEF iter
<1>3. KeptFacts(S, m, drop, iter[DOMAIN m])
  BY <1>2, FilterIsKept, KeptIs
<1>4. DOMAIN [i \in DOMAIN m |-> i] = DOMAIN m
  OBVIOUS
<1> QED BY <1>3, <1>4, FilterUnfolds DEF iter, KeptFacts

\* The cells of a block, of which there are some.
LEMMA FlatType ==
  ASSUME NEW m \in Matrix
  PROVE  A!Flatten1D(m) \in Seq(Atom) /\ Len(A!Flatten1D(m)) \in Nat \ {0}
<1> DEFINE h == Len(m)
           flat == A!Flatten1D(m)
<1>1. m \in Seq(Seq(Atom)) /\ m # <<>>
  BY EmptySeq DEF Matrix, A!Rectangular
<1>2. IsBlock(m, h, Len(m[1]))
  BY MatrixIsBlock
<1>3. PICK f : RunFacts(Atom, f, m) /\ A!FlattenSeq(m) = f[h]
  BY <1>1, FlattenRun
<1> HIDE DEF h
<1>4. h \in Nat \ {0} /\ \A i \in 1..h : m[i] \in Seq(Atom) /\ Len(m[i]) \in Nat \ {0}
  BY <1>2 DEF IsBlock
<1>5. /\ \A i \in 1..h : f[i] \in Seq(Atom)
      /\ f[1] = m[1]
      /\ \A i \in 1..h : i # 1 => f[i] = f[i - 1] \o m[i]
  BY <1>3 DEF RunFacts, h
<1>6. f[h] \in Seq(Atom) /\ Len(f[h]) \in Nat \ {0}
  <2>1. CASE h = 1
    <3>1. f[h] = m[h] /\ h \in 1..h
      BY <1>5, <2>1
    <3> QED BY <1>4, <3>1
  <2>2. CASE h # 1
    <3>1. h \in 1..h /\ h - 1 \in 1..h
      BY <1>4, <2>2
    <3>2. JoinFacts(Atom, f[h - 1], m[h])
      BY <1>4, <1>5, <3>1, Joins
    <3>3. f[h] = f[h - 1] \o m[h] /\ Len(m[h]) \in Nat \ {0}
      BY <1>4, <1>5, <2>2, <3>1
    <3>4. f[h] \in Seq(Atom) /\ Len(f[h]) = Len(f[h - 1]) + Len(m[h]) /\ Len(f[h - 1]) \in Nat
      BY <3>2, <3>3 DEF JoinFacts
    <3>5. \A a \in Nat, b \in Nat \ {0} : a + b \in Nat \ {0}
      OBVIOUS
    <3>6. Len(m[h]) \in Nat \ {0}
      BY <3>3
    <3>7. Len(f[h]) \in Nat \ {0}
      BY <3>4, <3>5, <3>6
    <3> QED BY <3>4, <3>7
  <2> QED BY <2>1, <2>2
<1> QED BY <1>3, <1>6 DEF A!Flatten1D

LEMMA FlattenType ==
  ASSUME NEW m \in Matrix
  PROVE  A!Flatten(m) \in Matrix
<1> DEFINE flat == A!Flatten1D(m)
           n == Len(flat)
           t == [i \in 1..n |-> <<flat[i]>>]
<1>1. flat \in Seq(Atom) /\ n \in Nat \ {0}
  BY FlatType
<1>2. A!Flatten(m) = t
  BY DEF A!Flatten
<1> HIDE DEF flat
<1>3. t \in [1..n -> [1..1 -> Atom]]
  <2> SUFFICES ASSUME NEW i \in 1..n PROVE <<flat[i]>> \in [1..1 -> Atom]
    OBVIOUS
  <2>1. flat[i] \in Atom
    BY <1>1, ElementOfSeq
  <2>2. <<flat[i]>> \in Seq(Atom) /\ DOMAIN <<flat[i]>> = 1..1 /\ <<flat[i]>>[1] = flat[i]
    BY <2>1
  <2>3. <<flat[i]>> = [j \in 1..1 |-> flat[i]]
    OBVIOUS
  <2> QED BY <2>1, <2>3
<1> HIDE DEF n, t
<1>4. t \in Matrix
  <2>1. 1 \in Nat \ {0}
    OBVIOUS
  <2> QED BY <1>1, <1>3, <2>1, TableIsMatrix
<1> QED BY <1>2, <1>4

\* Rows that are told apart, and rows in order, are still rows, and some.
LEMMA UniqueType ==
  ASSUME NEW S, NEW m \in Seq(S), m # <<>>
  PROVE  A!Unique(m) \in Seq(S) /\ A!Unique(m) # <<>>
<1> DEFINE n == Len(m)
<1>1. n \in Nat \ {0}
  BY EmptySeq, LenProperties
<1>2. PICK v : IsUniqueWalk(v, S, m)
  BY UniqueWalks
<1>3. v \in [0..n -> Seq(S)] /\ v[n] = A!Unique(m) /\ v[n] = UniqueStep(v[n - 1], m, n)
  BY <1>1, <1>2 DEF IsUniqueWalk
<1>4. n \in 0..n /\ n - 1 \in 0..n
  BY <1>1
<1> HIDE DEF n
<1>5. v[n] \in Seq(S) /\ v[n - 1] \in Seq(S)
  BY <1>3, <1>4
<1>6. v[n] # <<>>
  <2>1. Append(v[n - 1], m[n]) # <<>>
    BY <1>5
  <2>2. (\E k \in DOMAIN v[n - 1] : A!RowKey(v[n - 1][k]) = A!RowKey(m[n])) => v[n - 1] # <<>>
    OBVIOUS
  <2> QED BY <1>3, <2>1, <2>2 DEF UniqueStep
<1> QED BY <1>3, <1>5, <1>6

LEMMA SortType ==
  ASSUME NEW S, NEW m \in Seq(S), m # <<>>
  PROVE  A!Sort(m) \in Seq(S) /\ A!Sort(m) # <<>>
<1> DEFINE n == Len(m)
<1>1. n \in Nat \ {0} /\ n \in 1..n /\ m[n] \in S
  BY EmptySeq, ElementOfSeq, LenProperties
<1>2. PICK v : IsSortWalk(v, S, m)
  BY SortWalks
<1>3. v \in [0..n -> Seq(S)] /\ v[n] = A!Sort(m) /\ v[n] = SortStep(v[n - 1], m, n)
  BY <1>1, <1>2 DEF IsSortWalk
<1>4. n \in 0..n /\ n - 1 \in 0..n
  BY <1>1
<1> HIDE DEF n
<1> DEFINE out == v[n - 1]
           p == StopOf(out, m[n]) + 1
<1>5. v[n] \in Seq(S) /\ out \in Seq(S) /\ Len(out) \in Nat
  BY <1>3, <1>4, LenProperties
<1>6. p \in 1..(Len(out) + 1)
  <2>1. StopOf(out, m[n]) \in 0..Len(out)
    BY <1>5, StopIs
  <2> QED BY <1>5, <2>1
<1>7. v[n] = A!InsertAt(out, p, m[n])
  BY <1>3, InsertIs DEF SortStep
<1>8. InsertFacts(S, out, p, m[n])
  BY <1>1, <1>5, <1>6, Inserts
<1>9. Len(v[n]) = Len(out) + 1
  BY <1>7, <1>8 DEF InsertFacts
<1>10. v[n] # <<>>
  BY <1>5, <1>9
<1> QED BY <1>3, <1>5, <1>10

(* What the arrays hold. *)

ArrayInv == owner = "arrays" => val \in Atom \/ \E m \in Matrix : val = A!Array(m)

LEMMA RangesAreMatrices == Ranges \subseteq Matrix /\ Conditions \subseteq Matrix
BY InputsAssumption DEF A!InputsAreCells, A!IsMatrix, Matrix, Atom

LEMMA ErrorsAreAtoms ==
  ASSUME NEW n \in Int
  PROVE  A!Error(n) \in Atom
BY DEF A!Error, Atom, A!Kinds

\* What a call takes for the block of its argument is one.
LEMMA ArgumentIs ==
  ASSUME ArrayInv, owner = "arrays"
  PROVE  A!ArgMatrix(val) \in Matrix
<1>1. CASE val \in Atom
  <2>1. A!ArgMatrix(val) = <<<<val>>>>
    BY <1>1 DEF A!ArgMatrix, Atom, A!Kinds
  <2>2. <<<<val>>>> \in Seq(Seq(Atom)) /\ <<<<val>>>> # <<>>
    BY <1>1
  <2>3. \A i \in DOMAIN <<<<val>>>> : Len(<<<<val>>>>[i]) = 1
    OBVIOUS
  <2>4. 1 \in Nat \ {0}
    OBVIOUS
  <2> DEFINE t == <<<<val>>>>
  <2> HIDE DEF t
  <2>5. t \in Seq(Seq(Atom)) /\ t # <<>> /\ \A i \in DOMAIN t : Len(t[i]) = 1
    BY <2>2, <2>3 DEF t
  <2>6. t \in Matrix
    BY <2>4, <2>5, BlockIsMatrix
  <2> QED BY <2>1, <2>6 DEF t
<1>2. ASSUME NEW m \in Matrix, val = A!Array(m)
      PROVE  A!ArgMatrix(val) \in Matrix
  BY <1>2 DEF A!ArgMatrix, A!Array
<1> QED BY <1>1, <1>2 DEF ArrayInv

LEMMA ArrayInvariance == Spec => []ArrayInv
<1>1. Init => ArrayInv
  <2> SUFFICES ASSUME Init, owner = "arrays" PROVE \E m \in Matrix : val = A!Array(m)
    BY DEF ArrayInv
  <2>1. A!Init
    BY DEF Init
  <2>2. PICK m \in Ranges : val = A!Array(m)
    BY <2>1 DEF A!Init
  <2> QED BY <2>2, RangesAreMatrices
<1>2. ArrayInv /\ [Next]_vars => ArrayInv'
  <2> SUFFICES ASSUME ArrayInv, [Next]_vars, owner' = "arrays"
               PROVE  val' \in Atom \/ \E m \in Matrix : val' = A!Array(m)
    BY DEF ArrayInv
  <2>1. owner = "arrays"
    BY DEF Next, ArrayStep, LimitStep, ImportStep, ColumnStep, CallStep, DateStep, AddressStep, TextStep, vars
  <2>2. CASE UNCHANGED vars
    BY <2>1, <2>2 DEF ArrayInv, vars
  <2>3. CASE Next
    <3> DEFINE m == A!ArgMatrix(val)
               w == Len(m[1])
    <3>1. A!Next
      BY <2>1, <2>3 DEF Next, ArrayStep, LimitStep, ImportStep, ColumnStep, CallStep, DateStep,
                        AddressStep, TextStep
    <3>2. m \in Matrix
      BY <2>1, ArgumentIs
    <3>3. m \in Seq(Row(w)) /\ m # <<>> /\ w \in Nat \ {0}
      BY <3>2, MatrixIsRows
    <3>4. IsBlock(m, Len(m), w)
      BY <3>2, MatrixIsBlock
    <3>5. ASSUME A!ArrayTranspose PROVE \E t \in Matrix : val' = A!Array(t)
      <4>1. val' = A!Array(A!Transpose(m))
        BY <3>5 DEF A!ArrayTranspose, A!Becomes
      <4>2. TransposeFacts(m)
        BY <3>2, TransposeIs
      <4> QED BY <4>1, <4>2 DEF TransposeFacts
    <3>6. ASSUME A!ArrayUnique PROVE \E t \in Matrix : val' = A!Array(t)
      <4>1. val' = A!Array(A!Unique(m))
        BY <3>6 DEF A!ArrayUnique, A!Becomes
      <4> HIDE DEF m, w
      <4>2. A!Unique(m) \in Matrix
        BY <3>3, UniqueType, RowsAreMatrix
      <4> QED BY <4>1, <4>2
    <3>7. ASSUME A!ArraySort PROVE \E t \in Matrix : val' = A!Array(t)
      <4>1. val' = A!Array(A!Sort(m))
        BY <3>7 DEF A!ArraySort, A!Becomes
      <4> HIDE DEF m, w
      <4>2. A!Sort(m) \in Matrix
        BY <3>3, SortType, RowsAreMatrix
      <4> QED BY <4>1, <4>2
    <3>8. ASSUME A!ArrayFlatten PROVE \E t \in Matrix : val' = A!Array(t)
      <4>1. val' = A!Array(A!Flatten(m))
        BY <3>8 DEF A!ArrayFlatten, A!Becomes
      <4> HIDE DEF m
      <4> QED BY <3>2, <4>1, FlattenType
    <3>9. ASSUME NEW c \in Conditions, A!ArrayFilter(c)
          PROVE  val' \in Atom \/ \E t \in Matrix : val' = A!Array(t)
      <4> DEFINE cond == A!Flatten1D(c)
                 t == A!FilterRows(m, cond)
      <4>1. val' = A!Filter(m, cond)
        BY <3>9 DEF A!ArrayFilter, A!Becomes
      <4> HIDE DEF m, w, cond
      <4>2. t \in Seq(Row(w))
        BY <3>3, FilterType
      <4> HIDE DEF t
      <4>3. t # <<>> => t \in Matrix
        BY <3>3, <4>2, RowsAreMatrix
      <4>4. A!Error(A!NA) \in Atom
        BY ErrorsAreAtoms DEF A!NA
      <4> QED BY <4>1, <4>3, <4>4 DEF A!Filter, t
    <3>10. ASSUME NEW r \in 1..2, NEW c \in 1..2, A!Index(r, c) PROVE val' \in Atom
      <4>1. val' = A!TableIndex(m, r, c)
        BY <3>10 DEF A!Index, A!Becomes
      <4> HIDE DEF m
      <4>2. r \in 1..Len(m) /\ c \in 1..Len(m[1]) => m[r][c] \in Atom
        BY <3>4 DEF IsBlock, w
      <4>3. A!Error(A!REF) \in Atom
        BY ErrorsAreAtoms DEF A!REF
      <4> QED BY <4>1, <4>2, <4>3 DEF A!TableIndex
    <3> QED BY <3>1, <3>5, <3>6, <3>7, <3>8, <3>9, <3>10 DEF A!Next
  <2> QED BY <2>2, <2>3
<1> QED BY <1>1, <1>2, PTL DEF Spec

\* TRANSPOSE swaps the axes of every lookup: VLOOKUP and HLOOKUP, the two indexes of
\* INDEX and the two ways MATCH looks are each other's over the transposed block, for
\* blocks of every size, whatever calls made them.
THEOREM AxesAreAlike == Spec => []TransposeSwapsAxes
<1>1. ArrayInv => TransposeSwapsAxes
  <2> SUFFICES ASSUME ArrayInv, owner = "arrays" PROVE A!TransposeSwapsAxes
    BY DEF TransposeSwapsAxes
  <2> DEFINE m == A!ArgMatrix(val)
  <2>1. m \in Matrix
    BY ArgumentIs
  <2> HIDE DEF m
  <2>2. /\ A!Transpose(A!Transpose(m)) = m
        /\ (1 \in {Len(m), Len(A!Transpose(m))} =>
              \A k : A!TableMatch(k, A!Transpose(m)) = A!TableMatch(k, m))
        /\ (\A k, i : A!LookupHorizontal(k, A!Transpose(m), i) = A!LookupVertical(k, m, i))
        /\ (\A i, j : A!TableIndex(A!Transpose(m), j, i) = A!TableIndex(m, i, j))
    BY <2>1, AxesAgree
  <2> QED BY <2>2, Zenon DEF A!TransposeSwapsAxes, m
<1> QED BY <1>1, ArrayInvariance, PTL

(* What UNIQUE keeps, and where it stood. *)

\* The rows kept of the first n: in the order they had, and of each row one like it that
\* stands no lower.
KeptAt(places, u, m, n) ==
  /\ places \in [1..Len(u) -> 1..n]
  /\ \A p \in 1..Len(u) : u[p] = m[places[p]]
  /\ \A p, q \in 1..Len(u) : p <= q => places[p] <= places[q]
  /\ \A j \in 1..n : \E p \in 1..Len(u) : A!RowKey(u[p]) = A!RowKey(m[j]) /\ places[p] <= j

LEMMA KeptOneMore ==
  ASSUME NEW S, NEW m \in Seq(S), NEW u \in Seq(S), NEW i \in Nat, i + 1 \in 1..Len(m),
         NEW places, KeptAt(places, u, m, i)
  PROVE  \E more : KeptAt(more, UniqueStep(u, m, i + 1), m, i + 1)
<1> DEFINE n == Len(u)
           row == m[i + 1]
           next == UniqueStep(u, m, i + 1)
<1>1. n \in Nat /\ DOMAIN u = 1..n /\ row \in S
  BY ElementOfSeq, LenProperties
<1>2. /\ places \in [1..n -> 1..i]
      /\ \A p \in 1..n : u[p] = m[places[p]]
      /\ \A p, q \in 1..n : p <= q => places[p] <= places[q]
      /\ \A j \in 1..i : \E p \in 1..n : A!RowKey(u[p]) = A!RowKey(m[j]) /\ places[p] <= j
  BY DEF KeptAt
<1>0. \A j \in 1..(i + 1) : j \in 1..i \/ j = i + 1
  OBVIOUS
<1>3. CASE \E k \in 1..n : A!RowKey(u[k]) = A!RowKey(row)
  <2>1. next = u
    BY <1>1, <1>3 DEF UniqueStep
  <2>2. places \in [1..n -> 1..(i + 1)]
    BY <1>2
  <2>3. \E p \in 1..n : A!RowKey(u[p]) = A!RowKey(row) /\ places[p] <= i + 1
    <3>1. PICK k \in 1..n : A!RowKey(u[k]) = A!RowKey(row)
      BY <1>3
    <3>2. places[k] <= i + 1
      BY <1>2
    <3> QED BY <3>1, <3>2
  <2>4. \A j \in 1..(i + 1) : \E p \in 1..n : A!RowKey(u[p]) = A!RowKey(m[j]) /\ places[p] <= j
    BY <1>0, <1>2, <2>3
  <2> QED BY <1>2, <2>1, <2>2, <2>4 DEF KeptAt
<1>4. CASE ~\E k \in 1..n : A!RowKey(u[k]) = A!RowKey(row)
  <2> DEFINE more == [p \in 1..(n + 1) |-> IF p = n + 1 THEN i + 1 ELSE places[p]]
  <2>1. next = Append(u, row)
    BY <1>1, <1>4 DEF UniqueStep
  <2>2. /\ Len(next) = n + 1 /\ next[n + 1] = row
        /\ \A p \in 1..n : next[p] = u[p]
    BY <1>1, <2>1, AppendProperties
  <2> HIDE DEF next, row
  <2>3. \A p \in 1..(n + 1) : (p \in 1..n /\ p # n + 1) \/ p = n + 1
    BY <1>1
  <2>4. ASSUME NEW p \in 1..n PROVE more[p] = places[p] /\ more[p] \in 1..i
    <3>1. p \in 1..(n + 1) /\ p # n + 1
      BY <1>1
    <3>2. places[p] \in 1..i
      BY <1>2
    <3> QED BY <3>1, <3>2
  <2>5. more[n + 1] = i + 1 /\ n + 1 \in 1..(n + 1)
    BY <1>1
  <2>6. more \in [1..(n + 1) -> 1..(i + 1)]
    BY <1>2, <2>3
  <2> HIDE DEF more
  <2>7. \A p \in 1..(n + 1) : next[p] = m[more[p]]
    BY <1>2, <2>2, <2>3, <2>4, <2>5 DEF row
  <2>8. ASSUME NEW p \in 1..(n + 1), NEW q \in 1..(n + 1), p <= q PROVE more[p] <= more[q]
    <3>1. CASE q = n + 1
      <4>1. more[p] \in 1..(i + 1)
        BY <2>6
      <4> QED BY <2>5, <3>1, <4>1
    <3>2. CASE q # n + 1
      <4>1. p \in 1..n /\ q \in 1..n
        BY <1>1, <2>8, <3>2
      <4> QED BY <1>2, <2>4, <2>8, <4>1
    <3> QED BY <3>1, <3>2
  <2>9. ASSUME NEW j \in 1..(i + 1)
        PROVE  \E p \in 1..(n + 1) : A!RowKey(next[p]) = A!RowKey(m[j]) /\ more[p] <= j
    <3>1. CASE j = i + 1
      <4>1. next[n + 1] = m[j] /\ more[n + 1] <= j
        BY <2>2, <2>5, <3>1 DEF row
      <4> QED BY <2>5, <4>1
    <3>2. CASE j # i + 1
      <4>1. PICK p \in 1..n : A!RowKey(u[p]) = A!RowKey(m[j]) /\ places[p] <= j
        BY <1>0, <1>2, <3>2
      <4>2. p \in 1..(n + 1)
        BY <1>1
      <4> QED BY <2>2, <2>4, <4>1, <4>2
    <3> QED BY <3>1, <3>2
  <2>10. KeptAt(more, next, m, i + 1)
    BY <2>2, <2>6, <2>7, <2>8, <2>9 DEF KeptAt
  <2> QED BY <2>10 DEF next
<1> QED BY <1>3, <1>4

LEMMA UniqueKeeps ==
  ASSUME NEW S, NEW m \in Seq(S)
  PROVE  \E places : KeptAt(places, A!Unique(m), m, Len(m))
<1> DEFINE n == Len(m)
<1>1. n \in Nat
  BY LenProperties
<1>2. PICK v : IsUniqueWalk(v, S, m)
  BY UniqueWalks
<1>3. v \in [0..n -> Seq(S)] /\ v[0] = <<>> /\ v[n] = A!Unique(m)
      /\ \A i \in 1..n : v[i] = UniqueStep(v[i - 1], m, i)
  BY <1>2 DEF IsUniqueWalk
<1> DEFINE T == {i \in Nat : i <= n => \E places : KeptAt(places, v[i], m, i)}
<1>4. 0 \in T
  <2> DEFINE none == [p \in 1..0 |-> p]
  <2>1. v[0] = <<>> /\ Len(<<>>) = 0
    BY <1>3
  <2>2. KeptAt(none, <<>>, m, 0)
    BY DEF KeptAt
  <2> QED BY <2>1, <2>2
<1>5. ASSUME NEW i \in Nat, i \in T PROVE i + 1 \in T
  <2> SUFFICES ASSUME i + 1 <= n PROVE \E places : KeptAt(places, v[i + 1], m, i + 1)
    OBVIOUS
  <2>1. i + 1 \in 1..n /\ i \in 0..n /\ (i + 1) - 1 = i
    BY <1>1
  <2>2. PICK places : KeptAt(places, v[i], m, i)
    BY <1>1, <1>5
  <2>3. v[i] \in Seq(S) /\ v[i + 1] = UniqueStep(v[i], m, i + 1)
    BY <1>3, <2>1
  <2> HIDE DEF T
  <2>4. \E more : KeptAt(more, UniqueStep(v[i], m, i + 1), m, i + 1)
    BY <2>1, <2>2, <2>3, KeptOneMore
  <2> QED BY <2>3, <2>4
<1> HIDE DEF T
<1>6. n \in T
  BY <1>1, <1>4, <1>5, Upward
<1> QED BY <1>1, <1>3, <1>6 DEF T

\* Rows whose texts are alike are the same, where texts tell values apart.
LEMMA AlikeAreSame ==
  ASSUME NEW m \in Matrix, A!TextTellsValues(m), NEW i \in 1..Len(m), NEW j \in 1..Len(m),
         A!RowKey(m[i]) = A!RowKey(m[j])
  PROVE  m[i] = m[j]
<1> DEFINE w == Len(m[1])
           a == m[i]
           b == m[j]
<1>1. IsBlock(m, Len(m), w)
  BY MatrixIsBlock
<1>2. /\ a \in Seq(Atom) /\ b \in Seq(Atom) /\ Len(a) = w /\ Len(b) = w /\ w \in Nat
      /\ DOMAIN a = 1..w /\ DOMAIN b = 1..w
      /\ DOMAIN m = 1..Len(m) /\ DOMAIN m[1] = 1..w
  <2>1. 1 \in 1..Len(m)
    BY <1>1 DEF IsBlock
  <2> QED BY <1>1, <2>1 DEF IsBlock
<1>3. \A c \in 1..w : a[c].text = b[c].text => a[c] = b[c]
  <2>1. i \in DOMAIN m /\ j \in DOMAIN m /\ DOMAIN m[1] = 1..w
    BY <1>2
  <2> HIDE DEF w
  <2> QED BY <2>1, Zenon DEF A!TextTellsValues
<1>4. A!RowKey(a) = A!RowKey(b)
  OBVIOUS
<1> HIDE DEF a, b, w
<1>5. ASSUME NEW c \in 1..w PROVE a[c] = b[c]
  <2>1. A!RowKey(a)[c] = a[c].text /\ A!RowKey(b)[c] = b[c].text
    BY <1>2 DEF A!RowKey
  <2> QED BY <1>3, <1>4, <2>1
<1>6. a = b
  BY <1>2, <1>5, SeqEqual
<1> QED BY <1>6 DEF a, b

\* VLOOKUP finds in the rows kept what it finds in all of them.
LEMMA LookupUnique ==
  ASSUME NEW m \in Matrix, A!TextTellsValues(m), NEW k, NEW i
  PROVE  A!LookupVertical(k, A!Unique(m), i) = A!LookupVertical(k, m, i)
<1> DEFINE n == Len(m)
           u == A!Unique(m)
           h == Len(u)
           all == RowsFound(k, m)
           some == RowsFound(k, u)
           r == FirstOf(all)
           s == FirstOf(some)
<1>1. m \in Seq(Seq(Atom)) /\ m # <<>>
  BY EmptySeq DEF Matrix, A!Rectangular
<1>2. PICK places : KeptAt(places, u, m, n)
  BY <1>1, UniqueKeeps
<1>3. n \in Nat /\ h \in Nat
  <2>1. u \in Seq(Seq(Atom))
    BY <1>1, UniqueType
  <2> QED BY <1>1, <2>1, LenProperties
<1> HIDE DEF u
<1>4. /\ places \in [1..h -> 1..n]
      /\ \A p \in 1..h : u[p] = m[places[p]]
      /\ \A p, q \in 1..h : p <= q => places[p] <= places[q]
      /\ \A j \in 1..n : \E p \in 1..h : A!RowKey(u[p]) = A!RowKey(m[j]) /\ places[p] <= j
  BY <1>2 DEF KeptAt
<1>5. all \in SUBSET (1..n) /\ some \in SUBSET (1..h)
  BY DEF RowsFound
<1>6. \A p \in 1..h : p \in some <=> places[p] \in all
  <2> TAKE p \in 1..h
  <2>1. u[p] = m[places[p]] /\ places[p] \in 1..n
    BY <1>4
  <2> QED BY <2>1 DEF RowsFound
<1>7. \A j \in 1..n : \E p \in 1..h : u[p] = m[j] /\ m[places[p]] = m[j] /\ places[p] <= j
  <2> TAKE j \in 1..n
  <2>1. PICK p \in 1..h : A!RowKey(u[p]) = A!RowKey(m[j]) /\ places[p] <= j
    BY <1>4
  <2>2. places[p] \in 1..n /\ A!RowKey(m[places[p]]) = A!RowKey(m[j])
    BY <1>4, <2>1
  <2>3. m[places[p]] = m[j]
    BY <2>2, AlikeAreSame
  <2> QED BY <1>4, <2>1, <2>3
<1>8. \A j \in all, q \in 1..n : m[q] = m[j] => q \in all
  BY DEF RowsFound
<1>9. A!LookupVertical(k, m, i)
      = IF r = 0 THEN A!Error(A!NA) ELSE IF i \in 1..Len(m[r]) THEN m[r][i] ELSE A!Error(A!REF)
  BY VerticalIs
<1>10. A!LookupVertical(k, u, i)
      = IF s = 0 THEN A!Error(A!NA) ELSE IF i \in 1..Len(u[s]) THEN u[s][i] ELSE A!Error(A!REF)
  BY VerticalIs
<1> HIDE DEF n, h, all, some
<1>11. CASE all = {}
  <2>1. some = {}
    BY <1>5, <1>6, <1>11
  <2> QED BY <1>9, <1>10, <1>11, <2>1 DEF FirstOf, u
<1>12. CASE all # {}
  <2>1. r \in all /\ \A q \in all : r <= q
    BY <1>3, <1>5, <1>12, FirstIsIn
  <2>2. PICK p \in 1..h : u[p] = m[r] /\ m[places[p]] = m[r] /\ places[p] <= r
    BY <1>5, <1>7, <2>1
  <2>3. places[p] \in 1..n /\ places[p] \in all
    BY <1>4, <1>8, <2>1, <2>2
  <2>4. p \in some
    BY <1>6, <2>3
  <2>5. s \in some /\ \A q \in some : s <= q
    BY <1>3, <1>5, <2>4, FirstIsIn
  <2>6. s \in 1..h /\ s <= p
    BY <1>5, <2>4, <2>5
  <2>7. places[s] \in all /\ places[s] <= places[p]
    BY <1>4, <1>6, <2>5, <2>6
  <2>8. r <= places[s] /\ places[s] \in Nat /\ places[p] \in Nat /\ r \in Nat
    <3>1. r \in 1..n /\ places[s] \in 1..n
      BY <1>5, <2>1, <2>7
    <3>2. r <= places[s]
      BY <2>1, <2>7
    <3> HIDE DEF r
    <3> QED BY <1>3, <2>3, <3>1, <3>2
  <2>9. places[s] = r
    BY <2>2, <2>7, <2>8
  <2>10. u[s] = m[r] /\ r # 0 /\ s # 0
    <3>1. r \in 1..n /\ s \in 1..h
      BY <1>5, <2>1, <2>6
    <3> QED BY <1>4, <2>9, <3>1
  <2> HIDE DEF r, s
  <2> QED BY <1>9, <1>10, <2>10 DEF u
<1> QED BY <1>11, <1>12

(* Which step made the call. *)

CallerInv == owner # "arrays" => call = None

LEMMA CallerInvariance == Spec => []CallerInv
<1>1. Init => CallerInv
  BY DEF Init, CallerInv, Absent
<1>2. CallerInv /\ [Next]_vars => CallerInv'
  BY DEF CallerInv, Next, ArrayStep, LimitStep, ImportStep, ColumnStep, CallStep, DateStep,
         AddressStep, TextStep, vars, L!Next, L!vars, R!Next, R!vars, X!Next, X!vars
<1> QED BY <1>1, <1>2, PTL DEF Spec

\* UNIQUE and SORT are called by no other part, and take the block there was.
LEMMA CalledOn ==
  ASSUME ArrayInv, CallerInv, [Next]_vars, ~UNCHANGED A!vars
  PROVE  /\ call' = "unique" => /\ A!ArgMatrix(val) \in Matrix
                                /\ val' = A!Array(A!Unique(A!ArgMatrix(val)))
         /\ call' = "sort" => /\ A!ArgMatrix(val) \in Matrix
                              /\ val' = A!Array(A!Sort(A!ArgMatrix(val)))
<1>1. CASE ArrayStep
  <2>1. A!Next /\ owner = "arrays"
    BY <1>1 DEF ArrayStep
  <2>2. A!ArgMatrix(val) \in Matrix
    BY <2>1, ArgumentIs
  <2>3. (call' = "unique" => A!ArrayUnique) /\ (call' = "sort" => A!ArraySort)
    BY <2>1 DEF A!Next, A!ArrayTranspose, A!ArrayUnique, A!ArraySort, A!ArrayFlatten,
                A!ArrayFilter, A!Index, A!Becomes
  <2> QED BY <2>2, <2>3 DEF A!ArrayUnique, A!ArraySort, A!Becomes
<1>2. CASE ~ArrayStep
  <2>1. owner # "arrays" \/ UNCHANGED <<owner, val, call>>
    BY <1>2 DEF Next, LimitStep, ImportStep, ColumnStep, CallStep, DateStep, AddressStep, TextStep, vars
  <2>2. owner # "arrays" /\ call' = call
    BY <1>2, <2>1 DEF A!vars, Next, LimitStep, ImportStep, ColumnStep, CallStep, DateStep,
                      AddressStep, TextStep, vars
  <2>3. call' = None
    BY <2>2 DEF CallerInv
  <2> QED BY <2>3, NoneIsNoName
<1> QED BY <1>1, <1>2

\* A lookup finds in a table what it finds in the table without its repeated rows, in
\* tables of every size where texts tell values apart (arrayUnique, lookupVertical).
THEOREM UniqueKeepsLookups == Spec => LookupSurvivesUnique
<1> DEFINE Survives == call' = "unique" /\ A!TextTellsValues(A!ArgMatrix(val)) =>
                         \A k \in Keys, i \in 0..3 :
                           A!LookupVertical(k, val'.arr, i) = A!LookupVertical(k, A!ArgMatrix(val), i)
<1>1. ArrayInv /\ CallerInv /\ [Next]_vars => [Survives]_(A!vars)
  <2> SUFFICES ASSUME ArrayInv, CallerInv, [Next]_vars, ~UNCHANGED A!vars,
                      call' = "unique", A!TextTellsValues(A!ArgMatrix(val)),
                      NEW k \in Keys, NEW i \in 0..3
               PROVE  A!LookupVertical(k, val'.arr, i) = A!LookupVertical(k, A!ArgMatrix(val), i)
    OBVIOUS
  <2> DEFINE m == A!ArgMatrix(val)
  <2>1. m \in Matrix /\ val' = A!Array(A!Unique(m))
    BY CalledOn
  <2> HIDE DEF m
  <2>2. A!LookupVertical(k, A!Unique(m), i) = A!LookupVertical(k, m, i)
    BY <2>1, LookupUnique DEF m
  <2>3. val'.arr = A!Unique(m)
    BY <2>1 DEF A!Array
  <2> QED BY <2>2, <2>3 DEF m
<1> HIDE DEF Survives
<1>2. Spec => [][Survives]_(A!vars)
  BY <1>1, ArrayInvariance, CallerInvariance, PTL DEF Spec
<1> QED BY <1>2 DEF LookupSurvivesUnique, A!LookupSurvivesUnique, Survives

(* What SORT puts where. *)

LEMMA CardIs ==
  ASSUME NEW S
  PROVE  A!Cardinality(S) = Cardinality(S)
BY Zenon DEF A!Cardinality, Cardinality

\* A row belongs below another, and above it or level with it but before it.
Under(m, i, j) == A!LessValue(m[i][1], m[j][1])
Before(m, i, j) == Under(m, i, j) \/ (i <= j /\ ~Under(m, j, i))

\* The order of the rows is one.
IsOrdered(m, n) ==
  /\ \A i, j \in 1..n : Under(m, i, j) => ~Under(m, j, i)
  /\ \A i, j, k \in 1..n : Under(m, i, k) => Under(m, i, j) \/ Under(m, j, k)

LEMMA OrderedIs ==
  ASSUME NEW m \in Matrix, A!Sortable(m)
  PROVE  IsOrdered(m, Len(m))
<1> DEFINE n == Len(m)
<1>1. DOMAIN m = 1..n /\ \A i \in 1..n : m[i][1] \in Atom
  <2>1. IsBlock(m, n, Len(m[1]))
    BY MatrixIsBlock
  <2>2. 1 \in 1..Len(m[1])
    BY <2>1 DEF IsBlock
  <2> QED BY <2>1, <2>2 DEF IsBlock
<1>2. \A a, b \in Atom : A!LessValue(a, b) => ~A!LessValue(b, a)
  BY DEF A!LessValue, A!Numericish, Atom
<1>3. \A i, j, k \in 1..n : Under(m, i, k) => Under(m, i, j) \/ Under(m, j, k)
  BY <1>1, Zenon DEF A!Sortable, Under
<1> HIDE DEF n
<1>4. \A i, j \in 1..n : Under(m, i, j) => ~Under(m, j, i)
  BY <1>1, <1>2 DEF Under
<1> QED BY <1>3, <1>4 DEF IsOrdered, n

\* The first i rows stand in a sequence, each at its place.
PlacedAt(place, out, m, i) ==
  /\ Len(out) = i
  /\ place \in [1..i -> 1..i]
  /\ \A p \in 1..i : \E k \in 1..i : place[k] = p
  /\ \A k \in 1..i : out[place[k]] = m[k]
  /\ \A j, k \in 1..i : place[j] <= place[k] <=> Before(m, j, k)

\* A row is put in after those it is not less than, and no other.
LEMMA StopDivides ==
  ASSUME NEW m, NEW n \in Nat, IsOrdered(m, n), NEW i \in Nat, i + 1 \in 1..n,
         NEW out, NEW place, PlacedAt(place, out, m, i), NEW k \in 1..i
  PROVE  place[k] <= StopOf(out, m[i + 1]) <=> ~Under(m, i + 1, k)
<1> DEFINE row == m[i + 1]
           stop == StopOf(out, row)
<1>1. /\ stop \in 0..i
      /\ stop # 0 => stop \in NotLess(out, row)
      /\ \A p \in NotLess(out, row) : p <= stop
  BY StopIs DEF PlacedAt
<1>2. \A j \in 1..i : place[j] \in 1..i /\ out[place[j]] = m[j] /\ j \in 1..n
  <2>1. \A j \in 1..i : j \in 1..n
    OBVIOUS
  <2>2. place \in [1..i -> 1..i] /\ \A j \in 1..i : out[place[j]] = m[j]
    BY DEF PlacedAt
  <2> QED BY <2>1, <2>2
<1>3. \A j \in 1..i : place[j] \in NotLess(out, row) <=> ~Under(m, i + 1, j)
  <2> TAKE j \in 1..i
  <2>1. place[j] \in 1..Len(out) /\ out[place[j]] = m[j]
    BY <1>2 DEF PlacedAt
  <2> QED BY <2>1 DEF NotLess, Under
<1> HIDE DEF stop, row
<1>4. ASSUME ~Under(m, i + 1, k) PROVE place[k] <= stop
  BY <1>1, <1>3, <1>4
<1>5. ASSUME place[k] <= stop PROVE ~Under(m, i + 1, k)
  <2>1. stop \in 1..i /\ stop \in NotLess(out, row)
    BY <1>1, <1>2, <1>5
  <2>2. PICK s \in 1..i : place[s] = stop
    BY <2>1 DEF PlacedAt
  <2>3. ~Under(m, i + 1, s)
    BY <1>3, <2>1, <2>2
  <2>4. Before(m, k, s)
    BY <1>5, <2>2 DEF PlacedAt
  <2>5. ~Under(m, s, k)
    BY <1>2, <2>4 DEF Before, IsOrdered
  <2>6. Under(m, i + 1, k) => Under(m, i + 1, s) \/ Under(m, s, k)
    BY <1>2 DEF IsOrdered
  <2> QED BY <2>3, <2>5, <2>6
<1> QED BY <1>4, <1>5 DEF stop, row

LEMMA PlaceOneMore ==
  ASSUME NEW S, NEW m \in Seq(S), IsOrdered(m, Len(m)), NEW i \in Nat, i + 1 \in 1..Len(m),
         NEW out \in Seq(S), NEW place, PlacedAt(place, out, m, i)
  PROVE  \E more : PlacedAt(more, SortStep(out, m, i + 1), m, i + 1)
<1> DEFINE n == Len(m)
           row == m[i + 1]
           top == StopOf(out, row) + 1
           next == SortStep(out, m, i + 1)
           more == [k \in 1..(i + 1) |->
                      IF k = i + 1 THEN top ELSE IF place[k] < top THEN place[k] ELSE place[k] + 1]
<1>1. /\ Len(out) = i /\ place \in [1..i -> 1..i]
      /\ \A p \in 1..i : \E k \in 1..i : place[k] = p
      /\ \A k \in 1..i : out[place[k]] = m[k]
      /\ \A j, k \in 1..i : place[j] <= place[k] <=> Before(m, j, k)
  BY DEF PlacedAt
<1>2. StopOf(out, row) \in 0..i
  BY <1>1, StopIs
<1>3. top \in 1..(i + 1) /\ top - 1 = StopOf(out, row)
  BY <1>2
<1>4. n \in Nat /\ row \in S
  BY ElementOfSeq, LenProperties
<1>5. \A k \in 1..i : place[k] < top <=> ~Under(m, i + 1, k)
  <2> TAKE k \in 1..i
  <2>1. place[k] <= StopOf(out, row) <=> ~Under(m, i + 1, k)
    BY <1>4, StopDivides
  <2>2. place[k] \in 1..i
    BY <1>1
  <2> QED BY <1>2, <2>1, <2>2
<1>6. /\ Len(next) = i + 1 /\ next[top] = row
      /\ \A p \in 1..i : next[IF p < top THEN p ELSE p + 1] = out[p]
  <2>1. next = A!InsertAt(out, top, row)
    BY InsertIs DEF SortStep
  <2> HIDE DEF top, row
  <2>2. InsertFacts(S, out, top, row)
    BY <1>1, <1>3, <1>4, Inserts
  <2> QED BY <1>1, <2>1, <2>2 DEF InsertFacts
<1> HIDE DEF top, next, row, n
<1>7. /\ more[i + 1] = top
      /\ \A k \in 1..i : more[k] = IF place[k] < top THEN place[k] ELSE place[k] + 1
  <2>1. i + 1 \in 1..(i + 1)
    OBVIOUS
  <2>2. \A k \in 1..i : k \in 1..(i + 1) /\ k # i + 1
    OBVIOUS
  <2> QED BY <2>1, <2>2
<1>8. \A k \in 1..(i + 1) : k \in 1..i \/ k = i + 1
  OBVIOUS
<1>9. more \in [1..(i + 1) -> 1..(i + 1)]
  <2> SUFFICES ASSUME NEW k \in 1..(i + 1) PROVE more[k] \in 1..(i + 1)
    OBVIOUS
  <2>1. CASE k = i + 1
    BY <1>3, <1>7, <2>1
  <2>2. CASE k # i + 1
    <3>1. k \in 1..i /\ place[k] \in 1..i
      BY <1>1, <1>8, <2>2
    <3> QED BY <1>7, <3>1
  <2> QED BY <2>1, <2>2
<1> HIDE DEF more
<1>10. ASSUME NEW p \in 1..(i + 1) PROVE \E k \in 1..(i + 1) : more[k] = p
  <2>1. CASE p = top
    BY <1>7, <2>1
  <2>2. CASE p < top
    <3>1. p \in 1..i
      BY <1>3, <2>2
    <3>2. PICK k \in 1..i : place[k] = p
      BY <1>1, <3>1
    <3> QED BY <1>7, <2>2, <3>2
  <2>3. CASE p > top
    <3>1. p - 1 \in 1..i /\ ~(p - 1 < top)
      BY <1>3, <2>3
    <3>2. PICK k \in 1..i : place[k] = p - 1
      BY <1>1, <3>1
    <3>3. more[k] = p
      BY <1>7, <3>1, <3>2
    <3> QED BY <3>3
  <2> QED BY <1>3, <2>1, <2>2, <2>3
<1>11. ASSUME NEW k \in 1..(i + 1) PROVE next[more[k]] = m[k]
  <2>1. CASE k = i + 1
    BY <1>6, <1>7, <2>1 DEF row
  <2>2. CASE k # i + 1
    <3>1. k \in 1..i /\ place[k] \in 1..i
      BY <1>1, <1>8, <2>2
    <3>2. next[more[k]] = out[place[k]]
      BY <1>6, <1>7, <3>1
    <3> QED BY <1>1, <3>1, <3>2
  <2> QED BY <2>1, <2>2
<1>12. ASSUME NEW j \in 1..(i + 1), NEW k \in 1..(i + 1)
       PROVE  more[j] <= more[k] <=> Before(m, j, k)
  <2>0. \A q \in 1..i : place[q] \in 1..i /\ q <= i + 1 /\ ~(i + 1 <= q)
    <3>1. \A q \in 1..i : q <= i + 1 /\ ~(i + 1 <= q)
      OBVIOUS
    <3>2. \A q \in 1..i : place[q] \in 1..i
      BY <1>1
    <3> QED BY <3>1, <3>2
  <2>1. CASE j \in 1..i /\ k \in 1..i
    <3>1. more[j] <= more[k] <=> place[j] <= place[k]
      BY <1>3, <1>7, <2>0, <2>1
    <3> QED BY <1>1, <2>1, <3>1
  <2>2. CASE j \in 1..i /\ k = i + 1
    <3>1. more[j] <= more[k] <=> place[j] < top
      BY <1>3, <1>7, <2>0, <2>2
    <3>2. Before(m, j, k) <=> ~Under(m, i + 1, j)
      <4>1. Under(m, j, k) => ~Under(m, k, j)
        BY <2>2 DEF IsOrdered
      <4> QED BY <2>0, <2>2, <4>1 DEF Before
    <3> QED BY <1>5, <2>2, <3>1, <3>2
  <2>3. CASE j = i + 1 /\ k \in 1..i
    <3>1. more[j] <= more[k] <=> ~(place[k] < top)
      BY <1>3, <1>7, <2>0, <2>3
    <3>2. Before(m, j, k) <=> Under(m, i + 1, k)
      BY <2>0, <2>3 DEF Before
    <3> QED BY <1>5, <2>3, <3>1, <3>2
  <2>4. CASE j = i + 1 /\ k = i + 1
    <3>1. ~Under(m, i + 1, i + 1)
      BY DEF IsOrdered
    <3> QED BY <1>3, <1>7, <2>4, <3>1 DEF Before
  <2> QED BY <1>8, <2>1, <2>2, <2>3, <2>4
<1>13. PlacedAt(more, next, m, i + 1)
  BY <1>6, <1>9, <1>10, <1>11, <1>12 DEF PlacedAt
<1> QED BY <1>13 DEF next

LEMMA SortPlaces ==
  ASSUME NEW S, NEW m \in Seq(S), IsOrdered(m, Len(m))
  PROVE  \E place : PlacedAt(place, A!Sort(m), m, Len(m))
<1> DEFINE n == Len(m)
<1>1. n \in Nat
  BY LenProperties
<1>2. PICK v : IsSortWalk(v, S, m)
  BY SortWalks
<1>3. v \in [0..n -> Seq(S)] /\ v[0] = <<>> /\ v[n] = A!Sort(m)
      /\ \A i \in 1..n : v[i] = SortStep(v[i - 1], m, i)
  BY <1>2 DEF IsSortWalk
<1> DEFINE T == {i \in Nat : i <= n => \E place : PlacedAt(place, v[i], m, i)}
<1>4. 0 \in T
  <2> DEFINE none == [p \in 1..0 |-> p]
  <2>1. v[0] = <<>> /\ Len(<<>>) = 0
    BY <1>3
  <2>2. PlacedAt(none, <<>>, m, 0)
    BY DEF PlacedAt
  <2> QED BY <2>1, <2>2
<1>5. ASSUME NEW i \in Nat, i \in T PROVE i + 1 \in T
  <2> SUFFICES ASSUME i + 1 <= n PROVE \E place : PlacedAt(place, v[i + 1], m, i + 1)
    OBVIOUS
  <2>1. i + 1 \in 1..n /\ i \in 0..n /\ (i + 1) - 1 = i
    BY <1>1
  <2>2. PICK place : PlacedAt(place, v[i], m, i)
    BY <1>1, <1>5
  <2>3. v[i] \in Seq(S) /\ v[i + 1] = SortStep(v[i], m, i + 1)
    BY <1>3, <2>1
  <2> HIDE DEF T
  <2>4. \E more : PlacedAt(more, SortStep(v[i], m, i + 1), m, i + 1)
    BY <2>1, <2>2, <2>3, PlaceOneMore
  <2> QED BY <2>3, <2>4
<1> HIDE DEF T
<1>6. n \in T
  BY <1>1, <1>4, <1>5, Upward
<1> QED BY <1>1, <1>3, <1>6 DEF T

\* A row's place is the number of rows that go before it, itself among them.
LEMMA PlaceIsRank ==
  ASSUME NEW m, NEW n \in Nat, IsOrdered(m, n), NEW out, NEW place, PlacedAt(place, out, m, n),
         NEW k \in 1..n
  PROVE  place[k] = Cardinality({j \in 1..n : Before(m, j, k)})
<1> DEFINE T == {j \in 1..n : Before(m, j, k)}
           p == place[k]
           f == [j \in T |-> place[j]]
<1>1. /\ place \in [1..n -> 1..n]
      /\ \A q \in 1..n : \E j \in 1..n : place[j] = q
      /\ \A j, l \in 1..n : place[j] <= place[l] <=> Before(m, j, l)
  BY DEF PlacedAt
<1>2. p \in 1..n /\ T = {j \in 1..n : place[j] <= p}
  BY <1>1
<1> HIDE DEF T, p
<1>3. ASSUME NEW i \in 1..n, NEW j \in 1..n, place[i] = place[j] PROVE i = j
  <2>1. place[i] \in 1..n /\ place[i] <= place[j] /\ place[j] <= place[i]
    BY <1>1, <1>3
  <2>2. Before(m, i, j) /\ Before(m, j, i)
    BY <1>1, <2>1
  <2>3. (Under(m, i, j) => ~Under(m, j, i)) /\ (Under(m, j, i) => ~Under(m, i, j))
    BY DEF IsOrdered
  <2>4. i <= j /\ j <= i
    BY <2>2, <2>3 DEF Before
  <2> QED BY <2>4
<1>4. f \in Bijection(T, 1..p)
  <2>1. f \in [T -> 1..p]
    BY <1>1, <1>2
  <2>2. \A a, b \in T : f[a] = f[b] => a = b
    <3>1. \A a \in T : a \in 1..n /\ f[a] = place[a]
      BY <1>2
    <3> HIDE DEF f
    <3> QED BY <1>3, <3>1
  <2>3. \A q \in 1..p : \E a \in T : f[a] = q
    <3> TAKE q \in 1..p
    <3>1. q \in 1..n /\ q <= p
      BY <1>2
    <3>2. PICK a \in 1..n : place[a] = q
      BY <1>1, <3>1
    <3>3. a \in T
      BY <1>2, <3>1, <3>2
    <3> QED BY <3>2, <3>3
  <2> HIDE DEF f
  <2> QED BY <2>1, <2>2, <2>3 DEF Bijection, Injection, Surjection, IsInjective
<1>5. IsFiniteSet(T)
  <2>1. IsFiniteSet(1..n)
    BY FS_Interval
  <2>2. T \in SUBSET (1..n)
    BY <1>2
  <2> QED BY <2>1, <2>2, FS_Subset
<1>6. ExistsBijection(T, 1..p)
  BY <1>4 DEF ExistsBijection
<1>7. Cardinality(1..p) = Cardinality(T)
  BY <1>5, <1>6, FS_Bijection
<1>8. Cardinality(1..p) = p
  <2>1. 1 \in Int /\ p \in Int /\ ~(1 > p) /\ p - 1 + 1 = p
    BY <1>2
  <2>2. Cardinality(1..p) = IF 1 > p THEN 0 ELSE p - 1 + 1
    BY <2>1, FS_Interval
  <2> QED BY <2>1, <2>2
<1> QED BY <1>7, <1>8 DEF T, p

LEMMA SortIs ==
  ASSUME NEW m \in Matrix, A!Sortable(m)
  PROVE  A!InPlace(m, A!Sort(m))
<1> DEFINE n == Len(m)
           Rows(i) == {j \in DOMAIN m : Before(m, j, i)}
<1>1. m \in Seq(Seq(Atom)) /\ n \in Nat /\ DOMAIN m = 1..n
  <2>1. m \in Seq(Seq(Atom))
    BY DEF Matrix
  <2> QED BY <2>1, LenProperties
<1>2. IsOrdered(m, n)
  BY OrderedIs
<1>3. PICK place : PlacedAt(place, A!Sort(m), m, n)
  BY <1>1, <1>2, SortPlaces
<1> HIDE DEF n
<1>4. \A i \in 1..n : place[i] = Cardinality({j \in 1..n : Before(m, j, i)})
  BY <1>1, <1>2, <1>3, PlaceIsRank
<1>5. Len(A!Sort(m)) = n /\ \A i \in 1..n : A!Sort(m)[place[i]] = m[i]
  BY <1>3 DEF PlacedAt
<1>6. \A i \in DOMAIN m : A!Sort(m)[A!Cardinality(Rows(i))] = m[i]
  BY <1>1, <1>4, <1>5, CardIs
<1>7. \A i : Rows(i) = {j \in DOMAIN m : A!LessValue(m[j][1], m[i][1])
                                         \/ (j <= i /\ ~A!LessValue(m[i][1], m[j][1]))}
  BY Zenon DEF Before, Under
<1> HIDE DEF Rows
<1> QED BY <1>5, <1>6, <1>7, Zenon DEF A!InPlace, n

\* SORT puts whole rows in ascending order of their first cells, and rows that tie as they
\* stood, in tables of every size that its comparison orders (arraySort).
THEOREM SortKeepsTies == Spec => SortIsStable
<1> DEFINE Sorted == call' = "sort" /\ A!Sortable(A!ArgMatrix(val)) =>
                       A!InPlace(A!ArgMatrix(val), val'.arr)
<1>1. ArrayInv /\ CallerInv /\ [Next]_vars => [Sorted]_(A!vars)
  <2> SUFFICES ASSUME ArrayInv, CallerInv, [Next]_vars, ~UNCHANGED A!vars,
                      call' = "sort", A!Sortable(A!ArgMatrix(val))
               PROVE  A!InPlace(A!ArgMatrix(val), val'.arr)
    OBVIOUS
  <2> DEFINE m == A!ArgMatrix(val)
  <2>1. m \in Matrix /\ val' = A!Array(A!Sort(m))
    BY CalledOn
  <2> HIDE DEF m
  <2>2. val'.arr = A!Sort(m)
    BY <2>1 DEF A!Array
  <2>3. A!InPlace(m, A!Sort(m))
    BY <2>1, SortIs DEF m
  <2> QED BY <2>2, <2>3 DEF m
<1> HIDE DEF Sorted
<1>2. Spec => [][Sorted]_(A!vars)
  BY <1>1, ArrayInvariance, CallerInvariance, PTL DEF Spec
<1> QED BY <1>2 DEF SortIsStable, A!SortIsStable, Sorted

-----------------------------------------------------------------------------
(* The columns. *)

Entry == [kind : C!Kinds, num : Int, text : Nat]

ColumnInv == owner = "columns" => column \in [1..ColumnLength -> Entry]

LEMMA ColumnInvariance == Spec => []ColumnInv
<1>0. ColumnLength \in Nat /\ Contents \subseteq Entry
  BY InputsAssumption DEF C!InputsAreScalars, C!IsScalar, Entry
<1>1. Init => ColumnInv
  BY DEF Init, ColumnInv, C!Init, C!EmptyCell, Entry, C!Kinds
<1>2. ColumnInv /\ [Next]_vars => ColumnInv'
  <2> SUFFICES ASSUME ColumnInv, [Next]_vars, owner' = "columns"
               PROVE  (column \in [1..ColumnLength -> Entry])'
    BY DEF ColumnInv
  <2>1. CASE UNCHANGED vars
    BY <2>1 DEF ColumnInv, vars, Entry
  <2>2. CASE Next
    <3>1. owner = "columns" /\ C!Next
      BY <2>2 DEF Next, ArrayStep, LimitStep, ImportStep, ColumnStep, CallStep, DateStep,
                  AddressStep, TextStep
    <3>2. column \in [1..ColumnLength -> Entry]
      BY <3>1 DEF ColumnInv
    <3>3. PICK i \in 1..ColumnLength, v \in Contents : column' = [column EXCEPT ![i] = v]
      BY <3>1 DEF C!Next, C!SetCell
    <3>4. v \in Entry
      BY <1>0
    <3> QED BY <3>2, <3>3, <3>4 DEF Entry
  <2> QED BY <2>1, <2>2
<1> QED BY <1>1, <1>2, PTL DEF Spec

(* What a criterion asks. *)

LEMMA OneIsPrefix ==
  ASSUME NEW a
  PROVE  /\ \A c : C!IsPrefix(<<a>>, <<c>>) <=> a = c
         /\ \A c, d : C!IsPrefix(<<a>>, <<c, d>>) <=> a = c
         /\ ~C!IsPrefix(<<a>>, <<>>)
BY DEF C!IsPrefix

LEMMA TwoIsPrefix ==
  ASSUME NEW a, NEW b
  PROVE  /\ \A c : ~C!IsPrefix(<<a, b>>, <<c>>)
         /\ \A c, d : C!IsPrefix(<<a, b>>, <<c, d>>) <=> a = c /\ b = d
         /\ ~C!IsPrefix(<<a, b>>, <<>>)
BY DEF C!IsPrefix

\* The operators that signs begin with.
Beginnings(signs) == {i \in 1..Len(C!Operators) : C!IsPrefix(C!Operators[i], signs)}

LEMMA ParseUnfolds ==
  ASSUME NEW crit
  PROVE  C!ParseCriterion(crit) =
           LET i == IF Beginnings(crit.signs) # {} THEN C!Min(Beginnings(crit.signs)) ELSE 0
               op == IF i = 0 THEN <<>> ELSE C!Operators[i]
           IN  [op |-> op, isNumber |-> op = crit.signs /\ crit.operand.kind = "number"]
BY Zenon DEF C!ParseCriterion, C!SelectInSeq, Beginnings

LEMMA LeastBeginning ==
  ASSUME NEW T \in SUBSET Int, NEW m \in T, \A k \in T : m <= k
  PROVE  C!Min(T) = m
<1>1. \A x \in T : (\A y \in T : x <= y) => x = m
  OBVIOUS
<1> QED BY <1>1 DEF C!Min

Signs == {<<">", "=">>, <<"<", "=">>, <<"<", ">">>, <<">">>, <<"<">>, <<"=">>}

\* The longest sign is tried first, so that each is read as itself.
LEMMA SignsAreRead ==
  ASSUME NEW op \in Signs, NEW n
  PROVE  C!ParseCriterion(C!Crit(op, n)) = [op |-> op, isNumber |-> TRUE]
<1> DEFINE T == Beginnings(op)
           o == C!Operators
<1>1. /\ Len(o) = 6 /\ o[1] = <<">", "=">> /\ o[2] = <<"<", "=">> /\ o[3] = <<"<", ">">>
      /\ o[4] = <<">">> /\ o[5] = <<"<">> /\ o[6] = <<"=">>
  BY DEF C!Operators
<1>2. \A i : i \in 1..6 <=> i = 1 \/ i = 2 \/ i = 3 \/ i = 4 \/ i = 5 \/ i = 6
  OBVIOUS
<1> HIDE DEF o
<1>3. \A i : i \in T <=> i \in 1..6 /\ C!IsPrefix(o[i], op)
  BY <1>1 DEF Beginnings, o
<1> HIDE DEF T
<1>4. ASSUME NEW m \in T, \A i \in T : m <= i, o[m] = op
      PROVE  C!ParseCriterion(C!Crit(op, n)) = [op |-> op, isNumber |-> TRUE]
  <2>1. C!Min(T) = m /\ T # {} /\ m # 0
    <3>1. T \in SUBSET Int
      BY <1>3
    <3>2. m \in 1..6
      BY <1>3
    <3> QED BY <1>4, <3>1, <3>2, LeastBeginning
  <2>2. C!Crit(op, n).signs = op /\ C!Crit(op, n).operand.kind = "number"
    BY DEF C!Crit, C!NumberValue
  <2> HIDE DEF T
  <2> QED BY <1>4, <2>1, <2>2, ParseUnfolds DEF T, o
<1>5. CASE op = <<">", "=">>
  <2>1. /\ C!IsPrefix(o[1], op) /\ ~C!IsPrefix(o[2], op) /\ ~C!IsPrefix(o[3], op)
        /\ C!IsPrefix(o[4], op) /\ ~C!IsPrefix(o[5], op) /\ ~C!IsPrefix(o[6], op)
    BY <1>1, <1>5, OneIsPrefix, TwoIsPrefix
  <2>2. \A i : i \in T <=> i = 1 \/ i = 4
    BY <1>2, <1>3, <2>1
  <2> QED BY <1>1, <1>4, <1>5, <2>2
<1>6. CASE op = <<"<", "=">>
  <2>1. /\ ~C!IsPrefix(o[1], op) /\ C!IsPrefix(o[2], op) /\ ~C!IsPrefix(o[3], op)
        /\ ~C!IsPrefix(o[4], op) /\ C!IsPrefix(o[5], op) /\ ~C!IsPrefix(o[6], op)
    BY <1>1, <1>6, OneIsPrefix, TwoIsPrefix
  <2>2. \A i : i \in T <=> i = 2 \/ i = 5
    BY <1>2, <1>3, <2>1
  <2> QED BY <1>1, <1>4, <1>6, <2>2
<1>7. CASE op = <<"<", ">">>
  <2>1. /\ ~C!IsPrefix(o[1], op) /\ ~C!IsPrefix(o[2], op) /\ C!IsPrefix(o[3], op)
        /\ ~C!IsPrefix(o[4], op) /\ C!IsPrefix(o[5], op) /\ ~C!IsPrefix(o[6], op)
    BY <1>1, <1>7, OneIsPrefix, TwoIsPrefix
  <2>2. \A i : i \in T <=> i = 3 \/ i = 5
    BY <1>2, <1>3, <2>1
  <2> QED BY <1>1, <1>4, <1>7, <2>2
<1>8. CASE op = <<">">>
  <2>1. /\ ~C!IsPrefix(o[1], op) /\ ~C!IsPrefix(o[2], op) /\ ~C!IsPrefix(o[3], op)
        /\ C!IsPrefix(o[4], op) /\ ~C!IsPrefix(o[5], op) /\ ~C!IsPrefix(o[6], op)
    BY <1>1, <1>8, OneIsPrefix, TwoIsPrefix
  <2>2. \A i : i \in T <=> i = 4
    BY <1>2, <1>3, <2>1
  <2> QED BY <1>1, <1>4, <1>8, <2>2
<1>9. CASE op = <<"<">>
  <2>1. /\ ~C!IsPrefix(o[1], op) /\ ~C!IsPrefix(o[2], op) /\ ~C!IsPrefix(o[3], op)
        /\ ~C!IsPrefix(o[4], op) /\ C!IsPrefix(o[5], op) /\ ~C!IsPrefix(o[6], op)
    BY <1>1, <1>9, OneIsPrefix, TwoIsPrefix
  <2>2. \A i : i \in T <=> i = 5
    BY <1>2, <1>3, <2>1
  <2> QED BY <1>1, <1>4, <1>9, <2>2
<1>10. CASE op = <<"=">>
  <2>1. /\ ~C!IsPrefix(o[1], op) /\ ~C!IsPrefix(o[2], op) /\ ~C!IsPrefix(o[3], op)
        /\ ~C!IsPrefix(o[4], op) /\ ~C!IsPrefix(o[5], op) /\ C!IsPrefix(o[6], op)
    <3>1. ~C!IsPrefix(<<">", "=">>, <<"=">>) /\ ~C!IsPrefix(<<"<", "=">>, <<"=">>)
          /\ ~C!IsPrefix(<<"<", ">">>, <<"=">>)
      BY TwoIsPrefix
    <3>2. ~C!IsPrefix(<<">">>, <<"=">>) /\ ~C!IsPrefix(<<"<">>, <<"=">>) /\ C!IsPrefix(<<"=">>, <<"=">>)
      BY OneIsPrefix
    <3> QED BY <1>1, <1>10, <3>1, <3>2
  <2>2. \A i : i \in T <=> i = 6
    BY <1>2, <1>3, <2>1
  <2> QED BY <1>1, <1>4, <1>10, <2>2
<1> QED BY <1>5, <1>6, <1>7, <1>8, <1>9, <1>10 DEF Signs

\* What a cell that an operator finds has, and one that a number without one finds.
LEMMA OperatorMatches ==
  ASSUME NEW op \in Signs, NEW n, NEW cell
  PROVE  C!MatchesCriterion(cell, C!Crit(op, n)) <=>
           C!HasNumber(cell) /\ C!NumberOrder(op, C!AsNumber(cell), n)
<1>1. C!ParseCriterion(C!Crit(op, n)) = [op |-> op, isNumber |-> TRUE]
  BY SignsAreRead
<1>2. op # <<>>
  BY DEF Signs
<1>3. C!Crit(op, n).operand.num = n
  BY DEF C!Crit, C!NumberValue
<1> QED BY <1>1, <1>2, <1>3 DEF C!MatchesCriterion

LEMMA NumberMatches ==
  ASSUME NEW n, NEW cell
  PROVE  C!MatchesCriterion(cell, C!Crit(<<>>, n)) <=> C!Numericish(cell) /\ cell.num = n
<1> DEFINE crit == C!Crit(<<>>, n)
           e == <<>>
<1>1. crit.signs = e /\ crit.operand = C!NumberValue(n)
  BY DEF C!Crit
<1>2. Beginnings(e) = {}
  <2>1. Len(C!Operators) = 6
    BY DEF C!Operators
  <2>2. \A i \in 1..6 : ~C!IsPrefix(C!Operators[i], e)
    BY OneIsPrefix, TwoIsPrefix DEF C!Operators
  <2> QED BY <2>1, <2>2 DEF Beginnings
<1> HIDE DEF crit
<1>3. C!ParseCriterion(crit).op = <<>>
  BY <1>1, <1>2, ParseUnfolds
<1>4. C!MatchesCriterion(cell, crit) <=> C!EqualValues(cell, C!NumberValue(n))
  BY <1>1, <1>3 DEF C!MatchesCriterion, C!Reread, C!NumberValue
<1>5. C!EqualValues(cell, C!NumberValue(n)) <=> C!Numericish(cell) /\ cell.num = n
  BY DEF C!EqualValues, C!NumberValue, C!Numericish, C!Textual
<1> QED BY <1>4, <1>5 DEF crit

(* Counting. *)

LEMMA CardOfColumn ==
  ASSUME NEW S
  PROVE  C!Cardinality(S) = Cardinality(S)
BY Zenon DEF C!Cardinality, Cardinality

LEMMA CountsOfColumn ==
  ASSUME NEW n \in Nat, NEW S \in SUBSET (1..n)
  PROVE  Cardinality(S) \in 0..n /\ IsFiniteSet(S)
<1>1. IsFiniteSet(1..n) /\ Cardinality(1..n) = n
  <2>1. 1 \in Int /\ n \in Int /\ (1 > n => n = 0) /\ n - 1 + 1 = n
    OBVIOUS
  <2> QED BY <2>1, FS_Interval
<1>2. IsFiniteSet(S) /\ Cardinality(S) <= n
  BY <1>1, FS_Subset
<1>3. Cardinality(S) \in Nat
  BY <1>2, FS_CardinalityType
<1> QED BY <1>2, <1>3

LEMMA CountsAdd ==
  ASSUME NEW n \in Nat, NEW S \in SUBSET (1..n), NEW T \in SUBSET (1..n), NEW U,
         S \cap T = {}, U = S \cup T
  PROVE  /\ Cardinality(U) = Cardinality(S) + Cardinality(T)
         /\ Unit * Cardinality(U) = Unit * Cardinality(S) + Unit * Cardinality(T)
         /\ Cardinality(S) \in Nat /\ Cardinality(T) \in Nat /\ Cardinality(U) \in Nat
<1>0. Unit \in Nat
  BY InputsAssumption DEF C!UnitIsPositive
<1>1. IsFiniteSet(S) /\ IsFiniteSet(T) /\ Cardinality(S) \in Nat /\ Cardinality(T) \in Nat
  BY CountsOfColumn
<1>2. Cardinality(U) = Cardinality(S) + Cardinality(T)
  <2>1. Cardinality(S \cap T) = 0
    BY FS_EmptySet
  <2>2. Cardinality(S \cup T) = Cardinality(S) + Cardinality(T) - Cardinality(S \cap T)
    BY <1>1, FS_Union
  <2> QED BY <1>1, <2>1, <2>2
<1> DEFINE a == Cardinality(S)
           b == Cardinality(T)
<1>3. Unit * (a + b) = Unit * a + Unit * b
  <2> HIDE DEF a, b
  <2>1. a \in Nat /\ b \in Nat => Unit * (a + b) = Unit * a + Unit * b
    BY <1>0
  <2> QED BY <1>1, <2>1 DEF a, b
<1> QED BY <1>1, <1>2, <1>3

\* The cells that a criterion finds, those that have a number, and those that have none
\* yet count for 0.
Found(crit) == {i \in DOMAIN column : C!MatchesCriterion(column[i], crit)}
Numeric == {i \in DOMAIN column : C!HasNumber(column[i])}
Empty == {i \in DOMAIN column : column[i].kind = "empty"}

LEMMA MatchingIs ==
  ASSUME NEW op, NEW n
  PROVE  C!Matching(op, n) = Unit * Cardinality(Found(C!Crit(op, n)))
BY CardOfColumn DEF C!Matching, C!CriteriaCount, C!CountOf, C!NumberValue, Found

LEMMA NumericIs == C!CountOf(column, C!HasNumber).num = Unit * Cardinality(Numeric)
BY CardOfColumn DEF C!CountOf, C!NumberValue, Numeric

LEMMA EmptyIs == C!FnCountblank(column).num = Unit * Cardinality(Empty)
BY CardOfColumn DEF C!FnCountblank, C!CountOf, C!NumberValue, Empty

IsColumn == ColumnLength \in Nat /\ column \in [1..ColumnLength -> Entry]

Splits(op, opposite, n) ==
  C!Matching(op, n) + C!Matching(opposite, n) = C!CountOf(column, C!HasNumber).num

LEMMA OperatorsSplit ==
  ASSUME IsColumn, NEW n \in Int
  PROVE  /\ Splits(<<">", "=">>, <<"<">>, n) /\ Splits(<<"<", "=">>, <<">">>, n)
         /\ Splits(<<"<", ">">>, <<"=">>, n)
<1>0. /\ <<">", "=">> \in Signs /\ <<"<", "=">> \in Signs /\ <<"<", ">">> \in Signs
      /\ <<">">> \in Signs /\ <<"<">> \in Signs /\ <<"=">> \in Signs
  BY DEF Signs
<1>1. ASSUME NEW op \in Signs, NEW opposite \in Signs,
             \A x \in Int : C!NumberOrder(op, x, n) <=> ~C!NumberOrder(opposite, x, n)
      PROVE  Splits(op, opposite, n)
  <2> DEFINE S == Found(C!Crit(op, n))
             T == Found(C!Crit(opposite, n))
             U == Numeric
  <2>1. \A i \in DOMAIN column : C!AsNumber(column[i]) \in Int
    BY DEF IsColumn, C!AsNumber, Entry
  <2>2. S \cap T = {} /\ U = S \cup T
    BY <1>1, <2>1, OperatorMatches DEF Found, Numeric
  <2>3. S \in SUBSET (1..ColumnLength) /\ T \in SUBSET (1..ColumnLength) /\ ColumnLength \in Nat
    BY DEF IsColumn, Found
  <2> HIDE DEF S, T, U
  <2>4. Unit * Cardinality(U) = Unit * Cardinality(S) + Unit * Cardinality(T)
    BY <2>2, <2>3, CountsAdd
  <2> QED BY <2>4, MatchingIs, NumericIs DEF Splits, S, T, U
<1>2. \A x \in Int : C!NumberOrder(<<">", "=">>, x, n) <=> ~C!NumberOrder(<<"<">>, x, n)
  BY DEF C!NumberOrder
<1>3. \A x \in Int : C!NumberOrder(<<"<", "=">>, x, n) <=> ~C!NumberOrder(<<">">>, x, n)
  BY DEF C!NumberOrder
<1>4. \A x \in Int : C!NumberOrder(<<"<", ">">>, x, n) <=> ~C!NumberOrder(<<"=">>, x, n)
  BY DEF C!NumberOrder
<1> QED BY <1>0, <1>1, <1>2, <1>3, <1>4

LEMMA EqualsFinds ==
  ASSUME IsColumn, NEW n \in Int
  PROVE  C!Matching(<<"=">>, n) - C!Matching(<<>>, n)
           = IF n = 0 THEN C!FnCountblank(column).num ELSE 0
<1> DEFINE S == Found(C!Crit(<<>>, n))
           U == Found(C!Crit(<<"=">>, n))
           T == IF n = 0 THEN Empty ELSE {}
<1>1. <<"=">> \in Signs /\ \A x \in Int : C!NumberOrder(<<"=">>, x, n) <=> x = n
  BY DEF Signs, C!NumberOrder
<1>2. ASSUME NEW i \in DOMAIN column
      PROVE  /\ i \in U <=> C!HasNumber(column[i]) /\ C!AsNumber(column[i]) = n
             /\ i \in S <=> C!Numericish(column[i]) /\ column[i].num = n
  <2>1. C!AsNumber(column[i]) \in Int
    BY DEF IsColumn, C!AsNumber, Entry
  <2> QED BY <1>1, <2>1, OperatorMatches, NumberMatches DEF Found
<1>3. U = S \cup T /\ S \cap T = {}
  <2>1. U \subseteq DOMAIN column /\ S \subseteq DOMAIN column /\ T \subseteq DOMAIN column
    BY DEF Found, Empty
  <2>2. \A i \in DOMAIN column : i \in T <=> n = 0 /\ column[i].kind = "empty"
    BY DEF Empty
  <2> HIDE DEF S, T, U
  <2> QED BY <1>2, <2>1, <2>2 DEF C!HasNumber, C!AsNumber, C!Numericish
<1>4. S \in SUBSET (1..ColumnLength) /\ T \in SUBSET (1..ColumnLength) /\ ColumnLength \in Nat
  BY DEF IsColumn, Found, Empty
<1> HIDE DEF S, T, U
<1>5. /\ Unit * Cardinality(U) = Unit * Cardinality(S) + Unit * Cardinality(T)
      /\ Cardinality(S) \in Nat /\ Cardinality(T) \in Nat
  BY <1>3, <1>4, CountsAdd
<1>6. Unit * Cardinality(T) = IF n = 0 THEN C!FnCountblank(column).num ELSE 0
  <2>1. Unit * 0 = 0
    BY InputsAssumption DEF C!UnitIsPositive
  <2> QED BY <2>1, EmptyIs, FS_EmptySet DEF T
<1>7. Unit * Cardinality(S) \in Int /\ Unit * Cardinality(T) \in Int
  <2>1. \A k \in Nat : Unit * k \in Int
    BY InputsAssumption DEF C!UnitIsPositive
  <2> QED BY <1>5, <2>1
<1>8. C!Matching(<<"=">>, n) - C!Matching(<<>>, n) = Unit * Cardinality(T)
  <2>1. C!Matching(<<"=">>, n) = Unit * Cardinality(U) /\ C!Matching(<<>>, n) = Unit * Cardinality(S)
    BY MatchingIs DEF U, S
  <2> QED BY <1>5, <1>7, <2>1
<1> QED BY <1>6, <1>8

(* Summing. *)

TotalStep(a, x) == a + x

IterTotal(iter, s) ==
  iter = [t \in SUBSET (DOMAIN s) |->
            IF t = {} THEN 0 ELSE LET x == C!Max(t) IN TotalStep(iter[t \ {x}], s[x])]

LEMMA TotalUnfolds ==
  ASSUME NEW s
  PROVE  C!Total(s) = (CHOOSE iter : IterTotal(iter, s))[DOMAIN s]
BY Zenon DEF C!Total, C!FoldLeft, C!MapThenFoldSet, IterTotal, TotalStep

IsTotalWalk(v, s) ==
  /\ v \in [0..Len(s) -> Int] /\ v[0] = 0 /\ C!Total(s) = v[Len(s)]
  /\ \A i \in 1..Len(s) : v[i] = TotalStep(v[i - 1], s[i])

LEMMA TotalStepIs ==
  ASSUME NEW a \in Int, NEW x \in Int
  PROVE  TotalStep(a, x) \in Int
BY DEF TotalStep

LEMMA TotalWalks ==
  ASSUME NEW s \in Seq(Int), \A a, l \in Int : TotalStep(a, l) \in Int
  PROVE  \E v : IsTotalWalk(v, s)
<1> DEFINE n == Len(s)
           g == [p \in (1..n) \X Int |-> TotalStep(p[2], s[p[1]])]
<1>1. n \in Nat /\ DOMAIN s = 1..n /\ \A i \in 1..n : s[i] \in Int
  BY ElementOfSeq, LenProperties
<1>2. \A i \in 1..n, a \in Int : TotalStep(a, s[i]) \in Int /\ g[<<i, a>>] = TotalStep(a, s[i])
  BY <1>1
<1>3. g \in [(1..n) \X Int -> Int]
  BY <1>2
<1> HIDE DEF g, n
<1>4. \A t : C!Max(t) = Greatest(t)
  BY DEF C!Max, Greatest
<1>5. \A t \in SUBSET (1..n) : t # {} => Greatest(t) \in t
  BY <1>1, GreatestIn
<1>6. \E iter : IterTotal(iter, s)
  <2>1. PICK f : IsFolded(f, Int, n, 0, g)
    <3>1. 0 \in Int
      OBVIOUS
    <3> QED BY <1>1, <1>3, <3>1, FoldExists
  <2>2. ASSUME NEW t \in SUBSET (1..n)
        PROVE  f[t] = IF t = {} THEN 0 ELSE LET x == C!Max(t) IN TotalStep(f[t \ {x}], s[x])
    <3>1. CASE t = {}
      BY <2>1, <3>1 DEF IsFolded
    <3>2. CASE t # {}
      <4> DEFINE x == Greatest(t)
                 rest == t \ {x}
      <4>1. x \in 1..n /\ rest \in SUBSET (1..n)
        BY <1>5, <3>2
      <4>2. f[rest] \in Int /\ f[t] = g[<<x, f[rest]>>]
        BY <2>1, <3>2, <4>1 DEF IsFolded
      <4> HIDE DEF x, rest
      <4>3. f[t] = TotalStep(f[rest], s[x])
        BY <1>2, <4>1, <4>2
      <4> QED BY <1>4, <3>2, <4>3 DEF x, rest
    <3> QED BY <3>1, <3>2
  <2>3. f = [t \in SUBSET (1..n) |-> f[t]]
    BY <2>1 DEF IsFolded
  <2>4. IterTotal(f, s)
    BY <1>1, <2>2, <2>3, Zenon DEF IterTotal
  <2> QED BY <2>4
<1> DEFINE iter == CHOOSE iter : IterTotal(iter, s)
<1>7. IterTotal(iter, s)
  BY <1>6
<1>8. C!Total(s) = iter[1..n]
  BY <1>1, TotalUnfolds
<1> HIDE DEF iter
<1>9. \A t \in SUBSET (1..n) :
        iter[t] = IF t = {} THEN 0 ELSE TotalStep(iter[t \ {Greatest(t)}], s[Greatest(t)])
  BY <1>1, <1>4, <1>7, Zenon DEF IterTotal
<1>10. iter[{}] = 0
  BY <1>9
<1>11. \A t \in SUBSET (1..n) : t # {} /\ iter[t \ {Greatest(t)}] \in Int =>
                                   iter[t] = g[<<Greatest(t), iter[t \ {Greatest(t)}]>>]
  <2> TAKE t \in SUBSET (1..n)
  <2> HAVE t # {} /\ iter[t \ {Greatest(t)}] \in Int
  <2> QED BY <1>2, <1>5, <1>9
<1>12. PICK v : IsWalk(v, Int, n, 0, g) /\ v[n] = iter[1..n]
  <2>1. IsIteration(iter, Int, n, 0, g)
    BY <1>10, <1>11 DEF IsIteration
  <2>2. Walks(iter, Int, n, 0, g)
    <3>1. 0 \in Int
      OBVIOUS
    <3> QED BY <1>1, <1>3, <2>1, <3>1, FoldedAlong
  <2> QED BY <2>2 DEF Walks
<1>13. v \in [0..n -> Int] /\ v[0] = 0 /\ \A i \in 1..n : v[i] = TotalStep(v[i - 1], s[i])
  <2>1. v \in [0..n -> Int] /\ v[0] = 0 /\ \A i \in 1..n : v[i] = g[<<i, v[i - 1]>>]
    BY <1>12 DEF IsWalk
  <2>2. ASSUME NEW i \in 1..n PROVE v[i] = TotalStep(v[i - 1], s[i])
    <3>1. i - 1 \in 0..n
      BY <1>1
    <3> QED BY <1>2, <2>1, <3>1
  <2> QED BY <2>1, <2>2
<1>14. IsTotalWalk(v, s)
  BY <1>8, <1>12, <1>13 DEF IsTotalWalk, n
<1> QED BY <1>14

\* A number more.
LEMMA TotalGrows ==
  ASSUME NEW s \in Seq(Int), NEW d \in Int
  PROVE  C!Total(Append(s, d)) = C!Total(s) + d /\ C!Total(s) \in Int
<1> DEFINE n == Len(s)
           t == Append(s, d)
<1>1. n \in Nat /\ t \in Seq(Int) /\ Len(t) = n + 1 /\ t[n + 1] = d /\ \A j \in 1..n : t[j] = s[j]
  BY LenProperties, AppendProperties
<1> HIDE DEF t
<1>2. s \in Seq(Int) /\ t \in Seq(Int)
  BY <1>1
<1>3. PICK a : IsTotalWalk(a, s)
  BY <1>2, TotalWalks, TotalStepIs
<1>4. PICK c : IsTotalWalk(c, t)
  BY <1>2, TotalWalks, TotalStepIs
<1>5. /\ a \in [0..n -> Int] /\ a[0] = 0 /\ a[n] = C!Total(s)
      /\ \A i \in 1..n : a[i] = TotalStep(a[i - 1], s[i])
  BY <1>3 DEF IsTotalWalk
<1>6. /\ c[0] = 0 /\ c[n + 1] = C!Total(t)
      /\ \A i \in 1..(n + 1) : c[i] = TotalStep(c[i - 1], t[i])
  BY <1>1, <1>4 DEF IsTotalWalk
<1> HIDE DEF n
<1> DEFINE T == {i \in Nat : i <= n => c[i] = a[i]}
<1>7. 0 \in T
  BY <1>5, <1>6
<1>8. ASSUME NEW i \in Nat, i \in T PROVE i + 1 \in T
  <2> SUFFICES ASSUME i + 1 <= n PROVE c[i + 1] = a[i + 1]
    OBVIOUS
  <2>1. i + 1 \in 1..n /\ i + 1 \in 1..(n + 1) /\ (i + 1) - 1 = i /\ i <= n
    BY <1>1
  <2>2. c[i] = a[i]
    BY <1>8, <2>1
  <2> DEFINE k == i + 1
  <2>3. t[k] = s[k] /\ c[k] = TotalStep(c[i], t[k]) /\ a[k] = TotalStep(a[i], s[k])
    BY <1>1, <1>5, <1>6, <2>1
  <2> HIDE DEF k
  <2>4. c[k] = a[k]
    BY <2>2, <2>3
  <2> QED BY <2>4 DEF k
<1> HIDE DEF T
<1>9. n \in T
  BY <1>1, <1>7, <1>8, Upward
<1>10. c[n] = a[n] /\ a[n] \in Int
  <2>1. n \in 0..n
    BY <1>1
  <2> QED BY <1>1, <1>5, <1>9, <2>1 DEF T
<1>11. c[n + 1] = TotalStep(c[n], d)
  <2>1. n + 1 \in 1..(n + 1) /\ (n + 1) - 1 = n
    BY <1>1
  <2> QED BY <1>1, <1>6, <2>1
<1> QED BY <1>5, <1>6, <1>10, <1>11 DEF t, TotalStep

LEMMA NoneTotal == C!Total(<<>>) = 0
<1> DEFINE e == <<>>
<1>1. e \in Seq(Int) /\ Len(e) = 0
  BY EmptySeq
<1> HIDE DEF e
<1>2. PICK v : IsTotalWalk(v, e)
  BY <1>1, TotalWalks, TotalStepIs
<1>3. C!Total(e) = 0
  BY <1>1, <1>2 DEF IsTotalWalk
<1> QED BY <1>3 DEF e

NumbersStep(out, cells, x) ==
  IF C!Numericish(cells[x]) THEN Append(out, cells[x].num) ELSE out
IterNumbers(iter, cells) ==
  iter = [t \in SUBSET (DOMAIN cells) |->
            IF t = {} THEN <<>> ELSE LET x == C!Max(t) IN NumbersStep(iter[t \ {x}], cells, x)]

LEMMA NumbersUnfold ==
  ASSUME NEW cells
  PROVE  C!Numbers(cells) = (CHOOSE iter : IterNumbers(iter, cells))[DOMAIN cells]
BY Zenon DEF C!Numbers, C!FoldLeft, C!MapThenFoldSet, IterNumbers, NumbersStep

MatchesStep(out, cells, crit, places, x) ==
  IF places[x] <= Len(cells) /\ C!MatchesCriterion(cells[places[x]], crit)
  THEN Append(out, cells[places[x]]) ELSE out
IterMatches(iter, cells, crit) ==
  iter = [t \in SUBSET (DOMAIN [i \in DOMAIN cells |-> i]) |->
            IF t = {} THEN <<>>
            ELSE LET x == C!Max(t) IN MatchesStep(iter[t \ {x}], cells, crit, [i \in DOMAIN cells |-> i], x)]

LEMMA MatchesUnfold ==
  ASSUME NEW cells, NEW crit
  PROVE  C!FoldMatches(cells, cells, crit)
         = (CHOOSE iter : IterMatches(iter, cells, crit))[DOMAIN [i \in DOMAIN cells |-> i]]
BY Zenon DEF C!FoldMatches, C!FoldLeftDomain, C!FoldLeft, C!MapThenFoldSet, IterMatches, MatchesStep

(* The cells that are kept, one by one. *)

IsKeptWalk(v, S, lines, drop) ==
  /\ v \in [0..Len(lines) -> Seq(S)] /\ v[0] = <<>>
  /\ \A i \in 1..Len(lines) : v[i] = KeptStep(v[i - 1], lines, drop, i)

LEMMA KeptWalks ==
  ASSUME NEW S, NEW lines \in Seq(S), NEW drop, NEW iter, IterKept(iter, lines, drop)
  PROVE  \E v : IsKeptWalk(v, S, lines, drop) /\ v[Len(lines)] = iter[DOMAIN lines]
<1> DEFINE n == Len(lines)
           T == {i \in Nat : i <= n => iter[1..i] \in Seq(S)}
           v == [i \in 0..n |-> iter[1..i]]
<1>1. n \in Nat /\ DOMAIN lines = 1..n
  BY LenProperties
<1>2. \A s \in SUBSET (1..n) :
        iter[s] = IF s = {} THEN <<>>
                  ELSE IF Greatest(s) \in drop THEN iter[s \ {Greatest(s)}]
                       ELSE Append(iter[s \ {Greatest(s)}], lines[Greatest(s)])
  BY <1>1, Zenon DEF IterKept
<1>3. iter[1..0] = <<>>
  <2>1. 1..0 = {} /\ {} \in SUBSET (1..n)
    OBVIOUS
  <2> QED BY <1>2, <2>1
<1>4. ASSUME NEW i \in Nat, i + 1 <= n
      PROVE  iter[1..(i + 1)] = KeptStep(iter[1..i], lines, drop, i + 1)
  <2>1. Prefix(i)
    BY PrefixIs
  <2>2. 1..(i + 1) \in SUBSET (1..n)
    BY <1>1, <1>4
  <2> QED BY <1>2, <2>1, <2>2 DEF Prefix, KeptStep
<1>5. ASSUME NEW i \in Nat, i \in T PROVE i + 1 \in T
  <2> SUFFICES ASSUME i + 1 <= n PROVE iter[1..(i + 1)] \in Seq(S)
    OBVIOUS
  <2>1. lines[i + 1] \in S /\ iter[1..i] \in Seq(S)
    <3>1. i + 1 \in 1..n /\ i <= n
      BY <1>1
    <3> QED BY <1>5, <3>1, ElementOfSeq
  <2>2. Append(iter[1..i], lines[i + 1]) \in Seq(S)
    BY <2>1, AppendProperties
  <2> QED BY <1>4, <2>1, <2>2 DEF KeptStep
<1>6. 0 \in T
  BY <1>3, EmptySeq
<1> HIDE DEF T
<1>7. \A i \in 0..n : i \in T
  BY <1>5, <1>6, Upward
<1>8. v \in [0..n -> Seq(S)]
  <2>1. \A i \in 0..n : iter[1..i] \in Seq(S)
    <3> TAKE i \in 0..n
    <3>1. i <= n /\ i \in T
      BY <1>7
    <3> QED BY <3>1 DEF T
  <2> QED BY <2>1
<1>9. ASSUME NEW i \in 1..n PROVE v[i] = KeptStep(v[i - 1], lines, drop, i)
  <2>1. i - 1 \in Nat /\ i - 1 \in 0..n /\ i \in 0..n /\ (i - 1) + 1 = i /\ (i - 1) + 1 <= n
    BY <1>1
  <2> DEFINE k == i - 1
  <2>2. v[i] = iter[1..i] /\ v[k] = iter[1..k] /\ k \in Nat /\ k + 1 = i /\ k + 1 <= n
    BY <2>1
  <2> HIDE DEF k, v
  <2>3. iter[1..(k + 1)] = KeptStep(iter[1..k], lines, drop, k + 1)
    BY <1>4, <2>2
  <2>4. v[i] = KeptStep(v[k], lines, drop, i)
    BY <2>2, <2>3
  <2> QED BY <2>4 DEF k
<1>10. v[0] = <<>> /\ v[n] = iter[DOMAIN lines]
  BY <1>1, <1>3
<1> HIDE DEF v
<1> QED BY <1>8, <1>9, <1>10 DEF IsKeptWalk

\* The numbers of cells, and the cells without one.
Nums(cells) == [i \in DOMAIN cells |-> cells[i].num]
Wordy(cells) == {i \in DOMAIN cells : ~C!Numericish(cells[i])}

LEMMA NumbersKept ==
  ASSUME NEW n \in Nat, NEW cells \in [1..n -> Entry]
  PROVE  /\ \E v : IsKeptWalk(v, Int, Nums(cells), Wordy(cells)) /\ v[n] = C!Numbers(cells)
         /\ KeptFacts(Int, Nums(cells), Wordy(cells), C!Numbers(cells))
<1> DEFINE lines == Nums(cells)
           drop == Wordy(cells)
<1>1. lines \in Seq(Int) /\ Len(lines) = n /\ DOMAIN lines = 1..n /\ DOMAIN cells = 1..n
  <2>1. lines \in [1..n -> Int]
    BY DEF Nums, Entry
  <2> QED BY <2>1, FunctionIsSeq
<1>2. \A s \in SUBSET (1..n) : s # {} => Greatest(s) \in s
  BY GreatestIn
<1>3. \A s : C!Max(s) = Greatest(s)
  BY DEF C!Max, Greatest
<1>4. ASSUME NEW k \in 1..n, NEW out
      PROVE  NumbersStep(out, cells, k) = KeptStep(out, lines, drop, k)
  <2>1. lines[k] = cells[k].num /\ (k \in drop <=> ~C!Numericish(cells[k]))
    BY <1>1 DEF Nums, Wordy
  <2> HIDE DEF lines, drop
  <2> QED BY <2>1 DEF NumbersStep, KeptStep
<1> HIDE DEF lines, drop
<1>5. ASSUME NEW iter PROVE IterNumbers(iter, cells) <=> IterKept(iter, lines, drop)
  <2>1. \A s \in SUBSET (1..n) :
          (IF s = {} THEN <<>> ELSE LET x == C!Max(s) IN NumbersStep(iter[s \ {x}], cells, x))
          = (IF s = {} THEN <<>> ELSE KeptStep(iter[s \ {Greatest(s)}], lines, drop, Greatest(s)))
    BY <1>2, <1>3, <1>4
  <2> QED BY <1>1, <2>1, Zenon DEF IterNumbers, IterKept, KeptStep
<1> DEFINE iter == CHOOSE iter : IterNumbers(iter, cells)
<1>6. IterNumbers(iter, cells)
  <2>1. \E f : IterNumbers(f, cells)
    BY <1>1, <1>5, KeptExists
  <2> QED BY <2>1
<1>7. C!Numbers(cells) = iter[DOMAIN lines]
  BY <1>1, NumbersUnfold
<1> HIDE DEF iter
<1>8. \E v : IsKeptWalk(v, Int, lines, drop) /\ v[Len(lines)] = iter[DOMAIN lines]
  BY <1>1, <1>5, <1>6, KeptWalks
<1>9. KeptFacts(Int, lines, drop, iter[DOMAIN lines])
  BY <1>1, <1>5, <1>6, KeptIs
<1> QED BY <1>1, <1>7, <1>8, <1>9 DEF lines, drop

Missed(cells, crit) == {i \in DOMAIN cells : ~C!MatchesCriterion(cells[i], crit)}

LEMMA MatchesKept ==
  ASSUME NEW n \in Nat, NEW cells \in [1..n -> Entry], NEW crit
  PROVE  \E v : /\ IsKeptWalk(v, Entry, cells, Missed(cells, crit))
                /\ v[n] = C!FoldMatches(cells, cells, crit)
<1> DEFINE drop == Missed(cells, crit)
           places == [i \in DOMAIN cells |-> i]
<1>1. cells \in Seq(Entry) /\ Len(cells) = n /\ DOMAIN cells = 1..n
  BY FunctionIsSeq
<1>2. \A s \in SUBSET (1..n) : s # {} => Greatest(s) \in s
  BY GreatestIn
<1>3. \A s : C!Max(s) = Greatest(s)
  BY DEF C!Max, Greatest
<1>4. ASSUME NEW k \in 1..n, NEW out
      PROVE  MatchesStep(out, cells, crit, places, k) = KeptStep(out, cells, drop, k)
  <2>1. places[k] = k /\ k <= Len(cells) /\ (k \in drop <=> ~C!MatchesCriterion(cells[k], crit))
    BY <1>1 DEF Missed
  <2> HIDE DEF drop, places
  <2> QED BY <2>1 DEF MatchesStep, KeptStep
<1>5. DOMAIN places = 1..n
  BY <1>1
<1> HIDE DEF drop
<1>6. ASSUME NEW iter PROVE IterMatches(iter, cells, crit) <=> IterKept(iter, cells, drop)
  <2>1. \A s \in SUBSET (1..n) :
          (IF s = {} THEN <<>>
           ELSE LET x == C!Max(s) IN MatchesStep(iter[s \ {x}], cells, crit, places, x))
          = (IF s = {} THEN <<>> ELSE KeptStep(iter[s \ {Greatest(s)}], cells, drop, Greatest(s)))
    <3> HIDE DEF places
    <3> QED BY <1>2, <1>3, <1>4
  <2> QED BY <1>1, <1>5, <2>1, Zenon DEF IterMatches, IterKept, KeptStep
<1> DEFINE iter == CHOOSE iter : IterMatches(iter, cells, crit)
<1>7. IterMatches(iter, cells, crit)
  <2>1. \E f : IterMatches(f, cells, crit)
    BY <1>1, <1>6, KeptExists
  <2> QED BY <2>1
<1>8. C!FoldMatches(cells, cells, crit) = iter[DOMAIN cells]
  BY <1>1, <1>5, MatchesUnfold
<1> HIDE DEF iter
<1>9. \E v : IsKeptWalk(v, Entry, cells, drop) /\ v[Len(cells)] = iter[DOMAIN cells]
  BY <1>1, <1>6, <1>7, KeptWalks
<1> QED BY <1>1, <1>8, <1>9 DEF drop

\* How many are kept, and which.
KeptAre(v, lines, drop, i) ==
  /\ Len(v[i]) = Cardinality((1..i) \ drop)
  /\ \A j \in 1..Len(v[i]) : \E k \in (1..i) \ drop : v[i][j] = lines[k]

LEMMA KeptMembers ==
  ASSUME NEW S, NEW lines \in Seq(S), NEW drop, NEW v, IsKeptWalk(v, S, lines, drop)
  PROVE  KeptAre(v, lines, drop, Len(lines))
<1> DEFINE n == Len(lines)
           T == {i \in Nat : i <= n => KeptAre(v, lines, drop, i)}
<1>1. n \in Nat /\ \A i \in 1..n : lines[i] \in S
  BY LenProperties, ElementOfSeq
<1>2. /\ v \in [0..n -> Seq(S)] /\ v[0] = <<>>
      /\ \A i \in 1..n : v[i] = KeptStep(v[i - 1], lines, drop, i)
  BY DEF IsKeptWalk
<1> HIDE DEF n
<1>3. 0 \in T
  <2>1. Len(v[0]) = 0
    BY <1>2
  <2>2. (1..0) \ drop = {}
    OBVIOUS
  <2>3. Cardinality((1..0) \ drop) = 0
    BY <2>2, FS_EmptySet
  <2> QED BY <2>1, <2>3 DEF KeptAre
<1>4. ASSUME NEW i \in Nat, i \in T PROVE i + 1 \in T
  <2> SUFFICES ASSUME i + 1 <= n PROVE KeptAre(v, lines, drop, i + 1)
    OBVIOUS
  <2> DEFINE old == (1..i) \ drop
             k == i + 1
             new == (1..k) \ drop
             s == v[i]
  <2>1. k \in 1..n /\ k - 1 = i /\ i \in 0..n /\ i <= n /\ k \notin old
    BY <1>1
  <2>2. KeptAre(v, lines, drop, i) /\ s \in Seq(S) /\ v[k] = KeptStep(s, lines, drop, k)
    BY <1>2, <1>4, <2>1
  <2>3. Len(s) = Cardinality(old) /\ \A j \in 1..Len(s) : \E m \in old : s[j] = lines[m]
    BY <2>2 DEF KeptAre
  <2>4. IsFiniteSet(old) /\ Cardinality(old) \in Nat
    <3>1. old \in SUBSET (1..i)
      OBVIOUS
    <3> HIDE DEF old
    <3> QED BY <3>1, CountsOfColumn
  <2>5. CASE k \in drop
    <3>1. new = old /\ v[k] = s
      <4>1. new = old
        BY <2>5
      <4> QED BY <2>2, <2>5, <4>1 DEF KeptStep
    <3> HIDE DEF new, old, k, s
    <3>2. Len(v[k]) = Cardinality(new) /\ \A j \in 1..Len(v[k]) : \E m \in new : v[k][j] = lines[m]
      BY <2>3, <3>1
    <3> QED BY <3>2 DEF KeptAre, new, k
  <2>6. CASE k \notin drop
    <3> DEFINE x == lines[k]
    <3>0. x \in S
      BY <1>1, <2>1
    <3>1. new = old \cup {k}
      BY <2>1, <2>6
    <3>2. v[k] = Append(s, x)
      BY <2>2, <2>6 DEF KeptStep
    <3>3. Cardinality(new) = Cardinality(old) + 1
      <4> HIDE DEF old, k, new
      <4> QED BY <2>1, <2>4, <3>1, FS_AddElement
    <3> HIDE DEF new, old, s
    <3>4. /\ Len(v[k]) = Len(s) + 1 /\ Len(s) \in Nat
          /\ \A j \in 1..Len(s) : v[k][j] = s[j]
          /\ v[k][Len(s) + 1] = x
      BY <2>2, <3>0, <3>2, AppendProperties, LenProperties
    <3>5. k \in new /\ old \subseteq new
      BY <3>1
    <3>6. \A j \in 1..Len(v[k]) : j \in 1..Len(s) \/ j = Len(s) + 1
      BY <3>4
    <3>7. \A j \in 1..Len(v[k]) : \E m \in new : v[k][j] = lines[m]
      BY <2>3, <3>4, <3>5, <3>6
    <3>8. Len(v[k]) = Cardinality(new)
      BY <2>3, <3>3, <3>4
    <3> QED BY <3>7, <3>8 DEF KeptAre, new, k
  <2> QED BY <2>5, <2>6
<1> HIDE DEF T
<1>5. n \in T
  BY <1>1, <1>3, <1>4, Upward
<1> QED BY <1>1, <1>5 DEF T, n

\* The numbers of what is kept are kept the same.
AsNums(cells) == [i \in DOMAIN cells |-> C!AsNumber(cells[i])]

LEMMA AsNumsGrow ==
  ASSUME NEW s \in Seq(Entry), NEW x \in Entry
  PROVE  /\ AsNums(Append(s, x)) = Append(AsNums(s), C!AsNumber(x))
         /\ AsNums(s) \in Seq(Int) /\ Len(AsNums(s)) = Len(s) /\ C!AsNumber(x) \in Int
<1> DEFINE n == Len(s)
           t == Append(s, x)
           p == AsNums(s)
           y == C!AsNumber(x)
           q == AsNums(t)
           r == Append(p, y)
<1>0. \A c \in Entry : C!AsNumber(c) \in Int
  BY DEF C!AsNumber, Entry
<1>1. n \in Nat /\ DOMAIN s = 1..n /\ \A i \in 1..n : s[i] \in Entry
  BY ElementOfSeq, LenProperties
<1>2. /\ t \in Seq(Entry) /\ Len(t) = n + 1 /\ DOMAIN t = 1..(n + 1) /\ t[n + 1] = x
      /\ \A i \in 1..n : t[i] = s[i]
  BY AppendProperties, LenProperties
<1> HIDE DEF n, t
<1>3. \A i \in 1..(n + 1) : t[i] \in Entry
  BY <1>2, ElementOfSeq
<1>4. p \in [1..n -> Int] /\ (\A i \in 1..n : p[i] = C!AsNumber(s[i])) /\ y \in Int
  BY <1>0, <1>1 DEF AsNums
<1>5. q \in [1..(n + 1) -> Int] /\ (\A i \in 1..(n + 1) : q[i] = C!AsNumber(t[i]))
  BY <1>0, <1>2, <1>3 DEF AsNums
<1> HIDE DEF p, q, y
<1>6. p \in Seq(Int) /\ Len(p) = n
  BY <1>1, <1>4, FunctionIsSeq
<1>7. q \in Seq(Int) /\ Len(q) = n + 1
  <2>1. n + 1 \in Nat
    BY <1>1
  <2> HIDE DEF Entry
  <2> QED BY <1>5, <2>1, FunctionIsSeq
<1>8. r \in Seq(Int) /\ Len(r) = n + 1 /\ r[n + 1] = y /\ \A i \in 1..n : r[i] = p[i]
  BY <1>4, <1>6, AppendProperties
<1> HIDE DEF r
<1>9. \A i \in 1..(n + 1) : q[i] = r[i]
  <2>1. q[n + 1] = y
    <3>1. n + 1 \in 1..(n + 1)
      BY <1>1
    <3> QED BY <1>2, <1>5, <3>1 DEF y
  <2>2. \A i \in 1..n : q[i] = r[i]
    <3>1. \A i \in 1..n : i \in 1..(n + 1)
      BY <1>1
    <3> QED BY <1>2, <1>4, <1>5, <1>8, <3>1
  <2>3. \A i \in 1..(n + 1) : i \in 1..n \/ i = n + 1
    BY <1>1
  <2> QED BY <1>8, <2>1, <2>2, <2>3
<1>10. q = r
  BY <1>7, <1>8, <1>9, SeqEqual
<1> QED BY <1>4, <1>6, <1>10 DEF p, q, r, t, y, n

LEMMA NumsKept ==
  ASSUME NEW n \in Nat, NEW cells \in [1..n -> Entry], NEW drop, NEW v,
         IsKeptWalk(v, Entry, cells, drop)
  PROVE  IsKeptWalk([i \in 0..n |-> AsNums(v[i])], Int, AsNums(cells), drop)
<1> DEFINE w == [i \in 0..n |-> AsNums(v[i])]
           lines == AsNums(cells)
<1>1. Len(cells) = n /\ DOMAIN cells = 1..n /\ \A i \in 1..n : cells[i] \in Entry
  BY FunctionIsSeq
<1>2. /\ v \in [0..n -> Seq(Entry)] /\ v[0] = <<>>
      /\ \A i \in 1..n : v[i] = KeptStep(v[i - 1], cells, drop, i)
  BY <1>1 DEF IsKeptWalk
<1>3. Len(lines) = n /\ \A i \in 1..n : lines[i] = C!AsNumber(cells[i])
  <2>1. lines \in [1..n -> Int]
    BY <1>1 DEF AsNums, C!AsNumber, Entry
  <2>2. Len(lines) = n
    <3> HIDE DEF lines
    <3> QED BY <2>1, FunctionIsSeq
  <2> QED BY <1>1, <2>2 DEF AsNums
<1> HIDE DEF lines
<1>4. \A s \in Seq(Entry) : AsNums(s) \in Seq(Int)
  <2> TAKE s \in Seq(Entry)
  <2>1. [kind |-> "empty", num |-> 0, text |-> 0] \in Entry
    BY DEF Entry, C!Kinds
  <2> QED BY <2>1, AsNumsGrow
<1>5. w \in [0..n -> Seq(Int)] /\ \A i \in 0..n : w[i] = AsNums(v[i])
  BY <1>2, <1>4
<1>6. w[0] = <<>>
  <2>1. AsNums(<<>>) = <<>>
    BY DEF AsNums
  <2> QED BY <1>2, <1>5, <2>1
<1> HIDE DEF w
<1>7. ASSUME NEW i \in 1..n PROVE w[i] = KeptStep(w[i - 1], lines, drop, i)
  <2>1. i \in 0..n /\ i - 1 \in 0..n
    OBVIOUS
  <2>2. v[i - 1] \in Seq(Entry) /\ cells[i] \in Entry
    BY <1>1, <1>2, <2>1
  <2>3. AsNums(Append(v[i - 1], cells[i])) = Append(AsNums(v[i - 1]), C!AsNumber(cells[i]))
    BY <2>2, AsNumsGrow
  <2>4. w[i] = AsNums(v[i]) /\ w[i - 1] = AsNums(v[i - 1])
    BY <1>5, <2>1
  <2> QED BY <1>2, <1>3, <2>3, <2>4 DEF KeptStep
<1>8. IsKeptWalk(w, Int, lines, drop)
  BY <1>3, <1>5, <1>6, <1>7 DEF IsKeptWalk
<1> QED BY <1>8 DEF w, lines

\* What is kept adds to the total, one by one.
Share(lines, drop, i) == IF i \in drop THEN 0 ELSE lines[i]

LEMMA KeptTotals ==
  ASSUME NEW n \in Nat, NEW lines \in [1..n -> Int], NEW drop, NEW v,
         IsKeptWalk(v, Int, lines, drop)
  PROVE  /\ C!Total(v[0]) = 0 /\ \A i \in 0..n : C!Total(v[i]) \in Int
         /\ \A i \in 1..n : C!Total(v[i]) = C!Total(v[i - 1]) + Share(lines, drop, i)
<1>1. /\ v \in [0..n -> Seq(Int)] /\ v[0] = <<>>
      /\ \A i \in 1..n : v[i] = KeptStep(v[i - 1], lines, drop, i)
  BY FunctionIsSeq DEF IsKeptWalk
<1>2. \A s \in Seq(Int) : C!Total(s) \in Int
  <2> TAKE s \in Seq(Int)
  <2>1. 0 \in Int
    OBVIOUS
  <2> QED BY <2>1, TotalGrows
<1>3. \A i \in 0..n : C!Total(v[i]) \in Int
  BY <1>1, <1>2
<1>4. ASSUME NEW i \in 1..n PROVE C!Total(v[i]) = C!Total(v[i - 1]) + Share(lines, drop, i)
  <2>1. i - 1 \in 0..n /\ lines[i] \in Int
    OBVIOUS
  <2>2. v[i - 1] \in Seq(Int)
    BY <1>1, <2>1
  <2>3. C!Total(Append(v[i - 1], lines[i])) = C!Total(v[i - 1]) + lines[i] /\ C!Total(v[i - 1]) \in Int
    BY <2>1, <2>2, TotalGrows
  <2>4. CASE i \in drop
    <3>1. v[i] = v[i - 1] /\ Share(lines, drop, i) = 0
      BY <1>1, <2>4 DEF KeptStep, Share
    <3> QED BY <2>3, <3>1
  <2>5. CASE i \notin drop
    <3>1. v[i] = Append(v[i - 1], lines[i]) /\ Share(lines, drop, i) = lines[i]
      BY <1>1, <2>5 DEF KeptStep, Share
    <3> QED BY <2>3, <3>1
  <2> QED BY <2>4, <2>5
<1> QED BY <1>1, <1>3, <1>4, NoneTotal

\* The totals of two parts of the lines are that of the whole.
AddUp(n, e, f, A1, B1, D1) ==
  \A i \in 1..n : Share(e, A1, i) + Share(e, B1, i) = Share(f, D1, i)

LEMMA TotalsSplit ==
  ASSUME NEW n \in Nat, NEW e \in [1..n -> Int], NEW f \in [1..n -> Int],
         NEW A1, NEW B1, NEW D1, NEW a, NEW b, NEW d,
         IsKeptWalk(a, Int, e, A1), IsKeptWalk(b, Int, e, B1), IsKeptWalk(d, Int, f, D1),
         AddUp(n, e, f, A1, B1, D1)
  PROVE  C!Total(a[n]) + C!Total(b[n]) = C!Total(d[n])
<1> DEFINE Sum(v, i) == C!Total(v[i])
           T == {i \in Nat : i <= n => Sum(a, i) + Sum(b, i) = Sum(d, i)}
<1>1. /\ Sum(a, 0) = 0 /\ \A i \in 0..n : Sum(a, i) \in Int
      /\ \A i \in 1..n : Sum(a, i) = Sum(a, i - 1) + Share(e, A1, i)
  BY KeptTotals
<1>2. /\ Sum(b, 0) = 0 /\ \A i \in 0..n : Sum(b, i) \in Int
      /\ \A i \in 1..n : Sum(b, i) = Sum(b, i - 1) + Share(e, B1, i)
  BY KeptTotals
<1>3. /\ Sum(d, 0) = 0 /\ \A i \in 0..n : Sum(d, i) \in Int
      /\ \A i \in 1..n : Sum(d, i) = Sum(d, i - 1) + Share(f, D1, i)
  BY KeptTotals
<1> HIDE DEF Sum
<1>4. 0 \in T
  BY <1>1, <1>2, <1>3
<1>5. ASSUME NEW i \in Nat, i \in T PROVE i + 1 \in T
  <2> SUFFICES ASSUME i + 1 <= n PROVE Sum(a, i + 1) + Sum(b, i + 1) = Sum(d, i + 1)
    OBVIOUS
  <2> DEFINE k == i + 1
  <2>1. k \in 1..n /\ k - 1 = i /\ i \in 0..n /\ i <= n
    OBVIOUS
  <2>2. Sum(a, i) + Sum(b, i) = Sum(d, i) /\ Share(e, A1, k) + Share(e, B1, k) = Share(f, D1, k)
    BY <1>5, <2>1 DEF AddUp
  <2>3. Share(e, A1, k) \in Int /\ Share(e, B1, k) \in Int
    BY <2>1 DEF Share
  <2>4. /\ Sum(a, k) = Sum(a, i) + Share(e, A1, k) /\ Sum(b, k) = Sum(b, i) + Share(e, B1, k)
        /\ Sum(d, k) = Sum(d, i) + Share(f, D1, k)
        /\ Sum(a, i) \in Int /\ Sum(b, i) \in Int /\ Sum(d, i) \in Int
    BY <1>1, <1>2, <1>3, <2>1
  <2> HIDE DEF k
  <2>5. Sum(a, k) + Sum(b, k) = Sum(d, k)
    BY <2>2, <2>3, <2>4
  <2> QED BY <2>5 DEF k
<1> HIDE DEF T
<1>6. n \in T
  BY <1>4, <1>5, Upward
<1> QED BY <1>6 DEF T, Sum

Bads(cells) == {i \in 1..Len(cells) : ~C!HasNumber(cells[i])}

LEMMA FirstBadIs ==
  ASSUME NEW cells, \A i \in 1..Len(cells) : C!HasNumber(cells[i])
  PROVE  C!FirstBad(cells) = 0
<1>1. C!FirstBad(cells) = IF Bads(cells) # {} THEN C!Min(Bads(cells)) ELSE 0
  BY Zenon DEF C!FirstBad, C!SelectInSeq, Bads
<1>2. Bads(cells) = {}
  BY DEF Bads
<1> QED BY <1>1, <1>2

\* What a criterion sums: the numbers of the cells that it finds.
SumFacts(crit, v) ==
  /\ IsKeptWalk(v, Int, AsNums(column), Missed(column, crit))
  /\ Len(v[ColumnLength]) = Cardinality(Found(crit))
  /\ C!CriteriaSum(column, column, crit, FALSE).num = C!Total(v[ColumnLength])
  /\ Len(v[ColumnLength]) # 0 =>
       C!CriteriaSum(column, column, crit, TRUE).num = C!MeanOf(v[ColumnLength])

LEMMA SumIs ==
  ASSUME IsColumn, NEW op \in Signs, NEW n
  PROVE  \E v : SumFacts(C!Crit(op, n), v)
<1> DEFINE crit == C!Crit(op, n)
           size == ColumnLength
<1>1. \A cell : C!MatchesCriterion(cell, crit) => C!HasNumber(cell)
  BY OperatorMatches
<1> HIDE DEF crit
<1> DEFINE matched == C!FoldMatches(column, column, crit)
<1>2. size \in Nat /\ column \in [1..size -> Entry]
  BY DEF IsColumn
<1>3. column \in Seq(Entry) /\ Len(column) = size /\ DOMAIN column = 1..size
  BY <1>2, FunctionIsSeq
<1>4. PICK m : IsKeptWalk(m, Entry, column, Missed(column, crit)) /\ m[size] = matched
  BY <1>2, MatchesKept
<1> HIDE DEF size
<1>5. (1..size) \ Missed(column, crit) = Found(crit)
  BY <1>3 DEF Missed, Found
<1>6. /\ Len(matched) = Cardinality(Found(crit))
      /\ \A j \in 1..Len(matched) : \E k \in Found(crit) : matched[j] = column[k]
  <2>1. KeptAre(m, column, Missed(column, crit), size)
    BY <1>3, <1>4, KeptMembers
  <2> QED BY <1>4, <1>5, <2>1 DEF KeptAre
<1>7. C!FirstBad(matched) = 0
  <2>1. \A j \in 1..Len(matched) : C!HasNumber(matched[j])
    BY <1>1, <1>6 DEF Found
  <2> HIDE DEF matched
  <2> QED BY <2>1, FirstBadIs
<1>8. matched \in Seq(Entry)
  <2>1. m \in [0..size -> Seq(Entry)] /\ size \in 0..size
    BY <1>2, <1>3, <1>4 DEF IsKeptWalk, size
  <2> QED BY <1>4, <2>1
<1> DEFINE w == [i \in 0..size |-> AsNums(m[i])]
<1>9. IsKeptWalk(w, Int, AsNums(column), Missed(column, crit))
  BY <1>2, <1>4, NumsKept
<1>10. w[size] = AsNums(matched)
  <2>1. size \in 0..size
    BY <1>2
  <2> QED BY <1>4, <2>1
<1>11. C!CriteriaSum(column, column, crit, FALSE).num = C!Total(AsNums(matched))
  BY <1>7 DEF C!CriteriaSum, C!NumberValue, AsNums
<1> HIDE DEF matched, w
<1>12. Len(AsNums(matched)) = Len(matched) /\ Len(matched) \in Nat
  <2>1. [kind |-> "empty", num |-> 0, text |-> 0] \in Entry
    BY DEF Entry, C!Kinds
  <2> QED BY <1>8, <2>1, AsNumsGrow, LenProperties
<1>13. ASSUME Len(matched) # 0
       PROVE  C!CriteriaSum(column, column, crit, TRUE).num = C!MeanOf(AsNums(matched))
  <2>1. matched # <<>>
    BY <1>13
  <2>2. AsNums(matched) = [i \in DOMAIN matched |-> C!AsNumber(matched[i])]
    BY DEF AsNums
  <2>3. C!CriteriaSum(column, column, crit, TRUE) = C!NumberValue(C!MeanOf(AsNums(matched)))
    BY <1>7, <2>1, <2>2 DEF C!CriteriaSum, matched
  <2>4. \A x : C!NumberValue(x).num = x
    BY DEF C!NumberValue
  <2> QED BY <2>3, <2>4
<1>14. SumFacts(crit, w)
  BY <1>6, <1>9, <1>10, <1>11, <1>12, <1>13 DEF SumFacts, size
<1> QED BY <1>14 DEF crit

LEMMA SumsSplit ==
  ASSUME IsColumn, NEW n \in Int
  PROVE  C!SumOf(<<">", "=">>, n) + C!SumOf(<<"<">>, n) = C!Total(C!Numbers(column))
<1> DEFINE over == C!Crit(<<">", "=">>, n)
           under == C!Crit(<<"<">>, n)
           e == AsNums(column)
           f == Nums(column)
           size == ColumnLength
<1>0. <<">", "=">> \in Signs /\ <<"<">> \in Signs
  BY DEF Signs
<1>1. size \in Nat /\ column \in [1..size -> Entry]
  BY DEF IsColumn
<1>2. e \in [1..size -> Int] /\ f \in [1..size -> Int]
  BY <1>1 DEF AsNums, Nums, C!AsNumber, Entry
<1>3. PICK a : SumFacts(over, a)
  BY <1>0, SumIs
<1>4. PICK b : SumFacts(under, b)
  BY <1>0, SumIs
<1>5. PICK d : IsKeptWalk(d, Int, f, Wordy(column)) /\ d[size] = C!Numbers(column)
  BY <1>1, NumbersKept
<1>6. ASSUME NEW i \in 1..size
      PROVE  Share(e, Missed(column, over), i) + Share(e, Missed(column, under), i)
             = Share(f, Wordy(column), i)
  <2> DEFINE x == column[i]
  <2>1. i \in DOMAIN column /\ x \in Entry
    BY <1>1
  <2>2. e[i] = C!AsNumber(x) /\ f[i] = x.num
    BY <2>1 DEF AsNums, Nums
  <2>3. C!AsNumber(x) \in Int /\ C!AsNumber(x) = IF C!Numericish(x) THEN x.num ELSE 0
    BY <2>1 DEF C!AsNumber, Entry
  <2>4. i \in Missed(column, over) <=> ~(C!HasNumber(x) /\ C!AsNumber(x) >= n)
    <3>1. C!NumberOrder(<<">", "=">>, C!AsNumber(x), n) <=> C!AsNumber(x) >= n
      BY DEF C!NumberOrder
    <3> QED BY <1>0, <2>1, <3>1, OperatorMatches DEF Missed
  <2>5. i \in Missed(column, under) <=> ~(C!HasNumber(x) /\ C!AsNumber(x) < n)
    <3>1. C!NumberOrder(<<"<">>, C!AsNumber(x), n) <=> C!AsNumber(x) < n
      BY DEF C!NumberOrder
    <3> QED BY <1>0, <2>1, <3>1, OperatorMatches DEF Missed
  <2>6. (i \in Wordy(column) <=> ~C!Numericish(x)) /\ (C!Numericish(x) => C!HasNumber(x))
    BY <2>1 DEF Wordy, C!HasNumber
  <2> HIDE DEF x, e, f, over, under
  <2> DEFINE y == C!AsNumber(x)
  <2> HIDE DEF y
  <2>7. CASE C!HasNumber(x)
    BY <2>2, <2>3, <2>4, <2>5, <2>6, <2>7 DEF Share, y
  <2>8. CASE ~C!HasNumber(x)
    BY <2>4, <2>5, <2>6, <2>8 DEF Share
  <2> QED BY <2>7, <2>8
<1>7. /\ IsKeptWalk(a, Int, e, Missed(column, over)) /\ C!SumOf(<<">", "=">>, n) = C!Total(a[size])
      /\ IsKeptWalk(b, Int, e, Missed(column, under)) /\ C!SumOf(<<"<">>, n) = C!Total(b[size])
  BY <1>3, <1>4 DEF SumFacts, C!SumOf
<1> HIDE DEF e, f, over, under, size
<1>8. C!Total(a[size]) + C!Total(b[size]) = C!Total(d[size])
  <2>1. AddUp(size, e, f, Missed(column, over), Missed(column, under), Wordy(column))
    BY <1>6 DEF AddUp
  <2>2. size \in Nat /\ e \in [1..size -> Int] /\ f \in [1..size -> Int]
    BY <1>1, <1>2
  <2>3. IsKeptWalk(a, Int, e, Missed(column, over))
    BY <1>7
  <2>4. IsKeptWalk(b, Int, e, Missed(column, under))
    BY <1>7
  <2>5. IsKeptWalk(d, Int, f, Wordy(column))
    BY <1>5
  <2> QED BY <2>1, <2>2, <2>3, <2>4, <2>5, TotalsSplit
<1> QED BY <1>5, <1>7, <1>8

\* A common factor is no matter to a quotient.
LEMMA QuotientOfMultiples ==
  ASSUME NEW u \in Nat \ {0}, NEW x \in Int, NEW y \in Nat \ {0}
  PROVE  (u * x) \div (u * y) = x \div y
<1> DEFINE q == x \div y
           r == x % y
           b == u * y
           s == u * r
<1>1. q \in Int /\ r \in 0..(y - 1) /\ x = q * y + r
  OBVIOUS
<1> HIDE DEF q, r
<1>2. b \in Nat \ {0}
  OBVIOUS
<1>3. s \in 0..(b - 1)
  <2> DEFINE t == y - r
             w == u * t
  <2>1. t \in Nat \ {0} /\ y = r + t /\ r \in Nat
    BY <1>1
  <2> HIDE DEF t
  <2>2. s \in Nat /\ w \in Nat \ {0}
    BY <2>1
  <2>3. b = s + w
    BY <2>1
  <2> HIDE DEF b, s, w
  <2> QED BY <1>2, <2>2, <2>3
<1>4. u * x = q * b + s
  BY <1>1
<1>5. u * x \in Int
  OBVIOUS
<1> HIDE DEF b, s
<1>6. (u * x) \div b = q
  BY <1>1, <1>2, <1>3, <1>4, <1>5, QuotientIs
<1> QED BY <1>6 DEF b, q

LEMMA AverageIs ==
  ASSUME IsColumn, NEW op \in Signs, NEW n, C!Matching(op, n) > 0
  PROVE  C!CriteriaSum(column, column, C!Crit(op, n), TRUE).num
           = (Unit * C!SumOf(op, n)) \div C!Matching(op, n)
<1> DEFINE crit == C!Crit(op, n)
           count == Cardinality(Found(crit))
<1>1. PICK v : SumFacts(crit, v)
  BY SumIs
<1> DEFINE last == v[ColumnLength]
           total == C!Total(last)
<1>2. Len(last) = count /\ C!SumOf(op, n) = total
  BY <1>1 DEF SumFacts, C!SumOf
<1>3. C!Matching(op, n) = Unit * count
  BY MatchingIs
<1>4. Unit \in Nat \ {0} /\ count \in Nat
  <2>1. Found(crit) \in SUBSET (1..ColumnLength) /\ ColumnLength \in Nat
    BY DEF Found, IsColumn
  <2> HIDE DEF crit
  <2>2. count \in 0..ColumnLength
    BY <2>1, CountsOfColumn
  <2> QED BY <2>1, <2>2, InputsAssumption DEF C!UnitIsPositive
<1>5. total \in Int
  <2>1. IsKeptWalk(v, Int, AsNums(column), Missed(column, crit))
    BY <1>1 DEF SumFacts
  <2>2. ColumnLength \in Nat /\ AsNums(column) \in [1..ColumnLength -> Int]
    BY DEF IsColumn, AsNums, C!AsNumber, Entry
  <2> HIDE DEF crit
  <2>3. \A i \in 0..ColumnLength : C!Total(v[i]) \in Int
    BY <2>1, <2>2, KeptTotals
  <2> QED BY <2>2, <2>3
<1>6. Len(last) # 0 => C!CriteriaSum(column, column, crit, TRUE).num = total \div Len(last)
  BY <1>1 DEF SumFacts, C!MeanOf
<1> HIDE DEF crit, count, last, total
<1>7. count # 0
  BY <1>3, <1>4
<1>8. (Unit * total) \div (Unit * count) = total \div count
  BY <1>4, <1>5, <1>7, QuotientOfMultiples
<1> QED BY <1>2, <1>3, <1>6, <1>7, <1>8 DEF crit

LEMMA Partitions ==
  ASSUME IsColumn, NEW n \in Int
  PROVE  C!OperatorsPartition(n)
<1>1. <<">">> \in Signs
  BY DEF Signs
<1> QED BY <1>1, OperatorsSplit, SumsSplit, EqualsFinds, AverageIs DEF Splits, C!OperatorsPartition

(* Ranking. *)

\* The numbers that stand no later than the i-th.
Upto(nums, n, i) == {j \in 1..n : nums[j] < nums[i] \/ (nums[j] = nums[i] /\ j <= i)}

LEMMA PlaceIs ==
  ASSUME NEW n \in Nat, NEW nums \in [1..n -> Int], NEW i \in 1..n
  PROVE  /\ C!Place(nums, i) = Cardinality(Upto(nums, n, i)) /\ C!Place(nums, i) \in 1..n
         /\ Upto(nums, n, i) \in SUBSET (1..n) /\ IsFiniteSet(Upto(nums, n, i))
<1> DEFINE S == Upto(nums, n, i)
<1>1. DOMAIN nums = 1..n
  OBVIOUS
<1>2. C!Place(nums, i) = Cardinality(S)
  BY <1>1, CardOfColumn DEF C!Place, Upto
<1>3. S \in SUBSET (1..n) /\ i \in S
  BY DEF Upto
<1> HIDE DEF S
<1>4. Cardinality(S) \in 0..n /\ IsFiniteSet(S)
  BY <1>3, CountsOfColumn
<1>5. Cardinality(S) # 0
  BY <1>3, <1>4, FS_EmptySet
<1>6. Cardinality(S) \in 1..n
  BY <1>4, <1>5
<1> QED BY <1>2, <1>3, <1>4, <1>6 DEF S

\* Two numbers do not stand in one place.
LEMMA PlacesDiffer ==
  ASSUME NEW n \in Nat, NEW nums \in [1..n -> Int], NEW i \in 1..n, NEW j \in 1..n,
         nums[i] < nums[j] \/ (nums[i] = nums[j] /\ i < j)
  PROVE  C!Place(nums, i) < C!Place(nums, j)
<1> DEFINE S == Upto(nums, n, i)
           T == Upto(nums, n, j)
<1>1. S \subseteq T /\ j \in T /\ j \notin S
  <2>1. nums[i] \in Int /\ nums[j] \in Int /\ i \in Int /\ j \in Int
    OBVIOUS
  <2>2. \A k \in 1..n : nums[k] \in Int
    OBVIOUS
  <2> QED BY <2>1, <2>2 DEF Upto
<1>2. /\ C!Place(nums, i) = Cardinality(S) /\ C!Place(nums, j) = Cardinality(T)
      /\ IsFiniteSet(S) /\ IsFiniteSet(T)
  BY PlaceIs
<1> HIDE DEF S, T
<1>3. Cardinality(S) < Cardinality(T)
  <2>1. S # T
    BY <1>1
  <2>2. Cardinality(S) <= Cardinality(T) /\ (Cardinality(S) = Cardinality(T) => S = T)
    BY <1>1, <1>2, FS_Subset
  <2>3. Cardinality(S) \in Nat /\ Cardinality(T) \in Nat
    BY <1>2, FS_CardinalityType
  <2> QED BY <2>1, <2>2, <2>3
<1> QED BY <1>2, <1>3

LEMMA PlacesFilled ==
  ASSUME NEW n \in Nat, NEW nums \in [1..n -> Int], NEW k \in 1..n
  PROVE  \E i \in 1..n : C!Place(nums, i) = k
<1> DEFINE R1 == 1..n
           f == [i \in R1 |-> C!Place(nums, i)]
<1>1. f \in [R1 -> R1] /\ \A i \in R1 : f[i] = C!Place(nums, i)
  BY PlaceIs
<1>2. ASSUME NEW i \in R1, NEW j \in R1, C!Place(nums, i) = C!Place(nums, j) PROVE i = j
  <2> SUFFICES ASSUME i # j PROVE FALSE
    OBVIOUS
  <2>1. nums[i] \in Int /\ nums[j] \in Int /\ i \in Int /\ j \in Int
    OBVIOUS
  <2>2. \/ nums[i] < nums[j] \/ (nums[i] = nums[j] /\ i < j)
        \/ nums[j] < nums[i] \/ (nums[j] = nums[i] /\ j < i)
    BY <2>1
  <2>3. C!Place(nums, i) \in Int /\ C!Place(nums, j) \in Int
    BY PlaceIs
  <2>4. C!Place(nums, i) < C!Place(nums, j) \/ C!Place(nums, j) < C!Place(nums, i)
    BY <2>2, PlacesDiffer
  <2> QED BY <1>2, <2>3, <2>4
<1>3. IsFiniteSet(R1)
  BY FS_Interval
<1> HIDE DEF R1, f
<1>4. f \in Injection(R1, R1)
  BY <1>1, <1>2 DEF Injection, IsInjective
<1>5. f \in Surjection(R1, R1)
  BY <1>3, <1>4, FS_Injection
<1>6. \E i \in R1 : f[i] = k
  <2>1. k \in R1
    BY DEF R1
  <2> QED BY <1>5, <2>1 DEF Surjection
<1> QED BY <1>1, <1>6 DEF R1

\* Where a number stands: few are below it, and few above.
RankFacts(nums, n, k, a) ==
  /\ \E i \in 1..n : a = nums[i]
  /\ Cardinality({j \in 1..n : nums[j] < a}) < k
  /\ Cardinality({j \in 1..n : nums[j] > a}) <= n - k
  /\ Cardinality({j \in 1..n : nums[j] >= a}) >= n - k + 1

LEMMA Ranks ==
  ASSUME NEW n \in Nat, NEW nums \in [1..n -> Int], NEW k \in 1..n
  PROVE  RankFacts(nums, n, k, C!Ascending(nums)[k])
<1> DEFINE a == C!Ascending(nums)[k]
           i == CHOOSE i \in 1..n : C!Place(nums, i) = k
           S == Upto(nums, n, i)
           U == {j \in 1..n : nums[j] < a}
           V == {j \in 1..n : nums[j] > a}
           W == {j \in 1..n : nums[j] >= a}
<1>1. i \in 1..n /\ C!Place(nums, i) = k
  BY PlacesFilled
<1>2. a = nums[i]
  BY DEF C!Ascending
<1> HIDE DEF i, a
<1>3. Cardinality(S) = k /\ S \in SUBSET (1..n) /\ IsFiniteSet(S)
  BY <1>1, PlaceIs
<1>4. a \in Int /\ \A j \in 1..n : nums[j] \in Int
  BY <1>1, <1>2
<1>5. U \subseteq S /\ i \in S /\ i \notin U /\ V \cap S = {} /\ U \cap W = {} /\ 1..n = U \cup W
  BY <1>1, <1>2, <1>4 DEF Upto
<1>6. U \in SUBSET (1..n) /\ V \in SUBSET (1..n) /\ W \in SUBSET (1..n)
  OBVIOUS
<1> HIDE DEF S, U, V, W
<1>7. Cardinality(U) < k
  <2>1. Cardinality(U) <= Cardinality(S) /\ (Cardinality(U) = Cardinality(S) => U = S)
    BY <1>3, <1>5, FS_Subset
  <2>2. Cardinality(U) \in 0..n /\ U # S
    BY <1>5, <1>6, CountsOfColumn
  <2> QED BY <1>3, <2>1, <2>2
<1>8. Cardinality(V) <= n - k
  <2>1. Cardinality(S \cup V) = Cardinality(S) + Cardinality(V) /\ Cardinality(V) \in Nat
    <3>1. S \cap V = {} /\ S \in SUBSET (1..n) /\ V \in SUBSET (1..n)
      BY <1>3, <1>5, <1>6
    <3>2. Cardinality(S \cup V) = Cardinality(S) + Cardinality(V)
      BY <3>1, CountsAdd
    <3> QED BY <1>6, <3>2, CountsOfColumn
  <2>2. Cardinality(S \cup V) \in 0..n
    <3>1. S \cup V \in SUBSET (1..n)
      BY <1>3, <1>6
    <3> QED BY <3>1, CountsOfColumn
  <2> QED BY <1>3, <2>1, <2>2
<1>9. Cardinality(W) >= n - k + 1
  <2>1. Cardinality(1..n) = Cardinality(U) + Cardinality(W)
        /\ Cardinality(W) \in Nat /\ Cardinality(U) \in Nat
    BY <1>5, <1>6, CountsAdd
  <2>2. Cardinality(1..n) = n
    <3>1. 1 \in Int /\ n \in Int /\ (1 > n => n = 0) /\ n - 1 + 1 = n
      OBVIOUS
    <3> QED BY <3>1, FS_Interval
  <2> QED BY <1>7, <2>1, <2>2
<1> QED BY <1>1, <1>2, <1>7, <1>8, <1>9 DEF RankFacts, U, V, W, a

\* The numbers of cells that all have one.
AllHave(cells) == \A i \in DOMAIN cells : C!Numericish(cells[i])

LEMMA NumbersOf ==
  ASSUME NEW n \in Nat, NEW cells \in [1..n -> Entry], AllHave(cells)
  PROVE  /\ Nums(cells) \in [1..n -> Int] /\ Len(Nums(cells)) = n /\ Nums(cells) \in Seq(Int)
         /\ C!Numbers(cells) = Nums(cells) /\ C!FirstBad(cells) = 0
<1>1. Nums(cells) \in [1..n -> Int] /\ DOMAIN Nums(cells) = 1..n /\ DOMAIN cells = 1..n
  BY DEF Nums, Entry
<1>2. Len(Nums(cells)) = n /\ Len(cells) = n /\ Nums(cells) \in Seq(Int)
  BY <1>1, FunctionIsSeq
<1>3. Wordy(cells) = {}
  BY <1>1 DEF Wordy, AllHave
<1>4. C!Numbers(cells) = Nums(cells)
  BY <1>1, <1>3, NumbersKept DEF KeptFacts
<1>5. \A i \in 1..n : C!HasNumber(cells[i])
  BY <1>1 DEF AllHave, C!HasNumber
<1>6. C!FirstBad(cells) = 0
  BY <1>2, <1>5, FirstBadIs
<1> QED BY <1>1, <1>2, <1>4, <1>6

\* A column of numbers.
IsNumeric == IsColumn /\ \A i \in 1..ColumnLength : C!Numericish(column[i])

LEMMA NumericFacts ==
  ASSUME IsNumeric
  PROVE  /\ ColumnLength \in Nat /\ Nums(column) \in [1..ColumnLength -> Int]
         /\ Len(Nums(column)) = ColumnLength /\ Nums(column) \in Seq(Int)
         /\ C!Numbers(column) = Nums(column) /\ C!FirstBad(column) = 0
         /\ \A i \in 1..ColumnLength : C!HasNumber(column[i]) /\ C!AsNumber(column[i]) = Nums(column)[i]
<1>1. ColumnLength \in Nat /\ column \in [1..ColumnLength -> Entry]
  BY DEF IsNumeric, IsColumn
<1>2. AllHave(column)
  BY <1>1 DEF IsNumeric, AllHave
<1>3. \A i \in 1..ColumnLength : C!HasNumber(column[i]) /\ C!AsNumber(column[i]) = Nums(column)[i]
  BY <1>1 DEF IsNumeric, C!HasNumber, C!AsNumber, Nums
<1> QED BY <1>1, <1>2, <1>3, NumbersOf

\* The arguments of LARGE and SMALL: the column and a whole number.
LEMMA LastAndFront ==
  ASSUME NEW S, NEW s \in Seq(S), NEW x \in S
  PROVE  C!Last(s \o <<x>>) = x /\ C!Front(s \o <<x>>) = s
<1> DEFINE t == s \o <<x>>
           n == Len(s)
           u == SubSeq(t, 1, n)
<1>1. t = Append(s, x)
  BY AppendIsConcat
<1>2. t \in Seq(S) /\ Len(t) = n + 1 /\ t[n + 1] = x /\ (\A i \in 1..n : t[i] = s[i]) /\ n \in Nat
  BY <1>1, AppendProperties, LenProperties
<1> HIDE DEF t
<1>3. C!Last(t) = x
  BY <1>2 DEF C!Last
<1>4. CutFacts(S, t, 1, n)
  BY <1>2, Cuts
<1>5. u = s
  <2>1. /\ u \in Seq(S) /\ Len(u) = IF 1 <= n THEN n - 1 + 1 ELSE 0
        /\ \A j \in 1..(n - 1 + 1) : u[j] = t[1 + j - 1]
    BY <1>4 DEF CutFacts
  <2> HIDE DEF u
  <2>2. Len(u) = n /\ n - 1 + 1 = n
    BY <1>2, <2>1
  <2>3. \A j \in 1..n : u[j] = s[j]
    <3> TAKE j \in 1..n
    <3>1. 1 + j - 1 = j
      OBVIOUS
    <3> QED BY <1>2, <2>1, <2>2, <3>1
  <2> QED BY <2>1, <2>2, <2>3, SeqEqual
<1>6. C!Front(t) = s
  <2>1. Len(t) - 1 = n
    BY <1>2
  <2> QED BY <1>5, <2>1 DEF C!Front
<1> QED BY <1>3, <1>6 DEF t

LEMMA PickedIs ==
  ASSUME IsNumeric, NEW k \in 1..ColumnLength
  PROVE  LET args_ == column \o <<C!NumberValue(Unit * k)>>
             s == C!Ascending(Nums(column))
         IN  /\ C!FnLarge(args_) = C!NumberValue(s[ColumnLength + 1 - k])
             /\ C!FnSmall(args_) = C!NumberValue(s[k])
<1> DEFINE x == C!NumberValue(Unit * k)
           given == column \o <<x>>
<1>1. Unit \in Nat \ {0} /\ k \in Nat /\ Unit * k \in Nat
  <2>1. Unit \in Nat \ {0}
    BY InputsAssumption DEF C!UnitIsPositive
  <2>2. k \in Nat
    BY DEF IsNumeric, IsColumn
  <2> QED BY <2>1, <2>2
<1>2. x \in Entry /\ C!HasNumber(x) /\ C!AsNumber(x) = Unit * k
  BY <1>1 DEF C!NumberValue, C!HasNumber, C!AsNumber, C!Numericish, Entry, C!Kinds
<1>3. C!IntArg(x) = k
  <2> DEFINE y == Unit * k
  <2>1. y = k * Unit + 0 /\ y >= 0 /\ 0 \in 0..(Unit - 1)
    BY <1>1
  <2>2. y \in Int
    BY <1>1
  <2> HIDE DEF y
  <2>3. y \div Unit = k
    BY <1>1, <2>1, <2>2, QuotientIs
  <2>4. C!AsNumber(x) = y
    BY <1>2 DEF y
  <2> HIDE DEF x
  <2> QED BY <2>1, <2>3, <2>4 DEF C!IntArg
<1>4. column \in Seq(Entry)
  BY FunctionIsSeq DEF IsNumeric, IsColumn
<1> HIDE DEF x
<1>5. C!Last(given) = x /\ C!Front(given) = column
  BY <1>2, <1>4, LastAndFront
<1>6. /\ C!Numbers(column) = Nums(column) /\ C!FirstBad(column) = 0
      /\ Len(Nums(column)) = ColumnLength
  BY NumericFacts
<1> HIDE DEF given
<1>7. /\ C!FnLarge(given) = C!KthOf(k, Nums(column), TRUE)
      /\ C!FnSmall(given) = C!KthOf(k, Nums(column), FALSE)
  BY <1>2, <1>3, <1>5, <1>6 DEF C!FnLarge, C!FnSmall, C!RankPick, C!OfNumbers
<1>8. /\ C!KthOf(k, Nums(column), TRUE) = C!NumberValue(C!Ascending(Nums(column))[ColumnLength + 1 - k])
      /\ C!KthOf(k, Nums(column), FALSE) = C!NumberValue(C!Ascending(Nums(column))[k])
  BY <1>6 DEF C!KthOf
<1> QED BY <1>7, <1>8 DEF given, x

\* Multiples keep the order of the numbers.
LEMMA MultiplesInOrder ==
  ASSUME NEW u \in Nat \ {0}, NEW x \in Nat, NEW y \in Nat
  PROVE  (x < y => u * x < u * y) /\ (x <= y => u * x <= u * y)
<1>1. ASSUME x < y PROVE u * x < u * y
  <2> DEFINE d == y - x
  <2>1. d \in Nat \ {0} /\ y = x + d
    BY <1>1
  <2> HIDE DEF d
  <2> DEFINE p == u * x
             q == u * d
  <2>2. p \in Nat /\ q \in Nat \ {0} /\ u * y = p + q
    BY <2>1
  <2> HIDE DEF q
  <2> QED BY <2>2
<1> QED BY <1>1

LEMMA CriteriaRank ==
  ASSUME IsNumeric, NEW a \in Int
  PROVE  LET nums == Nums(column)
             n == ColumnLength
         IN  /\ C!Matching(<<">">>, a) = Unit * Cardinality({j \in 1..n : nums[j] > a})
             /\ C!Matching(<<">", "=">>, a) = Unit * Cardinality({j \in 1..n : nums[j] >= a})
<1>1. DOMAIN column = 1..ColumnLength
  BY DEF IsNumeric, IsColumn
<1>2. <<">">> \in Signs /\ <<">", "=">> \in Signs
  BY DEF Signs
<1>3. /\ \A x : C!NumberOrder(<<">">>, x, a) <=> x > a
      /\ \A x : C!NumberOrder(<<">", "=">>, x, a) <=> x >= a
  BY DEF C!NumberOrder
<1>4. Found(C!Crit(<<">">>, a)) = {j \in 1..ColumnLength : Nums(column)[j] > a}
  BY <1>1, <1>2, <1>3, NumericFacts, OperatorMatches DEF Found
<1>5. Found(C!Crit(<<">", "=">>, a)) = {j \in 1..ColumnLength : Nums(column)[j] >= a}
  BY <1>1, <1>2, <1>3, NumericFacts, OperatorMatches DEF Found
<1> QED BY <1>4, <1>5, MatchingIs

LEMMA ExtremesAre ==
  ASSUME IsNumeric, ColumnLength # 0
  PROVE  LET s == C!Ascending(Nums(column))
         IN  /\ C!FnMax(column) = C!NumberValue(s[ColumnLength])
             /\ C!FnMin(column) = C!NumberValue(s[1])
<1> DEFINE n == ColumnLength
           nums == Nums(column)
           s == C!Ascending(nums)
<1>1. /\ n \in Nat /\ nums \in [1..n -> Int] /\ Len(nums) = n
      /\ C!Numbers(column) = nums /\ C!FirstBad(column) = 0
  BY NumericFacts
<1> HIDE DEF n, nums
<1>2. n # 0 /\ n \in 1..n /\ 1 \in 1..n
  BY <1>1 DEF n
<1>3. RankFacts(nums, n, n, s[n]) /\ RankFacts(nums, n, 1, s[1])
  BY <1>1, <1>2, Ranks
<1> HIDE DEF s
<1>4. \A m : m \in C!ToSet(nums) <=> \E i \in 1..n : m = nums[i]
  BY <1>1 DEF C!ToSet
<1>5. C!Greatest(nums) = s[n]
  <2> DEFINE V == {j \in 1..n : nums[j] > s[n]}
  <2>1. V \in SUBSET (1..n) /\ Cardinality(V) <= n - n
    BY <1>3 DEF RankFacts
  <2> HIDE DEF V
  <2>2. V = {}
    <3>1. Cardinality(V) \in Nat /\ IsFiniteSet(V)
      BY <1>1, <2>1, CountsOfColumn
    <3>2. Cardinality(V) = 0
      BY <1>1, <2>1, <3>1
    <3> QED BY <3>1, <3>2, FS_EmptySet
  <2>3. s[n] \in C!ToSet(nums) /\ \A m \in C!ToSet(nums) : m \in Int /\ s[n] \in Int
    BY <1>1, <1>3, <1>4 DEF RankFacts
  <2>4. \A m \in C!ToSet(nums) : s[n] >= m
    BY <1>1, <1>4, <2>2, <2>3 DEF V
  <2>5. \A m \in C!ToSet(nums) : (\A l \in C!ToSet(nums) : m >= l) => m = s[n]
    BY <2>3, <2>4
  <2> QED BY <2>3, <2>4, <2>5 DEF C!Greatest
<1>6. C!Least(nums) = s[1]
  <2> DEFINE U == {j \in 1..n : nums[j] < s[1]}
  <2>1. U \in SUBSET (1..n) /\ Cardinality(U) < 1
    BY <1>3 DEF RankFacts
  <2> HIDE DEF U
  <2>2. U = {}
    <3>1. Cardinality(U) \in Nat /\ IsFiniteSet(U)
      BY <1>1, <2>1, CountsOfColumn
    <3>2. Cardinality(U) = 0
      BY <2>1, <3>1
    <3> QED BY <3>1, <3>2, FS_EmptySet
  <2>3. s[1] \in C!ToSet(nums) /\ \A m \in C!ToSet(nums) : m \in Int /\ s[1] \in Int
    BY <1>1, <1>3, <1>4 DEF RankFacts
  <2>4. \A m \in C!ToSet(nums) : s[1] <= m
    BY <1>1, <1>4, <2>2, <2>3 DEF U
  <2>5. \A m \in C!ToSet(nums) : (\A l \in C!ToSet(nums) : m <= l) => m = s[1]
    BY <2>3, <2>4
  <2> QED BY <2>3, <2>4, <2>5 DEF C!Least
<1>7. nums # <<>>
  BY <1>1, <1>2
<1>8. /\ C!FnMax(column) = C!NumberValue(C!Greatest(nums))
      /\ C!FnMin(column) = C!NumberValue(C!Least(nums))
  BY <1>1, <1>7 DEF C!FnMax, C!FnMin, C!Extreme, C!OfNumbers
<1> QED BY <1>5, <1>6, <1>8 DEF s, n, nums

LEMMA MedianIs ==
  ASSUME IsNumeric, NEW k \in 1..ColumnLength, k = (ColumnLength + 1) \div 2
  PROVE  C!FnMedian(column).num
           = (C!Ascending(Nums(column))[ColumnLength + 1 - k] + C!Ascending(Nums(column))[k]) \div 2
<1> DEFINE n == ColumnLength
           nums == Nums(column)
           s == C!Ascending(nums)
           mid == n \div 2
<1>1. /\ n \in Nat /\ nums \in [1..n -> Int] /\ Len(nums) = n
      /\ C!Numbers(column) = nums /\ C!FirstBad(column) = 0
  BY NumericFacts
<1> HIDE DEF nums
<1>2. \A x : C!NumberValue(x).num = x
  BY DEF C!NumberValue
<1>3. n # 0 /\ nums # <<>>
  BY <1>1
<1>4. C!FnMedian(column) = IF n % 2 = 1 THEN C!NumberValue(s[mid + 1])
                           ELSE C!NumberValue((s[mid] + s[mid + 1]) \div 2)
  BY <1>1, <1>3 DEF C!FnMedian, C!OfNumbers
<1>5. \A l \in 1..n : s[l] \in Int
  <2> SUFFICES ASSUME NEW l \in 1..n PROVE s[l] \in Int
    OBVIOUS
  <2>1. RankFacts(nums, n, l, s[l])
    BY <1>1, Ranks
  <2> QED BY <1>1, <2>1 DEF RankFacts
<1> HIDE DEF s
<1>6. CASE n % 2 = 1
  <2>1. mid + 1 = k /\ n + 1 - k = k
    BY <1>1, <1>6
  <2>2. \A x \in Int : (x + x) \div 2 = x
    OBVIOUS
  <2>3. s[k] \in Int
    BY <1>5
  <2> HIDE DEF n, mid
  <2> QED BY <1>2, <1>4, <1>6, <2>1, <2>2, <2>3 DEF n, s, nums
<1>7. CASE n % 2 # 1
  <2>1. mid = k /\ n + 1 - k = mid + 1 /\ mid + 1 \in 1..n
    BY <1>1, <1>3, <1>7
  <2>2. s[mid] \in Int /\ s[mid + 1] \in Int
    BY <1>5, <2>1
  <2> HIDE DEF n, mid
  <2>3. C!FnMedian(column).num = (s[n + 1 - k] + s[k]) \div 2
    <3>1. s[mid] + s[mid + 1] = s[mid + 1] + s[mid]
      BY <2>2
    <3> QED BY <1>2, <1>4, <1>7, <2>1, <3>1
  <2> QED BY <2>3 DEF n, s, nums
<1> QED BY <1>6, <1>7

LEMMA RanksMatch ==
  ASSUME IsNumeric, NEW k \in 1..ColumnLength
  PROVE  C!RankMatchesCount(k)
<1> DEFINE n == ColumnLength
           nums == Nums(column)
           s == C!Ascending(nums)
           l == n + 1 - k
           large == C!FnLarge(column \o <<C!NumberValue(Unit * k)>>)
           small == C!FnSmall(column \o <<C!NumberValue(Unit * k)>>)
           a == s[l]
           V == {j \in 1..n : nums[j] > a}
           W == {j \in 1..n : nums[j] >= a}
<1>1. n \in Nat /\ nums \in [1..n -> Int] /\ Unit \in Nat \ {0}
  BY NumericFacts, InputsAssumption DEF C!UnitIsPositive
<1>2. l \in 1..n /\ n + 1 - l = k /\ n # 0 /\ n - l < k /\ n - l + 1 = k /\ k \in Nat
  BY <1>1
<1>3. large = C!NumberValue(a) /\ small = C!NumberValue(s[k])
  BY PickedIs
<1>4. C!FnSmall(column \o <<C!NumberValue(Unit * l)>>) = C!NumberValue(a)
  <2> HIDE DEF l
  <2> QED BY <1>2, PickedIs DEF a
<1>5. \A x : C!NumberValue(x).num = x
  BY DEF C!NumberValue
<1>6. /\ a \in Int /\ Cardinality(V) \in Nat /\ Cardinality(W) \in Nat
      /\ Cardinality(V) < k /\ k <= Cardinality(W)
  <2>1. RankFacts(nums, n, l, a)
    <3> HIDE DEF l, nums, n
    <3> QED BY <1>1, <1>2, Ranks
  <2>2. V \in SUBSET (1..n) /\ W \in SUBSET (1..n)
    OBVIOUS
  <2>3. Cardinality(V) <= n - l /\ Cardinality(W) >= n - l + 1 /\ \E i \in 1..n : a = nums[i]
    BY <2>1 DEF RankFacts
  <2> HIDE DEF V, W, a, l
  <2>4. Cardinality(V) \in 0..n /\ Cardinality(W) \in 0..n
    BY <1>1, <2>2, CountsOfColumn
  <2>5. a \in Int
    BY <1>1, <2>3
  <2> QED BY <1>1, <1>2, <2>3, <2>4, <2>5
<1>7. /\ C!Matching(<<">">>, a) = Unit * Cardinality(V)
      /\ C!Matching(<<">", "=">>, a) = Unit * Cardinality(W)
  <2> HIDE DEF a
  <2> QED BY <1>6, CriteriaRank
<1>8. Unit * Cardinality(V) < Unit * k /\ Unit * Cardinality(W) >= Unit * k
  <2> DEFINE p == Cardinality(V)
             q == Cardinality(W)
  <2>1. p \in Nat /\ q \in Nat /\ p < k /\ k <= q
    BY <1>6
  <2> HIDE DEF p, q
  <2>2. Unit * p < Unit * k /\ Unit * k <= Unit * q
    BY <1>1, <1>2, <2>1, MultiplesInOrder
  <2>3. Unit * k \in Int /\ Unit * q \in Int
    BY <1>1, <1>2, <2>1
  <2>4. Unit * q >= Unit * k
    BY <2>2, <2>3
  <2> QED BY <2>2, <2>4 DEF p, q
<1>9. k = 1 => large = C!FnMax(column) /\ small = C!FnMin(column)
  <2> SUFFICES ASSUME k = 1 PROVE large = C!FnMax(column) /\ small = C!FnMin(column)
    OBVIOUS
  <2>1. l = n
    BY <1>1
  <2>2. C!FnMax(column) = C!NumberValue(s[n]) /\ C!FnMin(column) = C!NumberValue(s[1])
    BY <1>2, ExtremesAre
  <2> HIDE DEF large, small, s, n, l
  <2> QED BY <1>3, <2>1, <2>2
<1>10. k = (n + 1) \div 2 => C!FnMedian(column).num = (large.num + small.num) \div 2
  <2>1. k = (n + 1) \div 2 => C!FnMedian(column).num = (a + s[k]) \div 2
    BY MedianIs
  <2> HIDE DEF large, small, s, n, a
  <2> QED BY <1>3, <1>5, <2>1
<1>11. small.num + large.num = large.num + small.num
  <2>1. RankFacts(nums, n, k, s[k])
    BY <1>1, Ranks
  <2>2. s[k] \in Int
    <3> HIDE DEF s
    <3> QED BY <1>1, <2>1 DEF RankFacts
  <2>3. large.num = a /\ small.num = s[k]
    BY <1>3, <1>5
  <2> HIDE DEF large, small, s, a
  <2> QED BY <1>6, <2>2, <2>3
<1>12. C!FnSmall(column \o <<C!NumberValue(Unit * (n + 1 - k))>>) = large
  BY <1>3, <1>4
<1>13. /\ C!Matching(<<">">>, large.num) < Unit * k
       /\ C!Matching(<<">", "=">>, large.num) >= Unit * k
  <2>1. large.num = a
    BY <1>3, <1>5
  <2> HIDE DEF large, a, V, W
  <2> QED BY <1>7, <1>8, <2>1
<1>14. k = (n + 1) \div 2 => C!FnMedian(column).num = (small.num + large.num) \div 2
  <2> HIDE DEF large, small, n
  <2> QED BY <1>10, <1>11
<1> QED BY <1>9, <1>12, <1>13, <1>14, Zenon DEF C!RankMatchesCount

\* Of every column: COUNTIF, SUMIF and AVERAGEIF divide the cells that have a number
\* between the operators, each cell once, and of numbers the ranks, the extremes and the
\* median stand where COUNTIF counts them (matchesCriterion, foldMatches, rankPick).
THEOREM ColumnsAgree == Spec => []CountsAgree
<1>1. ColumnInv => CountsAgree
  <2> SUFFICES ASSUME ColumnInv, owner = "columns" PROVE C!CountsAgree
    BY DEF CountsAgree
  <2>1. IsColumn /\ Bounds \subseteq Int
    BY InputsAssumption DEF ColumnInv, IsColumn, C!InputsAreScalars
  <2>2. ASSUME C!AllNumbers PROVE \A k \in 1..ColumnLength : C!RankMatchesCount(k)
    <3>1. IsNumeric
      BY <2>1, <2>2 DEF IsNumeric, C!AllNumbers
    <3> QED BY <3>1, RanksMatch
  <2>3. \A n \in Bounds : C!OperatorsPartition(n)
    BY <2>1, Partitions
  <2> QED BY <2>2, <2>3 DEF C!CountsAgree
<1> QED BY <1>1, ColumnInvariance, PTL

-----------------------------------------------------------------------------
(* The series. *)

\* A part of a sequence, of some elements.
PartFacts(S, s, a, b) ==
  /\ SubSeq(s, a, b) \in [1..(b - a + 1) -> S] /\ SubSeq(s, a, b) \in Seq(S)
  /\ Len(SubSeq(s, a, b)) = b - a + 1 /\ b - a + 1 \in Nat \ {0}
  /\ \A j \in 1..(b - a + 1) : SubSeq(s, a, b)[j] = s[a + j - 1]

LEMMA PartIs ==
  ASSUME NEW S, NEW n \in Nat, NEW s \in [1..n -> S], NEW b \in 1..n, NEW a \in 1..b
  PROVE  PartFacts(S, s, a, b)
<1> DEFINE p == SubSeq(s, a, b)
           m == b - a + 1
<1>1. s \in Seq(S) /\ Len(s) = n
  BY FunctionIsSeq
<1>2. CutFacts(S, s, a, b)
  <2>1. a \in Int /\ b \in Int /\ 1 <= a /\ b <= Len(s)
    BY <1>1
  <2> QED BY <1>1, <2>1, Cuts
<1>3. m \in Nat \ {0}
  OBVIOUS
<1>4. p \in Seq(S) /\ Len(p) = m /\ \A j \in 1..m : p[j] = s[a + j - 1]
  BY <1>2 DEF CutFacts
<1> HIDE DEF p, m
<1>5. p \in [1..m -> S]
  BY <1>4, LenProperties
<1> QED BY <1>3, <1>4, <1>5 DEF PartFacts, p, m

\* The first rows of a series that agrees with another.
LEMMA FirstRows ==
  ASSUME NEW n \in Nat, NEW f, f = [j \in 1..n |-> f[j]], NEW i \in 1..n,
         NEW g, g = [j \in 1..i |-> g[j]], \A j \in 1..i : g[j] = f[j]
  PROVE  g = SubSeq(f, 1, i)
<1> DEFINE S == {f[j] : j \in 1..n}
           h == SubSeq(f, 1, i)
<1>1. f \in [1..n -> S]
  OBVIOUS
<1> HIDE DEF S
<1>2. PartFacts(S, f, 1, i)
  <2>1. 1 \in 1..i
    OBVIOUS
  <2> QED BY <1>1, <2>1, PartIs
<1>3. h \in [1..(i - 1 + 1) -> S] /\ \A j \in 1..(i - 1 + 1) : h[j] = f[1 + j - 1]
  BY <1>2 DEF PartFacts
<1> HIDE DEF h
<1>4. i - 1 + 1 = i /\ \A j \in 1..i : 1 + j - 1 = j
  OBVIOUS
<1>5. h \in [1..i -> S] /\ \A j \in 1..i : h[j] = g[j]
  BY <1>3, <1>4
<1> QED BY <1>5 DEF h

\* A part of the numbers is the numbers of the part, and a part of the first is one.
LEMMA NumsOfPart ==
  ASSUME NEW n \in Nat, NEW cells \in [1..n -> Entry], AllHave(cells), NEW b \in 1..n, NEW a \in 1..b
  PROVE  /\ Nums(SubSeq(cells, a, b)) = SubSeq(Nums(cells), a, b)
         /\ AllHave(SubSeq(cells, a, b)) /\ PartFacts(Entry, cells, a, b)
<1> DEFINE p == SubSeq(cells, a, b)
           m == b - a + 1
           nums == Nums(cells)
           q == SubSeq(nums, a, b)
<1>1. PartFacts(Entry, cells, a, b)
  BY PartIs
<1>2. nums \in [1..n -> Int] /\ \A j \in 1..n : nums[j] = cells[j].num
  BY DEF Nums, Entry
<1> HIDE DEF nums
<1>3. PartFacts(Int, nums, a, b)
  BY <1>2, PartIs
<1>4. p \in [1..m -> Entry] /\ \A j \in 1..m : p[j] = cells[a + j - 1]
  BY <1>1 DEF PartFacts
<1>5. q \in [1..m -> Int] /\ \A j \in 1..m : q[j] = nums[a + j - 1]
  BY <1>3 DEF PartFacts
<1>6. \A j \in 1..m : a + j - 1 \in 1..n
  OBVIOUS
<1> HIDE DEF p, m, q
<1>7. AllHave(p)
  BY <1>4, <1>6 DEF AllHave
<1>8. Nums(p) \in [1..m -> Int] /\ \A j \in 1..m : Nums(p)[j] = p[j].num
  BY <1>4 DEF Nums, Entry
<1>9. \A j \in 1..m : Nums(p)[j] = q[j]
  BY <1>2, <1>4, <1>5, <1>6, <1>8
<1>10. Nums(p) = q
  <2>1. Nums(p) = [j \in 1..m |-> Nums(p)[j]] /\ q = [j \in 1..m |-> q[j]]
    BY <1>5, <1>8
  <2> QED BY <1>9, <2>1, Zenon
<1> QED BY <1>1, <1>7, <1>10 DEF p, q, nums

LEMMA PartOfFirst ==
  ASSUME NEW S, NEW n \in Nat, NEW s \in [1..n -> S], NEW i \in 1..n, NEW b \in 1..i, NEW a \in 1..b
  PROVE  SubSeq(SubSeq(s, 1, i), a, b) = SubSeq(s, a, b)
<1> DEFINE t == SubSeq(s, 1, i)
           p == SubSeq(t, a, b)
           q == SubSeq(s, a, b)
           m == b - a + 1
<1>1. 1 \in 1..i /\ b \in 1..n /\ i - 1 + 1 = i
  OBVIOUS
<1>2. PartFacts(S, s, 1, i) /\ PartFacts(S, s, a, b)
  BY <1>1, PartIs
<1>3. t \in [1..i -> S] /\ \A j \in 1..i : t[j] = s[j]
  <2>1. t \in [1..i -> S] /\ \A j \in 1..i : t[j] = s[1 + j - 1]
    BY <1>1, <1>2 DEF PartFacts
  <2>2. \A j \in 1..i : 1 + j - 1 = j
    OBVIOUS
  <2> HIDE DEF t
  <2> QED BY <2>1, <2>2
<1>4. q \in [1..m -> S] /\ \A j \in 1..m : q[j] = s[a + j - 1]
  BY <1>2 DEF PartFacts
<1> HIDE DEF t
<1>5. PartFacts(S, t, a, b)
  BY <1>3, PartIs
<1>6. p \in [1..m -> S] /\ \A j \in 1..m : p[j] = t[a + j - 1]
  BY <1>5 DEF PartFacts
<1>7. \A j \in 1..m : a + j - 1 \in 1..i
  OBVIOUS
<1> HIDE DEF p, q, m
<1>8. p = q
  <2>1. \A j \in 1..m : p[j] = q[j]
    BY <1>3, <1>4, <1>6, <1>7
  <2>2. p = [j \in 1..m |-> p[j]] /\ q = [j \in 1..m |-> q[j]]
    BY <1>4, <1>6
  <2> QED BY <2>1, <2>2, Zenon
<1> QED BY <1>8 DEF p, q, t

\* The average that moves, row by row.
EmaStep(out, x, span) ==
  Append(out, IF out = <<>> THEN x ELSE (2 * x + (span - 1) * C!Last(out)) \div (span + 1))

IterEma(iter, s, span) ==
  iter = [t \in SUBSET (DOMAIN s) |->
            IF t = {} THEN <<>> ELSE LET x == C!Max(t) IN EmaStep(iter[t \ {x}], s[x], span)]

EmaOf(s, span) == (CHOOSE iter : IterEma(iter, s, span))[DOMAIN s]

LEMMA EmaUnfolds ==
  ASSUME NEW s, NEW span
  PROVE  C!EmaSeries(s, span) = [i \in DOMAIN s |-> C!NumberValue(EmaOf(s, span)[i])]
BY Zenon DEF C!EmaSeries, C!FoldLeft, C!MapThenFoldSet, EmaOf, IterEma, EmaStep

LEMMA EmaStepIs ==
  ASSUME NEW out \in Seq(Int), NEW x \in Int, NEW span \in Nat \ {0}
  PROVE  EmaStep(out, x, span) \in Seq(Int)
<1>1. CASE out = <<>>
  <2>1. Append(out, x) \in Seq(Int)
    BY AppendProperties
  <2> QED BY <1>1, <2>1 DEF EmaStep
<1>2. CASE out # <<>>
  <2> DEFINE l == C!Last(out)
             y == (2 * x + (span - 1) * l) \div (span + 1)
  <2>1. l \in Int
    <3>1. Len(out) \in 1..Len(out)
      BY <1>2, LenProperties, EmptySeq
    <3> QED BY <3>1, ElementOfSeq DEF C!Last
  <2> HIDE DEF l
  <2>2. y \in Int
    <3>1. 2 * x + (span - 1) * l \in Int /\ span + 1 \in Nat \ {0}
      BY <2>1
    <3> QED BY <3>1
  <2> HIDE DEF y
  <2>3. Append(out, y) \in Seq(Int)
    BY <2>2, AppendProperties
  <2> QED BY <1>2, <2>3 DEF EmaStep, y, l
<1> QED BY <1>1, <1>2

IsEmaWalk(v, s, span) ==
  /\ v \in [0..Len(s) -> Seq(Int)] /\ v[0] = <<>> /\ EmaOf(s, span) = v[Len(s)]
  /\ \A i \in 1..Len(s) : v[i] = EmaStep(v[i - 1], s[i], span)

LEMMA EmaWalks ==
  ASSUME NEW s \in Seq(Int), NEW span \in Nat \ {0}
  PROVE  \E v : IsEmaWalk(v, s, span)
<1> DEFINE n == Len(s)
           Runs == Seq(Int)
           g == [p \in (1..n) \X Runs |-> EmaStep(p[2], s[p[1]], span)]
<1>1. n \in Nat /\ DOMAIN s = 1..n /\ \A i \in 1..n : s[i] \in Int
  BY ElementOfSeq, LenProperties
<1>2. \A i \in 1..n, a \in Runs : EmaStep(a, s[i], span) \in Runs /\ g[<<i, a>>] = EmaStep(a, s[i], span)
  BY <1>1, EmaStepIs
<1>3. g \in [(1..n) \X Runs -> Runs]
  BY <1>2
<1> HIDE DEF g, n, Runs
<1>4. \A t : C!Max(t) = Greatest(t)
  BY DEF C!Max, Greatest
<1>5. \A t \in SUBSET (1..n) : t # {} => Greatest(t) \in t
  BY <1>1, GreatestIn
<1>6. \E iter : IterEma(iter, s, span)
  <2>1. PICK f : IsFolded(f, Runs, n, <<>>, g)
    <3>1. <<>> \in Runs
      BY EmptySeq DEF Runs
    <3> QED BY <1>1, <1>3, <3>1, FoldExists
  <2>2. ASSUME NEW t \in SUBSET (1..n)
        PROVE  f[t] = IF t = {} THEN <<>> ELSE LET x == C!Max(t) IN EmaStep(f[t \ {x}], s[x], span)
    <3>1. CASE t = {}
      BY <2>1, <3>1 DEF IsFolded
    <3>2. CASE t # {}
      <4> DEFINE x == Greatest(t)
                 rest == t \ {x}
      <4>1. x \in 1..n /\ rest \in SUBSET (1..n)
        BY <1>5, <3>2
      <4>2. f[rest] \in Runs /\ f[t] = g[<<x, f[rest]>>]
        BY <2>1, <3>2, <4>1 DEF IsFolded
      <4> HIDE DEF x, rest
      <4>3. f[t] = EmaStep(f[rest], s[x], span)
        BY <1>2, <4>1, <4>2
      <4> QED BY <1>4, <3>2, <4>3 DEF x, rest
    <3> QED BY <3>1, <3>2
  <2>3. f = [t \in SUBSET (1..n) |-> f[t]]
    BY <2>1 DEF IsFolded
  <2>4. IterEma(f, s, span)
    BY <1>1, <2>2, <2>3, Zenon DEF IterEma
  <2> QED BY <2>4
<1> DEFINE iter == CHOOSE iter : IterEma(iter, s, span)
<1>7. IterEma(iter, s, span)
  BY <1>6
<1>8. EmaOf(s, span) = iter[1..n]
  BY <1>1 DEF EmaOf
<1> HIDE DEF iter
<1>9. \A t \in SUBSET (1..n) :
        iter[t] = IF t = {} THEN <<>> ELSE EmaStep(iter[t \ {Greatest(t)}], s[Greatest(t)], span)
  BY <1>1, <1>4, <1>7, Zenon DEF IterEma
<1>10. iter[{}] = <<>>
  BY <1>9
<1>11. \A t \in SUBSET (1..n) : t # {} /\ iter[t \ {Greatest(t)}] \in Runs =>
                                   iter[t] = g[<<Greatest(t), iter[t \ {Greatest(t)}]>>]
  <2> TAKE t \in SUBSET (1..n)
  <2> HAVE t # {} /\ iter[t \ {Greatest(t)}] \in Runs
  <2> QED BY <1>2, <1>5, <1>9
<1>12. PICK v : IsWalk(v, Runs, n, <<>>, g) /\ v[n] = iter[1..n]
  <2>1. IsIteration(iter, Runs, n, <<>>, g)
    BY <1>10, <1>11 DEF IsIteration
  <2>2. Walks(iter, Runs, n, <<>>, g)
    <3>1. <<>> \in Runs
      BY EmptySeq DEF Runs
    <3> QED BY <1>1, <1>3, <2>1, <3>1, FoldedAlong
  <2> QED BY <2>2 DEF Walks
<1>13. v \in [0..n -> Runs] /\ v[0] = <<>> /\ \A i \in 1..n : v[i] = EmaStep(v[i - 1], s[i], span)
  <2>1. v \in [0..n -> Runs] /\ v[0] = <<>> /\ \A i \in 1..n : v[i] = g[<<i, v[i - 1]>>]
    BY <1>12 DEF IsWalk
  <2>2. ASSUME NEW i \in 1..n PROVE v[i] = EmaStep(v[i - 1], s[i], span)
    <3>1. i - 1 \in 0..n
      BY <1>1
    <3> QED BY <1>2, <2>1, <3>1
  <2> QED BY <2>1, <2>2
<1>14. IsEmaWalk(v, s, span)
  BY <1>8, <1>12, <1>13 DEF IsEmaWalk, n, Runs
<1> QED BY <1>14

\* A row of the average stays as it was when the next one comes.
EmaRow(v, s, span, i) ==
  /\ Len(v[i]) = i /\ \A j \in 1..i : v[i][j] = v[j][j]
  /\ i > 1 => v[i][i] = (2 * s[i] + (span - 1) * v[i - 1][i - 1]) \div (span + 1)

LEMMA EmaRows ==
  ASSUME NEW s \in Seq(Int), NEW span \in Nat \ {0}, NEW v, IsEmaWalk(v, s, span)
  PROVE  \A i \in 1..Len(s) : EmaRow(v, s, span, i)
<1> DEFINE n == Len(s)
           T == {i \in Nat : i <= n => EmaRow(v, s, span, i)}
<1>1. n \in Nat /\ \A i \in 1..n : s[i] \in Int
  BY ElementOfSeq, LenProperties
<1>2. /\ v \in [0..n -> Seq(Int)] /\ v[0] = <<>>
      /\ \A i \in 1..n : v[i] = EmaStep(v[i - 1], s[i], span)
  BY DEF IsEmaWalk
<1> HIDE DEF n
<1>3. 0 \in T
  BY <1>2 DEF EmaRow
<1>4. ASSUME NEW i \in Nat, i \in T PROVE i + 1 \in T
  <2> SUFFICES ASSUME i + 1 <= n PROVE EmaRow(v, s, span, i + 1)
    OBVIOUS
  <2> DEFINE k == i + 1
             out == v[i]
             y == IF out = <<>> THEN s[k] ELSE (2 * s[k] + (span - 1) * C!Last(out)) \div (span + 1)
  <2>1. k \in 1..n /\ k - 1 = i /\ i \in 0..n /\ i <= n /\ k \in Nat /\ s[k] \in Int
    BY <1>1
  <2>2. out \in Seq(Int) /\ EmaRow(v, s, span, i)
    BY <1>2, <1>4, <2>1
  <2>3. Len(out) = i /\ \A j \in 1..i : out[j] = v[j][j]
    BY <2>2 DEF EmaRow
  <2>4. v[k] = Append(out, y)
    BY <1>2, <2>1 DEF EmaStep
  <2>5. y \in Int
    <3>1. CASE out = <<>>
      BY <2>1, <3>1
    <3>2. CASE out # <<>>
      <4> DEFINE l == C!Last(out)
                 z == 2 * s[k] + (span - 1) * l
      <4>1. l \in Int
        <5>1. Len(out) \in 1..Len(out)
          BY <2>2, <3>2, LenProperties, EmptySeq
        <5> QED BY <2>2, <5>1, ElementOfSeq DEF C!Last
      <4> HIDE DEF l
      <4>2. z \in Int /\ span + 1 \in Nat \ {0}
        BY <2>1, <4>1
      <4> HIDE DEF z
      <4>3. z \div (span + 1) \in Int
        BY <4>2
      <4> QED BY <3>2, <4>3 DEF l, z
    <3> QED BY <3>1, <3>2
  <2>6. i # 0 => out # <<>> /\ C!Last(out) = v[i][i]
    BY <2>3 DEF C!Last
  <2>7. k > 1 => y = (2 * s[k] + (span - 1) * v[i][i]) \div (span + 1)
    <3> SUFFICES ASSUME k > 1 PROVE y = (2 * s[k] + (span - 1) * v[i][i]) \div (span + 1)
      OBVIOUS
    <3>1. out # <<>> /\ C!Last(out) = v[i][i]
      BY <2>6
    <3> QED BY <3>1, Zenon
  <2> HIDE DEF out, y
  <2>8. Len(v[k]) = i + 1 /\ v[k][i + 1] = y /\ \A j \in 1..i : v[k][j] = out[j]
    BY <2>2, <2>3, <2>4, <2>5, AppendProperties
  <2>9. \A j \in 1..k : v[k][j] = v[j][j]
    <3>1. \A j \in 1..k : j = k \/ j \in 1..i
      OBVIOUS
    <3> QED BY <2>3, <2>8, <3>1
  <2> HIDE DEF k
  <2>10. EmaRow(v, s, span, k)
    <3>1. v[k][k] = y
      BY <2>8 DEF k
    <3>2. Len(v[k]) = k
      BY <2>8 DEF k
    <3>3. k > 1 => v[k][k] = (2 * s[k] + (span - 1) * v[k - 1][k - 1]) \div (span + 1)
      BY <2>1, <2>7, <3>1
    <3> QED BY <2>9, <3>2, <3>3 DEF EmaRow
  <2> QED BY <2>10 DEF k
<1> HIDE DEF T
<1>5. \A i \in 1..n : i \in T
  BY <1>3, <1>4, Upward
<1>6. \A i \in 1..n : EmaRow(v, s, span, i)
  <2> TAKE i \in 1..n
  <2>1. i <= n /\ i \in T
    BY <1>1, <1>5
  <2> QED BY <2>1 DEF T
<1> QED BY <1>6 DEF n

\* The average of the first numbers is the first rows of the average.
LEMMA EmaOfFirst ==
  ASSUME NEW n \in Nat, NEW s \in [1..n -> Int], NEW span \in Nat \ {0}, NEW m \in 1..n
  PROVE  \A j \in 1..m : EmaOf(SubSeq(s, 1, m), span)[j] = EmaOf(s, span)[j]
<1> DEFINE t == SubSeq(s, 1, m)
<1>1. s \in Seq(Int) /\ Len(s) = n
  BY FunctionIsSeq
<1>2. t \in Seq(Int) /\ Len(t) = m /\ \A j \in 1..m : t[j] = s[j]
  <2>1. PartFacts(Int, s, 1, m)
    <3>1. 1 \in 1..m
      OBVIOUS
    <3> QED BY <3>1, PartIs
  <2>2. m - 1 + 1 = m /\ \A j \in 1..m : 1 + j - 1 = j
    OBVIOUS
  <2>3. t \in Seq(Int) /\ Len(t) = m /\ \A j \in 1..m : t[j] = s[1 + j - 1]
    BY <2>1, <2>2 DEF PartFacts
  <2> HIDE DEF t
  <2> QED BY <2>2, <2>3
<1> HIDE DEF t
<1>3. PICK v : IsEmaWalk(v, s, span)
  BY <1>1, EmaWalks
<1>4. PICK w : IsEmaWalk(w, t, span)
  BY <1>2, EmaWalks
<1>5. v[0] = <<>> /\ EmaOf(s, span) = v[n] /\ \A i \in 1..n : v[i] = EmaStep(v[i - 1], s[i], span)
  BY <1>1, <1>3 DEF IsEmaWalk
<1>6. w[0] = <<>> /\ EmaOf(t, span) = w[m] /\ \A i \in 1..m : w[i] = EmaStep(w[i - 1], t[i], span)
  BY <1>2, <1>4 DEF IsEmaWalk
<1> DEFINE T == {i \in Nat : i <= m => w[i] = v[i]}
<1>7. 0 \in T
  BY <1>5, <1>6
<1>8. ASSUME NEW i \in Nat, i \in T PROVE i + 1 \in T
  <2> SUFFICES ASSUME i + 1 <= m PROVE w[i + 1] = v[i + 1]
    OBVIOUS
  <2>1. i + 1 \in 1..m /\ i + 1 \in 1..n /\ (i + 1) - 1 = i /\ i <= m
    OBVIOUS
  <2>2. w[i] = v[i]
    BY <1>8, <2>1
  <2> DEFINE k == i + 1
  <2>3. t[k] = s[k] /\ w[k] = EmaStep(w[i], t[k], span) /\ v[k] = EmaStep(v[i], s[k], span)
    BY <1>2, <1>5, <1>6, <2>1
  <2> HIDE DEF k
  <2>4. w[k] = v[k]
    BY <2>2, <2>3
  <2> QED BY <2>4 DEF k
<1> HIDE DEF T
<1>9. m \in T
  <2>1. m \in Nat
    OBVIOUS
  <2>2. Nat \subseteq T
    BY <1>7, <1>8, Upward
  <2> QED BY <2>1, <2>2
<1>10. w[m] = v[m]
  BY <1>9 DEF T
<1>11. EmaRow(v, s, span, m) /\ EmaRow(v, s, span, n)
  <2>1. m \in 1..n /\ n \in 1..n
    OBVIOUS
  <2> QED BY <1>1, <1>3, <2>1, EmaRows
<1>12. \A j \in 1..m : v[m][j] = v[n][j]
  <2>1. \A j \in 1..m : j \in 1..n
    OBVIOUS
  <2> QED BY <1>11, <2>1 DEF EmaRow
<1> QED BY <1>5, <1>6, <1>10, <1>12 DEF t

LEMMA EmaNext ==
  ASSUME NEW n \in Nat, NEW s \in [1..n -> Int], NEW span \in Nat \ {0}, NEW i \in 2..n
  PROVE  EmaOf(s, span)[i] = (2 * s[i] + (span - 1) * EmaOf(s, span)[i - 1]) \div (span + 1)
<1>1. s \in Seq(Int) /\ Len(s) = n
  BY FunctionIsSeq
<1>2. PICK v : IsEmaWalk(v, s, span)
  BY <1>1, EmaWalks
<1>3. EmaOf(s, span) = v[n]
  BY <1>1, <1>2 DEF IsEmaWalk
<1>4. n \in 1..n /\ i \in 1..n /\ i - 1 \in 1..n /\ i > 1
  OBVIOUS
<1>5. EmaRow(v, s, span, i) /\ EmaRow(v, s, span, n)
  BY <1>1, <1>2, <1>4, EmaRows
<1>6. v[n][i] = v[i][i] /\ v[n][i - 1] = v[i - 1][i - 1]
  BY <1>4, <1>5 DEF EmaRow
<1>7. v[i][i] = (2 * s[i] + (span - 1) * v[i - 1][i - 1]) \div (span + 1)
  BY <1>4, <1>5 DEF EmaRow
<1> QED BY <1>3, <1>6, <1>7

\* The cells that have no place in a series.
Strays(cells) == {i \in 1..Len(cells) : cells[i].kind \notin {"number", "bool", "date"}}

LEMMA SeriesBadIs ==
  ASSUME NEW n \in Nat, NEW cells \in [1..n -> Entry]
  PROVE  C!SeriesBad(cells) = 0 <=> AllHave(cells)
<1> DEFINE T == Strays(cells)
<1>1. Len(cells) = n /\ DOMAIN cells = 1..n
  BY FunctionIsSeq
<1>2. C!SeriesBad(cells) = IF T # {} THEN C!Min(T) ELSE 0
  BY Zenon DEF C!SeriesBad, C!SelectInSeq, Strays
<1>3. T = {} <=> AllHave(cells)
  BY <1>1 DEF Strays, AllHave, C!Numericish
<1>4. T \in SUBSET Nat /\ 0 \notin T
  BY <1>1 DEF Strays
<1> HIDE DEF T
<1>5. ASSUME T # {} PROVE C!Min(T) # 0
  <2>1. PICK m \in T : \A k \in T : m <= k
    BY <1>4, <1>5, LeastOf
  <2>2. T \in SUBSET Int /\ m # 0
    BY <1>4
  <2>3. C!Min(T) = m
    BY <2>1, <2>2, LeastBeginning
  <2> QED BY <2>2, <2>3
<1> QED BY <1>2, <1>3, <1>5

LEMMA CallIs ==
  ASSUME NEW n \in Nat, NEW cells \in [1..n -> Entry], AllHave(cells), NEW span \in Nat \ {0}, NEW fn
  PROVE  C!SeriesCall(fn, cells, span) = C!Build(fn, Nums(cells), span)
<1>1. C!SeriesBad(cells) = 0
  BY SeriesBadIs
<1>2. ~(span < 1)
  OBVIOUS
<1> QED BY <1>1, <1>2, Zenon DEF C!SeriesCall, Nums

\* A series of the first numbers is the first rows of the series.
LEMMA BuildOfFirst ==
  ASSUME NEW n \in Nat, NEW nums \in [1..n -> Int], NEW span \in Nat \ {0}, NEW fn, NEW i \in 1..n
  PROVE  C!Build(fn, SubSeq(nums, 1, i), span) = SubSeq(C!Build(fn, nums, span), 1, i)
<1> DEFINE t == SubSeq(nums, 1, i)
           f == C!Build(fn, nums, span)
           g == C!Build(fn, t, span)
<1>1. DOMAIN nums = 1..n
  OBVIOUS
<1>2. DOMAIN t = 1..i
  <2>1. 1 \in 1..i /\ i - 1 + 1 = i
    OBVIOUS
  <2>2. PartFacts(Int, nums, 1, i)
    BY <2>1, PartIs
  <2> HIDE DEF t
  <2> QED BY <2>1, <2>2 DEF PartFacts, t
<1>3. ASSUME NEW j \in 1..i PROVE 1 \in 1..j /\ SubSeq(t, 1, j) = SubSeq(nums, 1, j)
  <2>1. 1 \in 1..j
    OBVIOUS
  <2> QED BY <2>1, PartOfFirst
<1>4. ASSUME NEW j \in 1..i, ~(j < span)
      PROVE  SubSeq(t, j + 1 - span, j) = SubSeq(nums, j + 1 - span, j)
  <2>1. j + 1 - span \in 1..j
    BY <1>4
  <2> QED BY <2>1, PartOfFirst
<1> HIDE DEF t
<1>5. ASSUME f = [j \in 1..n |-> f[j]], g = [j \in 1..i |-> g[j]], \A j \in 1..i : g[j] = f[j]
      PROVE  g = SubSeq(f, 1, i)
  <2> HIDE DEF f, g
  <2> QED BY <1>5, FirstRows
<1> HIDE DEF f, g
<1>6. ASSUME fn = "ema" PROVE g = SubSeq(f, 1, i)
  <2>1. f = C!EmaSeries(nums, span) /\ g = C!EmaSeries(t, span)
    BY <1>6 DEF C!Build, f, g
  <2>2. /\ f = [j \in 1..n |-> C!NumberValue(EmaOf(nums, span)[j])]
        /\ g = [j \in 1..i |-> C!NumberValue(EmaOf(t, span)[j])]
    BY <1>1, <1>2, <2>1, EmaUnfolds
  <2>3. \A j \in 1..i : EmaOf(t, span)[j] = EmaOf(nums, span)[j]
    BY EmaOfFirst DEF t
  <2>4. \A j \in 1..i : g[j] = f[j]
    BY <2>2, <2>3
  <2> QED BY <1>5, <2>2, <2>4
<1>7. ASSUME fn = "cumsum" PROVE g = SubSeq(f, 1, i)
  <2>1. f = C!CumsumSeries(nums) /\ g = C!CumsumSeries(t)
    BY <1>7 DEF C!Build, f, g
  <2>2. /\ f = [j \in 1..n |-> C!NumberValue(C!Total(SubSeq(nums, 1, j)))]
        /\ g = [j \in 1..i |-> C!NumberValue(C!Total(SubSeq(t, 1, j)))]
    BY <1>1, <1>2, <2>1, Zenon DEF C!CumsumSeries
  <2>3. ASSUME NEW j \in 1..i PROVE g[j] = f[j]
    <3>1. j \in 1..n /\ SubSeq(t, 1, j) = SubSeq(nums, 1, j)
      BY <1>3
    <3> QED BY <2>2, <3>1, Zenon
  <2> QED BY <1>5, <2>2, <2>3
<1>8. ASSUME fn # "ema" /\ fn # "cumsum" PROVE g = SubSeq(f, 1, i)
  <2>1. f = C!Windowed(fn, nums, span) /\ g = C!Windowed(fn, t, span)
    BY <1>8 DEF C!Build, f, g
  <2> DEFINE row(s, j) == IF j < span THEN C!Error(C!NA)
                          ELSE C!NumberValue(C!FoldOf(fn, SubSeq(s, j + 1 - span, j)))
  <2>2. f = [j \in 1..n |-> row(nums, j)] /\ g = [j \in 1..i |-> row(t, j)]
    BY <1>1, <1>2, <2>1, Zenon DEF C!Windowed
  <2>3. \A j \in 1..i : row(t, j) = row(nums, j)
    BY <1>4
  <2> HIDE DEF row
  <2>4. \A j \in 1..i : g[j] = f[j]
    BY <2>2, <2>3
  <2> QED BY <1>5, <2>2, <2>4
<1>9. g = SubSeq(f, 1, i)
  BY <1>6, <1>7, <1>8
<1> QED BY <1>9 DEF f, g, t

\* The aggregates of a part of a column of numbers.
LEMMA PartAggregates ==
  ASSUME NEW n \in Nat, NEW cells \in [1..n -> Entry], AllHave(cells), NEW b \in 1..n, NEW a \in 1..b
  PROVE  LET p == SubSeq(cells, a, b)
             q == SubSeq(Nums(cells), a, b)
         IN  /\ C!FnSum(p) = C!NumberValue(C!Total(q)) /\ C!FnAvg(p) = C!NumberValue(C!MeanOf(q))
             /\ C!FnMin(p) = C!NumberValue(C!Least(q)) /\ C!FnMax(p) = C!NumberValue(C!Greatest(q))
<1> DEFINE p == SubSeq(cells, a, b)
           q == SubSeq(Nums(cells), a, b)
           m == b - a + 1
<1>1. Nums(p) = q /\ AllHave(p) /\ PartFacts(Entry, cells, a, b)
  BY NumsOfPart
<1>2. p \in [1..m -> Entry] /\ m \in Nat \ {0}
  BY <1>1 DEF PartFacts
<1> HIDE DEF p, q, m
<1>3. C!Numbers(p) = q /\ C!FirstBad(p) = 0 /\ Len(q) = m
  BY <1>1, <1>2, NumbersOf
<1>4. q # <<>>
  BY <1>2, <1>3
<1>5. C!FnSum(p) = C!NumberValue(C!Total(q)) /\ C!FnAvg(p) = C!NumberValue(C!MeanOf(q))
  BY <1>3, <1>4 DEF C!FnSum, C!FnAvg, C!OfNumbers
<1>6. C!FnMin(p) = C!NumberValue(C!Least(q)) /\ C!FnMax(p) = C!NumberValue(C!Greatest(q))
  BY <1>3, <1>4 DEF C!FnMin, C!FnMax, C!Extreme, C!OfNumbers
<1> QED BY <1>5, <1>6 DEF p, q

\* A row of a windowed series is the aggregate of its window.
RowsAreRanges(cells, span, i) ==
  LET Of(fn) == C!SeriesCall(fn, cells, span)
      Window(k) == SubSeq(cells, k + 1 - span, k)
  IN  /\ Of("cumsum")[i] = C!FnSum(SubSeq(cells, 1, i))
      /\ C!IsError(Of("movingavg")[i]) <=> i < span
      /\ i >= span => /\ Of("movingavg")[i] = C!FnAvg(Window(i))
                      /\ Of("rollingmin")[i] = C!FnMin(Window(i))
                      /\ Of("rollingmax")[i] = C!FnMax(Window(i))

LEMMA WindowedRow ==
  ASSUME NEW n \in Nat, NEW cells \in [1..n -> Entry], AllHave(cells), NEW span \in Nat \ {0},
         NEW i \in 1..n, NEW fn \in {"movingavg", "rollingmin", "rollingmax"}
  PROVE  /\ i < span => C!SeriesCall(fn, cells, span)[i] = C!Error(C!NA)
         /\ ~(i < span) => C!SeriesCall(fn, cells, span)[i]
                             = C!NumberValue(C!FoldOf(fn, SubSeq(Nums(cells), i + 1 - span, i)))
<1> DEFINE nums == Nums(cells)
<1>1. C!SeriesCall(fn, cells, span) = C!Build(fn, nums, span)
  BY CallIs
<1>2. DOMAIN nums = 1..n
  BY DEF Nums
<1> HIDE DEF nums
<1>3. fn # "ema" /\ fn # "cumsum"
  OBVIOUS
<1>4. C!Build(fn, nums, span) = C!Windowed(fn, nums, span)
  BY <1>3 DEF C!Build
<1>5. C!Windowed(fn, nums, span)[i]
        = IF i < span THEN C!Error(C!NA)
          ELSE C!NumberValue(C!FoldOf(fn, SubSeq(nums, i + 1 - span, i)))
  BY <1>2, Zenon DEF C!Windowed
<1> QED BY <1>1, <1>4, <1>5 DEF nums

LEMMA RowIsRange ==
  ASSUME NEW n \in Nat, NEW cells \in [1..n -> Entry], AllHave(cells), NEW span \in Nat \ {0},
         NEW i \in 1..n
  PROVE  RowsAreRanges(cells, span, i)
<1> DEFINE nums == Nums(cells)
           Of(fn) == C!SeriesCall(fn, cells, span)
           w == SubSeq(cells, i + 1 - span, i)
           q == SubSeq(nums, i + 1 - span, i)
<1>1. Of("cumsum")[i] = C!FnSum(SubSeq(cells, 1, i))
  <2>1. DOMAIN nums = 1..n /\ 1 \in 1..i
    BY DEF Nums
  <2>2. C!SeriesCall("cumsum", cells, span) = C!Build("cumsum", nums, span)
    BY CallIs
  <2>3. C!FnSum(SubSeq(cells, 1, i)) = C!NumberValue(C!Total(SubSeq(nums, 1, i)))
    BY <2>1, PartAggregates
  <2> HIDE DEF nums
  <2>4. C!Build("cumsum", nums, span) = C!CumsumSeries(nums)
    BY DEF C!Build
  <2>5. C!CumsumSeries(nums)[i] = C!NumberValue(C!Total(SubSeq(nums, 1, i)))
    BY <2>1, Zenon DEF C!CumsumSeries
  <2> QED BY <2>2, <2>3, <2>4, <2>5
<1>2. ASSUME NEW fn \in {"movingavg", "rollingmin", "rollingmax"}
      PROVE  /\ i < span => Of(fn)[i] = C!Error(C!NA)
             /\ ~(i < span) => Of(fn)[i] = C!NumberValue(C!FoldOf(fn, q))
  BY WindowedRow
<1>3. C!IsError(Of("movingavg")[i]) <=> i < span
  <2>1. C!IsError(C!Error(C!NA)) /\ \A x : ~C!IsError(C!NumberValue(x))
    BY DEF C!IsError, C!Error, C!NumberValue
  <2> HIDE DEF Of
  <2> QED BY <1>2, <2>1
<1>4. ASSUME i >= span
      PROVE  /\ Of("movingavg")[i] = C!FnAvg(w) /\ Of("rollingmin")[i] = C!FnMin(w)
             /\ Of("rollingmax")[i] = C!FnMax(w)
  <2>1. i + 1 - span \in 1..i /\ ~(i < span)
    BY <1>4
  <2>2. /\ C!FnAvg(w) = C!NumberValue(C!MeanOf(q))
        /\ C!FnMin(w) = C!NumberValue(C!Least(q)) /\ C!FnMax(w) = C!NumberValue(C!Greatest(q))
    BY <2>1, PartAggregates
  <2> HIDE DEF Of, w, q
  <2>3. /\ C!FoldOf("movingavg", q) = C!MeanOf(q) /\ C!FoldOf("rollingmin", q) = C!Least(q)
        /\ C!FoldOf("rollingmax", q) = C!Greatest(q)
    BY DEF C!FoldOf
  <2> QED BY <1>2, <2>1, <2>2, <2>3
<1> QED BY <1>1, <1>3, <1>4 DEF RowsAreRanges

\* A row of the average that moves is of the cell and of the row above.
MovesOn(cells, span, i) ==
  LET Of(fn) == C!SeriesCall(fn, cells, span)
  IN  Of("ema")[i].num = (2 * cells[i].num + (span - 1) * Of("ema")[i - 1].num) \div (span + 1)

LEMMA EmaIs ==
  ASSUME NEW n \in Nat, NEW cells \in [1..n -> Entry], AllHave(cells), NEW span \in Nat \ {0},
         NEW i \in 2..n
  PROVE  MovesOn(cells, span, i)
<1> DEFINE nums == Nums(cells)
<1>1. nums \in [1..n -> Int] /\ DOMAIN nums = 1..n
  BY NumbersOf
<1>2. i \in 1..n /\ i - 1 \in 1..n /\ nums[i] = cells[i].num
  BY DEF Nums
<1>3. C!SeriesCall("ema", cells, span) = C!Build("ema", nums, span)
  BY CallIs
<1> HIDE DEF nums
<1>4. C!Build("ema", nums, span) = C!EmaSeries(nums, span)
  BY DEF C!Build
<1>5. C!EmaSeries(nums, span) = [j \in 1..n |-> C!NumberValue(EmaOf(nums, span)[j])]
  BY <1>1, EmaUnfolds
<1>6. EmaOf(nums, span)[i] = (2 * nums[i] + (span - 1) * EmaOf(nums, span)[i - 1]) \div (span + 1)
  BY <1>1, EmaNext
<1> DEFINE f == C!SeriesCall("ema", cells, span)
<1>7. f[i].num = EmaOf(nums, span)[i] /\ f[i - 1].num = EmaOf(nums, span)[i - 1]
  <2>1. f = [j \in 1..n |-> C!NumberValue(EmaOf(nums, span)[j])]
    BY <1>3, <1>4, <1>5
  <2> HIDE DEF f
  <2>2. f[i] = C!NumberValue(EmaOf(nums, span)[i]) /\ f[i - 1] = C!NumberValue(EmaOf(nums, span)[i - 1])
    BY <1>2, <2>1
  <2> QED BY <2>2 DEF C!NumberValue
<1> HIDE DEF f
<1>8. f[i].num = (2 * cells[i].num + (span - 1) * f[i - 1].num) \div (span + 1)
  BY <1>2, <1>6, <1>7
<1> QED BY <1>8 DEF f, MovesOn

\* The series of the first cells is the first rows of the series.
LEMMA SeriesOfFirst ==
  ASSUME NEW n \in Nat, NEW cells \in [1..n -> Entry], AllHave(cells), NEW span \in Nat \ {0},
         NEW fn, NEW i \in 1..n
  PROVE  C!SeriesCall(fn, SubSeq(cells, 1, i), span) = SubSeq(C!SeriesCall(fn, cells, span), 1, i)
<1> DEFINE p == SubSeq(cells, 1, i)
           nums == Nums(cells)
<1>1. 1 \in 1..i /\ i - 1 + 1 = i
  OBVIOUS
<1>2. Nums(p) = SubSeq(nums, 1, i) /\ AllHave(p) /\ PartFacts(Entry, cells, 1, i)
  BY <1>1, NumsOfPart
<1>3. p \in [1..i -> Entry] /\ i \in Nat
  BY <1>1, <1>2 DEF PartFacts
<1>4. C!SeriesCall(fn, cells, span) = C!Build(fn, nums, span) /\ nums \in [1..n -> Int]
  BY CallIs, NumbersOf
<1> HIDE DEF p, nums
<1>5. C!SeriesCall(fn, p, span) = C!Build(fn, Nums(p), span)
  BY <1>2, <1>3, CallIs
<1>6. C!Build(fn, SubSeq(nums, 1, i), span) = SubSeq(C!Build(fn, nums, span), 1, i)
  BY <1>4, BuildOfFirst
<1>7. C!SeriesCall(fn, p, span) = SubSeq(C!SeriesCall(fn, cells, span), 1, i)
  BY <1>2, <1>4, <1>5, <1>6
<1> QED BY <1>7 DEF p

\* Each row of a series is the aggregate of its window, as the functions of ranges
\* compute it, and is of no cell below it (builtins_series.go: windowed, emaSeries,
\* cumsumSeries; builtins.go).
THEOREM SeriesAreWindows == Spec => []WindowsAreRanges
<1>1. ColumnInv => WindowsAreRanges
  <2> SUFFICES ASSUME ColumnInv, owner = "columns", NEW span \in Spans, C!SeriesBad(column) = 0
               PROVE  LET Of(fn) == C!SeriesCall(fn, column, span)
                      IN  /\ \A fn \in C!SeriesFuncs, i \in 1..ColumnLength :
                               C!SeriesCall(fn, SubSeq(column, 1, i), span) = SubSeq(Of(fn), 1, i)
                          /\ \A i \in 1..ColumnLength : RowsAreRanges(column, span, i)
                          /\ \A i \in 2..ColumnLength : MovesOn(column, span, i)
    BY DEF WindowsAreRanges, C!WindowsAreRanges, RowsAreRanges, MovesOn
  <2>1. ColumnLength \in Nat /\ column \in [1..ColumnLength -> Entry] /\ span \in Nat \ {0}
    BY InputsAssumption DEF ColumnInv, C!InputsAreScalars
  <2>2. AllHave(column)
    BY <2>1, SeriesBadIs
  <2>3. ASSUME NEW i \in 1..ColumnLength
        PROVE  /\ RowsAreRanges(column, span, i)
               /\ \A fn : C!SeriesCall(fn, SubSeq(column, 1, i), span)
                            = SubSeq(C!SeriesCall(fn, column, span), 1, i)
    BY <2>1, <2>2, RowIsRange, SeriesOfFirst
  <2>4. \A i \in 2..ColumnLength : MovesOn(column, span, i)
    BY <2>1, <2>2, EmaIs
  <2> QED BY <2>3, <2>4
<1> QED BY <1>1, ColumnInvariance, PTL
=============================================================================
