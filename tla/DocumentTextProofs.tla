------------------------- MODULE DocumentTextProofs -------------------------
(***************************************************************************)
(* What the edits promise, for every document and every edit: references   *)
(* follow the cells they name, and the layout keeps one marker for every   *)
(* row.                                                                    *)
(***************************************************************************)
EXTENDS DocumentText, FiniteSetTheorems, SequenceTheorems, TLAPS

(*****************************************************************************)
(* Finite sets of natural numbers: their members are ranked 0, 1, ... in   *)
(* order, and the greatest of them exists.                                 *)
(*****************************************************************************)

Rank(S, i) == Cardinality({j \in S : j < i})

\* A member has fewer members below it than there are in all.
LEMMA RankRange ==
  ASSUME NEW S \in SUBSET Nat, IsFiniteSet(S), NEW i \in S
  PROVE  Rank(S, i) \in 0..(Cardinality(S) - 1)
<1> DEFINE below == {j \in S : j < i}
<1>1. below \subseteq S /\ i \notin below /\ below # S
  OBVIOUS
<1>2. /\ IsFiniteSet(below) /\ Cardinality(below) <= Cardinality(S)
      /\ Cardinality(below) = Cardinality(S) => below = S
  BY <1>1, FS_Subset
<1>3. Cardinality(below) \in Nat /\ Cardinality(S) \in Nat
  BY <1>2, FS_CardinalityType
<1> QED BY <1>1, <1>2, <1>3 DEF Rank

\* A greater member has a greater rank.
LEMMA RankGrows ==
  ASSUME NEW S \in SUBSET Nat, IsFiniteSet(S), NEW i \in S, NEW k \in S, i < k
  PROVE  Rank(S, i) < Rank(S, k)
<1> DEFINE low == {j \in S : j < i}
           high == {j \in S : j < k}
<1>1. low \subseteq high /\ high \subseteq S /\ i \in high /\ i \notin low
  <2>1. \A j \in S : j \in Nat
    OBVIOUS
  <2>2. \A j \in S : j < i => j < k
    BY <2>1
  <2>3. ~(i < i)
    BY <2>1
  <2> QED BY <2>2, <2>3
<1>2. IsFiniteSet(high)
  BY <1>1, FS_Subset
<1>3. /\ IsFiniteSet(low) /\ Cardinality(low) <= Cardinality(high)
      /\ Cardinality(low) = Cardinality(high) => low = high
  BY <1>1, <1>2, FS_Subset
<1>4. Cardinality(low) \in Nat /\ Cardinality(high) \in Nat
  BY <1>2, <1>3, FS_CardinalityType
<1> QED BY <1>1, <1>3, <1>4 DEF Rank

\* There is a member of every rank.
LEMMA RankOnto ==
  ASSUME NEW S \in SUBSET Nat, IsFiniteSet(S), NEW r \in 0..(Cardinality(S) - 1)
  PROVE  \E i \in S : Rank(S, i) = r
<1> DEFINE n == Cardinality(S)
           f == [i \in S |-> Rank(S, i)]
<1>1. n \in Nat
  BY FS_CardinalityType
<1>2. IsFiniteSet(0..(n - 1)) /\ Cardinality(0..(n - 1)) = n
  BY <1>1, FS_Interval
<1>3. f \in [S -> 0..(n - 1)]
  BY RankRange
<1>4. f \in Injection(S, 0..(n - 1))
  <2>1. ASSUME NEW i \in S, NEW k \in S, f[i] = f[k]  PROVE i = k
    <3>1. Rank(S, i) = Rank(S, k) /\ Rank(S, i) \in Int
      BY <1>1, <2>1, RankRange
    <3>2. ~(i < k) /\ ~(k < i)
      BY <3>1, RankGrows
    <3> QED BY <3>2
  <2> QED BY <1>3, <2>1 DEF Injection, IsInjective
<1>5. f \in Surjection(S, 0..(n - 1))
  BY <1>2, <1>4, FS_Injection
<1> QED BY <1>5 DEF Surjection

\* A finite non-empty set of numbers has a greatest member, and Max names it.
LEMMA MaxIsGreatest ==
  ASSUME NEW S \in SUBSET Nat, IsFiniteSet(S), S # {}
  PROVE  Max(S) \in S /\ \A j \in S : j <= Max(S)
<1> DEFINE Above(i) == {j \in S : j > i}
           T == {Above(i) : i \in S}
<1>1. IsWellFoundedOn(StrictSubsetOrdering(S), FiniteSubsetsOf(S))
  BY FS_StrictSubsetOrderingWellFounded
<1>2. T \subseteq FiniteSubsetsOf(S) /\ T # {}
  <2>1. \A i : Above(i) \in SUBSET S
    OBVIOUS
  <2>2. \A i : Above(i) \in FiniteSubsetsOf(S)
    BY <2>1, FS_Subset DEF FiniteSubsetsOf
  <2> HIDE DEF Above
  <2> QED BY <2>2
<1>3. PICK X \in T : \A Y \in T : <<Y, X>> \notin StrictSubsetOrdering(S)
  <2> HIDE DEF T
  <2> QED BY <1>1, <1>2, WFMin
<1>4. PICK i \in S : X = Above(i)
  BY <1>3
<1>5. ASSUME NEW k \in S, k > i  PROVE FALSE
  <2>1. k \in Above(i) /\ k \notin Above(k) /\ Above(k) \subseteq Above(i) /\ Above(i) \subseteq S
    <3>1. \A j \in S : j \in Nat
      OBVIOUS
    <3>2. ~(k > k) /\ \A j \in S : j > k => j > i
      BY <1>5, <3>1
    <3> QED BY <1>5, <3>2
  <2>2. <<Above(k), Above(i)>> \in StrictSubsetOrdering(S)
    BY <2>1 DEF StrictSubsetOrdering
  <2> QED BY <1>3, <1>4, <2>2
<1> HIDE DEF Above, T
<1>6. \A k \in S : i >= k
  BY <1>5
<1> QED BY <1>6 DEF Max

-----------------------------------------------------------------------------
(*****************************************************************************)
(* References: the shift of a line.                                        *)
(*****************************************************************************)

\* The numbers a set of lines has after an edit.
AfterAll(e, S) == UNION {After(e, x) : x \in S}

\* A range is shifted through its lower and higher line.  NewLo and NewHi enclose
\* exactly the lines that were enclosed, at their new numbers, and an inserted line
\* that falls among them; they cross when the only line enclosed is deleted.
LEMMA EndsFollow ==
  ASSUME NEW e \in Edit, NEW lo \in Line, NEW hi \in Line, lo <= hi
  PROVE  /\ NewLo(e, lo) \in Line /\ NewHi(e, hi) \in Line
         /\ NewLo(e, lo) > NewHi(e, hi) <=> AfterAll(e, lo..hi) = {}
         /\ (NewLo(e, lo)..NewHi(e, hi)) \ (IF e.op = "insert" THEN {e.at} ELSE {})
              = AfterAll(e, lo..hi)
         /\ e.op = "insert" /\ e.at \in NewLo(e, lo)..NewHi(e, hi) => e.at \in lo..hi
<1> DEFINE at == e.at
           S == AfterAll(e, lo..hi)
<1>1. at \in Int /\ e.op \in {"insert", "delete"} /\ lo \in Int /\ hi \in Int
  BY DEF Edit, Line
<1>2. CASE e.op = "insert"
  <2>1. \A y : y \in S <=> \E x \in lo..hi : y = IF x < at THEN x ELSE x + 1
    BY <1>2 DEF AfterAll, After
  <2>2. NewLo(e, lo) = (IF lo >= at THEN lo + 1 ELSE lo) /\ NewHi(e, hi) = IF hi >= at THEN hi + 1 ELSE hi
    BY <1>2 DEF NewLo, NewHi, ShiftUp
  <2>3. NewLo(e, lo) <= NewHi(e, hi) /\ NewLo(e, lo) \in Int /\ NewHi(e, hi) \in Int
    BY <1>1, <2>2
  <2>4. S # {}
    <3>1. lo \in lo..hi
      BY <1>1
    <3>2. (IF lo < at THEN lo ELSE lo + 1) \in S
      BY <2>1, <3>1
    <3> QED BY <3>2
  <2>5. ASSUME NEW y \in S  PROVE y \in (NewLo(e, lo)..NewHi(e, hi)) \ {at}
    BY <1>1, <2>1, <2>2
  <2>6. ASSUME NEW y \in (NewLo(e, lo)..NewHi(e, hi)) \ {at}  PROVE y \in S
    <3>1. CASE y < at
      BY <1>1, <2>1, <2>2, <3>1
    <3>2. CASE y > at
      <4>1. y - 1 \in lo..hi /\ ~(y - 1 < at) /\ y = (y - 1) + 1
        BY <1>1, <2>2, <3>2
      <4> QED BY <2>1, <4>1
    <3> QED BY <1>1, <2>2, <3>1, <3>2
  <2>7. at \in NewLo(e, lo)..NewHi(e, hi) => at \in lo..hi
    BY <1>1, <2>2
  <2> QED BY <1>1, <1>2, <2>3, <2>4, <2>5, <2>6, <2>7 DEF Line
<1>3. CASE e.op = "delete"
  <2>1. \A y : y \in S <=> \E x \in lo..hi : x # at /\ y = IF x < at THEN x ELSE x - 1
    BY <1>3 DEF AfterAll, After
  <2>2. NewLo(e, lo) = (IF lo > at THEN lo - 1 ELSE lo) /\ NewHi(e, hi) = IF hi >= at THEN hi - 1 ELSE hi
    BY <1>3 DEF NewLo, NewHi, DeleteLo, DeleteHi, ShiftDown
  <2>3. NewLo(e, lo) \in Int /\ NewHi(e, hi) \in Int
    BY <1>1, <2>2
  <2>4. ASSUME NEW y \in S  PROVE y \in NewLo(e, lo)..NewHi(e, hi)
    BY <1>1, <2>1, <2>2
  <2>5. ASSUME NEW y \in NewLo(e, lo)..NewHi(e, hi)  PROVE y \in S
    <3>1. CASE y < at
      BY <1>1, <2>1, <2>2, <3>1
    <3>2. CASE y >= at
      <4>1. y + 1 \in lo..hi /\ y + 1 # at /\ ~(y + 1 < at) /\ y = (y + 1) - 1
        BY <1>1, <2>2, <3>2
      <4> QED BY <2>1, <4>1
    <3> QED BY <1>1, <2>2, <3>1, <3>2
  <2>6. NewLo(e, lo) > NewHi(e, hi) <=> S = {}
    <3>1. ASSUME NewLo(e, lo) > NewHi(e, hi)  PROVE S = {}
      BY <2>3, <2>4, <3>1
    <3>2. ASSUME ~(NewLo(e, lo) > NewHi(e, hi))  PROVE S # {}
      BY <2>3, <2>5, <3>2
    <3> QED BY <3>1, <3>2
  <2> QED BY <1>3, <2>3, <2>4, <2>5, <2>6 DEF Line
<1> QED BY <1>1, <1>2, <1>3

-----------------------------------------------------------------------------

InSheet == {ref \in Reference : ref.kind \in {"cell", "range"}}

LEMMA SpanEnds ==
  ASSUME NEW x \in Line, NEW y \in Line
  PROVE  /\ Lower(x, y) \in Line /\ Higher(x, y) \in Line
         /\ Lower(x, y) <= Higher(x, y)
         /\ Lower(x, x) = x /\ Higher(x, x) = x
BY DEF Lower, Higher, Line

LEMMA WithLineValues ==
  ASSUME NEW p \in Position, NEW axis \in Axis, NEW x \in Line
  PROVE  /\ WithLine(p, axis, x) \in Position
         /\ WithLine(p, axis, x)[axis] = x
BY DEF WithLine, Position

LEMMA OtherLine ==
  ASSUME NEW p \in Position, NEW axis \in Axis, NEW x, NEW other \in Axis, other # axis
  PROVE  WithLine(p, axis, x)[other] = p[other]
BY DEF WithLine, Position

LEMMA ReferenceShape ==
  ASSUME NEW ref \in InSheet
  PROVE  /\ ref.from \in Position
         /\ ref.kind = "cell" => ref = [kind |-> "cell", from |-> ref.from]
         /\ ref.kind # "cell" => /\ ref.kind = "range" /\ ref.to \in Position
                                 /\ ref = [kind |-> "range", from |-> ref.from, to |-> ref.to]
BY DEF InSheet, Reference

LEMMA PointSpan ==
  ASSUME NEW ref, NEW axis, ref.kind = "cell"
  PROVE  Span(ref, axis) = Lower(ref.from[axis], ref.from[axis])..Higher(ref.from[axis], ref.from[axis])
BY DEF Span

LEMMA RangeSpan ==
  ASSUME NEW ref, NEW axis, ref.kind # "cell"
  PROVE  Span(ref, axis) = Lower(ref.from[axis], ref.to[axis])..Higher(ref.from[axis], ref.to[axis])
BY DEF Span

\* A cell reference covers one line, and ends on it.
LEMMA PointFollows ==
  ASSUME NEW ref \in InSheet, ref.kind = "cell", NEW e \in Edit
  PROVE  LET new == ShiftReference(ref, e)
             moved == AfterAll(e, Span(ref, e.axis))
         IN IF moved = {} THEN new = RefError
            ELSE /\ new \in InSheet /\ new.kind = "cell"
                 /\ Span(new, e.axis) = moved
                 /\ \A axis \in Axis : axis # e.axis => Span(new, axis) = Span(ref, axis)
<1> DEFINE x == ref.from[e.axis]
           y == NewLo(e, x)
           to == [kind |-> "cell", from |-> WithLine(ref.from, e.axis, y)]
           moved == AfterAll(e, Span(ref, e.axis))
<1>1. /\ e.axis \in Axis /\ e.at \in Line /\ e.op \in {"insert", "delete"}
      /\ ref.from \in Position /\ x \in Line
  BY ReferenceShape DEF Edit, Position
<1>2. Span(ref, e.axis) = {x}
  <2>1. Span(ref, e.axis) = Lower(x, x)..Higher(x, x)
    BY PointSpan
  <2> QED BY <1>1, <2>1 DEF Lower, Higher, Line
<1>3. moved = After(e, x)
  BY <1>2 DEF AfterAll
<1>4. ShiftReference(ref, e) = IF e.op = "delete" /\ x = e.at THEN RefError ELSE to
  BY DEF ShiftReference, ShiftPoint
<1>5. CASE e.op = "delete" /\ x = e.at
  BY <1>3, <1>4, <1>5 DEF After
<1>6. CASE ~(e.op = "delete" /\ x = e.at)
  <2>1. y \in Line /\ After(e, x) = {y}
    BY <1>1, <1>6 DEF After, NewLo, ShiftUp, DeleteLo, ShiftDown, Line
  <2>2. to \in InSheet /\ to.kind = "cell" /\ to.from = WithLine(ref.from, e.axis, y)
    BY <1>1, <2>1, WithLineValues DEF InSheet, Reference
  <2>3. Span(to, e.axis) = {y}
    <3>1. Span(to, e.axis) = Lower(y, y)..Higher(y, y)
      <4>1. to.from[e.axis] = y
        BY <1>1, <2>1, <2>2, WithLineValues
      <4> HIDE DEF to
      <4> QED BY <2>2, <4>1, PointSpan
    <3> QED BY <2>1, <3>1 DEF Lower, Higher, Line
  <2>4. ASSUME NEW axis \in Axis, axis # e.axis  PROVE Span(to, axis) = Span(ref, axis)
    <3> HIDE DEF to
    <3>1. to.from[axis] = ref.from[axis]
      <4>1. WithLine(ref.from, e.axis, y)[axis] = ref.from[axis]
        BY <1>1, <2>4, OtherLine
      <4> QED BY <2>2, <4>1
    <3> QED BY <2>2, <3>1, PointSpan
  <2> QED BY <1>3, <1>4, <1>6, <2>1, <2>2, <2>3, <2>4
<1> QED BY <1>5, <1>6

\* A range covers what its lower and higher line enclose, whichever corner has which.
LEMMA RangeFollows ==
  ASSUME NEW ref \in InSheet, ref.kind = "range", NEW e \in Edit
  PROVE  LET new == ShiftReference(ref, e)
             moved == AfterAll(e, Span(ref, e.axis))
         IN IF moved = {} THEN new = RefError
            ELSE /\ new \in InSheet /\ new.kind = "range"
                 /\ Span(new, e.axis) \ (IF e.op = "insert" THEN {e.at} ELSE {}) = moved
                 /\ e.op = "insert" /\ e.at \in Span(new, e.axis) => e.at \in Span(ref, e.axis)
                 /\ \A axis \in Axis : axis # e.axis => Span(new, axis) = Span(ref, axis)
<1> DEFINE x == ref.from[e.axis]
           y == ref.to[e.axis]
           lo == NewLo(e, Lower(x, y))
           hi == NewHi(e, Higher(x, y))
           f == IF x > y THEN hi ELSE lo
           t == IF x > y THEN lo ELSE hi
           to == [kind |-> "range", from |-> WithLine(ref.from, e.axis, f),
                                    to |-> WithLine(ref.to, e.axis, t)]
           moved == AfterAll(e, Span(ref, e.axis))
<1>1. /\ e.axis \in Axis /\ ref.from \in Position /\ ref.to \in Position
      /\ x \in Line /\ y \in Line
  BY ReferenceShape DEF Edit, Position
<1>2. Span(ref, e.axis) = Lower(x, y)..Higher(x, y)
  BY DEF Span
<1>3. /\ lo \in Line /\ hi \in Line
      /\ lo > hi <=> moved = {}
      /\ (lo..hi) \ (IF e.op = "insert" THEN {e.at} ELSE {}) = moved
      /\ e.op = "insert" /\ e.at \in lo..hi => e.at \in Span(ref, e.axis)
  <2> DEFINE low == Lower(x, y)
             high == Higher(x, y)
  <2>1. low \in Line /\ high \in Line /\ low <= high
    BY <1>1, SpanEnds
  <2> HIDE DEF low, high
  <2>2. /\ NewLo(e, low) \in Line /\ NewHi(e, high) \in Line
        /\ NewLo(e, low) > NewHi(e, high) <=> AfterAll(e, low..high) = {}
        /\ (NewLo(e, low)..NewHi(e, high)) \ (IF e.op = "insert" THEN {e.at} ELSE {})
             = AfterAll(e, low..high)
        /\ e.op = "insert" /\ e.at \in NewLo(e, low)..NewHi(e, high) => e.at \in low..high
    BY <2>1, EndsFollow
  <2> QED BY <1>2, <2>2, Zenon DEF low, high
<1>4. ShiftReference(ref, e) = IF lo > hi THEN RefError ELSE to
  BY DEF ShiftReference, ShiftSpan
<1>5. CASE lo > hi
  BY <1>3, <1>4, <1>5
<1>6. CASE ~(lo > hi)
  <2>1. f \in Line /\ t \in Line /\ Lower(f, t) = lo /\ Higher(f, t) = hi
    BY <1>1, <1>3, <1>6 DEF Lower, Higher, Line
  <2>2. /\ to \in InSheet /\ to.kind = "range"
        /\ to.from = WithLine(ref.from, e.axis, f) /\ to.to = WithLine(ref.to, e.axis, t)
    BY <1>1, <2>1, WithLineValues DEF InSheet, Reference
  <2>3. Span(to, e.axis) = lo..hi
    <3> HIDE DEF to, f, t, lo, hi
    <3>1. to.from[e.axis] = f /\ to.to[e.axis] = t
      BY <1>1, <2>1, <2>2, WithLineValues
    <3> QED BY <2>1, <2>2, <3>1, RangeSpan
  <2>4. ASSUME NEW axis \in Axis, axis # e.axis  PROVE Span(to, axis) = Span(ref, axis)
    <3> HIDE DEF to, f, t, lo, hi
    <3>1. to.from[axis] = ref.from[axis] /\ to.to[axis] = ref.to[axis]
      <4>1. /\ WithLine(ref.from, e.axis, f)[axis] = ref.from[axis]
            /\ WithLine(ref.to, e.axis, t)[axis] = ref.to[axis]
        BY <1>1, <2>4, OtherLine
      <4> QED BY <2>2, <4>1
    <3> QED BY <2>2, <3>1, RangeSpan
  <2> QED BY <1>3, <1>4, <1>6, <2>2, <2>3, <2>4
<1> QED BY <1>5, <1>6

\* After any edit of a line, a reference of the sheet itself covers exactly the
\* lines it covered, where they are now, and an inserted line only if that fell among
\* them; on the other axis it covers what it did.  It becomes #REF! exactly when
\* the edit deleted the only line it covered.  This is what structural.go's
\* shiftReference is for: D5:D2 as well as D2:D5, on and off the grid.
THEOREM ReferenceFollows ==
  ASSUME NEW ref \in InSheet, NEW e \in Edit
  PROVE  LET new == ShiftReference(ref, e)
             moved == AfterAll(e, Span(ref, e.axis))
         IN /\ new = RefError <=> moved = {}
            /\ new # RefError =>
                 /\ new \in InSheet /\ new.kind = ref.kind
                 /\ Span(new, e.axis) \ (IF e.op = "insert" THEN {e.at} ELSE {}) = moved
                 /\ e.op = "insert" /\ e.at \in Span(new, e.axis) => e.at \in Span(ref, e.axis)
                 /\ \A axis \in Axis : axis # e.axis => Span(new, axis) = Span(ref, axis)
<1> DEFINE new == ShiftReference(ref, e)
           moved == AfterAll(e, Span(ref, e.axis))
<1>1. CASE ref.kind = "cell"
  <2>1. CASE moved = {}
    BY <1>1, <2>1, PointFollows
  <2>2. CASE moved # {}
    <3>1. /\ new \in InSheet /\ new.kind = "cell" /\ Span(new, e.axis) = moved
          /\ \A axis \in Axis : axis # e.axis => Span(new, axis) = Span(ref, axis)
      BY <1>1, <2>2, PointFollows
    <3>2. new # RefError
      BY <3>1 DEF RefError
    <3>3. e.op = "insert" => e.at \notin moved
      <4>1. ASSUME e.op = "insert", NEW z, e.at \in After(e, z), z \in Span(ref, e.axis)  PROVE FALSE
        <5>1. z \in Int /\ e.at \in Int
          BY <4>1, <1>1 DEF Span, Edit, Line
        <5> QED BY <4>1, <5>1 DEF After
      <4> QED BY <4>1 DEF AfterAll
    <3> QED BY <1>1, <2>2, <3>1, <3>2, <3>3
  <2> QED BY <2>1, <2>2
<1>2. CASE ref.kind # "cell"
  <2>0. ref.kind = "range"
    BY <1>2, ReferenceShape
  <2>1. CASE moved = {}
    BY <2>0, <2>1, RangeFollows
  <2>2. CASE moved # {}
    <3>1. /\ new \in InSheet /\ new.kind = "range"
          /\ Span(new, e.axis) \ (IF e.op = "insert" THEN {e.at} ELSE {}) = moved
          /\ e.op = "insert" /\ e.at \in Span(new, e.axis) => e.at \in Span(ref, e.axis)
          /\ \A axis \in Axis : axis # e.axis => Span(new, axis) = Span(ref, axis)
      BY <2>0, <2>2, RangeFollows
    <3>2. new # RefError
      BY <3>1 DEF RefError
    <3> QED BY <2>0, <2>2, <3>1, <3>2
  <2> QED BY <2>1, <2>2
<1> QED BY <1>1, <1>2

LEMMA EndsComeBack ==
  ASSUME NEW axis \in Axis, NEW at \in Line, NEW x \in Line
  PROVE  /\ NewLo(Delete(axis, at), NewLo(Insert(axis, at), x)) = x
         /\ NewHi(Delete(axis, at), NewHi(Insert(axis, at), x)) = x
         /\ NewLo(Insert(axis, at), x) = NewHi(Insert(axis, at), x)
         /\ NewLo(Insert(axis, at), x) \in Line
         /\ NewLo(Insert(axis, at), x) # at
         /\ \A y \in Line : x > y <=> NewLo(Insert(axis, at), x) > NewLo(Insert(axis, at), y)
BY DEF NewLo, NewHi, Insert, Delete, ShiftUp, DeleteLo, DeleteHi, ShiftDown, Line

LEMMA WithLineTwice ==
  ASSUME NEW p \in Position, NEW axis \in Axis, NEW x
  PROVE  WithLine(WithLine(p, axis, x), axis, p[axis]) = p
BY DEF WithLine, Position

\* Deleting a line right after inserting it gives every reference back exactly as
\* it was, reversed ranges and ranges that ran through the line included.
THEOREM DeleteRestoresReference ==
  ASSUME NEW ref \in Reference, NEW axis \in Axis, NEW at \in Line
  PROVE  ShiftReference(ShiftReference(ref, Insert(axis, at)), Delete(axis, at)) = ref
<1> DEFINE ins == Insert(axis, at)
           del == Delete(axis, at)
           new == ShiftReference(ref, ins)
           x == ref.from[axis]
           y == ref.to[axis]
           x1 == NewLo(ins, x)
           y1 == NewLo(ins, y)
<1>0. ins.op = "insert" /\ ins.axis = axis /\ del.op = "delete" /\ del.axis = axis /\ del.at = at
  BY DEF Insert, Delete
<1>1. CASE ref.kind \notin {"cell", "range"}
  BY <1>1 DEF ShiftReference
<1>2. CASE ref.kind = "cell"
  <2>1. ref.from \in Position /\ x \in Line /\ ref = [kind |-> "cell", from |-> ref.from]
    BY <1>2 DEF Reference, Position
  <2>2. new = [kind |-> "cell", from |-> WithLine(ref.from, axis, x1)]
    BY <1>0, <1>2 DEF ShiftReference, ShiftPoint
  <2>3. new.kind = "cell" /\ new.from = WithLine(ref.from, axis, x1)
    BY <2>2
  <2>4. new.from[axis] = x1 /\ x1 # at /\ NewLo(del, x1) = x
    BY <2>1, <2>3, EndsComeBack, WithLineValues
  <2> HIDE DEF new, ins, del
  <2>5. ShiftReference(new, del) = [kind |-> "cell", from |-> WithLine(new.from, axis, NewLo(del, x1))]
    BY <1>0, <2>3, <2>4 DEF ShiftReference, ShiftPoint
  <2> QED BY <2>1, <2>3, <2>4, <2>5, WithLineTwice DEF new, ins, del
<1>3. CASE ref.kind = "range"
  <2>1. /\ ref.from \in Position /\ ref.to \in Position /\ x \in Line /\ y \in Line
        /\ ref = [kind |-> "range", from |-> ref.from, to |-> ref.to]
    BY <1>3 DEF Reference, Position
  <2>2. /\ x1 \in Line /\ y1 \in Line
        /\ x > y <=> x1 > y1
        /\ NewHi(ins, x) = x1 /\ NewHi(ins, y) = y1
        /\ NewLo(del, x1) = x /\ NewHi(del, x1) = x /\ NewLo(del, y1) = y /\ NewHi(del, y1) = y
    BY <2>1, EndsComeBack
  <2> HIDE DEF ins, del, x1, y1
  <2>3. new = [kind |-> "range", from |-> WithLine(ref.from, axis, x1), to |-> WithLine(ref.to, axis, y1)]
    <3> DEFINE lo == NewLo(ins, Lower(x, y))
               hi == NewHi(ins, Higher(x, y))
    <3>1. /\ ~(lo > hi)
          /\ (IF x > y THEN hi ELSE lo) = x1
          /\ (IF x > y THEN lo ELSE hi) = y1
      <4>1. Lower(x, y) = (IF x > y THEN y ELSE x) /\ Higher(x, y) = IF x > y THEN x ELSE y
        BY <2>1 DEF Lower, Higher, Line
      <4>2. lo = (IF x > y THEN y1 ELSE x1) /\ hi = IF x > y THEN x1 ELSE y1
        BY <2>2, <4>1 DEF x1, y1
      <4> HIDE DEF x, y, lo, hi
      <4> QED BY <2>1, <2>2, <4>2 DEF Line
    <3> QED BY <1>0, <1>3, <3>1 DEF ShiftReference, ShiftSpan
  <2>4. /\ new.kind = "range" /\ new.from = WithLine(ref.from, axis, x1)
        /\ new.to = WithLine(ref.to, axis, y1)
    BY <2>3
  <2> HIDE DEF new
  <2>5. new.from[axis] = x1 /\ new.to[axis] = y1
    <3>1. WithLine(ref.from, axis, x1)[axis] = x1 /\ WithLine(ref.to, axis, y1)[axis] = y1
      <4> HIDE DEF x, y
      <4> QED BY <2>1, <2>2, WithLineValues
    <3> QED BY <2>4, <3>1
  <2>6. ShiftReference(new, del) = [kind |-> "range", from |-> WithLine(new.from, axis, x),
                                                      to |-> WithLine(new.to, axis, y)]
    <3> DEFINE lo == NewLo(del, Lower(x1, y1))
               hi == NewHi(del, Higher(x1, y1))
    <3>1. /\ ~(lo > hi)
          /\ (IF x1 > y1 THEN hi ELSE lo) = x
          /\ (IF x1 > y1 THEN lo ELSE hi) = y
      <4>1. Lower(x1, y1) = (IF x1 > y1 THEN y1 ELSE x1) /\ Higher(x1, y1) = IF x1 > y1 THEN x1 ELSE y1
        BY <2>2 DEF Lower, Higher, Line
      <4>2. lo = (IF x1 > y1 THEN y ELSE x) /\ hi = IF x1 > y1 THEN x ELSE y
        BY <2>2, <4>1
      <4> HIDE DEF x, y, lo, hi
      <4> QED BY <2>1, <2>2, <4>2 DEF Line
    <3>2. ShiftReference(new, del) = ShiftSpan(new, del)
      BY <2>4 DEF ShiftReference
    <3> HIDE DEF x, y
    <3> QED BY <1>0, <2>5, <3>1, <3>2 DEF ShiftSpan
  <2> QED BY <2>1, <2>4, <2>6, WithLineTwice DEF new, ins, del
<1> QED BY <1>1, <1>2, <1>3

-----------------------------------------------------------------------------
(***************************************************************************)
(* Sequences with an element more or less.                                 *)
(***************************************************************************)

\* t is s with x put before its i-th element.
Inserted(t, T, s, i, x) ==
  /\ t \in Seq(T)
  /\ Len(t) = Len(s) + 1
  /\ \A j \in 1..(Len(s) + 1) : t[j] = IF j < i THEN s[j] ELSE IF j = i THEN x ELSE s[j - 1]

LEMMA InsertAtProperties ==
  ASSUME NEW T, NEW s \in Seq(T), NEW i \in 1..(Len(s) + 1), NEW x \in T
  PROVE  Inserted(InsertAt(s, i, x), T, s, i, x)
<1> DEFINE a == SubSeq(s, 1, i - 1)
           b == SubSeq(s, i, Len(s))
           ax == a \o <<x>>
<1>1. /\ a \in Seq(T) /\ Len(a) = i - 1
      /\ \A j \in 1..(i - 1) : a[j] = s[j]
  BY SubSeqProperties
<1>2. /\ b \in Seq(T) /\ Len(b) = Len(s) - i + 1
      /\ \A j \in 1..(Len(s) - i + 1) : b[j] = s[i + j - 1]
  BY SubSeqProperties
<1>3. /\ <<x>> \in Seq(T) /\ Len(<<x>>) = 1 /\ <<x>>[1] = x
  OBVIOUS
<1> HIDE DEF a, b
<1>4. /\ ax \in Seq(T) /\ Len(ax) = i
      /\ \A j \in 1..i : ax[j] = IF j < i THEN s[j] ELSE x
  BY <1>1, <1>3, ConcatProperties
<1> HIDE DEF ax
<1>5. /\ ax \o b \in Seq(T) /\ Len(ax \o b) = Len(s) + 1
      /\ \A j \in 1..(Len(s) + 1) : (ax \o b)[j] = IF j <= i THEN ax[j] ELSE b[j - i]
  <2>1. Len(ax) = i /\ Len(ax) + Len(b) = Len(s) + 1
    BY <1>2, <1>4
  <2>2. /\ ax \o b \in Seq(T) /\ Len(ax \o b) = Len(ax) + Len(b)
        /\ \A j \in 1..(Len(ax) + Len(b)) :
             (ax \o b)[j] = IF j <= Len(ax) THEN ax[j] ELSE b[j - Len(ax)]
    BY <1>2, <1>4, ConcatProperties
  <2> QED BY <2>1, <2>2
<1>6. ASSUME NEW j \in 1..(Len(s) + 1)
      PROVE  (ax \o b)[j] = IF j < i THEN s[j] ELSE IF j = i THEN x ELSE s[j - 1]
  <2>1. CASE j <= i
    <3>1. (ax \o b)[j] = ax[j] /\ j \in 1..i
      BY <1>5, <2>1
    <3> QED BY <1>4, <2>1, <3>1
  <2>2. CASE ~(j <= i)
    <3>1. (ax \o b)[j] = b[j - i]
      BY <1>5, <2>2
    <3>2. j - i \in 1..(Len(s) - i + 1) /\ i + (j - i) - 1 = j - 1
      BY <2>2
    <3>3. b[j - i] = s[i + (j - i) - 1]
      BY <1>2, <3>2
    <3> QED BY <2>2, <3>1, <3>2, <3>3
  <2> QED BY <2>1, <2>2
<1>7. InsertAt(s, i, x) = ax \o b
  BY DEF InsertAt, ax, a, b
<1>8. Inserted(ax \o b, T, s, i, x)
  BY <1>5, <1>6 DEF Inserted
<1> QED BY <1>7, <1>8

LEMMA RemoveAtProperties ==
  ASSUME NEW T, NEW s \in Seq(T), NEW i \in 1..Len(s)
  PROVE  /\ RemoveAt(s, i) \in Seq(T)
         /\ Len(RemoveAt(s, i)) = Len(s) - 1
         /\ \A j \in 1..(Len(s) - 1) : RemoveAt(s, i)[j] = IF j < i THEN s[j] ELSE s[j + 1]
<1> DEFINE a == SubSeq(s, 1, i - 1)
           b == SubSeq(s, i + 1, Len(s))
<1>1. /\ a \in Seq(T) /\ Len(a) = i - 1
      /\ \A j \in 1..(i - 1) : a[j] = s[j]
  BY SubSeqProperties
<1>2. /\ b \in Seq(T) /\ Len(b) = Len(s) - i
      /\ \A j \in 1..(Len(s) - i) : b[j] = s[i + j]
  BY SubSeqProperties
<1> HIDE DEF a, b
<1>3. /\ a \o b \in Seq(T) /\ Len(a \o b) = Len(s) - 1
      /\ \A j \in 1..(Len(s) - 1) : (a \o b)[j] = IF j <= i - 1 THEN a[j] ELSE b[j - (i - 1)]
  <2>1. Len(a) = i - 1 /\ Len(a) + Len(b) = Len(s) - 1
    BY <1>1, <1>2
  <2>2. /\ a \o b \in Seq(T) /\ Len(a \o b) = Len(a) + Len(b)
        /\ \A j \in 1..(Len(a) + Len(b)) :
             (a \o b)[j] = IF j <= Len(a) THEN a[j] ELSE b[j - Len(a)]
    BY <1>1, <1>2, ConcatProperties
  <2> QED BY <2>1, <2>2
<1>4. ASSUME NEW j \in 1..(Len(s) - 1)
      PROVE  (a \o b)[j] = IF j < i THEN s[j] ELSE s[j + 1]
  <2>1. CASE j < i
    <3>1. (a \o b)[j] = a[j] /\ j \in 1..(i - 1)
      BY <1>3, <2>1
    <3> QED BY <1>1, <2>1, <3>1
  <2>2. CASE ~(j < i)
    <3>1. (a \o b)[j] = b[j - (i - 1)]
      BY <1>3, <2>2
    <3>2. j - (i - 1) \in 1..(Len(s) - i) /\ i + (j - (i - 1)) = j + 1
      BY <2>2
    <3>3. b[j - (i - 1)] = s[i + (j - (i - 1))]
      BY <1>2, <3>2
    <3> QED BY <2>2, <3>1, <3>2, <3>3
  <2> QED BY <2>1, <2>2
<1>5. RemoveAt(s, i) = a \o b
  BY DEF RemoveAt, a, b
<1> QED BY <1>3, <1>4, <1>5

-----------------------------------------------------------------------------
(***************************************************************************)
(* The markers of a layout, counted as it is edited.                       *)
(***************************************************************************)

LEMMA MarkersFinite ==
  ASSUME NEW layout \in Seq(DocLine)
  PROVE  /\ Markers(layout) \in SUBSET Nat /\ Markers(layout) \subseteq 1..Len(layout)
         /\ IsFiniteSet(Markers(layout)) /\ Cardinality(Markers(layout)) \in Nat
<1>1. Markers(layout) \subseteq 1..Len(layout)
  BY DEF Markers
<1>2. IsFiniteSet(1..Len(layout))
  BY FS_Interval
<1>3. IsFiniteSet(Markers(layout))
  BY <1>1, <1>2, FS_Subset
<1> QED BY <1>1, <1>3, FS_CardinalityType

LEMMA MarkerFound ==
  ASSUME NEW layout \in Seq(DocLine), NEW row \in 0..(Cardinality(Markers(layout)) - 1)
  PROVE  /\ MarkerIndex(layout, row) \in Markers(layout)
         /\ MarkersBefore(layout, MarkerIndex(layout, row)) = row
<1>1. \E i \in Markers(layout) : Rank(Markers(layout), i) = row
  BY MarkersFinite, RankOnto
<1>2. \E i \in Markers(layout) : MarkersBefore(layout, i) = row
  BY <1>1 DEF Rank, MarkersBefore
<1> QED BY <1>2 DEF MarkerIndex

LEMMA MarkerIndexInRange ==
  ASSUME NEW layout \in Seq(DocLine), NEW row \in Int
  PROVE  MarkerIndex(layout, row) \in 1..(Len(layout) + 1)
<1>1. CASE row \in 0..(Cardinality(Markers(layout)) - 1)
  BY <1>1, MarkerFound, MarkersFinite
<1>2. CASE row \notin 0..(Cardinality(Markers(layout)) - 1)
  BY <1>2 DEF MarkerIndex
<1> QED BY <1>1, <1>2

LEMMA MarkerType == Marker \in DocLine /\ Marker.isRow
<1>1. <<>> \in Seq(Cell)
  BY EmptySeq
<1> QED BY <1>1 DEF Marker, DocLine

LEMMA InsertedMarker ==
  ASSUME NEW layout \in Seq(DocLine), NEW i \in 1..(Len(layout) + 1)
  PROVE  Cardinality(Markers(InsertAt(layout, i, Marker))) = Cardinality(Markers(layout)) + 1
<1> DEFINE new == InsertAt(layout, i, Marker)
           M == Markers(layout)
           N == Markers(new)
           f == [j \in M |-> IF j < i THEN j ELSE j + 1]
<1>1. /\ new \in Seq(DocLine) /\ Len(new) = Len(layout) + 1
      /\ \A j \in 1..(Len(layout) + 1) :
           new[j] = IF j < i THEN layout[j] ELSE IF j = i THEN Marker ELSE layout[j - 1]
  <2>1. Inserted(new, DocLine, layout, i, Marker)
    BY MarkerType, InsertAtProperties
  <2> HIDE DEF new
  <2> QED BY <2>1 DEF Inserted
<1> HIDE DEF new
<1>2. \A j : j \in M <=> j \in 1..Len(layout) /\ layout[j].isRow
  BY DEF Markers
<1>3. \A j : j \in N <=> j \in 1..(Len(layout) + 1) /\ new[j].isRow
  BY <1>1 DEF Markers
<1>4. i \in N
  <2>1. i \in 1..(Len(layout) + 1) /\ new[i] = Marker
    BY <1>1
  <2> QED BY <1>3, <2>1, MarkerType
<1> HIDE DEF M, N
<1>5. ASSUME NEW j \in M  PROVE f[j] \in N \ {i}
  <2>1. CASE j < i
    <3>1. j \in 1..(Len(layout) + 1) /\ layout[j].isRow /\ new[j] = layout[j]
      BY <1>1, <1>2, <2>1
    <3>2. j \in N /\ j # i
      BY <1>3, <2>1, <3>1
    <3> QED BY <2>1, <3>2
  <2>2. CASE ~(j < i)
    <3>1. j \in 1..Len(layout) /\ layout[j].isRow /\ (j + 1) - 1 = j /\ ~(j + 1 < i) /\ j + 1 # i
      BY <1>2, <2>2
    <3>2. new[j + 1] = layout[j]
      BY <1>1, <3>1
    <3>3. j + 1 \in N
      BY <1>3, <3>1, <3>2
    <3> QED BY <2>2, <3>1, <3>3
  <2> QED BY <2>1, <2>2
<1>6. \A k \in N \ {i} : \E j \in M : f[j] = k
  <2> SUFFICES ASSUME NEW k \in N \ {i}  PROVE \E j \in M : f[j] = k
    OBVIOUS
  <2>1. CASE k < i
    BY <1>1, <1>2, <1>3, <2>1
  <2>2. CASE k > i
    <3>1. k \in 2..(Len(layout) + 1) /\ new[k].isRow /\ ~(k < i) /\ k # i
      BY <1>3, <2>2
    <3>2. new[k] = layout[k - 1] /\ k - 1 \in 1..Len(layout)
      BY <1>1, <3>1
    <3>3. k - 1 \in M
      BY <1>2, <3>1, <3>2
    <3>4. ~(k - 1 < i) /\ (k - 1) + 1 = k
      BY <2>2, <3>1
    <3> QED BY <3>3, <3>4
  <2> QED BY <1>3, <2>1, <2>2
<1>7. \A j, k \in M : f[j] = f[k] => j = k
  BY <1>2
<1>8. f \in Bijection(M, N \ {i})
  BY <1>5, <1>6, <1>7 DEF Bijection, Injection, Surjection, IsInjective
<1>9. /\ IsFiniteSet(M) /\ Cardinality(M) \in Nat
      /\ IsFiniteSet(N) /\ Cardinality(N) \in Nat
  BY <1>1, MarkersFinite DEF M, N
<1>10. Cardinality(N \ {i}) = Cardinality(M)
  BY <1>8, <1>9, FS_Bijection DEF ExistsBijection
<1>11. Cardinality(N \ {i}) = Cardinality(N) - 1
  BY <1>4, <1>9, FS_RemoveElement
<1> QED BY <1>9, <1>10, <1>11 DEF M, N, new

LEMMA RemovedMarker ==
  ASSUME NEW layout \in Seq(DocLine), NEW i \in Markers(layout)
  PROVE  Cardinality(Markers(RemoveAt(layout, i))) = Cardinality(Markers(layout)) - 1
<1> DEFINE new == RemoveAt(layout, i)
           M == Markers(layout)
           N == Markers(new)
           f == [j \in N |-> IF j < i THEN j ELSE j + 1]
<1>0. i \in 1..Len(layout)
  BY MarkersFinite
<1>1. /\ new \in Seq(DocLine) /\ Len(new) = Len(layout) - 1
      /\ \A j \in 1..(Len(layout) - 1) : new[j] = IF j < i THEN layout[j] ELSE layout[j + 1]
  BY <1>0, RemoveAtProperties
<1> HIDE DEF new
<1>2. \A j : j \in M <=> j \in 1..Len(layout) /\ layout[j].isRow
  BY DEF Markers
<1>3. \A j : j \in N <=> j \in 1..(Len(layout) - 1) /\ new[j].isRow
  BY <1>1 DEF Markers
<1>4. i \in M
  OBVIOUS
<1> HIDE DEF M, N
<1>5. ASSUME NEW j \in N  PROVE f[j] \in M \ {i}
  <2>1. j \in 1..(Len(layout) - 1) /\ new[j].isRow
    BY <1>3
  <2>2. CASE j < i
    <3>1. new[j] = layout[j] /\ j \in 1..Len(layout)
      BY <1>1, <2>1, <2>2
    <3> QED BY <1>2, <2>1, <2>2, <3>1
  <2>3. CASE ~(j < i)
    <3>1. new[j] = layout[j + 1] /\ j + 1 \in 1..Len(layout) /\ j + 1 # i
      BY <1>0, <1>1, <2>1, <2>3
    <3>2. j + 1 \in M
      BY <1>2, <2>1, <3>1
    <3> QED BY <2>3, <3>1, <3>2
  <2> QED BY <2>2, <2>3
<1>6. \A k \in M \ {i} : \E j \in N : f[j] = k
  <2> SUFFICES ASSUME NEW k \in M \ {i}  PROVE \E j \in N : f[j] = k
    OBVIOUS
  <2>1. CASE k < i
    BY <1>0, <1>1, <1>2, <1>3, <2>1
  <2>2. CASE k > i
    <3>1. k - 1 \in 1..(Len(layout) - 1) /\ ~(k - 1 < i) /\ (k - 1) + 1 = k /\ layout[k].isRow
      BY <1>0, <1>2, <2>2
    <3>2. new[k - 1] = layout[k]
      BY <1>1, <3>1
    <3>3. k - 1 \in N
      BY <1>3, <3>1, <3>2
    <3> QED BY <3>1, <3>3
  <2> QED BY <1>0, <1>2, <2>1, <2>2
<1>7. \A j, k \in N : f[j] = f[k] => j = k
  BY <1>0, <1>3
<1>8. f \in Bijection(N, M \ {i})
  BY <1>5, <1>6, <1>7 DEF Bijection, Injection, Surjection, IsInjective
<1>9. /\ IsFiniteSet(M) /\ Cardinality(M) \in Nat
      /\ IsFiniteSet(N) /\ Cardinality(N) \in Nat
  BY <1>1, MarkersFinite DEF M, N
<1>10. Cardinality(M \ {i}) = Cardinality(N)
  BY <1>8, <1>9, FS_Bijection DEF ExistsBijection
<1>11. Cardinality(M \ {i}) = Cardinality(M) - 1
  BY <1>4, <1>9, FS_RemoveElement
<1> QED BY <1>9, <1>10, <1>11 DEF M, N, new

LEMMA AppendedMarkers ==
  ASSUME NEW layout \in Seq(DocLine), NEW n \in Nat
  PROVE  /\ AppendMarkers(layout, n) \in Seq(DocLine)
         /\ Cardinality(Markers(AppendMarkers(layout, n))) = Cardinality(Markers(layout)) + n
<1> DEFINE tail == [k \in 1..n |-> Marker]
           new == layout \o tail
           L == Len(layout)
           M == Markers(layout)
           T == (L + 1)..(L + n)
<1>0. L \in Nat
  OBVIOUS
<1>1. tail \in Seq(DocLine) /\ Len(tail) = n /\ \A k \in 1..n : tail[k] = Marker
  BY MarkerType
<1> HIDE DEF tail
<1>2. /\ new \in Seq(DocLine) /\ Len(new) = L + n
      /\ \A j \in 1..(L + n) : new[j] = IF j <= L THEN layout[j] ELSE tail[j - L]
  BY <1>1, ConcatProperties
<1> HIDE DEF new
<1>3. \A j \in 1..(L + n) : new[j].isRow <=> (j <= L => layout[j].isRow)
  <2> SUFFICES ASSUME NEW j \in 1..(L + n)  PROVE new[j].isRow <=> (j <= L => layout[j].isRow)
    OBVIOUS
  <2>1. CASE j <= L
    BY <1>2, <2>1
  <2>2. CASE ~(j <= L)
    <3>1. j - L \in 1..n
      BY <1>0, <2>2
    <3>2. new[j] = Marker
      BY <1>1, <1>2, <2>2, <3>1
    <3> QED BY <2>2, <3>2, MarkerType
  <2> QED BY <2>1, <2>2
<1>4. Markers(new) = M \cup T
  <2>1. \A j : j \in Markers(new) <=> j \in 1..(L + n) /\ new[j].isRow
    BY <1>2 DEF Markers
  <2>2. \A j : j \in M <=> j \in 1..L /\ layout[j].isRow
    BY DEF Markers
  <2> HIDE DEF M, L
  <2> QED BY <1>0, <1>3, <2>1, <2>2
<1>5. M \cap T = {}
  BY MarkersFinite
<1>6. IsFiniteSet(T) /\ Cardinality(T) = n
  <2> HIDE DEF L
  <2> QED BY <1>0, FS_Interval
<1>7. IsFiniteSet(M) /\ Cardinality(M) \in Nat
  BY MarkersFinite
<1>8. Cardinality(M \cup T) = Cardinality(M) + n
  <2> HIDE DEF M, T, L
  <2>1. Cardinality(M \cup T) = Cardinality(M) + Cardinality(T) - Cardinality(M \cap T)
    BY <1>6, <1>7, FS_Union
  <2>2. Cardinality(M \cap T) = 0
    BY <1>5, FS_EmptySet
  <2> QED BY <1>6, <1>7, <2>1, <2>2
<1>9. AppendMarkers(layout, n) = new
  BY DEF AppendMarkers, new, tail
<1> QED BY <1>2, <1>4, <1>8, <1>9

-----------------------------------------------------------------------------
(***************************************************************************)
(* The edits of a grid yield grids, with the number of rows they should.   *)
(***************************************************************************)

LEMMA OperandShape ==
  ASSUME NEW ref \in Operand
  PROVE  /\ ref \in InSheet <=> ref.kind \in {"cell", "range"}
         /\ ref \in Reference <=> ref.kind \in {"cell", "range", "foreign"}
         /\ ref.kind = "#REF!" <=> ref = RefError
BY DEF Operand, CellLikeCall, Misspelt, Reference, RefError, InSheet

LEMMA ShiftedType ==
  ASSUME NEW ref \in Operand, NEW e \in Edit
  PROVE  ShiftReference(ref, e) \in Operand
<1>1. CASE ref \in InSheet
  BY <1>1, ReferenceFollows DEF InSheet, Operand
<1>2. CASE ref \notin InSheet
  <2>1. ref.kind \notin {"cell", "range"}
    BY <1>2, OperandShape
  <2> QED BY <2>1 DEF ShiftReference
<1> QED BY <1>1, <1>2

LEMMA BlankCellType == BlankCell \in Cell
<1>1. <<>> \in Seq(Operand)
  BY EmptySeq
<1> QED BY <1>1, BlankAssumption DEF BlankCell, Cell

LEMMA RewriteCellType ==
  ASSUME NEW c \in Cell, NEW e \in Edit
  PROVE  RewriteCell(c, e) \in Cell
<1> DEFINE shifted == [i \in DOMAIN c.refs |-> ShiftReference(c.refs[i], e)]
<1>1. c.refs \in Seq(Operand) /\ c.text \in CellText
  BY DEF Cell
<1>2. shifted \in Seq(Operand)
  BY <1>1, ShiftedType
<1> HIDE DEF shifted
<1>3. [text |-> c.text, refs |-> shifted, rendered |-> TRUE] \in Cell
  BY <1>1, <1>2 DEF Cell
<1> QED BY <1>3 DEF RewriteCell, shifted

LEMMA RewriteAllType ==
  ASSUME NEW cells \in Grid, NEW e \in Edit
  PROVE  RewriteAll(cells, e) \in Grid /\ Len(RewriteAll(cells, e)) = Len(cells)
<1>1. ASSUME NEW row \in Row  PROVE RewriteRow(row, e) \in Row
  BY <1>1, RewriteCellType DEF RewriteRow, Row
<1> QED BY <1>1 DEF RewriteAll, Grid

\* No row is wider than the widest, and one is as wide unless none has a cell.
LEMMA WidestRowBounds ==
  ASSUME NEW cells \in Grid
  PROVE  /\ WidestRow(cells) \in Nat
         /\ \A r \in DOMAIN cells : Len(cells[r]) <= WidestRow(cells)
         /\ WidestRow(cells) = 0 \/ \E r \in DOMAIN cells : WidestRow(cells) = Len(cells[r])
<1> DEFINE n == Len(cells)
           W == {Len(cells[r]) : r \in 1..n}
           f == [r \in 1..n |-> Len(cells[r])]
<1>1. n \in Nat /\ DOMAIN cells = 1..n /\ \A r \in 1..n : Len(cells[r]) \in Nat
  BY DEF Grid, Row
<1>2. f \in Surjection(1..n, W)
  BY <1>1 DEF Surjection
<1>3. IsFiniteSet(1..n)
  <2> HIDE DEF n
  <2> QED BY <1>1, FS_Interval
<1>4. IsFiniteSet(W)
  BY <1>2, <1>3, FS_Surjection
<1>5. IsFiniteSet({0} \cup W)
  BY <1>4, FS_Singleton, FS_Union
<1>6. ({0} \cup W) \in SUBSET Nat /\ {0} \cup W # {}
  BY <1>1
<1>7. Max({0} \cup W) \in {0} \cup W /\ \A j \in {0} \cup W : j <= Max({0} \cup W)
  BY <1>5, <1>6, MaxIsGreatest
<1>8. WidestRow(cells) = Max({0} \cup W)
  BY <1>1 DEF WidestRow
<1>9. \A r \in 1..n : Len(cells[r]) \in {0} \cup W
  OBVIOUS
<1> HIDE DEF n
<1> QED BY <1>1, <1>6, <1>7, <1>8, <1>9

LEMMA WidestRowType ==
  ASSUME NEW cells \in Grid
  PROVE  WidestRow(cells) \in Nat
BY WidestRowBounds

LEMMA BlanksType ==
  ASSUME NEW n \in Nat
  PROVE  Blanks(n) \in Row /\ Len(Blanks(n)) = n
BY BlankCellType DEF Blanks, Row

LEMMA EditType ==
  ASSUME NEW axis \in Axis, NEW at \in Int
  PROVE  Insert(axis, at) \in Edit /\ Delete(axis, at) \in Edit
BY DEF Insert, Delete, Edit, Line

LEMMA InsertRowType ==
  ASSUME NEW cells \in Grid, NEW at \in Int
  PROVE  /\ InsertRowOf(cells, at) \in Grid
         /\ Len(InsertRowOf(cells, at)) = IF at < 0 THEN Len(cells) ELSE Len(cells) + 1
<1>1. CASE at < 0
  BY <1>1 DEF InsertRowOf
<1>2. CASE ~(at < 0)
  <2>1. Blanks(WidestRow(cells)) \in Row
    BY WidestRowType, BlanksType
  <2>2. Lower(at, Len(cells)) + 1 \in 1..(Len(cells) + 1)
    BY <1>2 DEF Lower, Grid
  <2>3. InsertLine(cells, at) \in Grid /\ Len(InsertLine(cells, at)) = Len(cells) + 1
    BY <2>1, <2>2, InsertAtProperties DEF InsertLine, Grid, Inserted
  <2>4. Insert("row", at) \in Edit
    BY EditType DEF Axis
  <2> QED BY <1>2, <2>3, <2>4, RewriteAllType DEF InsertRowOf
<1> QED BY <1>1, <1>2

LEMMA DeleteRowType ==
  ASSUME NEW cells \in Grid, NEW at \in Int
  PROVE  /\ DeleteRowOf(cells, at) \in Grid
         /\ Len(DeleteRowOf(cells, at)) =
              IF at \in 0..(Len(cells) - 1) THEN Len(cells) - 1 ELSE Len(cells)
<1>1. CASE at \notin 0..(Len(cells) - 1)
  BY <1>1 DEF DeleteRowOf
<1>2. CASE at \in 0..(Len(cells) - 1)
  <2>1. at + 1 \in 1..Len(cells)
    BY <1>2 DEF Grid
  <2>2. DeleteLine(cells, at) \in Grid /\ Len(DeleteLine(cells, at)) = Len(cells) - 1
    BY <2>1, RemoveAtProperties DEF DeleteLine, Grid
  <2>3. Delete("row", at) \in Edit
    BY EditType DEF Axis
  <2> QED BY <1>2, <2>2, <2>3, RewriteAllType DEF DeleteRowOf
<1> QED BY <1>1, <1>2

LEMMA InsertColType ==
  ASSUME NEW cells \in Grid, NEW at \in Int
  PROVE  InsertColOf(cells, at) \in Grid /\ Len(InsertColOf(cells, at)) = Len(cells)
<1>1. CASE at < 0
  BY <1>1 DEF InsertColOf
<1>2. CASE ~(at < 0)
  <2>1. ASSUME NEW row \in Row, ~(at > Len(row))  PROVE InsertAt(row, at + 1, BlankCell) \in Row
    <3>1. at + 1 \in 1..(Len(row) + 1)
      BY <1>2, <2>1 DEF Row
    <3> QED BY <3>1, BlankCellType, InsertAtProperties DEF Row, Inserted
  <2>2. InsertColumn(cells, at) \in Grid /\ Len(InsertColumn(cells, at)) = Len(cells)
    BY <2>1 DEF InsertColumn, Grid
  <2>3. Insert("col", at) \in Edit
    BY EditType DEF Axis
  <2> QED BY <1>2, <2>2, <2>3, RewriteAllType DEF InsertColOf
<1> QED BY <1>1, <1>2

LEMMA DeleteColType ==
  ASSUME NEW cells \in Grid, NEW at \in Int
  PROVE  DeleteColOf(cells, at) \in Grid /\ Len(DeleteColOf(cells, at)) = Len(cells)
<1>1. CASE at \notin 0..(WidestRow(cells) - 1)
  BY <1>1 DEF DeleteColOf
<1>2. CASE at \in 0..(WidestRow(cells) - 1)
  <2>1. ASSUME NEW row \in Row, ~(at >= Len(row))  PROVE RemoveAt(row, at + 1) \in Row
    <3>1. at + 1 \in 1..Len(row)
      BY <1>2, <2>1, WidestRowType DEF Row
    <3> QED BY <3>1, RemoveAtProperties DEF Row
  <2>2. DeleteColumn(cells, at) \in Grid /\ Len(DeleteColumn(cells, at)) = Len(cells)
    BY <2>1 DEF DeleteColumn, Grid
  <2>3. Delete("col", at) \in Edit
    BY EditType DEF Axis
  <2> QED BY <1>2, <2>2, <2>3, RewriteAllType DEF DeleteColOf
<1> QED BY <1>1, <1>2

Replaced(row, i, c) == [row EXCEPT ![i] = c]

LEMMA ReplacedType ==
  ASSUME NEW T, NEW row \in Seq(T), NEW i \in Int, NEW c \in T
  PROVE  Replaced(row, i, c) \in Seq(T)
<1>1. CASE i \in 1..Len(row)
  BY <1>1, ExceptSeq DEF Replaced
<1>2. CASE i \notin 1..Len(row)
  <2>1. DOMAIN row = 1..Len(row) /\ row = [j \in DOMAIN row |-> row[j]]
    OBVIOUS
  <2>2. [row EXCEPT ![i] = c] = row
    BY <1>2, <2>1
  <2> QED BY <2>2 DEF Replaced
<1> QED BY <1>1, <1>2

\* The cells of a grid after Set are those it had, the one written, and blank ones.
LEMMA SetKeepsType ==
  ASSUME NEW T, BlankCell \in T, NEW cells \in Seq(Seq(T)), NEW row \in Nat, NEW col \in Nat, NEW c \in T
  PROVE  /\ Set(cells, row, col, c) \in Seq(Seq(T))
         /\ Len(Set(cells, row, col, c)) = Higher(Len(cells), row + 1)
<1> DEFINE n == Higher(Len(cells), row + 1)
           Old(r) == IF r <= Len(cells) THEN cells[r] ELSE <<>>
           grown == GrowCells(cells, row, col)
<1>1. n \in Nat /\ row + 1 \in 1..n
  BY DEF Higher
<1>2. ASSUME NEW r \in 1..n  PROVE Old(r) \in Seq(T)
  BY <1>1, <1>2, EmptySeq
<1>3. ASSUME NEW r \in 1..n  PROVE Old(r) \o Blanks(col + 1 - Len(Old(r))) \in Seq(T)
  <2>1. Old(r) \in Seq(T) /\ Len(Old(r)) \in Nat
    <3>1. Old(r) \in Seq(T)
      BY <1>2, <1>3
    <3> HIDE DEF Old
    <3> QED BY <3>1
  <2> HIDE DEF Old
  <2>2. ASSUME NEW k \in Int  PROVE Old(r) \o Blanks(k) \in Seq(T)
    <3>1. CASE k >= 0
      <4>1. Blanks(k) \in Seq(T)
        BY <3>1 DEF Blanks
      <4> QED BY <2>1, <4>1, ConcatProperties
    <3>2. CASE ~(k >= 0)
      <4>1. Blanks(k) = <<>>
        BY <3>2 DEF Blanks
      <4> QED BY <2>1, <4>1, ConcatEmptySeq
    <3> QED BY <2>2, <3>1, <3>2
  <2>3. col + 1 - Len(Old(r)) \in Int
    BY <2>1
  <2> QED BY <2>2, <2>3
<1>4. /\ grown \in Seq(Seq(T)) /\ Len(grown) = n
  <2>1. grown = [r \in 1..n |-> IF r = row + 1 THEN Old(r) \o Blanks(col + 1 - Len(Old(r))) ELSE Old(r)]
    BY DEF GrowCells
  <2> HIDE DEF Old, n, grown
  <2> QED BY <1>1, <1>2, <1>3, <2>1
<1> HIDE DEF grown, n
<1>5. Replaced(grown[row + 1], col + 1, c) \in Seq(T)
  BY <1>1, <1>4, ReplacedType
<1>6. Set(cells, row, col, c) = [grown EXCEPT ![row + 1] = Replaced(grown[row + 1], col + 1, c)]
  BY DEF Set, grown, Replaced
<1> QED BY <1>1, <1>4, <1>5, <1>6 DEF n

LEMMA SetType ==
  ASSUME NEW cells \in Grid, NEW row \in Nat, NEW col \in Nat, NEW c \in Cell
  PROVE  /\ Set(cells, row, col, c) \in Grid
         /\ Len(Set(cells, row, col, c)) = Higher(Len(cells), row + 1)
BY BlankCellType, SetKeepsType DEF Grid, Row

-----------------------------------------------------------------------------
(***************************************************************************)
(* Documents: a marker for every row, from the file on and through every   *)
(* operation.                                                              *)
(***************************************************************************)

Matched(d) == d \in Document /\ Cardinality(Markers(d.layout)) = Len(d.cells)

LEMMA MatchedFields ==
  ASSUME NEW d, Matched(d)
  PROVE  /\ d.cells \in Grid /\ d.layout \in Seq(DocLine)
         /\ Len(d.cells) \in Nat /\ Cardinality(Markers(d.layout)) = Len(d.cells)
BY DEF Matched, Document, Grid

LEMMA MatchedPair ==
  ASSUME NEW cells \in Grid, NEW layout \in Seq(DocLine),
         Cardinality(Markers(layout)) = Len(cells)
  PROVE  Matched([cells |-> cells, layout |-> layout])
BY DEF Matched, Document

LEMMA ParseMatches ==
  ASSUME NEW file \in File
  PROVE  Matched(ParseDocument(file))
<1> DEFINE layout == LayoutOf(file)
           n == Cardinality(Markers(layout))
           cells == [r \in 1..n |-> file[MarkerIndex(layout, r - 1)]]
<1>1. ASSUME NEW i \in DOMAIN file  PROVE file[i] \in Row /\ Comment(file[i]) \in DocLine
  BY DEF File, FileLine, Row, Comment, DocLine
<1>2. layout \in Seq(DocLine) /\ Len(layout) = Len(file)
  BY <1>1, MarkerType DEF LayoutOf, File
<1> HIDE DEF layout
<1>3. n \in Nat
  BY <1>2, MarkersFinite
<1>4. ASSUME NEW r \in 1..n  PROVE file[MarkerIndex(layout, r - 1)] \in Row
  <2>1. r - 1 \in 0..(n - 1)
    BY <1>3
  <2>2. MarkerIndex(layout, r - 1) \in 1..Len(layout)
    BY <1>2, <2>1, MarkerFound, MarkersFinite
  <2>3. MarkerIndex(layout, r - 1) \in DOMAIN file
    BY <1>2, <2>2 DEF File
  <2> QED BY <1>1, <2>3
<1>5. cells \in Grid /\ Len(cells) = n
  <2> HIDE DEF n
  <2> QED BY <1>3, <1>4 DEF Grid
<1>6. Matched([cells |-> cells, layout |-> layout])
  <2> HIDE DEF cells
  <2> QED BY <1>2, <1>5, MatchedPair
<1> QED BY <1>6 DEF ParseDocument, layout

LEMMA SetCellMatches ==
  ASSUME NEW d, Matched(d), NEW row \in Nat, NEW col \in Nat, NEW c \in Cell
  PROVE  Matched(DocSetCell(d, row, col, c))
<1> DEFINE cells == Set(d.cells, row, col, c)
           grown == Len(cells) - Len(d.cells)
           layout == AppendMarkers(d.layout, grown)
<1>1. /\ d.cells \in Grid /\ d.layout \in Seq(DocLine)
      /\ Len(d.cells) \in Nat /\ Cardinality(Markers(d.layout)) = Len(d.cells)
  BY MatchedFields
<1>2. cells \in Grid /\ Len(cells) = Higher(Len(d.cells), row + 1)
  BY <1>1, SetType
<1> HIDE DEF cells
<1>3. Len(cells) \in Nat /\ grown \in Nat
  BY <1>1, <1>2 DEF Higher
<1> HIDE DEF grown
<1>4. layout \in Seq(DocLine) /\ Cardinality(Markers(layout)) = Len(d.cells) + grown
  BY <1>1, <1>3, AppendedMarkers
<1>5. Len(d.cells) + grown = Len(cells)
  BY <1>1, <1>3 DEF grown
<1> HIDE DEF layout
<1>6. Matched([cells |-> cells, layout |-> layout])
  BY <1>2, <1>4, <1>5, MatchedPair
<1> QED BY <1>6 DEF DocSetCell, cells, grown, layout

LEMMA InsertRowMatches ==
  ASSUME NEW d, Matched(d), NEW at \in Int
  PROVE  Matched(DocInsertRow(d, at))
<1> DEFINE cells == InsertRowOf(d.cells, at)
           row == Lower(at, Len(d.cells))
           i == MarkerIndex(d.layout, row)
           layout == InsertAt(d.layout, i, Marker)
<1>1. /\ d.cells \in Grid /\ d.layout \in Seq(DocLine)
      /\ Len(d.cells) \in Nat /\ Cardinality(Markers(d.layout)) = Len(d.cells)
  BY MatchedFields
<1>2. cells \in Grid /\ Len(cells) = IF at < 0 THEN Len(d.cells) ELSE Len(d.cells) + 1
  BY <1>1, InsertRowType
<1> HIDE DEF cells
<1>3. row \in Int
  BY <1>1 DEF Lower
<1>4. i \in 1..(Len(d.layout) + 1)
  <2> HIDE DEF row
  <2> QED BY <1>1, <1>3, MarkerIndexInRange
<1> HIDE DEF i
<1>5. layout \in Seq(DocLine) /\ Cardinality(Markers(layout)) = Len(d.cells) + 1
  BY <1>1, <1>4, MarkerType, InsertAtProperties, InsertedMarker DEF Inserted
<1> HIDE DEF layout
<1>6. CASE Len(cells) = Len(d.cells)
  BY <1>6 DEF DocInsertRow, cells
<1>7. CASE Len(cells) # Len(d.cells)
  <2>1. Len(cells) = Len(d.cells) + 1
    BY <1>1, <1>2, <1>7
  <2>2. Matched([cells |-> cells, layout |-> layout])
    BY <1>2, <1>5, <2>1, MatchedPair
  <2> QED BY <1>7, <2>2 DEF DocInsertRow, SpliceMarker, cells, layout, i
<1> QED BY <1>6, <1>7

LEMMA DeleteRowMatches ==
  ASSUME NEW d, Matched(d), NEW at \in Int
  PROVE  Matched(DocDeleteRow(d, at))
<1> DEFINE cells == DeleteRowOf(d.cells, at)
           i == MarkerIndex(d.layout, at)
           layout == RemoveAt(d.layout, i)
<1>1. /\ d.cells \in Grid /\ d.layout \in Seq(DocLine)
      /\ Len(d.cells) \in Nat /\ Cardinality(Markers(d.layout)) = Len(d.cells)
  BY MatchedFields
<1>2. /\ cells \in Grid
      /\ Len(cells) = IF at \in 0..(Len(d.cells) - 1) THEN Len(d.cells) - 1 ELSE Len(d.cells)
  BY <1>1, DeleteRowType
<1> HIDE DEF cells
<1>3. CASE Len(cells) = Len(d.cells)
  BY <1>3 DEF DocDeleteRow, cells
<1>4. CASE Len(cells) # Len(d.cells)
  <2>1. at \in 0..(Len(d.cells) - 1) /\ Len(cells) = Len(d.cells) - 1
    BY <1>1, <1>2, <1>4
  <2>2. i \in Markers(d.layout)
    BY <1>1, <2>1, MarkerFound
  <2> HIDE DEF i
  <2>3. i \in 1..Len(d.layout)
    BY <1>1, <2>2, MarkersFinite
  <2>4. layout \in Seq(DocLine) /\ Cardinality(Markers(layout)) = Len(d.cells) - 1
    BY <1>1, <2>2, <2>3, RemoveAtProperties, RemovedMarker
  <2> HIDE DEF layout
  <2>5. Matched([cells |-> cells, layout |-> layout])
    BY <1>2, <2>1, <2>4, MatchedPair
  <2> QED BY <1>4, <2>5 DEF DocDeleteRow, RemoveMarker, cells, layout, i
<1> QED BY <1>3, <1>4

LEMMA ColumnsMatch ==
  ASSUME NEW d, Matched(d), NEW at \in Int
  PROVE  Matched(DocInsertCol(d, at)) /\ Matched(DocDeleteCol(d, at))
<1>1. /\ d.cells \in Grid /\ d.layout \in Seq(DocLine)
      /\ Cardinality(Markers(d.layout)) = Len(d.cells)
  BY MatchedFields
<1>2. Matched([cells |-> InsertColOf(d.cells, at), layout |-> d.layout])
  BY <1>1, InsertColType, MatchedPair
<1>3. Matched([cells |-> DeleteColOf(d.cells, at), layout |-> d.layout])
  BY <1>1, DeleteColType, MatchedPair
<1> QED BY <1>2, <1>3 DEF DocInsertCol, DocDeleteCol

-----------------------------------------------------------------------------
(***************************************************************************)
(* Deleting the line just inserted.                                        *)
(***************************************************************************)

LEMMA RemoveInserted ==
  ASSUME NEW T, NEW s \in Seq(T), NEW i \in 1..(Len(s) + 1), NEW x \in T
  PROVE  RemoveAt(InsertAt(s, i, x), i) = s
<1> DEFINE t == InsertAt(s, i, x)
           u == RemoveAt(t, i)
<1>1. /\ t \in Seq(T) /\ Len(t) = Len(s) + 1
      /\ \A j \in 1..(Len(s) + 1) : t[j] = IF j < i THEN s[j] ELSE IF j = i THEN x ELSE s[j - 1]
  <2>1. Inserted(t, T, s, i, x)
    BY InsertAtProperties
  <2> HIDE DEF t
  <2> QED BY <2>1 DEF Inserted
<1> HIDE DEF t
<1>2. i \in 1..Len(t) /\ Len(s) \in Nat
  BY <1>1
<1>3. u \in Seq(T) /\ Len(u) = Len(t) - 1
      /\ \A j \in 1..(Len(t) - 1) : u[j] = IF j < i THEN t[j] ELSE t[j + 1]
  BY <1>1, <1>2, RemoveAtProperties
<1> HIDE DEF u
<1>4. ASSUME NEW j \in 1..Len(u)  PROVE u[j] = s[j]
  <2>1. j \in 1..(Len(t) - 1) /\ j \in Nat /\ Len(t) - 1 = Len(s)
    BY <1>1, <1>2, <1>3
  <2>2. CASE j < i
    BY <1>1, <1>3, <2>1, <2>2
  <2>3. CASE ~(j < i)
    <3>1. j + 1 \in 1..(Len(s) + 1) /\ ~(j + 1 < i) /\ j + 1 # i /\ (j + 1) - 1 = j
      BY <2>1, <2>3
    <3>2. t[j + 1] = s[j]
      BY <1>1, <3>1
    <3> QED BY <1>3, <2>1, <2>3, <3>2
  <2> QED BY <2>2, <2>3
<1>5. u = s
  BY <1>1, <1>2, <1>3, <1>4, SeqEqual
<1> QED BY <1>5 DEF u, t

\* The line at which a row's marker is put is the line at which it is found.
LEMMA SplicedIsFound ==
  ASSUME NEW layout \in Seq(DocLine), NEW row \in 0..Cardinality(Markers(layout))
  PROVE  MarkerIndex(SpliceMarker(layout, row), row) = MarkerIndex(layout, row)
<1> DEFINE M == Markers(layout)
           i == MarkerIndex(layout, row)
           new == InsertAt(layout, i, Marker)
           N == Markers(new)
           k == MarkerIndex(new, row)
<1>0. /\ M \in SUBSET Nat /\ M \subseteq 1..Len(layout) /\ IsFiniteSet(M) /\ Cardinality(M) \in Nat
      /\ Len(layout) \in Nat /\ row \in 0..Cardinality(M)
  BY MarkersFinite
<1>1. i \in 1..(Len(layout) + 1)
  <2>1. row \in Int
    BY <1>0
  <2> QED BY <2>1, MarkerIndexInRange
<1>2. Cardinality({j \in M : j < i}) = row
  <2>1. CASE row \in 0..(Cardinality(M) - 1)
    BY <2>1, MarkerFound DEF MarkersBefore
  <2>2. CASE row \notin 0..(Cardinality(M) - 1)
    <3>1. i = Len(layout) + 1 /\ row = Cardinality(M)
      BY <1>0, <2>2 DEF MarkerIndex
    <3>2. {j \in M : j < i} = M
      BY <1>0, <3>1
    <3> QED BY <3>1, <3>2
  <2> QED BY <2>1, <2>2
<1> HIDE DEF i
<1>3. /\ new \in Seq(DocLine) /\ Len(new) = Len(layout) + 1
      /\ \A j \in 1..(Len(layout) + 1) :
           new[j] = IF j < i THEN layout[j] ELSE IF j = i THEN Marker ELSE layout[j - 1]
  <2>1. Inserted(new, DocLine, layout, i, Marker)
    BY <1>1, MarkerType, InsertAtProperties
  <2> HIDE DEF new
  <2> QED BY <2>1 DEF Inserted
<1>4. Cardinality(N) = Cardinality(M) + 1
  BY <1>1, InsertedMarker
<1> HIDE DEF new
<1>5. \A j : j \in M <=> j \in 1..Len(layout) /\ layout[j].isRow
  BY DEF Markers
<1>6. \A j : j \in N <=> j \in 1..(Len(layout) + 1) /\ new[j].isRow
  BY <1>3 DEF Markers
<1> HIDE DEF M, N
<1>7. i \in N
  <2>1. new[i] = Marker
    BY <1>1, <1>3
  <2> QED BY <1>1, <1>6, <2>1, MarkerType
<1>8. {j \in N : j < i} = {j \in M : j < i}
  <2>1. ASSUME NEW j \in 1..(Len(layout) + 1), j < i
        PROVE  new[j] = layout[j] /\ j \in 1..Len(layout)
    BY <1>0, <1>1, <1>3, <2>1
  <2>2. ASSUME NEW j, j < i  PROVE j \in N <=> j \in M
    <3>1. ASSUME j \in N  PROVE j \in M
      BY <1>5, <1>6, <2>1, <2>2, <3>1
    <3>2. ASSUME j \in M  PROVE j \in N
      <4>1. j \in 1..(Len(layout) + 1)
        BY <1>0, <3>2
      <4> QED BY <1>5, <1>6, <2>1, <2>2, <3>2, <4>1
    <3> QED BY <3>1, <3>2
  <2> QED BY <2>2
<1>9. /\ N \in SUBSET Nat /\ IsFiniteSet(N)
  BY <1>3, MarkersFinite DEF N
<1>10. Rank(N, i) = row
  BY <1>2, <1>8 DEF Rank
<1>11. k \in N /\ Rank(N, k) = row
  <2>1. row \in 0..(Cardinality(N) - 1)
    BY <1>0, <1>4
  <2> QED BY <1>3, <2>1, MarkerFound DEF N, MarkersBefore, Rank
<1> HIDE DEF k
<1>12. Rank(N, i) \in Nat /\ i \in Nat /\ k \in Nat
  BY <1>0, <1>7, <1>9, <1>10, <1>11
<1>13. ~(i < k) /\ ~(k < i)
  BY <1>7, <1>9, <1>10, <1>11, <1>12, RankGrows
<1>14. k = i
  BY <1>12, <1>13
<1> QED BY <1>14 DEF k, i, new, SpliceMarker

LEMMA MarkerRestored ==
  ASSUME NEW layout \in Seq(DocLine), NEW row \in 0..Cardinality(Markers(layout))
  PROVE  RemoveMarker(SpliceMarker(layout, row), row) = layout
<1>1. MarkerIndex(layout, row) \in 1..(Len(layout) + 1)
  <2>1. row \in Int
    BY MarkersFinite
  <2> QED BY <2>1, MarkerIndexInRange
<1>2. RemoveAt(SpliceMarker(layout, row), MarkerIndex(layout, row)) = layout
  BY <1>1, MarkerType, RemoveInserted DEF SpliceMarker
<1> QED BY <1>2, SplicedIsFound DEF RemoveMarker

-----------------------------------------------------------------------------
\* Rewriting a cell keeps its text and shifts each of its references.
LEMMA RewrittenCell ==
  ASSUME NEW c, NEW e
  PROVE  /\ RewriteCell(c, e).text = c.text
         /\ RewriteCell(c, e).refs = [i \in DOMAIN c.refs |-> ShiftReference(c.refs[i], e)]
BY DEF RewriteCell

LEMMA CellRestored ==
  ASSUME NEW c \in Cell, NEW axis \in Axis, NEW at \in Int
  PROVE  LET back == RewriteCell(RewriteCell(c, Insert(axis, at)), Delete(axis, at)) IN
         back.text = c.text /\ back.refs = c.refs
<1> DEFINE new == RewriteCell(c, Insert(axis, at))
           back == RewriteCell(new, Delete(axis, at))
<1>1. c.refs \in Seq(Operand)
  BY DEF Cell
<1>2. ASSUME NEW ref \in Operand
      PROVE  ShiftReference(ShiftReference(ref, Insert(axis, at)), Delete(axis, at)) = ref
  <2>1. CASE ref \in Reference
    BY <2>1, DeleteRestoresReference DEF Line
  <2>2. CASE ref \notin Reference
    <3>1. ref.kind \notin {"cell", "range"}
      BY <2>2, OperandShape
    <3> QED BY <3>1 DEF ShiftReference
  <2> QED BY <2>1, <2>2
<1>3. new.text = c.text /\ new.refs = [i \in DOMAIN c.refs |-> ShiftReference(c.refs[i], Insert(axis, at))]
  BY RewrittenCell
<1> HIDE DEF new
<1>4. /\ back.text = new.text
      /\ back.refs = [i \in DOMAIN new.refs |-> ShiftReference(new.refs[i], Delete(axis, at))]
  BY RewrittenCell
<1> HIDE DEF back
<1>5. \A i \in DOMAIN c.refs : c.refs[i] \in Operand
  BY <1>1
<1>6. back.refs = [i \in DOMAIN c.refs |-> c.refs[i]]
  BY <1>2, <1>3, <1>4, <1>5
<1>7. c.refs = [i \in DOMAIN c.refs |-> c.refs[i]]
  BY <1>1
<1>8. back.text = c.text /\ back.refs = c.refs
  BY <1>3, <1>4, <1>6, <1>7
<1> QED BY <1>8 DEF back, new

LEMMA RewriteRowType ==
  ASSUME NEW row \in Row, NEW e \in Edit
  PROVE  RewriteRow(row, e) \in Row /\ Len(RewriteRow(row, e)) = Len(row)
BY RewriteCellType DEF RewriteRow, Row

\* A line taken out of a rewritten row or grid is taken out and the rest rewritten.
LEMMA RemoveFromRow ==
  ASSUME NEW row \in Row, NEW e \in Edit, NEW i \in 1..Len(row)
  PROVE  RemoveAt(RewriteRow(row, e), i) = RewriteRow(RemoveAt(row, i), e)
<1> DEFINE new == RewriteRow(row, e)
           less == RemoveAt(row, i)
<1>1. /\ new \in Seq(Cell) /\ Len(new) = Len(row)
      /\ \A j \in 1..Len(row) : new[j] = RewriteCell(row[j], e)
  BY RewriteCellType DEF RewriteRow, Row
<1>2. /\ less \in Seq(Cell) /\ Len(less) = Len(row) - 1
      /\ \A j \in 1..(Len(row) - 1) : less[j] = IF j < i THEN row[j] ELSE row[j + 1]
  BY RemoveAtProperties DEF Row
<1> HIDE DEF new, less
<1>3. /\ RemoveAt(new, i) \in Seq(Cell) /\ Len(RemoveAt(new, i)) = Len(row) - 1
      /\ \A j \in 1..(Len(row) - 1) : RemoveAt(new, i)[j] = IF j < i THEN new[j] ELSE new[j + 1]
  BY <1>1, RemoveAtProperties
<1>4. /\ RewriteRow(less, e) \in Seq(Cell) /\ Len(RewriteRow(less, e)) = Len(row) - 1
      /\ \A j \in 1..(Len(row) - 1) : RewriteRow(less, e)[j] = RewriteCell(less[j], e)
  <2>1. less \in Row /\ DOMAIN less = 1..(Len(row) - 1)
    BY <1>2 DEF Row
  <2> QED BY <1>2, <2>1, RewriteRowType DEF RewriteRow, Row
<1>5. ASSUME NEW j \in 1..(Len(row) - 1)  PROVE RemoveAt(new, i)[j] = RewriteRow(less, e)[j]
  <2>1. j \in 1..Len(row) /\ j + 1 \in 1..Len(row)
    BY DEF Row
  <2> QED BY <1>1, <1>2, <1>3, <1>4, <2>1
<1>6. RemoveAt(new, i) = RewriteRow(less, e)
  BY <1>3, <1>4, <1>5, SeqEqual
<1> QED BY <1>6 DEF new, less

LEMMA RemoveFromGrid ==
  ASSUME NEW cells \in Grid, NEW e \in Edit, NEW i \in 1..Len(cells)
  PROVE  RemoveAt(RewriteAll(cells, e), i) = RewriteAll(RemoveAt(cells, i), e)
<1> DEFINE new == RewriteAll(cells, e)
           less == RemoveAt(cells, i)
<1>1. /\ new \in Seq(Row) /\ Len(new) = Len(cells)
      /\ \A j \in 1..Len(cells) : new[j] = RewriteRow(cells[j], e)
  <2>1. new \in Grid /\ Len(new) = Len(cells)
    BY RewriteAllType
  <2>2. \A j \in DOMAIN cells : new[j] = RewriteRow(cells[j], e)
    BY DEF RewriteAll
  <2>3. DOMAIN cells = 1..Len(cells)
    BY DEF Grid
  <2> QED BY <2>1, <2>2, <2>3 DEF Grid
<1>2. /\ less \in Seq(Row) /\ Len(less) = Len(cells) - 1
      /\ \A j \in 1..(Len(cells) - 1) : less[j] = IF j < i THEN cells[j] ELSE cells[j + 1]
  BY RemoveAtProperties DEF Grid
<1> HIDE DEF new, less
<1>3. /\ RemoveAt(new, i) \in Seq(Row) /\ Len(RemoveAt(new, i)) = Len(cells) - 1
      /\ \A j \in 1..(Len(cells) - 1) : RemoveAt(new, i)[j] = IF j < i THEN new[j] ELSE new[j + 1]
  BY <1>1, RemoveAtProperties
<1>4. /\ RewriteAll(less, e) \in Seq(Row) /\ Len(RewriteAll(less, e)) = Len(cells) - 1
      /\ \A j \in 1..(Len(cells) - 1) : RewriteAll(less, e)[j] = RewriteRow(less[j], e)
  <2>1. less \in Grid /\ DOMAIN less = 1..(Len(cells) - 1)
    BY <1>2 DEF Grid
  <2> QED BY <1>2, <2>1, RewriteAllType DEF RewriteAll, Grid
<1>5. ASSUME NEW j \in 1..(Len(cells) - 1)  PROVE RemoveAt(new, i)[j] = RewriteAll(less, e)[j]
  <2>1. j \in 1..Len(cells) /\ j + 1 \in 1..Len(cells)
    BY DEF Grid
  <2> QED BY <1>1, <1>2, <1>3, <1>4, <2>1
<1>6. RemoveAt(new, i) = RewriteAll(less, e)
  BY <1>3, <1>4, <1>5, SeqEqual
<1> QED BY <1>6 DEF new, less

LEMMA RowsRestored ==
  ASSUME NEW cells \in Grid, NEW at \in 0..Len(cells)
  PROVE  DeleteRowOf(InsertRowOf(cells, at), at)
           = RewriteAll(RewriteAll(cells, Insert("row", at)), Delete("row", at))
<1> DEFINE ins == Insert("row", at)
           blanks == Blanks(WidestRow(cells))
           grown == InsertLine(cells, at)
           new == RewriteAll(grown, ins)
<1>1. /\ Len(cells) \in Nat /\ at \in Int /\ ~(at < 0) /\ Lower(at, Len(cells)) = at
      /\ at + 1 \in 1..(Len(cells) + 1)
  BY DEF Grid, Lower
<1>2. ins \in Edit
  BY <1>1, EditType DEF Axis
<1>3. blanks \in Row /\ grown = InsertAt(cells, at + 1, blanks)
  BY <1>1, WidestRowType, BlanksType DEF InsertLine
<1> HIDE DEF blanks, ins
<1>4. grown \in Grid /\ Len(grown) = Len(cells) + 1 /\ RemoveAt(grown, at + 1) = cells
  BY <1>1, <1>3, InsertAtProperties, RemoveInserted DEF Inserted, Grid
<1> HIDE DEF grown
<1>5. new \in Grid /\ Len(new) = Len(cells) + 1 /\ RemoveAt(new, at + 1) = RewriteAll(cells, ins)
  BY <1>1, <1>2, <1>4, RewriteAllType, RemoveFromGrid
<1>6. InsertRowOf(cells, at) = new
  BY <1>1 DEF InsertRowOf, new, grown, ins
<1> HIDE DEF new
<1>7. at \in 0..(Len(new) - 1)
  BY <1>1, <1>5
<1> QED BY <1>5, <1>6, <1>7 DEF DeleteRowOf, DeleteLine, ins

LEMMA ColumnsRestored ==
  ASSUME NEW cells \in Grid, NEW at \in 0..WidestRow(cells)
  PROVE  DeleteColOf(InsertColOf(cells, at), at)
           = RewriteAll(RewriteAll(cells, Insert("col", at)), Delete("col", at))
<1> DEFINE ins == Insert("col", at)
           grown == InsertColumn(cells, at)
           new == RewriteAll(grown, ins)
<1>1. /\ Len(cells) \in Nat /\ at \in Nat /\ ~(at < 0) /\ DOMAIN cells = 1..Len(cells)
      /\ \A r \in 1..Len(cells) : cells[r] \in Row /\ Len(cells[r]) \in Nat
  BY WidestRowType DEF Grid, Row
<1>2. ins \in Edit
  BY <1>1, EditType DEF Axis
<1> HIDE DEF ins
<1>3. /\ grown \in Grid /\ Len(grown) = Len(cells)
      /\ \A r \in 1..Len(cells) :
           grown[r] = IF at > Len(cells[r]) THEN cells[r] ELSE InsertAt(cells[r], at + 1, BlankCell)
  <2>1. ASSUME NEW r \in 1..Len(cells), ~(at > Len(cells[r]))
        PROVE  InsertAt(cells[r], at + 1, BlankCell) \in Row
    <3>1. at + 1 \in 1..(Len(cells[r]) + 1)
      BY <1>1, <2>1
    <3> QED BY <1>1, <3>1, BlankCellType, InsertAtProperties DEF Row, Inserted
  <2> QED BY <1>1, <2>1 DEF InsertColumn, Grid
<1>4. ASSUME NEW r \in 1..Len(cells), ~(at > Len(cells[r]))
      PROVE  /\ grown[r] \in Row /\ Len(grown[r]) = Len(cells[r]) + 1 /\ at + 1 \in 1..Len(grown[r])
             /\ RemoveAt(grown[r], at + 1) = cells[r]
  <2>1. at + 1 \in 1..(Len(cells[r]) + 1) /\ grown[r] = InsertAt(cells[r], at + 1, BlankCell)
    BY <1>1, <1>3, <1>4
  <2>2. cells[r] \in Seq(Cell)
    BY <1>1 DEF Row
  <2>3. grown[r] \in Row /\ Len(grown[r]) = Len(cells[r]) + 1 /\ RemoveAt(grown[r], at + 1) = cells[r]
    BY <2>1, <2>2, BlankCellType, InsertAtProperties, RemoveInserted DEF Row, Inserted
  <2> QED BY <1>1, <2>1, <2>3
<1> HIDE DEF grown
<1>5. /\ new \in Grid /\ Len(new) = Len(cells) /\ DOMAIN new = 1..Len(cells)
      /\ \A r \in 1..Len(cells) : new[r] = RewriteRow(grown[r], ins)
  <2>1. new \in Grid /\ Len(new) = Len(cells)
    BY <1>2, <1>3, RewriteAllType
  <2>2. DOMAIN grown = 1..Len(cells)
    BY <1>3 DEF Grid
  <2> QED BY <2>1, <2>2 DEF RewriteAll, Grid
<1>6. ASSUME NEW r \in 1..Len(cells)
      PROVE  /\ at > Len(cells[r]) => Len(new[r]) = Len(cells[r]) /\ new[r] = RewriteRow(cells[r], ins)
             /\ ~(at > Len(cells[r])) => /\ Len(new[r]) = Len(cells[r]) + 1
                                         /\ RemoveAt(new[r], at + 1) = RewriteRow(cells[r], ins)
  BY <1>1, <1>2, <1>3, <1>4, <1>5, RewriteRowType, RemoveFromRow
<1>7. InsertColOf(cells, at) = new
  BY <1>1 DEF InsertColOf, new, grown, ins
<1> HIDE DEF new
<1>8. DeleteColumn(new, at) = RewriteAll(cells, ins)
  <2>1. ASSUME NEW r \in 1..Len(cells)
        PROVE  (IF at >= Len(new[r]) THEN new[r] ELSE RemoveAt(new[r], at + 1)) = RewriteRow(cells[r], ins)
    <3>1. CASE at > Len(cells[r])
      BY <1>1, <1>6, <3>1
    <3>2. CASE ~(at > Len(cells[r]))
      <4>1. ~(at >= Len(new[r]))
        BY <1>1, <1>6, <3>2
      <4> QED BY <1>6, <3>2, <4>1
    <3> QED BY <3>1, <3>2
  <2> QED BY <1>1, <1>5, <2>1 DEF DeleteColumn, RewriteAll
<1>9. CASE at \in 0..(WidestRow(new) - 1)
  BY <1>7, <1>8, <1>9 DEF DeleteColOf, ins
<1>10. CASE at \notin 0..(WidestRow(new) - 1)
  <2>1. WidestRow(new) \in Nat /\ \A r \in 1..Len(cells) : Len(new[r]) <= WidestRow(new)
    BY <1>5, WidestRowBounds
  <2>2. at >= WidestRow(new)
    BY <1>1, <1>10, <2>1
  <2>3. ASSUME NEW r \in 1..Len(cells)  PROVE at > Len(cells[r])
    BY <1>1, <1>6, <2>1, <2>2
  <2>4. WidestRow(cells) \in Nat
        /\ (WidestRow(cells) = 0 \/ \E r \in 1..Len(cells) : WidestRow(cells) = Len(cells[r]))
    BY <1>1, WidestRowBounds
  <2>5. WidestRow(cells) = 0
    BY <1>1, <2>3, <2>4
  <2>6. Len(cells) = 0
    BY <1>1, <2>3, <2>5
  <2>7. cells = <<>> /\ new = <<>>
    BY <1>5, <2>6 DEF Grid
  <2>8. ASSUME NEW e \in Edit  PROVE RewriteAll(cells, e) = <<>>
    <3>1. RewriteAll(cells, e) \in Seq(Row) /\ Len(RewriteAll(cells, e)) = 0
      BY <2>6, RewriteAllType DEF Grid
    <3> QED BY <3>1
  <2>9. RewriteAll(RewriteAll(cells, Insert("col", at)), Delete("col", at)) = <<>>
    BY <1>1, <1>2, <2>7, <2>8, EditType DEF Axis, ins
  <2> QED BY <1>7, <1>10, <2>7, <2>9 DEF DeleteColOf
<1> QED BY <1>9, <1>10

-----------------------------------------------------------------------------
(***************************************************************************)
(* Where an edit of a grid leaves its cells.                               *)
(***************************************************************************)

CellOf(cells, p) == cells[p["row"] + 1][p["col"] + 1]

\* mid is cells after the line is inserted or deleted and before the references are
\* rewritten: a cell is where After puts it, a cell that was nowhere is blank, and
\* the inserted line is as long as the lines it runs through.
Moves(cells, mid, e) ==
  /\ \A p \in Position : InGrid(cells, p) =>
       \A q \in Places(e, p) : InGrid(mid, q) /\ CellOf(mid, q) = CellOf(cells, p)
  /\ \A q \in Position : InGrid(mid, q) /\ CellOf(mid, q) # BlankCell =>
       \E p \in Position : InGrid(cells, p) /\ q \in Places(e, p)
  /\ e.op = "insert" => \A q \in Position : InGrid(cells, q) /\ q[e.axis] = e.at => InGrid(mid, q)

LEMMA PositionLines ==
  ASSUME NEW p \in Position
  PROVE  p["row"] \in Int /\ p["col"] \in Int
BY DEF Position, Axis, Line

\* A position is found again by giving its line the number it had.
LEMMA LineGivenBack ==
  ASSUME NEW q \in Position, NEW axis \in Axis, NEW x \in Int
  PROVE  /\ WithLine(q, axis, x) \in Position
         /\ WithLine(q, axis, x)[axis] = x
         /\ WithLine(WithLine(q, axis, x), axis, q[axis]) = q
BY WithLineValues, WithLineTwice DEF Line

LEMMA PlacesMembers ==
  ASSUME NEW p \in Position, NEW e \in Edit, NEW q \in Places(e, p)
  PROVE  /\ q \in Position /\ q[e.axis] \in After(e, p[e.axis])
         /\ \A axis \in Axis : axis # e.axis => q[axis] = p[axis]
<1>1. PICK y \in After(e, p[e.axis]) : q = WithLine(p, e.axis, y)
  BY DEF Places
<1>2. e.axis \in Axis /\ p[e.axis] \in Int /\ e.at \in Int
  BY DEF Edit, Position, Line
<1>3. y \in Int
  BY <1>2 DEF After
<1>4. q \in Position /\ q[e.axis] = y
  BY <1>1, <1>2, <1>3, LineGivenBack
<1>5. ASSUME NEW axis \in Axis, axis # e.axis  PROVE q[axis] = p[axis]
  BY <1>1, <1>2, <1>5, OtherLine
<1> QED BY <1>1, <1>4, <1>5

LEMMA RowPlaces ==
  ASSUME NEW p \in Position, NEW e \in Edit, e.axis = "row", NEW q \in Places(e, p)
  PROVE  q \in Position /\ q["col"] = p["col"] /\ q["row"] \in After(e, p["row"])
BY PlacesMembers DEF Axis

LEMMA ColPlaces ==
  ASSUME NEW p \in Position, NEW e \in Edit, e.axis = "col", NEW q \in Places(e, p)
  PROVE  q \in Position /\ q["row"] = p["row"] /\ q["col"] \in After(e, p["col"])
BY PlacesMembers DEF Axis

\* Where a position came from.
LEMMA CameFrom ==
  ASSUME NEW q \in Position, NEW e \in Edit, NEW x \in Int, q[e.axis] \in After(e, x)
  PROVE  q \in Places(e, WithLine(q, e.axis, x))
<1>1. e.axis \in Axis
  BY DEF Edit
<1>2. WithLine(q, e.axis, x)[e.axis] = x /\ WithLine(WithLine(q, e.axis, x), e.axis, q[e.axis]) = q
  BY <1>1, LineGivenBack
<1> QED BY <1>2 DEF Places

LEMMA InsertRowMoves ==
  ASSUME NEW cells \in Grid, NEW e \in Edit, e.op = "insert", e.axis = "row", e.at >= 0
  PROVE  Moves(cells, InsertLine(cells, e.at), e)
<1> DEFINE at == e.at
           n == Len(cells)
           i == Lower(at, n) + 1
           blanks == Blanks(WidestRow(cells))
           mid == InsertLine(cells, at)
<1>1. /\ n \in Nat /\ at \in Int /\ at >= 0 /\ DOMAIN cells = 1..n
      /\ i = (IF at <= n THEN at + 1 ELSE n + 1) /\ i \in 1..(n + 1)
  BY DEF Grid, Edit, Line, Lower
<1>2. blanks \in Row /\ DOMAIN blanks = 1..WidestRow(cells) /\ WidestRow(cells) \in Nat
      /\ \A c \in 1..WidestRow(cells) : blanks[c] = BlankCell
  BY WidestRowType, BlanksType DEF Blanks
<1> HIDE DEF blanks
<1>3. /\ mid \in Seq(Row) /\ DOMAIN mid = 1..(n + 1)
      /\ \A j \in 1..(n + 1) : mid[j] = IF j < i THEN cells[j] ELSE IF j = i THEN blanks ELSE cells[j - 1]
  <2>1. Inserted(mid, Row, cells, i, blanks)
    BY <1>1, <1>2, InsertAtProperties DEF InsertLine, Grid, blanks
  <2> HIDE DEF mid, i
  <2> QED BY <2>1, <1>1 DEF Inserted
<1> HIDE DEF mid, i, n
<1>4. ASSUME NEW p \in Position, InGrid(cells, p), NEW q \in Places(e, p)
      PROVE  InGrid(mid, q) /\ CellOf(mid, q) = CellOf(cells, p)
  <2>1. q["col"] = p["col"] /\ q["row"] \in After(e, p["row"]) /\ p["row"] \in Int
    BY <1>4, RowPlaces, PositionLines
  <2>2. q["row"] = IF p["row"] < at THEN p["row"] ELSE p["row"] + 1
    BY <2>1 DEF After
  <2>3. p["row"] + 1 \in 1..n
    BY <1>1, <1>4 DEF InGrid
  <2>4. q["row"] + 1 \in 1..(n + 1) /\ mid[q["row"] + 1] = cells[p["row"] + 1]
    <3>1. CASE p["row"] < at
      BY <1>1, <1>3, <2>1, <2>2, <2>3, <3>1
    <3>2. CASE ~(p["row"] < at)
      <4>1. q["row"] + 1 \in 1..(n + 1) /\ ~(q["row"] + 1 < i) /\ q["row"] + 1 # i
            /\ (q["row"] + 1) - 1 = p["row"] + 1
        BY <1>1, <2>1, <2>2, <2>3, <3>2
      <4> QED BY <1>3, <4>1
    <3> QED BY <3>1, <3>2
  <2> QED BY <1>3, <1>4, <2>1, <2>4 DEF InGrid, CellOf
<1>5. ASSUME NEW q \in Position, InGrid(mid, q), CellOf(mid, q) # BlankCell
      PROVE  \E p \in Position : InGrid(cells, p) /\ q \in Places(e, p)
  <2>1. q["row"] \in Int /\ q["row"] + 1 \in 1..(n + 1) /\ q["col"] + 1 \in DOMAIN mid[q["row"] + 1]
    BY <1>3, <1>5, PositionLines DEF InGrid
  <2>2. q["row"] + 1 # i
    BY <1>2, <1>3, <1>5, <2>1 DEF CellOf
  <2> DEFINE x == IF q["row"] + 1 < i THEN q["row"] ELSE q["row"] - 1
             p == WithLine(q, "row", x)
  <2>3. x \in Int /\ x + 1 \in 1..n /\ mid[q["row"] + 1] = cells[x + 1] /\ q["row"] \in After(e, x)
    <3>1. CASE q["row"] + 1 < i
      BY <1>1, <1>3, <2>1, <3>1 DEF After
    <3>2. CASE ~(q["row"] + 1 < i)
      <4>1. /\ x = q["row"] - 1 /\ x \in Int /\ x + 1 \in 1..n /\ (q["row"] + 1) - 1 = x + 1
            /\ ~(x < at) /\ q["row"] = x + 1
        BY <1>1, <2>1, <2>2, <3>2
      <4> HIDE DEF x
      <4> QED BY <1>3, <2>1, <2>2, <3>2, <4>1 DEF After
    <3> QED BY <3>1, <3>2
  <2> HIDE DEF x
  <2>4. p \in Position /\ p["row"] = x /\ p["col"] = q["col"] /\ q \in Places(e, p)
    BY <2>3, LineGivenBack, OtherLine, CameFrom DEF Axis
  <2> HIDE DEF p
  <2>5. InGrid(cells, p)
    BY <1>1, <2>1, <2>3, <2>4 DEF InGrid
  <2> QED BY <2>4, <2>5
<1>6. ASSUME NEW q \in Position, InGrid(cells, q), q["row"] = at  PROVE InGrid(mid, q)
  <2>1. at + 1 \in 1..n /\ q["col"] + 1 \in DOMAIN cells[at + 1]
    BY <1>1, <1>6 DEF InGrid
  <2>2. i = at + 1 /\ mid[at + 1] = blanks /\ at + 1 \in 1..(n + 1)
    BY <1>1, <1>3, <2>1
  <2>3. Len(cells[at + 1]) <= WidestRow(cells) /\ DOMAIN cells[at + 1] = 1..Len(cells[at + 1])
        /\ Len(cells[at + 1]) \in Nat
    BY <1>1, <2>1, WidestRowBounds DEF Grid, Row
  <2>4. q["col"] + 1 \in 1..WidestRow(cells)
    BY <1>2, <2>1, <2>3
  <2> QED BY <1>2, <1>3, <1>6, <2>2, <2>4 DEF InGrid
<1>7. Moves(cells, mid, e)
  BY <1>4, <1>5, <1>6 DEF Moves
<1> QED BY <1>7 DEF mid

LEMMA DeleteRowMoves ==
  ASSUME NEW cells \in Grid, NEW e \in Edit, e.op = "delete", e.axis = "row",
         e.at >= 0, e.at < Len(cells)
  PROVE  Moves(cells, DeleteLine(cells, e.at), e)
<1> DEFINE at == e.at
           n == Len(cells)
           mid == DeleteLine(cells, at)
<1>1. n \in Nat /\ at \in Int /\ at >= 0 /\ at < n /\ DOMAIN cells = 1..n /\ at + 1 \in 1..n
  BY DEF Grid, Edit, Line
<1>2. /\ mid \in Seq(Row) /\ DOMAIN mid = 1..(n - 1)
      /\ \A j \in 1..(n - 1) : mid[j] = IF j < at + 1 THEN cells[j] ELSE cells[j + 1]
  <2>1. /\ mid \in Seq(Row) /\ Len(mid) = n - 1
        /\ \A j \in 1..(n - 1) : mid[j] = IF j < at + 1 THEN cells[j] ELSE cells[j + 1]
    BY <1>1, RemoveAtProperties DEF DeleteLine, Grid
  <2> HIDE DEF mid
  <2> QED BY <2>1
<1> HIDE DEF mid, n
<1>3. ASSUME NEW p \in Position, InGrid(cells, p), NEW q \in Places(e, p)
      PROVE  InGrid(mid, q) /\ CellOf(mid, q) = CellOf(cells, p)
  <2>1. q["col"] = p["col"] /\ q["row"] \in After(e, p["row"]) /\ p["row"] \in Int
    BY <1>3, RowPlaces, PositionLines
  <2>2. p["row"] # at /\ q["row"] = IF p["row"] < at THEN p["row"] ELSE p["row"] - 1
    BY <2>1 DEF After
  <2>3. p["row"] + 1 \in 1..n
    BY <1>1, <1>3 DEF InGrid
  <2>4. q["row"] + 1 \in 1..(n - 1) /\ mid[q["row"] + 1] = cells[p["row"] + 1]
    <3>1. CASE p["row"] < at
      BY <1>1, <1>2, <2>1, <2>2, <2>3, <3>1
    <3>2. CASE ~(p["row"] < at)
      <4>1. q["row"] + 1 \in 1..(n - 1) /\ ~(q["row"] + 1 < at + 1) /\ (q["row"] + 1) + 1 = p["row"] + 1
        BY <1>1, <2>1, <2>2, <2>3, <3>2
      <4> QED BY <1>2, <4>1
    <3> QED BY <3>1, <3>2
  <2> QED BY <1>2, <1>3, <2>1, <2>4 DEF InGrid, CellOf
<1>4. ASSUME NEW q \in Position, InGrid(mid, q)
      PROVE  \E p \in Position : InGrid(cells, p) /\ q \in Places(e, p)
  <2>1. q["row"] \in Int /\ q["row"] + 1 \in 1..(n - 1) /\ q["col"] + 1 \in DOMAIN mid[q["row"] + 1]
    BY <1>2, <1>4, PositionLines DEF InGrid
  <2> DEFINE x == IF q["row"] < at THEN q["row"] ELSE q["row"] + 1
             p == WithLine(q, "row", x)
  <2>2. x \in Int /\ x + 1 \in 1..n /\ mid[q["row"] + 1] = cells[x + 1] /\ q["row"] \in After(e, x)
    <3>1. CASE q["row"] < at
      BY <1>1, <1>2, <2>1, <3>1 DEF After
    <3>2. CASE ~(q["row"] < at)
      <4>1. /\ x = q["row"] + 1 /\ x \in Int /\ x + 1 \in 1..n /\ (q["row"] + 1) + 1 = x + 1
            /\ ~(x < at) /\ x # at /\ q["row"] = x - 1 /\ ~(q["row"] + 1 < at + 1)
        BY <1>1, <2>1, <3>2
      <4> HIDE DEF x
      <4> QED BY <1>2, <2>1, <4>1 DEF After
    <3> QED BY <3>1, <3>2
  <2> HIDE DEF x
  <2>3. p \in Position /\ p["row"] = x /\ p["col"] = q["col"] /\ q \in Places(e, p)
    BY <2>2, LineGivenBack, OtherLine, CameFrom DEF Axis
  <2> HIDE DEF p
  <2>4. InGrid(cells, p)
    BY <1>1, <2>1, <2>2, <2>3 DEF InGrid
  <2> QED BY <2>3, <2>4
<1>5. Moves(cells, mid, e)
  BY <1>3, <1>4 DEF Moves
<1> QED BY <1>5 DEF mid

LEMMA InsertColMoves ==
  ASSUME NEW cells \in Grid, NEW e \in Edit, e.op = "insert", e.axis = "col", e.at >= 0
  PROVE  Moves(cells, InsertColumn(cells, e.at), e)
<1> DEFINE at == e.at
           mid == InsertColumn(cells, at)
<1>1. at \in Int /\ at >= 0
  BY DEF Edit, Line
<1>2. ASSUME NEW r \in DOMAIN cells
      PROVE  cells[r] \in Seq(Cell) /\ Len(cells[r]) \in Nat /\ DOMAIN cells[r] = 1..Len(cells[r])
  BY DEF Grid, Row
<1>3. DOMAIN mid = DOMAIN cells
  BY DEF InsertColumn
<1>4. ASSUME NEW r \in DOMAIN cells, at > Len(cells[r])  PROVE mid[r] = cells[r]
  BY <1>4 DEF InsertColumn
<1>5. ASSUME NEW r \in DOMAIN cells, ~(at > Len(cells[r]))
      PROVE  /\ DOMAIN mid[r] = 1..(Len(cells[r]) + 1)
             /\ \A j \in 1..(Len(cells[r]) + 1) :
                  mid[r][j] = IF j < at + 1 THEN cells[r][j] ELSE IF j = at + 1 THEN BlankCell
                              ELSE cells[r][j - 1]
  <2>1. mid[r] = InsertAt(cells[r], at + 1, BlankCell)
    BY <1>5 DEF InsertColumn
  <2>2. at + 1 \in 1..(Len(cells[r]) + 1) /\ cells[r] \in Seq(Cell)
    BY <1>1, <1>2, <1>5
  <2> HIDE DEF mid
  <2>3. Inserted(mid[r], Cell, cells[r], at + 1, BlankCell)
    BY <2>1, <2>2, BlankCellType, InsertAtProperties
  <2> QED BY <1>2, <2>3 DEF Inserted
<1> HIDE DEF mid
<1>6. ASSUME NEW p \in Position, InGrid(cells, p), NEW q \in Places(e, p)
      PROVE  InGrid(mid, q) /\ CellOf(mid, q) = CellOf(cells, p)
  <2> DEFINE r == p["row"] + 1
             n == Len(cells[r])
  <2>1. q["row"] = p["row"] /\ q["col"] \in After(e, p["col"]) /\ p["col"] \in Int
    BY <1>6, ColPlaces, PositionLines
  <2>2. q["col"] = IF p["col"] < at THEN p["col"] ELSE p["col"] + 1
    BY <2>1 DEF After
  <2>3. r \in DOMAIN cells /\ p["col"] + 1 \in 1..n /\ n \in Nat
    BY <1>2, <1>6 DEF InGrid
  <2> HIDE DEF r
  <2>4. q["col"] + 1 \in DOMAIN mid[r] /\ mid[r][q["col"] + 1] = cells[r][p["col"] + 1]
    <3>1. CASE at > n
      BY <1>1, <1>2, <1>4, <2>1, <2>2, <2>3, <3>1
    <3>2. CASE ~(at > n) /\ p["col"] < at
      <4>1. q["col"] + 1 \in 1..(n + 1) /\ q["col"] + 1 < at + 1 /\ q["col"] = p["col"]
        BY <1>1, <2>1, <2>2, <2>3, <3>2
      <4> QED BY <1>5, <2>3, <3>2, <4>1
    <3>3. CASE ~(at > n) /\ ~(p["col"] < at)
      <4>1. q["col"] + 1 \in 1..(n + 1) /\ ~(q["col"] + 1 < at + 1) /\ q["col"] + 1 # at + 1
            /\ (q["col"] + 1) - 1 = p["col"] + 1
        BY <1>1, <2>1, <2>2, <2>3, <3>3
      <4> QED BY <1>5, <2>3, <3>3, <4>1
    <3> QED BY <3>1, <3>2, <3>3
  <2> QED BY <1>3, <2>1, <2>3, <2>4 DEF InGrid, CellOf, r
<1>7. ASSUME NEW q \in Position, InGrid(mid, q), CellOf(mid, q) # BlankCell
      PROVE  \E p \in Position : InGrid(cells, p) /\ q \in Places(e, p)
  <2> DEFINE r == q["row"] + 1
             n == Len(cells[r])
             x == IF q["col"] < at THEN q["col"] ELSE q["col"] - 1
             p == WithLine(q, "col", x)
  <2>1. r \in DOMAIN cells /\ q["col"] \in Int /\ q["col"] + 1 \in DOMAIN mid[r] /\ n \in Nat
        /\ mid[r][q["col"] + 1] # BlankCell
    BY <1>2, <1>3, <1>7, PositionLines DEF InGrid, CellOf
  <2> HIDE DEF r
  <2>2. x \in Int /\ x + 1 \in 1..n /\ q["col"] \in After(e, x)
    <3>1. CASE at > n
      <4>1. q["col"] + 1 \in 1..n
        BY <1>2, <1>4, <2>1, <3>1
      <4> QED BY <1>1, <2>1, <3>1, <4>1 DEF After
    <3>2. CASE ~(at > n)
      <4>1. q["col"] + 1 \in 1..(n + 1) /\ q["col"] # at
        BY <1>1, <1>5, <2>1, <3>2
      <4>2. CASE q["col"] < at
        BY <1>1, <2>1, <3>2, <4>1, <4>2 DEF After
      <4>3. CASE ~(q["col"] < at)
        <5>1. x = q["col"] - 1 /\ x \in Int /\ x + 1 \in 1..n /\ ~(x < at) /\ q["col"] = x + 1
          BY <1>1, <2>1, <3>2, <4>1, <4>3
        <5> HIDE DEF x
        <5> QED BY <5>1 DEF After
      <4> QED BY <4>2, <4>3
    <3> QED BY <3>1, <3>2
  <2> HIDE DEF x
  <2>3. p \in Position /\ p["col"] = x /\ p["row"] = q["row"] /\ q \in Places(e, p)
    BY <2>2, LineGivenBack, OtherLine, CameFrom DEF Axis
  <2> HIDE DEF p
  <2>4. InGrid(cells, p)
    BY <1>2, <2>1, <2>2, <2>3 DEF InGrid, r
  <2> QED BY <2>3, <2>4
<1>8. ASSUME NEW q \in Position, InGrid(cells, q), q["col"] = at  PROVE InGrid(mid, q)
  <2> DEFINE r == q["row"] + 1
  <2>1. r \in DOMAIN cells /\ at + 1 \in 1..Len(cells[r])
    BY <1>2, <1>8 DEF InGrid
  <2>2. ~(at > Len(cells[r])) /\ at + 1 \in 1..(Len(cells[r]) + 1)
    BY <1>1, <1>2, <2>1
  <2>3. at + 1 \in DOMAIN mid[r]
    BY <1>5, <2>1, <2>2
  <2> QED BY <1>3, <1>8, <2>1, <2>3 DEF InGrid
<1>9. Moves(cells, mid, e)
  BY <1>6, <1>7, <1>8 DEF Moves
<1> QED BY <1>9 DEF mid

LEMMA DeleteColMoves ==
  ASSUME NEW cells \in Grid, NEW e \in Edit, e.op = "delete", e.axis = "col", e.at >= 0
  PROVE  Moves(cells, DeleteColumn(cells, e.at), e)
<1> DEFINE at == e.at
           mid == DeleteColumn(cells, at)
<1>1. at \in Int /\ at >= 0
  BY DEF Edit, Line
<1>2. ASSUME NEW r \in DOMAIN cells
      PROVE  cells[r] \in Seq(Cell) /\ Len(cells[r]) \in Nat /\ DOMAIN cells[r] = 1..Len(cells[r])
  BY DEF Grid, Row
<1>3. DOMAIN mid = DOMAIN cells
  BY DEF DeleteColumn
<1>4. ASSUME NEW r \in DOMAIN cells, at >= Len(cells[r])  PROVE mid[r] = cells[r]
  BY <1>4 DEF DeleteColumn
<1>5. ASSUME NEW r \in DOMAIN cells, ~(at >= Len(cells[r]))
      PROVE  /\ DOMAIN mid[r] = 1..(Len(cells[r]) - 1)
             /\ \A j \in 1..(Len(cells[r]) - 1) :
                  mid[r][j] = IF j < at + 1 THEN cells[r][j] ELSE cells[r][j + 1]
  <2>1. mid[r] = RemoveAt(cells[r], at + 1)
    BY <1>5 DEF DeleteColumn
  <2>2. at + 1 \in 1..Len(cells[r]) /\ cells[r] \in Seq(Cell)
    BY <1>1, <1>2, <1>5
  <2> HIDE DEF mid
  <2>3. mid[r] \in Seq(Cell) /\ Len(mid[r]) = Len(cells[r]) - 1
        /\ \A j \in 1..(Len(cells[r]) - 1) :
             mid[r][j] = IF j < at + 1 THEN cells[r][j] ELSE cells[r][j + 1]
    BY <2>1, <2>2, RemoveAtProperties
  <2> QED BY <1>2, <2>3
<1> HIDE DEF mid
<1>6. ASSUME NEW p \in Position, InGrid(cells, p), NEW q \in Places(e, p)
      PROVE  InGrid(mid, q) /\ CellOf(mid, q) = CellOf(cells, p)
  <2> DEFINE r == p["row"] + 1
             n == Len(cells[r])
  <2>1. q["row"] = p["row"] /\ q["col"] \in After(e, p["col"]) /\ p["col"] \in Int
    BY <1>6, ColPlaces, PositionLines
  <2>2. p["col"] # at /\ q["col"] = IF p["col"] < at THEN p["col"] ELSE p["col"] - 1
    BY <2>1 DEF After
  <2>3. r \in DOMAIN cells /\ p["col"] + 1 \in 1..n /\ n \in Nat
    BY <1>2, <1>6 DEF InGrid
  <2> HIDE DEF r
  <2>4. q["col"] + 1 \in DOMAIN mid[r] /\ mid[r][q["col"] + 1] = cells[r][p["col"] + 1]
    <3>1. CASE at >= n
      BY <1>1, <1>2, <1>4, <2>1, <2>2, <2>3, <3>1
    <3>2. CASE ~(at >= n) /\ p["col"] < at
      <4>1. q["col"] + 1 \in 1..(n - 1) /\ q["col"] + 1 < at + 1 /\ q["col"] = p["col"]
        BY <1>1, <2>1, <2>2, <2>3, <3>2
      <4> QED BY <1>5, <2>3, <3>2, <4>1
    <3>3. CASE ~(at >= n) /\ ~(p["col"] < at)
      <4>1. q["col"] + 1 \in 1..(n - 1) /\ ~(q["col"] + 1 < at + 1) /\ (q["col"] + 1) + 1 = p["col"] + 1
        BY <1>1, <2>1, <2>2, <2>3, <3>3
      <4> QED BY <1>5, <2>3, <3>3, <4>1
    <3> QED BY <3>1, <3>2, <3>3
  <2> QED BY <1>3, <2>1, <2>3, <2>4 DEF InGrid, CellOf, r
<1>7. ASSUME NEW q \in Position, InGrid(mid, q)
      PROVE  \E p \in Position : InGrid(cells, p) /\ q \in Places(e, p)
  <2> DEFINE r == q["row"] + 1
             n == Len(cells[r])
             x == IF q["col"] < at THEN q["col"] ELSE q["col"] + 1
             p == WithLine(q, "col", x)
  <2>1. r \in DOMAIN cells /\ q["col"] \in Int /\ q["col"] + 1 \in DOMAIN mid[r] /\ n \in Nat
    BY <1>2, <1>3, <1>7, PositionLines DEF InGrid
  <2> HIDE DEF r
  <2>2. x \in Int /\ x + 1 \in 1..n /\ q["col"] \in After(e, x)
    <3>1. CASE at >= n
      <4>1. q["col"] + 1 \in 1..n
        BY <1>2, <1>4, <2>1, <3>1
      <4> QED BY <1>1, <2>1, <3>1, <4>1 DEF After
    <3>2. CASE ~(at >= n)
      <4>1. q["col"] + 1 \in 1..(n - 1)
        BY <1>1, <1>5, <2>1, <3>2
      <4>2. CASE q["col"] < at
        BY <1>1, <2>1, <3>2, <4>1, <4>2 DEF After
      <4>3. CASE ~(q["col"] < at)
        <5>1. x = q["col"] + 1 /\ x \in Int /\ x + 1 \in 1..n /\ ~(x < at) /\ x # at /\ q["col"] = x - 1
          BY <1>1, <2>1, <3>2, <4>1, <4>3
        <5> HIDE DEF x
        <5> QED BY <5>1 DEF After
      <4> QED BY <4>2, <4>3
    <3> QED BY <3>1, <3>2
  <2> HIDE DEF x
  <2>3. p \in Position /\ p["col"] = x /\ p["row"] = q["row"] /\ q \in Places(e, p)
    BY <2>2, LineGivenBack, OtherLine, CameFrom DEF Axis
  <2> HIDE DEF p
  <2>4. InGrid(cells, p)
    BY <1>2, <2>1, <2>2, <2>3 DEF InGrid, r
  <2> QED BY <2>3, <2>4
<1>8. Moves(cells, mid, e)
  BY <1>6, <1>7 DEF Moves
<1> QED BY <1>8 DEF mid

LEMMA SpanType ==
  ASSUME NEW ref, NEW axis
  PROVE  Span(ref, axis) \subseteq Int
<1>1. \A x, y : x..y \subseteq Int
  OBVIOUS
<1> QED BY <1>1 DEF Span

LEMMA HullMembers ==
  ASSUME NEW ref \in InSheet
  PROVE  \A h : h \in Hull(ref) <=> h \in Position /\ \A axis \in Axis : h[axis] \in Span(ref, axis)
<1>1. \A axis \in Axis : Span(ref, axis) \subseteq Int
  BY SpanType
<1>2. ASSUME NEW row \in Int, NEW col \in Int
      PROVE  At(row, col) \in Position /\ At(row, col)["row"] = row /\ At(row, col)["col"] = col
  BY DEF At, Position, Axis, Line
<1>3. ASSUME NEW h \in Position  PROVE h = At(h["row"], h["col"])
  BY DEF At, Position, Axis
<1>4. ASSUME NEW h \in Hull(ref)  PROVE h \in Position /\ \A axis \in Axis : h[axis] \in Span(ref, axis)
  <2>1. PICK row \in Span(ref, "row"), col \in Span(ref, "col") : h = At(row, col)
    BY DEF Hull
  <2> QED BY <1>1, <1>2, <2>1 DEF Axis
<1>5. ASSUME NEW h \in Position, \A axis \in Axis : h[axis] \in Span(ref, axis)  PROVE h \in Hull(ref)
  BY <1>3, <1>5 DEF Hull, Axis
<1> QED BY <1>4, <1>5

\* No two lines have the same number after an edit, and none has that of an inserted one.
LEMMA AfterInjective ==
  ASSUME NEW e \in Edit, NEW x \in Int, NEW z \in Int, NEW y \in After(e, x)
  PROVE  /\ y \in After(e, z) => x = z
         /\ e.op = "insert" => y # e.at
BY DEF After, Edit, Line

\* The cells a reference covers after an edit are those it covered, where they are
\* now, and cells of an inserted line that took the number of a line it covered.
LEMMA HullFollows ==
  ASSUME NEW ref \in InSheet, NEW e \in Edit, ShiftReference(ref, e) # RefError
  PROVE  LET new == ShiftReference(ref, e) IN
         /\ \A p \in Hull(ref) : Places(e, p) \subseteq Hull(new)
         /\ \A p \in Position : Places(e, p) \cap Hull(new) # {} => p \in Hull(ref)
         /\ \A q \in Hull(new) : \/ \E p \in Hull(ref) : q \in Places(e, p)
                                 \/ e.op = "insert" /\ q[e.axis] = e.at /\ q \in Hull(ref)
<1> DEFINE new == ShiftReference(ref, e)
           old == Span(ref, e.axis)
<1>1. /\ new \in InSheet
      /\ Span(new, e.axis) \ (IF e.op = "insert" THEN {e.at} ELSE {}) = AfterAll(e, old)
      /\ e.op = "insert" /\ e.at \in Span(new, e.axis) => e.at \in old
      /\ \A axis \in Axis : axis # e.axis => Span(new, axis) = Span(ref, axis)
  BY ReferenceFollows
<1> HIDE DEF new, old
<1>2. /\ \A h : h \in Hull(ref) <=> h \in Position /\ \A axis \in Axis : h[axis] \in Span(ref, axis)
      /\ \A h : h \in Hull(new) <=> h \in Position /\ \A axis \in Axis : h[axis] \in Span(new, axis)
  BY <1>1, HullMembers
<1>3. e.axis \in Axis /\ \A p \in Position : p[e.axis] \in Int
  BY DEF Edit, Position, Line
<1>4. ASSUME NEW p \in Hull(ref), NEW q \in Places(e, p)  PROVE q \in Hull(new)
  <2>1. p \in Position /\ p[e.axis] \in old
    BY <1>2, <1>3 DEF old
  <2>2. /\ q \in Position /\ q[e.axis] \in After(e, p[e.axis])
        /\ \A axis \in Axis : axis # e.axis => q[axis] = p[axis]
    BY <2>1, PlacesMembers
  <2>3. q[e.axis] \in AfterAll(e, old)
    BY <2>1, <2>2 DEF AfterAll
  <2>4. q[e.axis] \in Span(new, e.axis)
    BY <1>1, <2>3
  <2> QED BY <1>1, <1>2, <2>2, <2>4
<1>5. ASSUME NEW p \in Position, NEW q \in Places(e, p), q \in Hull(new)  PROVE p \in Hull(ref)
  <2>1. /\ q \in Position /\ q[e.axis] \in After(e, p[e.axis])
        /\ \A axis \in Axis : axis # e.axis => q[axis] = p[axis]
    BY PlacesMembers
  <2>2. e.op = "insert" => q[e.axis] # e.at
    BY <1>3, <2>1, AfterInjective
  <2>3. q[e.axis] \in AfterAll(e, old)
    BY <1>1, <1>2, <1>3, <1>5, <2>2
  <2>4. PICK x \in old : q[e.axis] \in After(e, x)
    BY <2>3 DEF AfterAll
  <2>5. x \in Int
    BY <2>4, SpanType DEF old
  <2>6. p[e.axis] = x
    BY <1>3, <2>1, <2>4, <2>5, AfterInjective
  <2> QED BY <1>1, <1>2, <1>5, <2>1, <2>4, <2>6 DEF old
<1>6. ASSUME NEW q \in Hull(new), ~(e.op = "insert" /\ q[e.axis] = e.at)
      PROVE  \E p \in Hull(ref) : q \in Places(e, p)
  <2>1. q \in Position /\ q[e.axis] \in AfterAll(e, old)
    BY <1>1, <1>2, <1>3, <1>6
  <2>2. PICK x \in old : q[e.axis] \in After(e, x)
    BY <2>1 DEF AfterAll
  <2>3. x \in Int
    BY <2>2, SpanType DEF old
  <2> DEFINE p == WithLine(q, e.axis, x)
  <2>4. p \in Position /\ q \in Places(e, p)
    BY <1>3, <2>1, <2>2, <2>3, LineGivenBack, CameFrom
  <2> HIDE DEF p
  <2> QED BY <1>5, <1>6, <2>4
<1>7. ASSUME NEW q \in Hull(new), e.op = "insert", q[e.axis] = e.at  PROVE q \in Hull(ref)
  BY <1>1, <1>2, <1>3, <1>7 DEF old
<1> QED BY <1>4, <1>5, <1>6, <1>7 DEF new

\* A reference that became #REF! has none of its cells left.
LEMMA NothingLeft ==
  ASSUME NEW ref \in InSheet, NEW e \in Edit, ShiftReference(ref, e) = RefError
  PROVE  \A p \in Hull(ref) : Places(e, p) = {}
<1>1. AfterAll(e, Span(ref, e.axis)) = {}
  BY ReferenceFollows
<1>2. e.axis \in Axis
  BY DEF Edit
<1>3. \A p \in Hull(ref) : p[e.axis] \in Span(ref, e.axis)
  BY <1>2, HullMembers
<1>4. \A p \in Hull(ref) : After(e, p[e.axis]) = {}
  BY <1>1, <1>3 DEF AfterAll
<1> QED BY <1>4 DEF Places

-----------------------------------------------------------------------------
(***************************************************************************)
(* Sets in the same order.                                                 *)
(***************************************************************************)

LEMMA NthIs ==
  ASSUME NEW S \in SUBSET Nat, IsFiniteSet(S), NEW i \in S
  PROVE  Nth(S, Rank(S, i) + 1) = i
<1> DEFINE k == Nth(S, Rank(S, i) + 1)
<1>1. Rank(S, i) \in Nat /\ (Rank(S, i) + 1) - 1 = Rank(S, i)
  <2>1. Rank(S, i) \in 0..(Cardinality(S) - 1)
    BY RankRange
  <2> QED BY <2>1, FS_CardinalityType
<1>2. k = CHOOSE j \in S : Rank(S, j) = Rank(S, i)
  BY <1>1 DEF Nth, Rank
<1>3. k \in S /\ Rank(S, k) = Rank(S, i)
  BY <1>2
<1> HIDE DEF k
<1>4. ~(i < k) /\ ~(k < i)
  BY <1>1, <1>3, RankGrows
<1>5. k = i
  BY <1>3, <1>4
<1> QED BY <1>5 DEF k

LEMMA NthMember ==
  ASSUME NEW S \in SUBSET Nat, IsFiniteSet(S), NEW k \in 1..Cardinality(S)
  PROVE  Nth(S, k) \in S /\ Rank(S, Nth(S, k)) = k - 1
<1>1. Cardinality(S) \in Nat
  BY FS_CardinalityType
<1>2. k - 1 \in 0..(Cardinality(S) - 1)
  BY <1>1
<1>3. \E i \in S : Rank(S, i) = k - 1
  BY <1>2, RankOnto
<1> QED BY <1>3 DEF Nth, Rank

\* T lists the members of S in the same order, by other numbers.
SameOrder(S, T, f) ==
  /\ \A i \in S : f[i] \in T
  /\ \A t \in T : \E i \in S : f[i] = t
  /\ \A i, k \in S : i < k => f[i] < f[k]

LEMMA SameOrderRank ==
  ASSUME NEW S \in SUBSET Nat, IsFiniteSet(S), NEW T \in SUBSET Nat, NEW f, SameOrder(S, T, f)
  PROVE  /\ IsFiniteSet(T) /\ Cardinality(T) = Cardinality(S)
         /\ \A i \in S : Rank(T, f[i]) = Rank(S, i)
         /\ \A k \in 1..Cardinality(S) : Nth(T, k) = f[Nth(S, k)]
<1>1. /\ \A i \in S : f[i] \in T /\ f[i] \in Nat /\ i \in Nat
      /\ \A t \in T : t \in Nat /\ \E i \in S : f[i] = t
      /\ \A i, k \in S : i < k => f[i] < f[k]
  BY DEF SameOrder
<1>2. \A i, k \in S : f[i] = f[k] => i = k
  <2> SUFFICES ASSUME NEW i \in S, NEW k \in S, f[i] = f[k]  PROVE i = k
    OBVIOUS
  <2>1. ~(i < k) /\ ~(k < i)
    BY <1>1
  <2> QED BY <1>1, <2>1
<1>3. ASSUME NEW A \in SUBSET S, NEW B \in SUBSET T, \A i \in A : f[i] \in B,
             \A t \in B : \E i \in A : f[i] = t
      PROVE  IsFiniteSet(B) /\ Cardinality(B) = Cardinality(A)
  <2> DEFINE g == [i \in A |-> f[i]]
  <2>1. g \in Bijection(A, B)
    BY <1>2, <1>3 DEF Bijection, Injection, Surjection, IsInjective
  <2>2. IsFiniteSet(A)
    BY FS_Subset
  <2> QED BY <2>1, <2>2, FS_Bijection DEF ExistsBijection
<1>4. IsFiniteSet(T) /\ Cardinality(T) = Cardinality(S)
  BY <1>1, <1>3
<1>5. ASSUME NEW i \in S  PROVE Rank(T, f[i]) = Rank(S, i)
  <2> DEFINE A == {j \in S : j < i}
             B == {t \in T : t < f[i]}
  <2>1. \A j \in A : f[j] \in B
    BY <1>1
  <2>2. ASSUME NEW t \in B  PROVE \E j \in A : f[j] = t
    <3>1. PICK j \in S : f[j] = t
      BY <1>1
    <3>2. ~(i < j) /\ i # j
      BY <1>1, <3>1
    <3> QED BY <1>1, <3>1, <3>2
  <2>3. A \in SUBSET S /\ B \in SUBSET T
    OBVIOUS
  <2> HIDE DEF A, B
  <2>4. Cardinality(B) = Cardinality(A)
    BY <1>3, <2>1, <2>2, <2>3
  <2> QED BY <2>4 DEF Rank, A, B
<1>6. ASSUME NEW k \in 1..Cardinality(S)  PROVE Nth(T, k) = f[Nth(S, k)]
  <2>1. Nth(S, k) \in S /\ Rank(S, Nth(S, k)) = k - 1
    BY NthMember
  <2>2. f[Nth(S, k)] \in T
    BY <1>1, <2>1
  <2>3. Rank(T, f[Nth(S, k)]) = k - 1
    BY <1>5, <2>1
  <2>4. (k - 1) + 1 = k
    BY FS_CardinalityType
  <2> QED BY <1>4, <2>2, <2>3, <2>4, NthIs
<1> QED BY <1>4, <1>5, <1>6

-----------------------------------------------------------------------------
(***************************************************************************)
(* The comments of a layout, as markers come and go between them.          *)
(***************************************************************************)

Comments(layout) == DOMAIN layout \ Markers(layout)

LEMMA CommentsFinite ==
  ASSUME NEW layout \in Seq(DocLine)
  PROVE  /\ Comments(layout) \in SUBSET Nat /\ IsFiniteSet(Comments(layout))
         /\ \A j : j \in Comments(layout) <=> j \in 1..Len(layout) /\ ~layout[j].isRow
<1>1. DOMAIN layout = 1..Len(layout) /\ Len(layout) \in Nat
  OBVIOUS
<1>2. IsFiniteSet(1..Len(layout))
  BY <1>1, FS_Interval
<1>3. Comments(layout) \subseteq 1..Len(layout)
  BY <1>1 DEF Comments
<1> QED BY <1>1, <1>2, <1>3, FS_Subset DEF Comments, Markers

\* A comment after a marker has that marker above it.
LEMMA CommentBefore ==
  ASSUME NEW layout \in Seq(DocLine), NEW row \in 0..Cardinality(Markers(layout)),
         NEW j \in Comments(layout)
  PROVE  j < MarkerIndex(layout, row) <=> MarkersBefore(layout, j) <= row
<1> DEFINE M == Markers(layout)
           i == MarkerIndex(layout, row)
           B(n) == {m \in M : m < n}
<1>0. /\ M \in SUBSET Nat /\ M \subseteq 1..Len(layout) /\ IsFiniteSet(M) /\ Cardinality(M) \in Nat
      /\ row \in 0..Cardinality(M) /\ j \in 1..Len(layout) /\ j \notin M
  BY MarkersFinite, CommentsFinite DEF Comments
<1>1. \A n : B(n) \in SUBSET M /\ IsFiniteSet(B(n)) /\ Cardinality(B(n)) \in Nat
             /\ Cardinality(B(n)) <= Cardinality(M)
  <2>1. \A n : B(n) \in SUBSET M
    OBVIOUS
  <2> HIDE DEF B, M
  <2> QED BY <1>0, <2>1, FS_Subset, FS_CardinalityType
<1>2. MarkersBefore(layout, j) = Cardinality(B(j))
  BY DEF MarkersBefore
<1>3. CASE row \in 0..(Cardinality(M) - 1)
  <2>1. i \in M /\ Cardinality(B(i)) = row
    BY <1>3, MarkerFound DEF MarkersBefore
  <2>2. i \in Nat /\ j \in Nat /\ i # j /\ \A m \in M : m \in Nat
    BY <1>0, <2>1
  <2>3. CASE j < i
    <3>1. B(j) \subseteq B(i)
      BY <2>2, <2>3
    <3> HIDE DEF B, M
    <3>2. Cardinality(B(j)) <= Cardinality(B(i))
      BY <1>1, <3>1, FS_Subset
    <3> QED BY <1>2, <2>1, <2>3, <3>2
  <2>4. CASE j > i
    <3>1. B(i) \cup {i} \subseteq B(j) /\ i \notin B(i)
      BY <2>1, <2>2, <2>4
    <3> HIDE DEF B, M, i
    <3>2. Cardinality(B(i) \cup {i}) = row + 1
      BY <1>1, <2>1, <3>1, FS_AddElement
    <3>3. Cardinality(B(i) \cup {i}) <= Cardinality(B(j))
      BY <1>1, <3>1, FS_Subset
    <3>4. ~(Cardinality(B(j)) <= row)
      BY <1>0, <1>1, <3>2, <3>3
    <3>5. ~(MarkersBefore(layout, j) <= row)
      BY <1>2, <3>4
    <3>6. ~(j < i)
      BY <2>2, <2>4
    <3> QED BY <3>5, <3>6 DEF i
  <2> QED BY <2>2, <2>3, <2>4
<1>4. CASE row \notin 0..(Cardinality(M) - 1)
  <2>1. i = Len(layout) + 1 /\ row = Cardinality(M)
    BY <1>0, <1>4 DEF MarkerIndex
  <2>2. j < i
    <3>1. Len(layout) \in Nat
      OBVIOUS
    <3> HIDE DEF i, M
    <3> QED BY <1>0, <2>1, <3>1
  <2>3. Cardinality(B(j)) <= row
    <3>1. Cardinality(B(j)) <= Cardinality(M)
      BY <1>1
    <3> QED BY <2>1, <3>1
  <2>4. MarkersBefore(layout, j) <= row
    BY <1>2, <2>3, Zenon
  <2> QED BY <2>2, <2>4
<1> QED BY <1>3, <1>4

\* A marker put among the lines leaves the comments in their order, and is one more
\* above those it was put before.
LEMMA SplicedComments ==
  ASSUME NEW layout \in Seq(DocLine), NEW i \in 1..(Len(layout) + 1), NEW x \in DocLine, x.isRow
  PROVE  LET new == InsertAt(layout, i, x)
             f == [j \in Comments(layout) |-> IF j < i THEN j ELSE j + 1]
         IN /\ SameOrder(Comments(layout), Comments(new), f)
            /\ \A j \in Comments(layout) :
                 /\ new[f[j]] = layout[j]
                 /\ MarkersBefore(new, f[j]) = MarkersBefore(layout, j) + IF j < i THEN 0 ELSE 1
<1> DEFINE new == InsertAt(layout, i, x)
           C == Comments(layout)
           D == Comments(new)
           M == Markers(layout)
           N == Markers(new)
           f == [j \in C |-> IF j < i THEN j ELSE j + 1]
           n == Len(layout)
<1>1. /\ new \in Seq(DocLine) /\ Len(new) = n + 1 /\ n \in Nat /\ i \in 1..(n + 1)
      /\ \A j \in 1..(n + 1) : new[j] = IF j < i THEN layout[j] ELSE IF j = i THEN x ELSE layout[j - 1]
  <2>1. Inserted(new, DocLine, layout, i, x)
    BY InsertAtProperties
  <2> HIDE DEF new
  <2> QED BY <2>1 DEF Inserted
<1> HIDE DEF new
<1>2. /\ \A j : j \in C <=> j \in 1..n /\ ~layout[j].isRow
      /\ \A j : j \in D <=> j \in 1..(n + 1) /\ ~new[j].isRow
  BY <1>1, CommentsFinite
<1>3. /\ \A j : j \in M <=> j \in 1..n /\ layout[j].isRow
      /\ \A j : j \in N <=> j \in 1..(n + 1) /\ new[j].isRow
  BY <1>1 DEF Markers
<1>4. /\ M \in SUBSET Nat /\ IsFiniteSet(M) /\ N \in SUBSET Nat /\ IsFiniteSet(N)
  BY <1>1, MarkersFinite
<1>5. ASSUME NEW j \in 1..n
      PROVE  new[IF j < i THEN j ELSE j + 1] = layout[j]
             /\ (IF j < i THEN j ELSE j + 1) \in 1..(n + 1)
  <2>1. CASE j < i
    BY <1>1, <2>1
  <2>2. CASE ~(j < i)
    <3>1. j + 1 \in 1..(n + 1) /\ ~(j + 1 < i) /\ j + 1 # i /\ (j + 1) - 1 = j
      BY <1>1, <2>2
    <3> QED BY <1>1, <2>2, <3>1
  <2> QED BY <2>1, <2>2
<1>6. ASSUME NEW k \in 1..(n + 1), k # i
      PROVE  \E j \in 1..n : k = (IF j < i THEN j ELSE j + 1) /\ new[k] = layout[j]
  <2>1. CASE k < i
    BY <1>1, <2>1
  <2>2. CASE ~(k < i)
    <3>1. k - 1 \in 1..n /\ ~(k - 1 < i) /\ k = (k - 1) + 1
      BY <1>1, <1>6, <2>2
    <3> QED BY <1>1, <1>6, <2>2, <3>1
  <2> QED BY <2>1, <2>2
<1>7. new[i] = x
  BY <1>1
<1> HIDE DEF C, D, M, N, n
<1>8. SameOrder(C, D, f)
  <2>1. ASSUME NEW j \in C  PROVE f[j] \in D
    BY <1>2, <1>5
  <2>2. ASSUME NEW t \in D  PROVE \E j \in C : f[j] = t
    <3>1. t \in 1..(n + 1) /\ t # i /\ ~new[t].isRow
      BY <1>2, <1>7
    <3>2. PICK j \in 1..n : t = (IF j < i THEN j ELSE j + 1) /\ new[t] = layout[j]
      BY <1>6, <3>1
    <3> QED BY <1>2, <3>1, <3>2
  <2>3. \A j, k \in C : j < k => f[j] < f[k]
    BY <1>1, <1>2
  <2> HIDE DEF f
  <2> QED BY <2>1, <2>2, <2>3 DEF SameOrder
<1>9. ASSUME NEW j \in C, j < i  PROVE {m \in N : m < j} = {m \in M : m < j}
  <2>1. \A m \in 1..(n + 1) : m < j => m \in 1..n /\ new[m] = layout[m]
    BY <1>1, <1>2, <1>9
  <2>2. \A m \in 1..n : m \in 1..(n + 1)
    BY <1>1
  <2> QED BY <1>3, <2>1, <2>2
<1>10. ASSUME NEW j \in C, ~(j < i)
       PROVE  Cardinality({m \in N : m < j + 1}) = Cardinality({m \in M : m < j}) + 1
  <2> DEFINE A == {m \in M : m < j}
             B == {m \in N : m < j + 1}
             g == [m \in A |-> IF m < i THEN m ELSE m + 1]
  <2>0. j \in 1..n /\ i < j + 1 /\ j \in Nat
    <3>1. j \in 1..n /\ ~(j < i)
      BY <1>2, <1>10
    <3>2. i \in Nat /\ j \in Nat
      BY <1>1, <3>1
    <3> QED BY <3>1, <3>2
  <2>1. i \in B
    BY <1>1, <1>3, <1>7, <2>0
  <2>2. ASSUME NEW m \in A  PROVE g[m] \in B \ {i}
    <3>1. m \in 1..n /\ layout[m].isRow /\ m < j
      BY <1>3
    <3>2. g[m] \in 1..(n + 1) /\ new[g[m]] = layout[m]
      BY <1>5, <3>1
    <3>3. g[m] < j + 1 /\ g[m] # i
      BY <1>1, <2>0, <3>1
    <3> HIDE DEF g
    <3> QED BY <1>3, <3>1, <3>2, <3>3
  <2>3. ASSUME NEW t \in B \ {i}  PROVE \E m \in A : g[m] = t
    <3>1. t \in 1..(n + 1) /\ t # i /\ new[t].isRow /\ t < j + 1
      BY <1>3
    <3>2. PICK m \in 1..n : t = (IF m < i THEN m ELSE m + 1) /\ new[t] = layout[m]
      BY <1>6, <3>1
    <3>3. m < j
      BY <1>1, <2>0, <3>1, <3>2
    <3>4. m \in A
      BY <1>3, <3>1, <3>2, <3>3
    <3> QED BY <3>2, <3>4
  <2>4. \A m, k \in A : g[m] = g[k] => m = k
    <3>1. \A m \in A : m \in 1..n
      BY <1>3
    <3> QED BY <1>1, <3>1
  <2>5. g \in Bijection(A, B \ {i})
    <3> HIDE DEF A, B
    <3> QED BY <2>2, <2>3, <2>4 DEF Bijection, Injection, Surjection, IsInjective
  <2>6. A \in SUBSET M /\ B \in SUBSET N
    OBVIOUS
  <2> HIDE DEF A, B, g
  <2>7. IsFiniteSet(A) /\ IsFiniteSet(B) /\ Cardinality(A) \in Nat /\ Cardinality(B) \in Nat
    BY <1>4, <2>6, FS_Subset, FS_CardinalityType
  <2>8. Cardinality(B \ {i}) = Cardinality(A)
    BY <2>5, <2>7, FS_Bijection DEF ExistsBijection
  <2>9. Cardinality(B \ {i}) = Cardinality(B) - 1
    BY <2>1, <2>7, FS_RemoveElement
  <2>10. Cardinality(B) = Cardinality(A) + 1
    BY <2>7, <2>8, <2>9
  <2> QED BY <2>10 DEF A, B
<1>11. ASSUME NEW j \in C
       PROVE  /\ new[f[j]] = layout[j]
              /\ MarkersBefore(new, f[j]) = MarkersBefore(layout, j) + IF j < i THEN 0 ELSE 1
  <2>1. new[f[j]] = layout[j]
    BY <1>2, <1>5
  <2>2. MarkersBefore(layout, j) = Cardinality({m \in M : m < j})
        /\ MarkersBefore(new, f[j]) = Cardinality({m \in N : m < f[j]})
    BY DEF MarkersBefore, M, N
  <2>3. MarkersBefore(layout, j) \in Nat
    <3>1. {m \in M : m < j} \in SUBSET M
      OBVIOUS
    <3> QED BY <1>4, <2>2, <3>1, FS_Subset, FS_CardinalityType
  <2>4. CASE j < i
    <3>1. f[j] = j
      BY <2>4
    <3>2. MarkersBefore(new, f[j]) = MarkersBefore(layout, j)
      BY <1>9, <2>2, <2>4, <3>1
    <3> QED BY <2>1, <2>3, <2>4, <3>2
  <2>5. CASE ~(j < i)
    <3>1. f[j] = j + 1
      BY <2>5
    <3>2. MarkersBefore(new, f[j]) = MarkersBefore(layout, j) + 1
      BY <1>10, <2>2, <2>5, <3>1
    <3> QED BY <2>1, <2>5, <3>2
  <2> QED BY <2>4, <2>5
<1> QED BY <1>8, <1>11 DEF C, D, new

\* Putting back what was taken out.
LEMMA InsertRemoved ==
  ASSUME NEW T, NEW s \in Seq(T), NEW i \in 1..Len(s)
  PROVE  InsertAt(RemoveAt(s, i), i, s[i]) = s
<1> DEFINE r == RemoveAt(s, i)
           t == InsertAt(r, i, s[i])
<1>1. /\ r \in Seq(T) /\ Len(r) = Len(s) - 1 /\ Len(s) \in Nat
      /\ \A j \in 1..(Len(s) - 1) : r[j] = IF j < i THEN s[j] ELSE s[j + 1]
  BY RemoveAtProperties
<1>2. i \in 1..(Len(r) + 1) /\ s[i] \in T
  BY <1>1
<1> HIDE DEF r
<1>3. Inserted(t, T, r, i, s[i])
  BY <1>1, <1>2, InsertAtProperties
<1> HIDE DEF t
<1>4. /\ t \in Seq(T) /\ Len(t) = Len(s)
      /\ \A j \in 1..Len(s) : t[j] = IF j < i THEN r[j] ELSE IF j = i THEN s[i] ELSE r[j - 1]
  BY <1>1, <1>3 DEF Inserted
<1>5. ASSUME NEW j \in 1..Len(s)  PROVE t[j] = s[j]
  <2>1. CASE j < i
    <3>1. j \in 1..(Len(s) - 1)
      BY <1>1, <2>1
    <3>2. t[j] = r[j] /\ r[j] = s[j]
      BY <1>1, <1>4, <2>1, <3>1
    <3> QED BY <3>2
  <2>2. CASE j = i
    BY <1>4, <2>2
  <2>3. CASE j > i
    <3>1. j - 1 \in 1..(Len(s) - 1) /\ ~(j - 1 < i) /\ (j - 1) + 1 = j
      BY <1>1, <2>3
    <3> QED BY <1>1, <1>4, <2>3, <3>1
  <2> QED BY <2>1, <2>2, <2>3
<1>6. t = s
  BY <1>4, <1>5, SeqEqual
<1> QED BY <1>6 DEF t, r

\* Markers added at the end are below every comment.
LEMMA AppendedComments ==
  ASSUME NEW layout \in Seq(DocLine), NEW n \in Nat
  PROVE  LET new == AppendMarkers(layout, n) IN
         /\ Comments(new) = Comments(layout)
         /\ \A j \in Comments(layout) : new[j] = layout[j]
                                        /\ MarkersBefore(new, j) = MarkersBefore(layout, j)
<1> DEFINE tail == [k \in 1..n |-> Marker]
           new == layout \o tail
           L == Len(layout)
<1>1. tail \in Seq(DocLine) /\ Len(tail) = n /\ L \in Nat
  BY MarkerType
<1>2. /\ new \in Seq(DocLine) /\ Len(new) = L + n
      /\ \A j \in 1..L : new[j] = layout[j]
      /\ \A j \in 1..(L + n) : j \notin 1..L => new[j] = Marker
  BY <1>1
<1> HIDE DEF new, tail, L
<1>3. /\ \A j : j \in Comments(layout) <=> j \in 1..L /\ ~layout[j].isRow
      /\ \A j : j \in Comments(new) <=> j \in 1..(L + n) /\ ~new[j].isRow
      /\ \A j : j \in Markers(layout) <=> j \in 1..L /\ layout[j].isRow
      /\ \A j : j \in Markers(new) <=> j \in 1..(L + n) /\ new[j].isRow
  BY <1>2, CommentsFinite DEF L, Markers
<1>4. 1..L \subseteq 1..(L + n)
  BY <1>1
<1>5. Comments(new) = Comments(layout)
  BY <1>2, <1>3, <1>4, MarkerType
<1>6. ASSUME NEW j \in Comments(layout)
      PROVE  {m \in Markers(new) : m < j} = {m \in Markers(layout) : m < j}
  <2>1. \A m \in 1..(L + n) : m < j => m \in 1..L
    BY <1>1, <1>3
  <2> QED BY <1>2, <1>3, <1>4, <2>1
<1>7. \A j \in Comments(layout) : new[j] = layout[j]
                                  /\ MarkersBefore(new, j) = MarkersBefore(layout, j)
  BY <1>2, <1>3, <1>6 DEF MarkersBefore
<1> QED BY <1>5, <1>7 DEF AppendMarkers, new, tail

-----------------------------------------------------------------------------
(***************************************************************************)
(* What a step does to the layout, comment by comment.                     *)
(***************************************************************************)

\* The k-th comment of a layout and the number of rows above it.
NthComment(layout, k) == layout[Nth(Comments(layout), k)].comment
RowsAbove(layout, k) == MarkersBefore(layout, Nth(Comments(layout), k))

LEMMA NthCommentIn ==
  ASSUME NEW layout \in Seq(DocLine), NEW k \in 1..Cardinality(Comments(layout))
  PROVE  Nth(Comments(layout), k) \in Comments(layout)
BY CommentsFinite, NthMember

LEMMA RowsAboveType ==
  ASSUME NEW layout \in Seq(DocLine), NEW k
  PROVE  RowsAbove(layout, k) \in Nat
<1> DEFINE below == {j \in Markers(layout) : j < Nth(Comments(layout), k)}
<1>1. below \subseteq Markers(layout)
  OBVIOUS
<1>2. IsFiniteSet(below)
  BY <1>1, MarkersFinite, FS_Subset
<1> QED BY <1>2, FS_CardinalityType DEF RowsAbove, MarkersBefore

LEMMA SpliceKeepsComments ==
  ASSUME NEW layout \in Seq(DocLine), NEW row \in 0..Cardinality(Markers(layout))
  PROVE  LET new == SpliceMarker(layout, row) IN
         /\ Cardinality(Comments(new)) = Cardinality(Comments(layout))
         /\ \A k \in 1..Cardinality(Comments(layout)) :
              /\ NthComment(new, k) = NthComment(layout, k)
              /\ RowsAbove(new, k) = IF RowsAbove(layout, k) > row THEN RowsAbove(layout, k) + 1
                                                                  ELSE RowsAbove(layout, k)
<1> DEFINE i == MarkerIndex(layout, row)
           new == InsertAt(layout, i, Marker)
           C == Comments(layout)
           f == [j \in C |-> IF j < i THEN j ELSE j + 1]
<1>1. i \in 1..(Len(layout) + 1) /\ row \in Nat
  BY MarkersFinite, MarkerIndexInRange
<1>2. /\ SameOrder(C, Comments(new), f)
      /\ \A j \in C : /\ new[f[j]] = layout[j]
                      /\ MarkersBefore(new, f[j]) = MarkersBefore(layout, j) + IF j < i THEN 0 ELSE 1
  <2> HIDE DEF i
  <2> QED BY <1>1, MarkerType, SplicedComments
<1>3. new \in Seq(DocLine)
  <2> HIDE DEF i
  <2> QED BY <1>1, MarkerType, InsertAtProperties DEF Inserted
<1>4. /\ C \in SUBSET Nat /\ IsFiniteSet(C) /\ Comments(new) \in SUBSET Nat
  <2> HIDE DEF new
  <2> QED BY <1>3, CommentsFinite
<1>5. \A j \in C : j < i <=> MarkersBefore(layout, j) <= row
  BY CommentBefore
<1> HIDE DEF i, new, C, f
<1>6. /\ Cardinality(Comments(new)) = Cardinality(C)
      /\ \A k \in 1..Cardinality(C) : Nth(Comments(new), k) = f[Nth(C, k)]
  BY <1>2, <1>4, SameOrderRank
<1>7. ASSUME NEW k \in 1..Cardinality(C)
      PROVE  /\ NthComment(new, k) = NthComment(layout, k)
             /\ RowsAbove(new, k) = IF RowsAbove(layout, k) > row THEN RowsAbove(layout, k) + 1
                                                                 ELSE RowsAbove(layout, k)
  <2> DEFINE j == Nth(C, k)
  <2>1. j \in C
    BY NthCommentIn DEF C
  <2>2. Nth(Comments(new), k) = f[j]
    BY <1>6
  <2> HIDE DEF j
  <2>3. NthComment(new, k) = NthComment(layout, k)
    BY <1>2, <2>1, <2>2 DEF NthComment, C, j
  <2>4. RowsAbove(new, k) = MarkersBefore(new, f[j]) /\ RowsAbove(layout, k) = MarkersBefore(layout, j)
    BY <2>2 DEF RowsAbove, C, j
  <2>5. RowsAbove(layout, k) \in Nat
    BY RowsAboveType
  <2>6. RowsAbove(new, k) = RowsAbove(layout, k) + IF j < i THEN 0 ELSE 1
    BY <1>2, <2>1, <2>4
  <2>7. j < i <=> RowsAbove(layout, k) <= row
    BY <1>5, <2>1, <2>4
  <2> QED BY <1>1, <2>3, <2>5, <2>6, <2>7
<1> QED BY <1>6, <1>7 DEF SpliceMarker, new, i, C

LEMMA RemoveKeepsComments ==
  ASSUME NEW layout \in Seq(DocLine), NEW row \in 0..(Cardinality(Markers(layout)) - 1)
  PROVE  LET new == RemoveMarker(layout, row) IN
         /\ Cardinality(Comments(new)) = Cardinality(Comments(layout))
         /\ \A k \in 1..Cardinality(Comments(layout)) :
              /\ NthComment(new, k) = NthComment(layout, k)
              /\ RowsAbove(new, k) = IF RowsAbove(layout, k) > row THEN RowsAbove(layout, k) - 1
                                                                  ELSE RowsAbove(layout, k)
<1> DEFINE i == MarkerIndex(layout, row)
           new == RemoveAt(layout, i)
           C == Comments(new)
           f == [j \in C |-> IF j < i THEN j ELSE j + 1]
<1>1. i \in Markers(layout) /\ i \in 1..Len(layout) /\ row \in 0..Cardinality(Markers(layout))
  BY MarkersFinite, MarkerFound
<1>2. layout[i] \in DocLine /\ layout[i].isRow
  BY <1>1 DEF Markers
<1> HIDE DEF i
<1>3. new \in Seq(DocLine) /\ Len(new) = Len(layout) - 1 /\ i \in 1..(Len(new) + 1)
  BY <1>1, RemoveAtProperties
<1>4. InsertAt(new, i, layout[i]) = layout
  BY <1>1, InsertRemoved
<1> HIDE DEF new
<1>5. /\ SameOrder(C, Comments(layout), f)
      /\ \A j \in C : /\ layout[f[j]] = new[j]
                      /\ MarkersBefore(layout, f[j]) = MarkersBefore(new, j) + IF j < i THEN 0 ELSE 1
  <2> DEFINE whole == InsertAt(new, i, layout[i])
  <2>1. /\ SameOrder(C, Comments(whole), f)
        /\ \A j \in C : /\ whole[f[j]] = new[j]
                        /\ MarkersBefore(whole, f[j]) = MarkersBefore(new, j) + IF j < i THEN 0 ELSE 1
    BY <1>2, <1>3, SplicedComments
  <2> HIDE DEF C, f
  <2> QED BY <1>4, <2>1
<1>6. /\ C \in SUBSET Nat /\ IsFiniteSet(C) /\ Comments(layout) \in SUBSET Nat
  BY <1>3, CommentsFinite
<1>7. \A j \in C : f[j] < i <=> j < i
  BY <1>1, <1>6
<1>8. \A j \in Comments(layout) : j < i <=> MarkersBefore(layout, j) <= row
  BY <1>1, CommentBefore DEF i
<1> HIDE DEF C, f
<1>9. /\ Cardinality(Comments(layout)) = Cardinality(C)
      /\ \A k \in 1..Cardinality(C) : Nth(Comments(layout), k) = f[Nth(C, k)]
  BY <1>5, <1>6, SameOrderRank
<1>10. ASSUME NEW k \in 1..Cardinality(C)
       PROVE  /\ NthComment(new, k) = NthComment(layout, k)
              /\ RowsAbove(new, k) = IF RowsAbove(layout, k) > row THEN RowsAbove(layout, k) - 1
                                                                  ELSE RowsAbove(layout, k)
  <2> DEFINE j == Nth(C, k)
  <2>1. j \in C
    BY <1>3, NthCommentIn DEF C
  <2>2. Nth(Comments(layout), k) = f[j]
    BY <1>9
  <2> HIDE DEF j
  <2>3. NthComment(new, k) = NthComment(layout, k)
    BY <1>5, <2>1, <2>2 DEF NthComment, C, j
  <2>4. RowsAbove(layout, k) = MarkersBefore(layout, f[j]) /\ RowsAbove(new, k) = MarkersBefore(new, j)
    BY <2>2 DEF RowsAbove, C, j
  <2>5. RowsAbove(new, k) \in Nat /\ row \in Nat
    BY <1>1, <1>3, RowsAboveType, MarkersFinite
  <2>6. RowsAbove(layout, k) = RowsAbove(new, k) + IF j < i THEN 0 ELSE 1
    BY <1>5, <2>1, <2>4
  <2>7. f[j] \in Comments(layout)
    BY <1>5, <2>1 DEF SameOrder
  <2>8. j < i <=> RowsAbove(layout, k) <= row
    BY <1>7, <1>8, <2>1, <2>4, <2>7
  <2> QED BY <2>3, <2>5, <2>6, <2>8
<1>11. Cardinality(C) = Cardinality(Comments(layout)) /\ C = Comments(new)
  BY <1>9 DEF C
<1> HIDE DEF new
<1>12. new = RemoveMarker(layout, row)
  BY DEF RemoveMarker, new, i
<1> QED BY <1>10, <1>11, <1>12
=============================================================================
