----------------------------- MODULE TextProofs -----------------------------
(***************************************************************************)
(* What Standalone promises of addresses and texts, proved of every        *)
(* alphabet, encoding and width of an int: how labels and addresses are    *)
(* read and written, how a cut text joins, what SUBSTITUTE replaces, and   *)
(* what the searches, which look at bytes, find of the runes.              *)
(***************************************************************************)
EXTENDS StandaloneProofs

-----------------------------------------------------------------------------
(* The addresses. *)

(* Numbers that go round, and what a sequence of letters or of digits comes to. *)

LEMMA Int64Is ==
  ASSUME AddressHalf \in Nat \ {0}, NEW n \in Int
  PROVE  /\ R!Int64(n) \in (-AddressHalf)..(AddressHalf - 1)
         /\ n \in (-AddressHalf)..(AddressHalf - 1) => R!Int64(n) = n
<1> DEFINE h == AddressHalf
           b == 2 * h
           k == n + h
<1>1. b \in Nat \ {0} /\ k \in Int /\ h \in Nat \ {0}
  OBVIOUS
<1>2. R!Int64(n) = (k % b) - h
  BY DEF R!Int64
<1> HIDE DEF b, k
<1>3. k % b \in 0..(b - 1)
  BY <1>1
<1>4. k \in 0..(b - 1) => k % b = k
  <2>1. k = 0 * b + k
    BY <1>1
  <2> QED BY <1>1, <2>1, QuotientIs
<1> QED BY <1>1, <1>2, <1>3, <1>4 DEF b, k

IndexStep(a, l) == R!Int64(a * Radix + l)

IterIndex(iter, s) ==
  iter = [t \in SUBSET (DOMAIN s) |->
            IF t = {} THEN 0 ELSE LET x == R!Max(t) IN IndexStep(iter[t \ {x}], s[x])]

LEMMA IndexUnfolds ==
  ASSUME NEW s
  PROVE  R!LettersToIndex(s) = R!Int64((CHOOSE iter : IterIndex(iter, s))[DOMAIN s] - 1)
BY Zenon DEF R!LettersToIndex, R!FoldLeft, R!MapThenFoldSet, IterIndex, IndexStep

IsIndexWalk(v, s) ==
  /\ v \in [0..Len(s) -> Int] /\ v[0] = 0 /\ R!LettersToIndex(s) = R!Int64(v[Len(s)] - 1)
  /\ \A i \in 1..Len(s) : v[i] = IndexStep(v[i - 1], s[i])

LEMMA IndexWalks ==
  ASSUME NEW s \in Seq(Int), \A a, l \in Int : IndexStep(a, l) \in Int
  PROVE  \E v : IsIndexWalk(v, s)
<1> DEFINE n == Len(s)
           g == [p \in (1..n) \X Int |-> IndexStep(p[2], s[p[1]])]
<1>1. n \in Nat /\ DOMAIN s = 1..n /\ \A i \in 1..n : s[i] \in Int
  BY ElementOfSeq, LenProperties
<1>2. \A i \in 1..n, a \in Int : IndexStep(a, s[i]) \in Int /\ g[<<i, a>>] = IndexStep(a, s[i])
  BY <1>1
<1>3. g \in [(1..n) \X Int -> Int]
  BY <1>2
<1> HIDE DEF g, n
<1>4. \A t : R!Max(t) = Greatest(t)
  BY DEF R!Max, Greatest
<1>5. \A t \in SUBSET (1..n) : t # {} => Greatest(t) \in t
  BY <1>1, GreatestIn
<1>6. \E iter : IterIndex(iter, s)
  <2>1. PICK f : IsFolded(f, Int, n, 0, g)
    <3>1. 0 \in Int
      OBVIOUS
    <3> QED BY <1>1, <1>3, <3>1, FoldExists
  <2>2. ASSUME NEW t \in SUBSET (1..n)
        PROVE  f[t] = IF t = {} THEN 0 ELSE LET x == R!Max(t) IN IndexStep(f[t \ {x}], s[x])
    <3>1. CASE t = {}
      BY <2>1, <3>1 DEF IsFolded
    <3>2. CASE t # {}
      <4> DEFINE x == Greatest(t)
                 rest == t \ {x}
      <4>1. x \in 1..n /\ rest \in SUBSET (1..n)
        BY <1>5, <3>2
      <4>2. f[rest] \in Int /\ f[t] = g[<<x, f[rest]>>]
        BY <2>1, <3>2, <4>1 DEF IsFolded
      <4> HIDE DEF x, rest
      <4>3. f[t] = IndexStep(f[rest], s[x])
        BY <1>2, <4>1, <4>2
      <4> QED BY <1>4, <3>2, <4>3 DEF x, rest
    <3> QED BY <3>1, <3>2
  <2>3. f = [t \in SUBSET (1..n) |-> f[t]]
    BY <2>1 DEF IsFolded
  <2>4. IterIndex(f, s)
    BY <1>1, <2>2, <2>3, Zenon DEF IterIndex
  <2> QED BY <2>4
<1> DEFINE iter == CHOOSE iter : IterIndex(iter, s)
<1>7. IterIndex(iter, s)
  BY <1>6
<1>8. R!LettersToIndex(s) = R!Int64(iter[1..n] - 1)
  BY <1>1, IndexUnfolds
<1> HIDE DEF iter
<1>9. \A t \in SUBSET (1..n) :
        iter[t] = IF t = {} THEN 0 ELSE IndexStep(iter[t \ {Greatest(t)}], s[Greatest(t)])
  BY <1>1, <1>4, <1>7, Zenon DEF IterIndex
<1>10. iter[{}] = 0
  BY <1>9
<1>11. \A t \in SUBSET (1..n) : t # {} /\ iter[t \ {Greatest(t)}] \in Int =>
                                   iter[t] = g[<<Greatest(t), iter[t \ {Greatest(t)}]>>]
  <2> TAKE t \in SUBSET (1..n)
  <2> HAVE t # {} /\ iter[t \ {Greatest(t)}] \in Int
  <2> QED BY <1>2, <1>5, <1>9
<1>12. PICK v : IsWalk(v, Int, n, 0, g) /\ v[n] = iter[1..n]
  <2>1. IsIteration(iter, Int, n, 0, g)
    BY <1>10, <1>11 DEF IsIteration
  <2>2. Walks(iter, Int, n, 0, g)
    <3>1. 0 \in Int
      OBVIOUS
    <3> QED BY <1>1, <1>3, <2>1, <3>1, FoldedAlong
  <2> QED BY <2>2 DEF Walks
<1>13. v \in [0..n -> Int] /\ v[0] = 0 /\ \A i \in 1..n : v[i] = IndexStep(v[i - 1], s[i])
  <2>1. v \in [0..n -> Int] /\ v[0] = 0 /\ \A i \in 1..n : v[i] = g[<<i, v[i - 1]>>]
    BY <1>12 DEF IsWalk
  <2>2. ASSUME NEW i \in 1..n PROVE v[i] = IndexStep(v[i - 1], s[i])
    <3>1. i - 1 \in 0..n
      BY <1>1
    <3> QED BY <1>2, <2>1, <3>1
  <2> QED BY <2>1, <2>2
<1>14. IsIndexWalk(v, s)
  BY <1>8, <1>12, <1>13 DEF IsIndexWalk, n
<1> QED BY <1>14

DecimalStep(a, l) == 10 * a + l

IterDecimal(iter, s) ==
  iter = [t \in SUBSET (DOMAIN s) |->
            IF t = {} THEN 0 ELSE LET x == R!Max(t) IN DecimalStep(iter[t \ {x}], s[x])]

LEMMA DecimalUnfolds ==
  ASSUME NEW s
  PROVE  R!Decimal(s) = (CHOOSE iter : IterDecimal(iter, s))[DOMAIN s]
BY Zenon DEF R!Decimal, R!FoldLeft, R!MapThenFoldSet, IterDecimal, DecimalStep

IsDecimalWalk(v, s) ==
  /\ v \in [0..Len(s) -> Int] /\ v[0] = 0 /\ R!Decimal(s) = v[Len(s)]
  /\ \A i \in 1..Len(s) : v[i] = DecimalStep(v[i - 1], s[i])

LEMMA DecimalWalks ==
  ASSUME NEW s \in Seq(Int), \A a, l \in Int : DecimalStep(a, l) \in Int
  PROVE  \E v : IsDecimalWalk(v, s)
<1> DEFINE n == Len(s)
           g == [p \in (1..n) \X Int |-> DecimalStep(p[2], s[p[1]])]
<1>1. n \in Nat /\ DOMAIN s = 1..n /\ \A i \in 1..n : s[i] \in Int
  BY ElementOfSeq, LenProperties
<1>2. \A i \in 1..n, a \in Int : DecimalStep(a, s[i]) \in Int /\ g[<<i, a>>] = DecimalStep(a, s[i])
  BY <1>1
<1>3. g \in [(1..n) \X Int -> Int]
  BY <1>2
<1> HIDE DEF g, n
<1>4. \A t : R!Max(t) = Greatest(t)
  BY DEF R!Max, Greatest
<1>5. \A t \in SUBSET (1..n) : t # {} => Greatest(t) \in t
  BY <1>1, GreatestIn
<1>6. \E iter : IterDecimal(iter, s)
  <2>1. PICK f : IsFolded(f, Int, n, 0, g)
    <3>1. 0 \in Int
      OBVIOUS
    <3> QED BY <1>1, <1>3, <3>1, FoldExists
  <2>2. ASSUME NEW t \in SUBSET (1..n)
        PROVE  f[t] = IF t = {} THEN 0 ELSE LET x == R!Max(t) IN DecimalStep(f[t \ {x}], s[x])
    <3>1. CASE t = {}
      BY <2>1, <3>1 DEF IsFolded
    <3>2. CASE t # {}
      <4> DEFINE x == Greatest(t)
                 rest == t \ {x}
      <4>1. x \in 1..n /\ rest \in SUBSET (1..n)
        BY <1>5, <3>2
      <4>2. f[rest] \in Int /\ f[t] = g[<<x, f[rest]>>]
        BY <2>1, <3>2, <4>1 DEF IsFolded
      <4> HIDE DEF x, rest
      <4>3. f[t] = DecimalStep(f[rest], s[x])
        BY <1>2, <4>1, <4>2
      <4> QED BY <1>4, <3>2, <4>3 DEF x, rest
    <3> QED BY <3>1, <3>2
  <2>3. f = [t \in SUBSET (1..n) |-> f[t]]
    BY <2>1 DEF IsFolded
  <2>4. IterDecimal(f, s)
    BY <1>1, <2>2, <2>3, Zenon DEF IterDecimal
  <2> QED BY <2>4
<1> DEFINE iter == CHOOSE iter : IterDecimal(iter, s)
<1>7. IterDecimal(iter, s)
  BY <1>6
<1>8. R!Decimal(s) = iter[1..n]
  BY <1>1, DecimalUnfolds
<1> HIDE DEF iter
<1>9. \A t \in SUBSET (1..n) :
        iter[t] = IF t = {} THEN 0 ELSE DecimalStep(iter[t \ {Greatest(t)}], s[Greatest(t)])
  BY <1>1, <1>4, <1>7, Zenon DEF IterDecimal
<1>10. iter[{}] = 0
  BY <1>9
<1>11. \A t \in SUBSET (1..n) : t # {} /\ iter[t \ {Greatest(t)}] \in Int =>
                                   iter[t] = g[<<Greatest(t), iter[t \ {Greatest(t)}]>>]
  <2> TAKE t \in SUBSET (1..n)
  <2> HAVE t # {} /\ iter[t \ {Greatest(t)}] \in Int
  <2> QED BY <1>2, <1>5, <1>9
<1>12. PICK v : IsWalk(v, Int, n, 0, g) /\ v[n] = iter[1..n]
  <2>1. IsIteration(iter, Int, n, 0, g)
    BY <1>10, <1>11 DEF IsIteration
  <2>2. Walks(iter, Int, n, 0, g)
    <3>1. 0 \in Int
      OBVIOUS
    <3> QED BY <1>1, <1>3, <2>1, <3>1, FoldedAlong
  <2> QED BY <2>2 DEF Walks
<1>13. v \in [0..n -> Int] /\ v[0] = 0 /\ \A i \in 1..n : v[i] = DecimalStep(v[i - 1], s[i])
  <2>1. v \in [0..n -> Int] /\ v[0] = 0 /\ \A i \in 1..n : v[i] = g[<<i, v[i - 1]>>]
    BY <1>12 DEF IsWalk
  <2>2. ASSUME NEW i \in 1..n PROVE v[i] = DecimalStep(v[i - 1], s[i])
    <3>1. i - 1 \in 0..n
      BY <1>1
    <3> QED BY <1>2, <2>1, <3>1
  <2> QED BY <2>1, <2>2
<1>14. IsDecimalWalk(v, s)
  BY <1>8, <1>12, <1>13 DEF IsDecimalWalk, n
<1> QED BY <1>14

(* What is defined of a number by what it is of a smaller one. *)

\* Of the numbers up to n: at a start it is given, elsewhere it is made of what it is of
\* the number below.
IsDescent(f, n, S, start, b, g, below) ==
  /\ f \in [0..n -> S]
  /\ \A k \in 0..n : f[k] = IF k \in start THEN b[k] ELSE g[<<k, f[below[k]]>>]

IsDescending(start, below) ==
  below \in [Nat -> Nat] /\ \A k \in Nat : k \notin start => below[k] < k

LEMMA DescentExists ==
  ASSUME NEW S, NEW start, NEW b \in [Nat -> S], NEW g \in [Nat \X S -> S], NEW below,
         IsDescending(start, below), NEW n \in Nat
  PROVE  \E f : IsDescent(f, n, S, start, b, g, below)
<1> DEFINE ValueOf(f, k) == IF k \in start THEN b[k] ELSE g[<<k, f[below[k]]>>]
           T == {m \in Nat : \E f : IsDescent(f, m, S, start, b, g, below)}
<1>0. \A k \in Nat : below[k] \in Nat /\ (k \notin start => below[k] < k)
  BY DEF IsDescending
<1>1. 0 \in T
  <2> DEFINE f == [k \in 0..0 |-> b[0]]
  <2>1. 0 \in start
    BY <1>0
  <2>2. \A k \in 0..0 : k = 0
    OBVIOUS
  <2>3. IsDescent(f, 0, S, start, b, g, below)
    BY <2>1, <2>2 DEF IsDescent
  <2> QED BY <2>3
<1>2. ASSUME NEW m \in Nat, m \in T PROVE m + 1 \in T
  <2>1. PICK f : IsDescent(f, m, S, start, b, g, below)
    BY <1>2
  <2>2. f \in [0..m -> S] /\ \A k \in 0..m : f[k] = ValueOf(f, k)
    BY <2>1 DEF IsDescent
  <2> DEFINE x == ValueOf(f, m + 1)
             h == [k \in 0..(m + 1) |-> IF k = m + 1 THEN x ELSE f[k]]
  <2>3. m + 1 \notin start => below[m + 1] \in 0..m
    BY <1>0
  <2>4. x \in S
    <3>1. CASE m + 1 \in start
      BY <3>1
    <3>2. CASE m + 1 \notin start
      <4>1. f[below[m + 1]] \in S
        BY <2>2, <2>3, <3>2
      <4> QED BY <3>2, <4>1
    <3> QED BY <3>1, <3>2
  <2>5. \A k \in 0..m : k \in 0..(m + 1) /\ k # m + 1
    OBVIOUS
  <2> HIDE DEF x
  <2>6. \A k \in 0..m : h[k] = f[k]
    BY <2>5
  <2>7. h[m + 1] = x
    OBVIOUS
  <2>8. h \in [0..(m + 1) -> S]
    <3>1. \A k \in 0..(m + 1) : k = m + 1 \/ k \in 0..m
      OBVIOUS
    <3> QED BY <2>2, <2>4, <3>1
  <2> HIDE DEF h
  <2>9. ASSUME NEW k \in 0..(m + 1) PROVE h[k] = ValueOf(h, k)
    <3>1. k \notin start => below[k] \in 0..m
      BY <1>0
    <3>2. ValueOf(h, k) = ValueOf(f, k)
      BY <2>6, <3>1
    <3>3. CASE k = m + 1
      BY <2>7, <3>2, <3>3 DEF x
    <3>4. CASE k # m + 1
      <4>1. k \in 0..m
        BY <3>4
      <4> QED BY <2>2, <2>6, <3>2, <4>1
    <3> QED BY <3>3, <3>4
  <2>10. IsDescent(h, m + 1, S, start, b, g, below)
    BY <2>8, <2>9 DEF IsDescent
  <2> QED BY <2>10
<1> HIDE DEF T
<1>3. n \in T
  BY <1>1, <1>2, Upward
<1> QED BY <1>3 DEF T

LEMMA DescentsAgree ==
  ASSUME NEW S, NEW start, NEW b, NEW g, NEW below, IsDescending(start, below),
         NEW n \in Nat, NEW f, IsDescent(f, n, S, start, b, g, below),
         NEW m \in Nat, NEW h, IsDescent(h, m, S, start, b, g, below)
  PROVE  \A k \in Nat : k <= n /\ k <= m => f[k] = h[k]
<1> DEFINE T == {k \in Nat : k <= n /\ k <= m /\ f[k] # h[k]}
<1>1. CASE T # {}
  <2>1. PICK k \in T : \A j \in T : k <= j
    <3>1. T \in SUBSET Nat
      OBVIOUS
    <3> HIDE DEF T
    <3> QED BY <1>1, <3>1, LeastOf
  <2>2. k \in 0..n /\ k \in 0..m /\ k \in Nat /\ f[k] # h[k]
    OBVIOUS
  <2>3. f[k] = (IF k \in start THEN b[k] ELSE g[<<k, f[below[k]]>>])
        /\ h[k] = (IF k \in start THEN b[k] ELSE g[<<k, h[below[k]]>>])
    BY <2>2 DEF IsDescent
  <2>4. k \notin start
    BY <2>2, <2>3
  <2>5. below[k] \in Nat /\ below[k] < k
    BY <2>2, <2>4 DEF IsDescending
  <2>6. below[k] \notin T
    <3> HIDE DEF T
    <3> QED BY <2>1, <2>2, <2>5
  <2>7. f[below[k]] = h[below[k]]
    BY <2>2, <2>5, <2>6
  <2> QED BY <2>2, <2>3, <2>7
<1>2. CASE T = {}
  BY <1>2
<1> QED BY <1>1, <1>2

IsDescended(f, S, start, b, g, below) ==
  /\ f \in [Nat -> S]
  /\ \A k \in Nat : f[k] = IF k \in start THEN b[k] ELSE g[<<k, f[below[k]]>>]

LEMMA Descends ==
  ASSUME NEW S, NEW start, NEW b \in [Nat -> S], NEW g \in [Nat \X S -> S], NEW below,
         IsDescending(start, below)
  PROVE  \E f : IsDescended(f, S, start, b, g, below)
<1> DEFINE Upto(n) == CHOOSE f : IsDescent(f, n, S, start, b, g, below)
           f == [n \in Nat |-> Upto(n)[n]]
<1>1. \A n \in Nat : IsDescent(Upto(n), n, S, start, b, g, below)
  BY DescentExists
<1> HIDE DEF Upto
<1>2. f \in [Nat -> S]
  <2> SUFFICES ASSUME NEW n \in Nat PROVE Upto(n)[n] \in S
    OBVIOUS
  <2>1. n \in 0..n
    OBVIOUS
  <2> QED BY <1>1, <2>1 DEF IsDescent
<1>3. ASSUME NEW k \in Nat PROVE f[k] = IF k \in start THEN b[k] ELSE g[<<k, f[below[k]]>>]
  <2>1. k \in 0..k
    OBVIOUS
  <2>2. f[k] = IF k \in start THEN b[k] ELSE g[<<k, Upto(k)[below[k]]>>]
    BY <1>1, <2>1 DEF IsDescent
  <2>3. CASE k \in start
    BY <2>2, <2>3
  <2>4. CASE k \notin start
    <3> DEFINE j == below[k]
    <3>1. j \in Nat /\ j <= k /\ j <= j
      BY <2>4 DEF IsDescending
    <3> HIDE DEF j
    <3>2. Upto(k)[j] = Upto(j)[j]
      BY <1>1, <3>1, DescentsAgree
    <3>3. f[j] = Upto(k)[j]
      BY <3>1, <3>2
    <3> QED BY <2>2, <2>4, <3>3 DEF j
  <2> QED BY <2>3, <2>4
<1> HIDE DEF f
<1>4. IsDescended(f, S, start, b, g, below)
  BY <1>2, <1>3 DEF IsDescended
<1> QED BY <1>4

(* Labels and decimals, of every number. *)

LEMMA Quotients ==
  ASSUME NEW b \in Nat \ {0}, NEW k \in Nat
  PROVE  k \div b \in Nat /\ k % b \in 0..(b - 1) /\ k = (k \div b) * b + (k % b)
OBVIOUS

LEMMA QuotientBelow ==
  ASSUME NEW b \in Nat \ {0}, NEW q \in Nat
  PROVE  q <= q * b
OBVIOUS

IsLabels(label) ==
  label = [k \in Nat |-> IF k = 0 THEN <<>>
                         ELSE Append(label[(k - 1) \div Radix], ((k - 1) % Radix) + 1)]

LEMMA LabelUnfolds ==
  ASSUME NEW n
  PROVE  R!Label(n) = IF n <= 0 THEN <<>> ELSE (CHOOSE label : IsLabels(label))[n]
BY Zenon DEF R!Label, IsLabels

IsDigits(digits) ==
  digits = [k \in Nat |-> IF k < 10 THEN <<k>> ELSE Append(digits[k \div 10], k % 10)]

LEMMA DigitsUnfold ==
  ASSUME NEW n
  PROVE  R!DigitsOf(n) = (CHOOSE digits : IsDigits(digits))[n]
BY Zenon DEF R!DigitsOf, IsDigits

LEMMA LabelsExist ==
  ASSUME Radix \in Nat \ {0}
  PROVE  \E label : IsLabels(label)
<1> DEFINE S == Seq(1..Radix)
           start == {0}
           b == [k \in Nat |-> <<>>]
           below == [k \in Nat |-> IF k = 0 THEN 0 ELSE (k - 1) \div Radix]
           g == [p \in Nat \X S |-> IF p[1] = 0 THEN <<>> ELSE Append(p[2], ((p[1] - 1) % Radix) + 1)]
<1>1. \A k \in Nat : k # 0 => (k - 1) \div Radix \in Nat /\ (k - 1) \div Radix < k
                              /\ ((k - 1) % Radix) + 1 \in 1..Radix
  <2> SUFFICES ASSUME NEW k \in Nat, k # 0
               PROVE  (k - 1) \div Radix \in Nat /\ (k - 1) \div Radix < k
                      /\ ((k - 1) % Radix) + 1 \in 1..Radix
    OBVIOUS
  <2> DEFINE l == k - 1
             q == l \div Radix
             r == l % Radix
  <2>1. l \in Nat /\ l < k
    OBVIOUS
  <2> HIDE DEF l
  <2>2. q \in Nat /\ r \in 0..(Radix - 1) /\ l = q * Radix + r
    BY <2>1, Quotients
  <2> HIDE DEF q, r
  <2>3. q <= q * Radix /\ q * Radix \in Nat
    BY <2>2, QuotientBelow
  <2>4. q \in Nat /\ q < k /\ r + 1 \in 1..Radix
    BY <2>1, <2>2, <2>3
  <2> QED BY <2>4 DEF q, r, l
<1>2. b \in [Nat -> S]
  <2>1. <<>> \in S
    BY EmptySeq
  <2> QED BY <2>1
<1>3. g \in [Nat \X S -> S]
  <2> SUFFICES ASSUME NEW k \in Nat, NEW s \in S
               PROVE  (IF k = 0 THEN <<>> ELSE Append(s, ((k - 1) % Radix) + 1)) \in S
    OBVIOUS
  <2>1. <<>> \in S
    BY EmptySeq
  <2>2. k # 0 => Append(s, ((k - 1) % Radix) + 1) \in S
    BY <1>1, AppendProperties
  <2> QED BY <2>1, <2>2
<1>4. IsDescending(start, below)
  <2>1. \A k \in Nat : below[k] = IF k = 0 THEN 0 ELSE (k - 1) \div Radix
    OBVIOUS
  <2>2. below \in [Nat -> Nat]
    BY <1>1
  <2> HIDE DEF below
  <2> QED BY <1>1, <2>1, <2>2 DEF IsDescending
<1>5. \A k \in Nat : /\ b[k] = <<>>
                     /\ k # 0 => below[k] = (k - 1) \div Radix
                     /\ \A s \in S : g[<<k, s>>] = IF k = 0 THEN <<>>
                                                   ELSE Append(s, ((k - 1) % Radix) + 1)
  OBVIOUS
<1> HIDE DEF b, below, g, S
<1>6. PICK f : IsDescended(f, S, start, b, g, below)
  BY <1>2, <1>3, <1>4, Descends
<1>7. ASSUME NEW k \in Nat
      PROVE  f[k] = IF k = 0 THEN <<>> ELSE Append(f[(k - 1) \div Radix], ((k - 1) % Radix) + 1)
  <2>1. CASE k = 0
    BY <1>5, <1>6, <2>1 DEF IsDescended
  <2>2. CASE k # 0
    <3>1. (k - 1) \div Radix \in Nat
      BY <1>1, <2>2
    <3>2. f[(k - 1) \div Radix] \in S
      BY <1>6, <3>1 DEF IsDescended
    <3>3. f[k] = g[<<k, f[(k - 1) \div Radix]>>]
      BY <1>5, <1>6, <2>2 DEF IsDescended
    <3> QED BY <1>5, <2>2, <3>2, <3>3
  <2> QED BY <2>1, <2>2
<1>8. f = [k \in Nat |-> f[k]]
  BY <1>6 DEF IsDescended
<1>9. IsLabels(f)
  BY <1>7, <1>8, Zenon DEF IsLabels
<1> QED BY <1>9

LEMMA DigitsExist == \E digits : IsDigits(digits)
<1> DEFINE S == Seq(0..9)
           start == 0..9
           b == [k \in Nat |-> IF k \in 0..9 THEN <<k>> ELSE <<>>]
           below == [k \in Nat |-> IF k < 10 THEN 0 ELSE k \div 10]
           g == [p \in Nat \X S |-> Append(p[2], p[1] % 10)]
<1>1. \A k \in Nat : ~(k < 10) => k \div 10 \in Nat /\ k \div 10 < k
  OBVIOUS
<1>2. b \in [Nat -> S]
  <2>1. <<>> \in S
    BY EmptySeq
  <2>2. \A k \in 0..9 : <<k>> \in S
    OBVIOUS
  <2> HIDE DEF S
  <2> QED BY <2>1, <2>2
<1>3. g \in [Nat \X S -> S]
  <2> SUFFICES ASSUME NEW k \in Nat, NEW s \in S PROVE Append(s, k % 10) \in S
    OBVIOUS
  <2>1. k % 10 \in 0..9
    OBVIOUS
  <2> QED BY <2>1, AppendProperties
<1>4. IsDescending(start, below)
  <2>1. \A k \in Nat : below[k] = IF k < 10 THEN 0 ELSE k \div 10
    OBVIOUS
  <2>2. below \in [Nat -> Nat]
    BY <1>1
  <2>3. \A k \in Nat : k \notin start => ~(k < 10)
    OBVIOUS
  <2> HIDE DEF below, start
  <2> QED BY <1>1, <2>1, <2>2, <2>3 DEF IsDescending
<1>5. \A k \in Nat : /\ k < 10 => k \in start /\ b[k] = <<k>>
                     /\ ~(k < 10) => k \notin start /\ below[k] = k \div 10
                     /\ \A s \in S : g[<<k, s>>] = Append(s, k % 10)
  OBVIOUS
<1> HIDE DEF b, below, g, S, start
<1>6. PICK f : IsDescended(f, S, start, b, g, below)
  BY <1>2, <1>3, <1>4, Descends
<1>7. ASSUME NEW k \in Nat
      PROVE  f[k] = IF k < 10 THEN <<k>> ELSE Append(f[k \div 10], k % 10)
  <2>1. CASE k < 10
    BY <1>5, <1>6, <2>1 DEF IsDescended
  <2>2. CASE ~(k < 10)
    <3>1. k \div 10 \in Nat
      BY <1>1, <2>2
    <3>2. f[k \div 10] \in S
      BY <1>6, <3>1 DEF IsDescended
    <3>3. f[k] = g[<<k, f[k \div 10]>>]
      BY <1>5, <1>6, <2>2 DEF IsDescended
    <3> QED BY <1>5, <2>2, <3>2, <3>3
  <2> QED BY <2>1, <2>2
<1>8. f = [k \in Nat |-> f[k]]
  BY <1>6 DEF IsDescended
<1>9. IsDigits(f)
  BY <1>7, <1>8, Zenon DEF IsDigits
<1> QED BY <1>9

\* The labels of the numbers, letter by letter.
LabelFacts(label) ==
  /\ label[0] = <<>>
  /\ \A k \in Nat : label[k] \in Seq(1..Radix)
  /\ \A q \in Nat, r \in 1..Radix : label[q * Radix + r] = Append(label[q], r)
  /\ \A n \in Int : R!Label(n) = IF n <= 0 THEN <<>> ELSE label[n]

LEMMA LabelsAre ==
  ASSUME Radix \in Nat \ {0}
  PROVE  \E label : LabelFacts(label)
<1> DEFINE label == CHOOSE label : IsLabels(label)
           S == Seq(1..Radix)
<1>1. IsLabels(label)
  BY LabelsExist
<1>2. \A n \in Int : R!Label(n) = IF n <= 0 THEN <<>> ELSE label[n]
  BY LabelUnfolds
<1> HIDE DEF label
<1>3. \A k \in Nat : label[k] = IF k = 0 THEN <<>>
                                ELSE Append(label[(k - 1) \div Radix], ((k - 1) % Radix) + 1)
  BY <1>1, Zenon DEF IsLabels
<1>4. label[0] = <<>>
  BY <1>3
<1>5. ASSUME NEW q \in Nat, NEW r \in 1..Radix
      PROVE  label[q * Radix + r] = Append(label[q], r)
  <2> DEFINE k == q * Radix + r
             l == k - 1
             p == r - 1
  <2>1. q * Radix \in Nat
    OBVIOUS
  <2>2. k \in Nat /\ k # 0 /\ l \in Int /\ p \in 0..(Radix - 1) /\ l = q * Radix + p /\ p + 1 = r
    BY <2>1
  <2>3. label[k] = Append(label[l \div Radix], (l % Radix) + 1)
    BY <1>3, <2>2
  <2> HIDE DEF k, l, p
  <2>4. l \div Radix = q /\ l % Radix = p
    BY <2>2, QuotientIs
  <2> QED BY <2>2, <2>3, <2>4 DEF k
<1>6. \A k \in Nat : label[k] \in S
  <2> DEFINE T == {k \in Nat : label[k] \notin S}
  <2>1. ASSUME T # {} PROVE FALSE
    <3>1. PICK k \in T : \A j \in T : k <= j
      <4>1. T \in SUBSET Nat
        OBVIOUS
      <4> HIDE DEF T
      <4> QED BY <2>1, <4>1, LeastOf
    <3>2. k \in Nat /\ label[k] \notin S
      OBVIOUS
    <3>3. k # 0
      BY <1>4, <3>2, EmptySeq
    <3> DEFINE l == k - 1
               q == l \div Radix
               p == l % Radix
    <3>4. l \in Nat /\ l < k
      BY <3>2, <3>3
    <3> HIDE DEF l
    <3>5. q \in Nat /\ p \in 0..(Radix - 1) /\ l = q * Radix + p
      BY <3>4, Quotients
    <3>6. label[k] = Append(label[q], p + 1)
      BY <1>3, <3>2, <3>3 DEF l
    <3> HIDE DEF q, p
    <3>7. q <= q * Radix /\ q * Radix \in Nat
      BY <3>5, QuotientBelow
    <3>8. q < k /\ p + 1 \in 1..Radix
      BY <3>2, <3>4, <3>5, <3>7
    <3>9. label[q] \in S
      <4>1. q \notin T
        <5> HIDE DEF T
        <5> QED BY <3>1, <3>2, <3>5, <3>8
      <4> QED BY <3>5, <4>1
    <3> QED BY <3>2, <3>6, <3>8, <3>9, AppendProperties
  <2> QED BY <2>1
<1> QED BY <1>2, <1>4, <1>5, <1>6 DEF LabelFacts

\* The digits of the numbers.
DigitsFacts(digits) ==
  /\ \A k \in 0..9 : digits[k] = <<k>>
  /\ \A q \in Nat \ {0}, r \in 0..9 : digits[10 * q + r] = Append(digits[q], r)
  /\ \A n : R!DigitsOf(n) = digits[n]

LEMMA DigitsAre == \E digits : DigitsFacts(digits)
<1> DEFINE digits == CHOOSE digits : IsDigits(digits)
<1>1. IsDigits(digits)
  BY DigitsExist
<1>2. \A n : R!DigitsOf(n) = digits[n]
  BY DigitsUnfold
<1> HIDE DEF digits
<1>3. \A k \in Nat : digits[k] = IF k < 10 THEN <<k>> ELSE Append(digits[k \div 10], k % 10)
  BY <1>1, Zenon DEF IsDigits
<1>4. ASSUME NEW k \in 0..9 PROVE digits[k] = <<k>>
  <2>1. k \in Nat /\ k < 10
    OBVIOUS
  <2> QED BY <1>3, <2>1
<1>5. ASSUME NEW q \in Nat \ {0}, NEW r \in 0..9
      PROVE  digits[10 * q + r] = Append(digits[q], r)
  <2>1. 10 * q + r \in Nat /\ ~(10 * q + r < 10) /\ (10 * q + r) \div 10 = q /\ (10 * q + r) % 10 = r
    OBVIOUS
  <2> QED BY <1>3, <2>1
<1> QED BY <1>2, <1>4, <1>5 DEF DigitsFacts

\* What is carried along the numbers to n, from 0.
IsCarriedFrom(f, S, n, b, g) ==
  f \in [0..n -> S] /\ \A k \in 0..n : f[k] = IF k = 0 THEN b ELSE g[<<k, f[k - 1]>>]

LEMMA CarriedFrom ==
  ASSUME NEW S, NEW n \in Nat, NEW b \in S, NEW g \in [(1..n) \X S -> S]
  PROVE  \E f : IsCarriedFrom(f, S, n, b, g)
<1> DEFINE all == [p \in Nat \X S |-> IF p[1] \in 1..n THEN g[p] ELSE b]
           start == [k \in Nat |-> b]
           below == [k \in Nat |-> IF k = 0 THEN 0 ELSE k - 1]
           zero == {0}
<1>1. all \in [Nat \X S -> S]
  <2> SUFFICES ASSUME NEW p \in Nat \X S PROVE (IF p[1] \in 1..n THEN g[p] ELSE b) \in S
    OBVIOUS
  <2>1. p[1] \in 1..n => p \in (1..n) \X S
    OBVIOUS
  <2> QED BY <2>1
<1>2. start \in [Nat -> S]
  OBVIOUS
<1>3. IsDescending(zero, below)
  BY DEF IsDescending
<1>4. \A k \in 1..n, s \in S : all[<<k, s>>] = g[<<k, s>>]
  OBVIOUS
<1>5. \A k \in Nat : start[k] = b /\ (k # 0 => below[k] = k - 1) /\ (k \in zero <=> k = 0)
  OBVIOUS
<1> HIDE DEF all, start, below, zero
<1>6. PICK f : IsDescent(f, n, S, zero, start, all, below)
  BY <1>1, <1>2, <1>3, DescentExists
<1>7. ASSUME NEW k \in 0..n PROVE f[k] = IF k = 0 THEN b ELSE g[<<k, f[k - 1]>>]
  <2>1. CASE k = 0
    BY <1>5, <1>6, <2>1 DEF IsDescent
  <2>2. CASE k # 0
    <3>1. k \in Nat /\ k \in 1..n /\ k - 1 \in 0..n
      BY <2>2
    <3>2. f[k] = all[<<k, f[k - 1]>>] /\ f[k - 1] \in S
      BY <1>5, <1>6, <2>2, <3>1 DEF IsDescent
    <3> QED BY <1>4, <2>2, <3>1, <3>2
  <2> QED BY <2>1, <2>2
<1>8. f \in [0..n -> S]
  BY <1>6 DEF IsDescent
<1> QED BY <1>7, <1>8 DEF IsCarriedFrom

NumberStep(a, l) == Radix * a + l

IsNumber(number, letters) ==
  number = [i \in 0..Len(letters) |-> IF i = 0 THEN 0 ELSE NumberStep(number[i - 1], letters[i])]

IsNext(next, letters) ==
  next = [i \in 0..Len(letters) |->
            IF i = 0 THEN <<1>>
            ELSE IF letters[i] < Radix THEN Append(SubSeq(letters, 1, i - 1), letters[i] + 1)
            ELSE Append(next[i - 1], 1)]

LEMMA NumberUnfolds ==
  ASSUME NEW letters
  PROVE  R!NumberOf(letters) = (CHOOSE number : IsNumber(number, letters))[Len(letters)]
BY Zenon DEF R!NumberOf, IsNumber, NumberStep

LEMMA NextUnfolds ==
  ASSUME NEW letters
  PROVE  R!Successor(letters) = (CHOOSE next : IsNext(next, letters))[Len(letters)]
BY Zenon DEF R!Successor, IsNext

\* The number of a label, letter by letter, and the label after it.
NumberFacts(number, letters) ==
  /\ number[0] = 0 /\ number[Len(letters)] = R!NumberOf(letters)
  /\ \A i \in 0..Len(letters) : number[i] \in Nat
  /\ \A i \in 1..Len(letters) : number[i] = Radix * number[i - 1] + letters[i]

NextFacts(next, letters) ==
  /\ next[0] = <<1>> /\ next[Len(letters)] = R!Successor(letters)
  /\ \A i \in 1..Len(letters) :
       next[i] = IF letters[i] < Radix THEN Append(SubSeq(letters, 1, i - 1), letters[i] + 1)
                 ELSE Append(next[i - 1], 1)

LEMMA NumberStepIs ==
  ASSUME Radix \in Nat \ {0}, NEW a \in Nat, NEW l \in 1..Radix
  PROVE  NumberStep(a, l) \in Nat
<1>1. Radix * a \in Nat
  OBVIOUS
<1>2. l \in Nat
  OBVIOUS
<1> QED BY <1>1, <1>2 DEF NumberStep

LEMMA NumberIs ==
  ASSUME Radix \in Nat \ {0}, NEW letters \in Seq(1..Radix)
  PROVE  \E number : NumberFacts(number, letters)
<1> DEFINE n == Len(letters)
           g == [p \in (1..n) \X Nat |-> NumberStep(p[2], letters[p[1]])]
<1>1. n \in Nat /\ \A i \in 1..n : letters[i] \in 1..Radix
  BY ElementOfSeq, LenProperties
<1> HIDE DEF n
<1>2. \A i \in 1..n, a \in Nat : NumberStep(a, letters[i]) \in Nat
                                 /\ g[<<i, a>>] = NumberStep(a, letters[i])
  BY <1>1, NumberStepIs
<1>3. g \in [(1..n) \X Nat -> Nat]
  BY <1>2
<1> HIDE DEF g
<1>4. PICK f : IsCarriedFrom(f, Nat, n, 0, g)
  <2>1. 0 \in Nat
    OBVIOUS
  <2> QED BY <1>1, <1>3, <2>1, CarriedFrom
<1>5. IsNumber(f, letters)
  <2>1. ASSUME NEW k \in 0..n PROVE f[k] = IF k = 0 THEN 0 ELSE NumberStep(f[k - 1], letters[k])
    <3>1. k # 0 => k \in 1..n /\ k - 1 \in 0..n
      BY <1>1
    <3>2. k # 0 => f[k - 1] \in Nat
      BY <1>4, <3>1 DEF IsCarriedFrom
    <3>3. f[k] = IF k = 0 THEN 0 ELSE g[<<k, f[k - 1]>>]
      BY <1>4 DEF IsCarriedFrom
    <3> QED BY <1>2, <3>1, <3>2, <3>3
  <2>2. f = [k \in 0..n |-> f[k]]
    BY <1>4 DEF IsCarriedFrom
  <2> QED BY <2>1, <2>2, Zenon DEF IsNumber, n
<1> DEFINE number == CHOOSE number : IsNumber(number, letters)
<1>6. IsNumber(number, letters)
  BY <1>5
<1>7. number[n] = R!NumberOf(letters)
  BY NumberUnfolds DEF n
<1> HIDE DEF number
<1>8. \A k \in 0..n : number[k] = IF k = 0 THEN 0 ELSE NumberStep(number[k - 1], letters[k])
  BY <1>6, Zenon DEF IsNumber, n
<1>9. number[0] = 0 /\ \A i \in 1..n : number[i] = NumberStep(number[i - 1], letters[i])
  <2>1. 0 \in 0..n /\ \A i \in 1..n : i \in 0..n /\ i # 0
    BY <1>1
  <2> QED BY <1>8, <2>1
<1> DEFINE T == {i \in Nat : i <= n => number[i] \in Nat}
<1>10. 0 \in T
  BY <1>9
<1>11. ASSUME NEW i \in Nat, i \in T PROVE i + 1 \in T
  <2> SUFFICES ASSUME i + 1 <= n PROVE number[i + 1] \in Nat
    OBVIOUS
  <2>1. i + 1 \in 1..n /\ (i + 1) - 1 = i /\ i <= n
    BY <1>1
  <2>2. number[i + 1] = NumberStep(number[i], letters[i + 1]) /\ number[i] \in Nat
    BY <1>9, <1>11, <2>1
  <2> QED BY <1>2, <2>1, <2>2
<1> HIDE DEF T
<1>12. Nat \subseteq T
  BY <1>10, <1>11, Upward
<1>13. \A i \in 0..n : number[i] \in Nat
  <2>1. \A i \in 0..n : i \in Nat /\ i <= n
    BY <1>1
  <2> QED BY <1>12, <2>1 DEF T
<1>14. NumberFacts(number, letters)
  BY <1>7, <1>9, <1>13 DEF NumberFacts, NumberStep, n
<1> QED BY <1>14

LEMMA NextIs ==
  ASSUME Radix \in Nat \ {0}, NEW letters \in Seq(1..Radix)
  PROVE  \E next : NextFacts(next, letters)
<1> DEFINE n == Len(letters)
           S == Seq(1..Radix)
           Bumped(i) == Append(SubSeq(letters, 1, i - 1), letters[i] + 1)
           g == [p \in (1..n) \X S |-> IF letters[p[1]] < Radix THEN Bumped(p[1]) ELSE Append(p[2], 1)]
<1>1. n \in Nat /\ (\A i \in 1..n : letters[i] \in 1..Radix) /\ 1 \in 1..Radix
  BY ElementOfSeq, LenProperties
<1> DEFINE one == <<1>>
<1>2. one \in S
  BY <1>1
<1>3. ASSUME NEW i \in 1..n, letters[i] < Radix PROVE Bumped(i) \in S
  <2>1. CutFacts(1..Radix, letters, 1, i - 1)
    BY <1>1, Cuts
  <2>2. letters[i] + 1 \in 1..Radix
    BY <1>1, <1>3
  <2> QED BY <2>1, <2>2, AppendProperties DEF CutFacts
<1>4. \A s \in S : Append(s, 1) \in S
  BY <1>1, AppendProperties
<1> HIDE DEF n, Bumped, S, one
<1>5. g \in [(1..n) \X S -> S]
  BY <1>3, <1>4
<1>6. \A i \in 1..n, s \in S : g[<<i, s>>] = IF letters[i] < Radix THEN Bumped(i) ELSE Append(s, 1)
  OBVIOUS
<1> HIDE DEF g
<1>7. PICK f : IsCarriedFrom(f, S, n, one, g)
  BY <1>1, <1>2, <1>5, CarriedFrom
<1>8. IsNext(f, letters)
  <2>1. ASSUME NEW k \in 0..n
        PROVE  f[k] = IF k = 0 THEN one
                      ELSE IF letters[k] < Radix THEN Bumped(k) ELSE Append(f[k - 1], 1)
    <3>1. k # 0 => k \in 1..n /\ k - 1 \in 0..n
      BY <1>1
    <3>2. k # 0 => f[k - 1] \in S
      BY <1>7, <3>1 DEF IsCarriedFrom
    <3>3. f[k] = IF k = 0 THEN one ELSE g[<<k, f[k - 1]>>]
      BY <1>7 DEF IsCarriedFrom
    <3> QED BY <1>6, <3>1, <3>2, <3>3
  <2>2. f = [k \in 0..n |-> f[k]]
    BY <1>7 DEF IsCarriedFrom
  <2> QED BY <2>1, <2>2, Zenon DEF IsNext, n, Bumped, one
<1> DEFINE next == CHOOSE next : IsNext(next, letters)
<1>9. IsNext(next, letters)
  BY <1>8
<1>10. next[n] = R!Successor(letters)
  BY NextUnfolds DEF n
<1> HIDE DEF next
<1>11. \A k \in 0..n : next[k] = IF k = 0 THEN one
                                ELSE IF letters[k] < Radix THEN Bumped(k) ELSE Append(next[k - 1], 1)
  BY <1>9, Zenon DEF IsNext, n, Bumped, one
<1>12. next[0] = one
       /\ \A i \in 1..n : next[i] = IF letters[i] < Radix THEN Bumped(i) ELSE Append(next[i - 1], 1)
  <2>1. 0 \in 0..n /\ \A i \in 1..n : i \in 0..n /\ i # 0
    BY <1>1
  <2> QED BY <1>11, <2>1
<1>13. NextFacts(next, letters)
  BY <1>10, <1>12 DEF NextFacts, n, Bumped, one
<1> QED BY <1>13

LEMMA Spread ==
  ASSUME NEW b \in Nat, NEW q \in Nat
  PROVE  b * q = q * b /\ b * q \in Nat /\ (q + 1) * b = q * b + b /\ q + 1 \in Nat
OBVIOUS

\* A part of a sequence, from its first place, and the place after it.
LEMMA Grows ==
  ASSUME NEW S, NEW s \in Seq(S), NEW i \in Nat, i + 1 <= Len(s)
  PROVE  SubSeq(s, 1, i + 1) = Append(SubSeq(s, 1, i), s[i + 1])
<1> DEFINE a == SubSeq(s, 1, i)
           b == SubSeq(s, 1, i + 1)
           x == s[i + 1]
           c == Append(a, x)
<1>1. Len(s) \in Nat /\ i + 1 \in 1..Len(s)
  BY LenProperties
<1>2. x \in S
  BY <1>1, ElementOfSeq
<1>3. a \in Seq(S) /\ Len(a) = i /\ \A j \in 1..i : a[j] = s[j]
  BY <1>1, Cuts DEF CutFacts
<1>4. b \in Seq(S) /\ Len(b) = i + 1 /\ \A j \in 1..(i + 1) : b[j] = s[j]
  BY <1>1, Cuts DEF CutFacts
<1> HIDE DEF a, b, x
<1>5. c \in Seq(S) /\ Len(c) = i + 1 /\ (\A j \in 1..i : c[j] = a[j]) /\ c[i + 1] = x
  BY <1>2, <1>3, AppendProperties
<1>6. \A j \in 1..(i + 1) : b[j] = c[j]
  <2> TAKE j \in 1..(i + 1)
  <2>1. j \in 1..i \/ j = i + 1
    OBVIOUS
  <2> HIDE DEF c
  <2> QED BY <1>3, <1>4, <1>5, <2>1 DEF x
<1> HIDE DEF c
<1>7. b = c
  BY <1>4, <1>5, <1>6, SeqEqual
<1> QED BY <1>7 DEF a, b, c, x

\* The labels of the numbers that a label's letters come to, one after another.
LEMMA LabelOfNumber ==
  ASSUME Radix \in Nat \ {0}, NEW letters \in Seq(1..Radix),
         NEW number, NumberFacts(number, letters), NEW label, LabelFacts(label)
  PROVE  \A i \in 0..Len(letters) : label[number[i]] = SubSeq(letters, 1, i)
<1> DEFINE n == Len(letters)
           T == {i \in Nat : i <= n => label[number[i]] = SubSeq(letters, 1, i)}
<1>1. n \in Nat /\ \A i \in 1..n : letters[i] \in 1..Radix
  BY ElementOfSeq, LenProperties
<1>2. number[0] = 0 /\ (\A i \in 0..n : number[i] \in Nat)
      /\ \A i \in 1..n : number[i] = Radix * number[i - 1] + letters[i]
  BY DEF NumberFacts
<1>3. label[0] = <<>> /\ \A q \in Nat, r \in 1..Radix : label[q * Radix + r] = Append(label[q], r)
  BY DEF LabelFacts
<1> HIDE DEF n
<1>4. 0 \in T
  <2>1. SubSeq(letters, 1, 0) = <<>>
    BY SubSeqEmpty
  <2> QED BY <1>2, <1>3, <2>1
<1>5. ASSUME NEW i \in Nat, i \in T PROVE i + 1 \in T
  <2> SUFFICES ASSUME i + 1 <= n PROVE label[number[i + 1]] = SubSeq(letters, 1, i + 1)
    OBVIOUS
  <2> DEFINE q == number[i]
             r == letters[i + 1]
  <2>1. i \in 0..n /\ i + 1 \in 1..n /\ (i + 1) - 1 = i /\ i <= n
    BY <1>1
  <2>2. q \in Nat /\ r \in 1..Radix /\ number[i + 1] = Radix * q + r
    BY <1>1, <1>2, <2>1
  <2>3. label[q] = SubSeq(letters, 1, i)
    BY <1>5, <2>1
  <2> HIDE DEF q, r
  <2>4. Radix * q = q * Radix
    BY <2>2
  <2>5. label[number[i + 1]] = Append(SubSeq(letters, 1, i), r)
    BY <1>3, <2>2, <2>3, <2>4
  <2>6. SubSeq(letters, 1, i + 1) = Append(SubSeq(letters, 1, i), letters[i + 1])
    BY <1>1, <2>1, Grows DEF n
  <2> QED BY <2>5, <2>6 DEF r
<1> HIDE DEF T
<1>6. Nat \subseteq T
  BY <1>4, <1>5, Upward
<1>7. \A i \in 0..n : i \in Nat /\ i <= n
  BY <1>1
<1> QED BY <1>6, <1>7 DEF T, n

\* The next label is that of the next number.
LEMMA LabelOfNext ==
  ASSUME Radix \in Nat \ {0}, NEW letters \in Seq(1..Radix),
         NEW number, NumberFacts(number, letters), NEW label, LabelFacts(label),
         NEW next, NextFacts(next, letters)
  PROVE  \A i \in 0..Len(letters) : label[number[i] + 1] = next[i]
<1> DEFINE n == Len(letters)
           T == {i \in Nat : i <= n => label[number[i] + 1] = next[i]}
<1>1. n \in Nat /\ \A i \in 1..n : letters[i] \in 1..Radix
  BY ElementOfSeq, LenProperties
<1>2. number[0] = 0 /\ (\A i \in 0..n : number[i] \in Nat)
      /\ \A i \in 1..n : number[i] = Radix * number[i - 1] + letters[i]
  BY DEF NumberFacts
<1>3. label[0] = <<>> /\ \A q \in Nat, r \in 1..Radix : label[q * Radix + r] = Append(label[q], r)
  BY DEF LabelFacts
<1>4. next[0] = <<1>>
      /\ \A i \in 1..n : next[i] = IF letters[i] < Radix
                                   THEN Append(SubSeq(letters, 1, i - 1), letters[i] + 1)
                                   ELSE Append(next[i - 1], 1)
  BY DEF NextFacts
<1>5. \A i \in 0..n : label[number[i]] = SubSeq(letters, 1, i)
  BY LabelOfNumber
<1> HIDE DEF n
<1>6. 0 \in T
  <2>1. label[0 * Radix + 1] = Append(<<>>, 1)
    <3>1. 0 \in Nat /\ 1 \in 1..Radix
      OBVIOUS
    <3> QED BY <1>3, <3>1
  <2>2. Append(<<>>, 1) = <<1>> /\ 0 * Radix + 1 = 1
    OBVIOUS
  <2> QED BY <1>2, <1>4, <2>1, <2>2
<1>7. ASSUME NEW i \in Nat, i \in T PROVE i + 1 \in T
  <2> SUFFICES ASSUME i + 1 <= n PROVE label[number[i + 1] + 1] = next[i + 1]
    OBVIOUS
  <2> DEFINE q == number[i]
             r == letters[i + 1]
             p == q + 1
  <2>1. i \in 0..n /\ i + 1 \in 1..n /\ (i + 1) - 1 = i /\ i <= n
    BY <1>1
  <2>2. q \in Nat /\ r \in 1..Radix /\ number[i + 1] = Radix * q + r
    BY <1>1, <1>2, <2>1
  <2>3. label[p] = next[i] /\ label[q] = SubSeq(letters, 1, i)
    BY <1>5, <1>7, <2>1
  <2>4. next[i + 1] = IF r < Radix THEN Append(SubSeq(letters, 1, i), r + 1) ELSE Append(next[i], 1)
    BY <1>4, <2>1
  <2>5. Radix * q = q * Radix /\ Radix * q \in Nat /\ p * Radix = q * Radix + Radix /\ p \in Nat
    <3> HIDE DEF q
    <3> QED BY <2>2, Spread
  <2> HIDE DEF q, r, p
  <2>6. CASE r < Radix
    <3>1. r + 1 \in 1..Radix /\ number[i + 1] + 1 = q * Radix + (r + 1)
      BY <2>2, <2>5, <2>6
    <3>2. label[q * Radix + (r + 1)] = Append(label[q], r + 1)
      BY <1>3, <2>2, <3>1
    <3> QED BY <2>3, <2>4, <2>6, <3>1, <3>2
  <2>7. CASE ~(r < Radix)
    <3>1. r = Radix /\ 1 \in 1..Radix
      BY <2>2, <2>7
    <3>2. number[i + 1] + 1 = p * Radix + 1
      BY <2>2, <2>5, <3>1
    <3>3. label[p * Radix + 1] = Append(label[p], 1)
      BY <1>3, <2>5, <3>1
    <3> QED BY <2>3, <2>4, <2>7, <3>2, <3>3
  <2> QED BY <2>6, <2>7
<1> HIDE DEF T
<1>8. Nat \subseteq T
  BY <1>6, <1>7, Upward
<1>9. \A i \in 0..n : i \in Nat /\ i <= n
  BY <1>1
<1> QED BY <1>8, <1>9 DEF T, n

\* A letter more.
LEMMA NumberGrows ==
  ASSUME Radix \in Nat \ {0}, NEW s \in Seq(1..Radix), NEW r \in 1..Radix
  PROVE  R!NumberOf(Append(s, r)) = Radix * R!NumberOf(s) + r /\ R!NumberOf(s) \in Nat
<1> DEFINE n == Len(s)
           t == Append(s, r)
<1>1. n \in Nat /\ t \in Seq(1..Radix) /\ Len(t) = n + 1 /\ t[n + 1] = r /\ \A j \in 1..n : t[j] = s[j]
  BY LenProperties, AppendProperties
<1> HIDE DEF t
<1>2. PICK a : NumberFacts(a, s)
  BY NumberIs
<1>3. PICK c : NumberFacts(c, t)
  BY <1>1, NumberIs
<1>4. /\ a[0] = 0 /\ a[n] = R!NumberOf(s) /\ \A i \in 0..n : a[i] \in Nat
      /\ \A i \in 1..n : a[i] = Radix * a[i - 1] + s[i]
  BY <1>2 DEF NumberFacts
<1>5. /\ c[0] = 0 /\ c[n + 1] = R!NumberOf(t)
      /\ \A i \in 1..(n + 1) : c[i] = Radix * c[i - 1] + t[i]
  BY <1>1, <1>3 DEF NumberFacts
<1> HIDE DEF n
<1> DEFINE T == {i \in Nat : i <= n => c[i] = a[i]}
<1>6. 0 \in T
  BY <1>4, <1>5
<1>7. ASSUME NEW i \in Nat, i \in T PROVE i + 1 \in T
  <2> SUFFICES ASSUME i + 1 <= n PROVE c[i + 1] = a[i + 1]
    OBVIOUS
  <2>1. i + 1 \in 1..n /\ i + 1 \in 1..(n + 1) /\ (i + 1) - 1 = i /\ i <= n
    BY <1>1
  <2>2. c[i] = a[i]
    BY <1>7, <2>1
  <2> DEFINE k == i + 1
  <2>3. t[k] = s[k] /\ c[k] = Radix * c[i] + t[k] /\ a[k] = Radix * a[i] + s[k]
    BY <1>1, <1>4, <1>5, <2>1
  <2> HIDE DEF k
  <2>4. c[k] = a[k]
    BY <2>2, <2>3
  <2> QED BY <2>4 DEF k
<1> HIDE DEF T
<1>8. n \in T
  BY <1>1, <1>6, <1>7, Upward
<1>9. c[n] = a[n] /\ a[n] \in Nat
  BY <1>1, <1>4, <1>8 DEF T
<1>10. c[n + 1] = Radix * c[n] + r
  <2>1. n + 1 \in 1..(n + 1) /\ (n + 1) - 1 = n
    BY <1>1
  <2> QED BY <1>1, <1>5, <2>1
<1> QED BY <1>4, <1>5, <1>9, <1>10 DEF t

\* No two numbers have the same label.
LEMMA NumberOfLabel ==
  ASSUME Radix \in Nat \ {0}, NEW label, LabelFacts(label), NEW m \in Nat
  PROVE  R!NumberOf(label[m]) = m
<1> DEFINE T == {k \in Nat : R!NumberOf(label[k]) # k}
<1>1. label[0] = <<>> /\ (\A k \in Nat : label[k] \in Seq(1..Radix))
      /\ \A q \in Nat, r \in 1..Radix : label[q * Radix + r] = Append(label[q], r)
  BY DEF LabelFacts
<1>2. ASSUME T # {} PROVE FALSE
  <2>1. PICK k \in T : \A j \in T : k <= j
    <3>1. T \in SUBSET Nat
      OBVIOUS
    <3> HIDE DEF T
    <3> QED BY <1>2, <3>1, LeastOf
  <2>2. k \in Nat /\ R!NumberOf(label[k]) # k
    OBVIOUS
  <2>3. k # 0
    <3> DEFINE e == <<>>
    <3>1. e \in Seq(1..Radix) /\ Len(e) = 0
      BY EmptySeq
    <3>2. PICK a : NumberFacts(a, e)
      <4> HIDE DEF e
      <4> QED BY <3>1, NumberIs
    <3>3. R!NumberOf(e) = 0
      <4> HIDE DEF e
      <4> QED BY <3>1, <3>2 DEF NumberFacts
    <3> QED BY <1>1, <2>2, <3>3
  <2> DEFINE l == k - 1
             q == l \div Radix
             p == l % Radix
             r == p + 1
  <2>4. l \in Nat /\ k = l + 1
    BY <2>2, <2>3
  <2> HIDE DEF l
  <2>5. q \in Nat /\ p \in 0..(Radix - 1) /\ l = q * Radix + p
    BY <2>4, Quotients
  <2> HIDE DEF q, p
  <2>6. q <= q * Radix /\ q * Radix \in Nat /\ Radix * q = q * Radix
    BY <2>5, QuotientBelow, Spread
  <2>7. q < k /\ r \in 1..Radix /\ k = q * Radix + r
    BY <2>2, <2>4, <2>5, <2>6
  <2> HIDE DEF r
  <2>8. label[k] = Append(label[q], r)
    BY <1>1, <2>5, <2>7
  <2>9. R!NumberOf(label[q]) = q
    <3>1. q \notin T
      <4> HIDE DEF T
      <4> QED BY <2>1, <2>2, <2>5, <2>7
    <3> QED BY <2>5, <3>1
  <2>10. R!NumberOf(label[k]) = Radix * q + r
    BY <1>1, <2>5, <2>7, <2>8, <2>9, NumberGrows
  <2> QED BY <2>2, <2>6, <2>7, <2>10
<1>3. T = {}
  BY <1>2
<1> QED BY <1>3

\* What a label comes to in integers that go round.
LEMMA IndexIs ==
  ASSUME Radix \in Nat \ {0}, AddressHalf \in Nat \ {0}, NEW s \in Seq(1..Radix)
  PROVE  /\ R!LettersToIndex(s) \in (-AddressHalf)..(AddressHalf - 1)
         /\ R!NumberOf(s) \in Nat
         /\ R!NumberOf(s) < AddressHalf => R!LettersToIndex(s) = R!NumberOf(s) - 1
<1> DEFINE n == Len(s)
<1>1. n \in Nat /\ \A i \in 1..n : s[i] \in 1..Radix
  BY ElementOfSeq, LenProperties
<1>2. \A a, l \in Int : IndexStep(a, l) \in Int
  <2> TAKE a, l \in Int
  <2>1. a * Radix + l \in Int
    OBVIOUS
  <2> DEFINE b == a * Radix + l
  <2> HIDE DEF b
  <2>2. b \in Int => R!Int64(b) \in Int
    BY Int64Is
  <2> QED BY <2>1, <2>2 DEF IndexStep, b
<1>3. s \in Seq(Int)
  <2>1. 1..Radix \subseteq Int
    OBVIOUS
  <2> QED BY <2>1, SeqMonotonic
<1>4. PICK v : IsIndexWalk(v, s)
  BY <1>2, <1>3, IndexWalks
<1>5. PICK a : NumberFacts(a, s)
  BY NumberIs
<1>6. /\ v \in [0..n -> Int] /\ v[0] = 0 /\ R!LettersToIndex(s) = R!Int64(v[n] - 1)
      /\ \A i \in 1..n : v[i] = IndexStep(v[i - 1], s[i])
  BY <1>4 DEF IsIndexWalk
<1>7. /\ a[0] = 0 /\ a[n] = R!NumberOf(s) /\ \A i \in 0..n : a[i] \in Nat
      /\ \A i \in 1..n : a[i] = Radix * a[i - 1] + s[i]
  BY <1>5 DEF NumberFacts
<1> HIDE DEF n
<1>8. n \in 0..n /\ v[n] \in Int /\ v[n] - 1 \in Int /\ a[n] \in Nat
  BY <1>1, <1>6, <1>7
<1>9. R!LettersToIndex(s) \in (-AddressHalf)..(AddressHalf - 1)
  <2> DEFINE k == v[n] - 1
  <2>1. k \in Int /\ R!LettersToIndex(s) = R!Int64(k)
    BY <1>6, <1>8
  <2> HIDE DEF k
  <2> QED BY <2>1, Int64Is
<1>10. ASSUME a[n] < AddressHalf PROVE R!LettersToIndex(s) = a[n] - 1
  <2> DEFINE T == {i \in Nat : i <= n => (a[i] < AddressHalf => v[i] = a[i])}
  <2>1. 0 \in T
    BY <1>6, <1>7
  <2>2. ASSUME NEW i \in Nat, i \in T PROVE i + 1 \in T
    <3> SUFFICES ASSUME i + 1 <= n, a[i + 1] < AddressHalf PROVE v[i + 1] = a[i + 1]
      OBVIOUS
    <3> DEFINE q == a[i]
               l == s[i + 1]
               k == a[i + 1]
    <3>1. i \in 0..n /\ i <= n /\ i + 1 \in 1..n /\ i + 1 \in 0..n /\ (i + 1) - 1 = i
      BY <1>1
    <3>2. q \in Nat /\ l \in 1..Radix /\ k = Radix * q + l /\ k \in Nat /\ k < AddressHalf
      BY <1>1, <1>7, <3>1
    <3>3. v[i + 1] = IndexStep(v[i], l)
      BY <1>6, <3>1
    <3>4. q < AddressHalf => v[i] = q
      BY <2>2, <3>1
    <3> HIDE DEF q, l, k
    <3>5. Radix * q = q * Radix /\ q <= q * Radix /\ q * Radix \in Nat
      BY <3>2, Spread, QuotientBelow
    <3>6. q < AddressHalf /\ k = q * Radix + l /\ k \in (-AddressHalf)..(AddressHalf - 1)
      BY <3>2, <3>5
    <3>7. R!Int64(k) = k
      BY <3>2, <3>6, Int64Is
    <3> QED BY <3>3, <3>4, <3>6, <3>7 DEF IndexStep, k
  <2> HIDE DEF T
  <2>3. n \in T
    BY <1>1, <2>1, <2>2, Upward
  <2>4. v[n] = a[n]
    BY <1>1, <1>10, <2>3 DEF T
  <2> DEFINE k == a[n] - 1
  <2>5. k \in Int /\ k \in (-AddressHalf)..(AddressHalf - 1)
    BY <1>8, <1>10
  <2>6. R!LettersToIndex(s) = R!Int64(k)
    BY <1>6, <2>4
  <2> HIDE DEF k
  <2>7. R!Int64(k) = k
    BY <2>5, Int64Is
  <2> QED BY <2>6, <2>7 DEF k
<1> QED BY <1>7, <1>8, <1>9, <1>10

LEMMA DecimalStepIs ==
  ASSUME NEW a \in Int, NEW l \in Int
  PROVE  DecimalStep(a, l) \in Int
BY DEF DecimalStep

\* A digit more.
LEMMA DecimalGrows ==
  ASSUME NEW s \in Seq(0..9), NEW d \in 0..9
  PROVE  R!Decimal(Append(s, d)) = 10 * R!Decimal(s) + d /\ R!Decimal(s) \in Int
<1> DEFINE n == Len(s)
           t == Append(s, d)
<1>1. n \in Nat /\ t \in Seq(0..9) /\ Len(t) = n + 1 /\ t[n + 1] = d /\ \A j \in 1..n : t[j] = s[j]
  BY LenProperties, AppendProperties
<1> HIDE DEF t
<1>2. s \in Seq(Int) /\ t \in Seq(Int)
  <2>1. 0..9 \subseteq Int
    OBVIOUS
  <2> QED BY <1>1, <2>1, SeqMonotonic
<1>3. PICK a : IsDecimalWalk(a, s)
  BY <1>2, DecimalWalks, DecimalStepIs
<1>4. PICK c : IsDecimalWalk(c, t)
  BY <1>2, DecimalWalks, DecimalStepIs
<1>5. /\ a \in [0..n -> Int] /\ a[0] = 0 /\ a[n] = R!Decimal(s)
      /\ \A i \in 1..n : a[i] = DecimalStep(a[i - 1], s[i])
  BY <1>3 DEF IsDecimalWalk
<1>6. /\ c[0] = 0 /\ c[n + 1] = R!Decimal(t)
      /\ \A i \in 1..(n + 1) : c[i] = DecimalStep(c[i - 1], t[i])
  BY <1>1, <1>4 DEF IsDecimalWalk
<1> HIDE DEF n
<1> DEFINE T == {i \in Nat : i <= n => c[i] = a[i]}
<1>7. 0 \in T
  BY <1>5, <1>6
<1>8. ASSUME NEW i \in Nat, i \in T PROVE i + 1 \in T
  <2> SUFFICES ASSUME i + 1 <= n PROVE c[i + 1] = a[i + 1]
    OBVIOUS
  <2>1. i + 1 \in 1..n /\ i + 1 \in 1..(n + 1) /\ (i + 1) - 1 = i /\ i <= n
    BY <1>1
  <2>2. c[i] = a[i]
    BY <1>8, <2>1
  <2> DEFINE k == i + 1
  <2>3. t[k] = s[k] /\ c[k] = DecimalStep(c[i], t[k]) /\ a[k] = DecimalStep(a[i], s[k])
    BY <1>1, <1>5, <1>6, <2>1
  <2> HIDE DEF k
  <2>4. c[k] = a[k]
    BY <2>2, <2>3
  <2> QED BY <2>4 DEF k
<1> HIDE DEF T
<1>9. n \in T
  BY <1>1, <1>7, <1>8, Upward
<1>10. c[n] = a[n] /\ a[n] \in Int
  <2>1. n \in 0..n
    BY <1>1
  <2> QED BY <1>1, <1>5, <1>9, <2>1 DEF T
<1>11. c[n + 1] = DecimalStep(c[n], d)
  <2>1. n + 1 \in 1..(n + 1) /\ (n + 1) - 1 = n
    BY <1>1
  <2> QED BY <1>1, <1>6, <2>1
<1> QED BY <1>5, <1>6, <1>10, <1>11 DEF t, DecimalStep

DecimalFacts(m) ==
  R!DigitsOf(m) \in Seq(0..9) /\ R!DigitsOf(m) # <<>> /\ R!Decimal(R!DigitsOf(m)) = m

\* A number is written in digits that come to it.
LEMMA DecimalOfDigits ==
  ASSUME NEW m \in Nat
  PROVE  DecimalFacts(m)
<1> DEFINE T == {k \in Nat : ~DecimalFacts(k)}
           S == Seq(0..9)
<1>1. PICK digits : DigitsFacts(digits)
  BY DigitsAre
<1>2. (\A k \in 0..9 : digits[k] = <<k>>)
      /\ (\A q \in Nat \ {0}, r \in 0..9 : digits[10 * q + r] = Append(digits[q], r))
      /\ \A k : R!DigitsOf(k) = digits[k]
  BY <1>1 DEF DigitsFacts
<1>3. ASSUME NEW s \in S, NEW d \in 0..9
      PROVE  Append(s, d) \in S /\ Append(s, d) # <<>> /\ R!Decimal(Append(s, d)) = 10 * R!Decimal(s) + d
  <2>1. Append(s, d) \in S /\ Len(Append(s, d)) = Len(s) + 1 /\ Len(s) \in Nat
    BY LenProperties, AppendProperties
  <2>2. Append(s, d) # <<>>
    <3>1. Len(s) + 1 # 0
      BY <2>1
    <3> QED BY <2>1, <3>1, EmptySeq
  <2>3. R!Decimal(Append(s, d)) = 10 * R!Decimal(s) + d
    BY DecimalGrows
  <2> QED BY <2>1, <2>2, <2>3
<1>4. ASSUME NEW d \in 0..9 PROVE <<d>> \in S /\ <<d>> # <<>> /\ R!Decimal(<<d>>) = d
  <2> DEFINE e == <<>>
             t == Append(e, d)
  <2>1. e \in S /\ Len(e) = 0
    BY EmptySeq
  <2>2. t = <<d>>
    OBVIOUS
  <2> HIDE DEF e, S
  <2>3. t \in S /\ t # <<>> /\ R!Decimal(t) = 10 * R!Decimal(e) + d
    BY <1>3, <2>1
  <2>4. R!Decimal(e) = 0
    <3>1. e \in Seq(Int)
      <4>1. 0..9 \subseteq Int
        OBVIOUS
      <4> QED BY <2>1, <4>1, SeqMonotonic DEF S
    <3>2. PICK a : IsDecimalWalk(a, e)
      BY <3>1, DecimalWalks, DecimalStepIs
    <3> QED BY <2>1, <3>2 DEF IsDecimalWalk
  <2> QED BY <2>2, <2>3, <2>4
<1> HIDE DEF S
<1>5. ASSUME T # {} PROVE FALSE
  <2>1. PICK k \in T : \A j \in T : k <= j
    <3>1. T \in SUBSET Nat
      OBVIOUS
    <3> HIDE DEF T
    <3> QED BY <1>5, <3>1, LeastOf
  <2>2. k \in Nat /\ ~DecimalFacts(k)
    OBVIOUS
  <2>3. k \notin 0..9
    <3> SUFFICES ASSUME k \in 0..9 PROVE FALSE
      OBVIOUS
    <3>1. R!DigitsOf(k) = <<k>>
      BY <1>2
    <3> QED BY <1>4, <2>2, <3>1 DEF DecimalFacts, S
  <2> DEFINE q == k \div 10
             r == k % 10
  <2>4. q \in Nat \ {0} /\ r \in 0..9 /\ k = 10 * q + r /\ q < k
    BY <2>2, <2>3
  <2> HIDE DEF q, r
  <2>5. DecimalFacts(q)
    <3>1. q \notin T
      <4> HIDE DEF T
      <4> QED BY <2>1, <2>2, <2>4
    <3> QED BY <2>4, <3>1
  <2>6. R!DigitsOf(k) = Append(R!DigitsOf(q), r)
    BY <1>2, <2>4
  <2> QED BY <1>3, <2>2, <2>4, <2>5, <2>6 DEF DecimalFacts, S
<1>6. T = {}
  BY <1>5
<1> QED BY <1>6

Typed == [letters : Seq(1..Radix), digits : Seq(0..9), isMalformed : BOOLEAN]

\* The address is that of the text, which is of letters and digits.
AddressInv ==
  owner = "addresses" => text \in Typed /\ address = R!ParseAddress(text)

LEMMA DecimalIsNumber ==
  ASSUME NEW s \in Seq(0..9)
  PROVE  R!Decimal(s) \in Int
<1>1. 0 \in 0..9
  OBVIOUS
<1> QED BY <1>1, DecimalGrows

\* Of a text that names a cell.
ParsedFacts(s, a) ==
  /\ s.letters # <<>> /\ s.digits # <<>> /\ ~s.isMalformed
  /\ R!Decimal(s.digits) \in 1..(AddressHalf - 1)
  /\ a = [row |-> R!Decimal(s.digits) - 1, col |-> R!LettersToIndex(s.letters)]

LEMMA ParsedIs ==
  ASSUME NEW s \in Typed, R!ParseAddress(s) # R!Invalid
  PROVE  ParsedFacts(s, R!ParseAddress(s))
BY DEF R!ParseAddress, ParsedFacts

LEMMA LabelsAreLetters ==
  ASSUME Radix \in Nat \ {0}, AddressHalf \in Nat \ {0}, NEW k \in Int
  PROVE  R!IndexToLetters(k) \in Seq(1..Radix)
<1>1. PICK label : LabelFacts(label)
  BY LabelsAre
<1> DEFINE m == k + 1
           n == R!Int64(m)
<1>2. m \in Int
  OBVIOUS
<1>3. n \in Int
  <2> HIDE DEF m
  <2> QED BY <1>2, Int64Is
<1> HIDE DEF n
<1>4. R!Label(n) = IF n <= 0 THEN <<>> ELSE label[n]
  BY <1>1, <1>3 DEF LabelFacts
<1>5. ~(n <= 0) => label[n] \in Seq(1..Radix)
  <2>1. ~(n <= 0) => n \in Nat
    BY <1>3
  <2> QED BY <1>1, <2>1 DEF LabelFacts
<1>6. R!Label(n) \in Seq(1..Radix)
  BY <1>4, <1>5, EmptySeq
<1> QED BY <1>6 DEF R!IndexToLetters, n, m

LEMMA AddressInvariance == Spec => []AddressInv
<1>0. Radix \in Nat \ {0} /\ AddressHalf \in Nat \ {0} /\ Digits \subseteq 0..9
  BY InputsAssumption DEF R!InputsAreSymbols
<1>1. Init => AddressInv
  <2> SUFFICES ASSUME Init, owner = "addresses" PROVE text \in Typed /\ address = R!ParseAddress(text)
    BY DEF AddressInv
  <2>1. R!Init
    BY DEF Init
  <2>2. <<>> \in Seq(1..Radix) /\ <<>> \in Seq(0..9)
    BY EmptySeq
  <2> QED BY <2>1, <2>2 DEF R!Init, R!Written, R!ParseAddress, Typed
<1>2. AddressInv /\ [Next]_vars => AddressInv'
  <2> SUFFICES ASSUME AddressInv, [Next]_vars, owner' = "addresses"
               PROVE  (text \in Typed /\ address = R!ParseAddress(text))'
    BY DEF AddressInv
  <2>1. CASE UNCHANGED vars
    BY <2>1 DEF AddressInv, vars, Typed
  <2>2. CASE Next
    <3>1. owner = "addresses" /\ R!Next
      BY <2>2 DEF Next, ArrayStep, LimitStep, ImportStep, ColumnStep, CallStep, DateStep,
                  AddressStep, TextStep
    <3>2. text \in Typed /\ address = R!ParseAddress(text)
      BY <3>1 DEF AddressInv
    <3>3. ASSUME NEW s \in Typed, R!Becomes(s) PROVE (text \in Typed /\ address = R!ParseAddress(text))'
      BY <3>3 DEF R!Becomes, Typed
    <3>4. CASE R!TypeLetter
      <4>1. PICK l \in 1..Radix : R!Becomes([text EXCEPT !.letters = Append(@, l)])
        BY <3>4 DEF R!TypeLetter
      <4>2. text.letters \in Seq(1..Radix)
        BY <3>2 DEF Typed
      <4>3. Append(text.letters, l) \in Seq(1..Radix)
        BY <4>2, AppendProperties
      <4>4. [text EXCEPT !.letters = Append(@, l)] \in Typed
        BY <3>2, <4>3 DEF Typed
      <4> QED BY <3>3, <4>1, <4>4
    <3>5. CASE R!TypeDigit
      <4>1. PICK d \in Digits : R!Becomes([text EXCEPT !.digits = Append(@, d)])
        BY <3>5 DEF R!TypeDigit
      <4>2. text.digits \in Seq(0..9) /\ d \in 0..9
        BY <1>0, <3>2 DEF Typed
      <4>3. Append(text.digits, d) \in Seq(0..9)
        BY <4>2, AppendProperties
      <4>4. [text EXCEPT !.digits = Append(@, d)] \in Typed
        BY <3>2, <4>3 DEF Typed
      <4> QED BY <3>3, <4>1, <4>4
    <3>6. CASE R!TypeOther
      BY <3>2, <3>3, <3>6 DEF R!TypeOther, Typed
    <3>7. CASE R!ShiftColumn
      <4> DEFINE b == [address EXCEPT !.col = @ + 1]
                 s == R!AddressText(b)
      <4>1. address # R!Invalid /\ R!Becomes(s)
        BY <3>7 DEF R!ShiftColumn
      <4>2. ParsedFacts(text, address)
        BY <3>2, <4>1, ParsedIs
      <4>3. b.row + 1 \in Nat /\ b.col \in Int
        <5>1. text.letters \in Seq(1..Radix)
          BY <3>2 DEF Typed
        <5>2. R!LettersToIndex(text.letters) \in Int
          BY <1>0, <5>1, IndexIs
        <5> QED BY <4>2, <5>2 DEF ParsedFacts
      <4> HIDE DEF b
      <4>4. DecimalFacts(b.row + 1)
        BY <4>3, DecimalOfDigits
      <4>5. R!IndexToLetters(b.col) \in Seq(1..Radix)
        BY <1>0, <4>3, LabelsAreLetters
      <4>6. s \in Typed
        BY <4>4, <4>5 DEF DecimalFacts, Typed, R!AddressText, R!Written
      <4> HIDE DEF s
      <4> QED BY <3>3, <4>1, <4>6
    <3> QED BY <3>1, <3>4, <3>5, <3>6, <3>7 DEF R!Next
  <2> QED BY <2>1, <2>2
<1> QED BY <1>1, <1>2, PTL DEF Spec

\* Every address is written as it was read, whatever the alphabet and the width of an int, and the
\* column after it has the label that follows; a label too long for an int is never written again.
THEOREM LabelsRoundTrip == Spec => []AddressesRoundTrip
<1>0. Radix \in Nat \ {0} /\ AddressHalf \in Nat \ {0} /\ Digits \subseteq 0..9
  BY InputsAssumption DEF R!InputsAreSymbols
<1>1. AddressInv => AddressesRoundTrip
  <2> SUFFICES ASSUME AddressInv, owner = "addresses", address # R!Invalid
               PROVE  R!AddressesRoundTrip
    BY DEF AddressesRoundTrip, R!AddressesRoundTrip
  <2> DEFINE letters == text.letters
             digits == text.digits
             number == R!NumberOf(letters)
             row == R!Decimal(digits)
             col == R!LettersToIndex(letters)
             next == col + 1
  <2>1. text \in Typed /\ ParsedFacts(text, address) /\ address = R!ParseAddress(text)
    BY ParsedIs DEF AddressInv
  <2>2. letters \in Seq(1..Radix) /\ letters # <<>> /\ row \in 1..(AddressHalf - 1)
        /\ address = [row |-> row - 1, col |-> col]
    BY <2>1 DEF ParsedFacts, Typed
  <2>3. col \in (-AddressHalf)..(AddressHalf - 1) /\ number \in Nat
        /\ (number < AddressHalf => col = number - 1)
    BY <1>0, <2>2, IndexIs
  <2>4. PICK a : NumberFacts(a, letters)
    BY <1>0, <2>2, NumberIs
  <2>5. PICK label : LabelFacts(label)
    BY <1>0, LabelsAre
  <2>6. PICK f : NextFacts(f, letters)
    BY <1>0, <2>2, NextIs
  <2> DEFINE n == Len(letters)
  <2>7. n \in Nat /\ n \in 0..n /\ a[n] = number /\ f[n] = R!Successor(letters)
    <3>1. n \in Nat
      BY <2>2, LenProperties
    <3> QED BY <2>4, <2>6, <3>1 DEF NumberFacts, NextFacts
  <2>8. label[number] = letters
    <3>1. label[a[n]] = SubSeq(letters, 1, n)
      BY <1>0, <2>2, <2>4, <2>5, <2>7, LabelOfNumber
    <3> QED BY <2>2, <2>7, <3>1, SubSeqFull
  <2>9. label[number + 1] = R!Successor(letters)
    BY <1>0, <2>2, <2>4, <2>5, <2>6, <2>7, LabelOfNext
  <2>10. number # 0
    BY <2>2, <2>5, <2>8 DEF LabelFacts
  <2>11. \A k \in Int : R!Label(k) = IF k <= 0 THEN <<>> ELSE label[k]
    BY <2>5 DEF LabelFacts
  <2>12. row \in Nat /\ (row - 1) + 1 = row
    BY <2>2
  <2>13. DecimalFacts(row)
    BY <2>12, DecimalOfDigits
  <2>14. R!AddressText(address) = R!Written(R!IndexToLetters(col), R!DigitsOf(row), FALSE)
    BY <2>2, <2>12 DEF R!AddressText
  <2>15. R!AddressText(address).letters = R!IndexToLetters(col)
    BY <2>14 DEF R!Written
  <2> HIDE DEF letters, digits, number, row, col
  <2>16. CASE number < AddressHalf - 1
    <3> DEFINE k == number + 1
    <3>1. next = number /\ address.col + 1 = number /\ number \in Int /\ k \in Int
          /\ number \in (-AddressHalf)..(AddressHalf - 1) /\ k \in (-AddressHalf)..(AddressHalf - 1)
      BY <1>0, <2>2, <2>3, <2>16
    <3>2. R!Int64(number) = number /\ R!Int64(k) = k
      <4> HIDE DEF k
      <4> QED BY <1>0, <3>1, Int64Is
    <3>3. R!IndexToLetters(col) = letters
      <4>1. R!Label(number) = letters
        BY <2>3, <2>8, <2>10, <2>11
      <4> QED BY <3>1, <3>2, <4>1 DEF R!IndexToLetters
    <3>4. R!IndexToLetters(address.col + 1) = R!Successor(letters)
      <4>1. R!Label(k) = R!Successor(letters)
        BY <2>3, <2>9, <2>11
      <4> QED BY <3>1, <3>2, <4>1 DEF R!IndexToLetters
    <3>5. R!ParseAddress(R!AddressText(address)) = address
      <4> DEFINE w == R!DigitsOf(row)
                 s == R!Written(letters, w, FALSE)
      <4>1. w # <<>> /\ R!Decimal(w) = row
        BY <2>13 DEF DecimalFacts
      <4> HIDE DEF w
      <4>2. s.letters = letters /\ s.digits = w /\ ~s.isMalformed
        BY DEF R!Written
      <4> HIDE DEF s
      <4>3. R!ParseAddress(s) = [row |-> row - 1, col |-> R!LettersToIndex(letters)]
        BY <2>2, <4>1, <4>2 DEF R!ParseAddress
      <4>4. R!AddressText(address) = s
        BY <2>14, <3>3 DEF s, w
      <4> QED BY <2>2, <4>3, <4>4 DEF col
    <3> HIDE DEF k
    <3> QED BY <2>15, <2>16, <3>3, <3>4, <3>5 DEF R!AddressesRoundTrip, number, letters
  <2>17. CASE ~(number < AddressHalf - 1) /\ number # AddressHalf - 1
    <3> DEFINE k == R!Int64(next)
    <3>1. next \in Int
      BY <2>3
    <3>2. k \in (-AddressHalf)..(AddressHalf - 1)
      <4> HIDE DEF next
      <4> QED BY <1>0, <3>1, Int64Is
    <3>3. R!IndexToLetters(col) = R!Label(k)
      BY DEF R!IndexToLetters
    <3> HIDE DEF k
    <3>4. k \in Int /\ k < number
      BY <1>0, <2>3, <2>17, <3>2
    <3>5. R!Label(k) # letters
      <4>1. CASE k <= 0
        BY <2>2, <2>11, <3>4, <4>1
      <4>2. CASE ~(k <= 0)
        <5>1. R!Label(k) = label[k] /\ k \in Nat
          BY <2>11, <3>4, <4>2
        <5>2. R!NumberOf(label[k]) = k
          BY <1>0, <2>5, <5>1, NumberOfLabel
        <5> QED BY <3>4, <5>1, <5>2 DEF number
      <4> QED BY <4>1, <4>2
    <3> QED BY <2>15, <2>17, <3>3, <3>5 DEF R!AddressesRoundTrip, number, letters
  <2>18. CASE number = AddressHalf - 1
    BY <1>0, <2>18 DEF R!AddressesRoundTrip, number, letters
  <2> QED BY <2>16, <2>17, <2>18
<1> QED BY <1>1, AddressInvariance, PTL

-----------------------------------------------------------------------------
(* The texts. *)

(* What is carried along all numbers. *)

IsCarriedOn(f, S, b, g) ==
  f \in [Nat -> S] /\ \A k \in Nat : f[k] = IF k = 0 THEN b ELSE g[<<k, f[k - 1]>>]

LEMMA CarriedOn ==
  ASSUME NEW S, NEW b \in S, NEW g \in [Nat \X S -> S]
  PROVE  \E f : IsCarriedOn(f, S, b, g)
<1> DEFINE first == [k \in Nat |-> b]
           below == [k \in Nat |-> IF k = 0 THEN 0 ELSE k - 1]
<1>1. first \in [Nat -> S] /\ \A k \in Nat : first[k] = b
  OBVIOUS
<1>2. below \in [Nat -> Nat] /\ \A k \in Nat : k \notin {0} => below[k] = k - 1 /\ below[k] < k
  OBVIOUS
<1> HIDE DEF first, below
<1>3. IsDescending({0}, below)
  BY <1>2 DEF IsDescending
<1>4. PICK f : IsDescended(f, S, {0}, first, g, below)
  BY <1>1, <1>3, Descends
<1>5. ASSUME NEW k \in Nat PROVE f[k] = IF k = 0 THEN b ELSE g[<<k, f[k - 1]>>]
  <2>1. f[k] = IF k \in {0} THEN first[k] ELSE g[<<k, f[below[k]]>>]
    BY <1>4 DEF IsDescended
  <2> QED BY <1>1, <1>2, <2>1
<1> QED BY <1>4, <1>5 DEF IsDescended, IsCarriedOn

(* Where a sequence first stands in another. *)

\* Sequences of one set.
LEMMA StandsAt ==
  ASSUME NEW S, NEW s \in Seq(S), NEW t \in Seq(S), NEW i \in Nat \ {0}
  PROVE  X!IsAt(s, t, i) <=> /\ i + Len(t) - 1 <= Len(s)
                             /\ \A j \in 1..Len(t) : s[i + j - 1] = t[j]
<1> DEFINE n == i + Len(t) - 1
           c == SubSeq(s, i, n)
<1>1. Len(s) \in Nat /\ Len(t) \in Nat /\ n \in Int /\ n - i + 1 = Len(t)
  BY LenProperties
<1>2. X!IsAt(s, t, i) <=> n <= Len(s) /\ c = t
  BY DEF X!IsAt
<1>3. CASE n <= Len(s)
  <2>0. CutFacts(S, s, i, n)
    BY <1>1, <1>3, Cuts
  <2>1. /\ c \in Seq(S) /\ Len(c) = Len(t)
        /\ \A j \in 1..Len(t) : c[j] = s[i + j - 1]
    <3>1. CASE i <= n
      BY <1>1, <2>0, <3>1 DEF CutFacts
    <3>2. CASE ~(i <= n)
      BY <1>1, <2>0, <3>2 DEF CutFacts
    <3> QED BY <3>1, <3>2
  <2> HIDE DEF c
  <2>2. c = t <=> \A j \in 1..Len(t) : c[j] = t[j]
    BY <2>1, SeqEqual
  <2>3. (\A j \in 1..Len(t) : c[j] = t[j]) <=> (\A j \in 1..Len(t) : s[i + j - 1] = t[j])
    BY <2>1
  <2> QED BY <1>2, <1>3, <2>2, <2>3 DEF n
<1>4. CASE ~(n <= Len(s))
  BY <1>2, <1>4 DEF n
<1> QED BY <1>3, <1>4

\* p is the first place, or 0.
IsFirst(s, t, p) ==
  \/ p = 0 /\ \A i \in Nat \ {0} : ~X!IsAt(s, t, i)
  \/ p \in Nat \ {0} /\ X!IsAt(s, t, p) /\ \A i \in Nat \ {0} : i < p => ~X!IsAt(s, t, i)

LEMMA NumberedUpTo ==
  ASSUME NEW n \in Int
  PROVE  LET k == IF n < 0 THEN 0 ELSE n
         IN  [i \in 1..n |-> i] \in Seq(Nat) /\ Len([i \in 1..n |-> i]) = k
<1> DEFINE k == IF n < 0 THEN 0 ELSE n
           s == [i \in 1..k |-> i]
<1>1. k \in Nat /\ 1..n = 1..k
  OBVIOUS
<1>2. s \in Seq(Nat) /\ DOMAIN s = 1..k
  BY <1>1, IsASeq
<1>3. Len(s) = k
  BY <1>1, <1>2, LenProperties
<1> QED BY <1>1, <1>2, <1>3

LEMMA FirstUnfolds ==
  ASSUME NEW s, NEW t
  PROVE  LET q == [i \in 1..(Len(s) - Len(t) + 1) |-> i]
             P == {i \in 1..Len(q) : X!IsAt(s, t, q[i])}
         IN  X!FirstAt(s, t) = IF P # {} THEN CHOOSE x \in P : \A y \in P : x <= y ELSE 0
BY Zenon DEF X!FirstAt, X!SelectInSeq, X!Min

LEMMA FirstPlaceIs ==
  ASSUME NEW S, NEW s \in Seq(S), NEW t \in Seq(S)
  PROVE  IsFirst(s, t, X!FirstAt(s, t))
<1> DEFINE n == Len(s) - Len(t) + 1
           q == [i \in 1..n |-> i]
           P == {i \in 1..Len(q) : X!IsAt(s, t, q[i])}
<1>1. Len(s) \in Nat /\ Len(t) \in Nat /\ n \in Int
  BY LenProperties
<1>2. 1..Len(q) = 1..n
  <2>0. n \in Int
    BY <1>1
  <2> HIDE DEF n
  <2>1. Len(q) = IF n < 0 THEN 0 ELSE n
    BY <2>0, NumberedUpTo
  <2> HIDE DEF q
  <2> QED BY <2>0, <2>1
<1>3. \A i : i \in P <=> i \in Nat \ {0} /\ X!IsAt(s, t, i)
  <2>1. ASSUME NEW i \in Nat \ {0}, X!IsAt(s, t, i) PROVE i \in 1..n
    BY <1>1, <2>1, StandsAt
  <2>2. \A i \in 1..n : q[i] = i /\ i \in Nat \ {0}
    BY <1>1
  <2> HIDE DEF n, q
  <2> QED BY <1>2, <2>1, <2>2
<1>4. X!FirstAt(s, t) = IF P # {} THEN CHOOSE x \in P : \A y \in P : x <= y ELSE 0
  BY FirstUnfolds
<1> HIDE DEF P
<1>5. CASE P = {}
  BY <1>3, <1>4, <1>5 DEF IsFirst
<1>6. CASE P # {}
  <2>1. P \in SUBSET Nat
    BY <1>3
  <2>2. PICK m \in P : \A y \in P : m <= y
    BY <1>6, <2>1, LeastOf
  <2>3. X!FirstAt(s, t) = m
    BY <1>4, <1>6, <2>1, <2>2, LeastIs
  <2>4. \A i \in Nat \ {0} : i < m => ~X!IsAt(s, t, i)
    BY <1>3, <2>1, <2>2
  <2> QED BY <1>3, <2>2, <2>3, <2>4 DEF IsFirst
<1> QED BY <1>5, <1>6

\* What is left after the first e stands in the rest as it does in the whole.
LEMMA StandsInRest ==
  ASSUME NEW S, NEW s \in Seq(S), NEW t \in Seq(S), NEW e \in 0..Len(s), NEW i \in Nat \ {0}
  PROVE  /\ X!Slice(s, e, Len(s)) \in Seq(S)
         /\ X!IsAt(X!Slice(s, e, Len(s)), t, i) <=> X!IsAt(s, t, e + i)
<1> DEFINE n == Len(s)
           c == X!Slice(s, e, n)
<1>1. n \in Nat /\ e \in Nat /\ e + 1 \in Int /\ 1 <= e + 1 /\ Len(t) \in Nat
  BY LenProperties
<1>2. CutFacts(S, s, e + 1, n)
  BY <1>1, Cuts
<1>3. c \in Seq(S) /\ Len(c) = n - e /\ \A j \in 1..(n - e) : c[j] = s[e + j]
  <2>1. c = SubSeq(s, e + 1, n)
    BY DEF X!Slice
  <2>2. c \in Seq(S) /\ Len(c) = (IF e + 1 <= n THEN n - (e + 1) + 1 ELSE 0)
        /\ \A j \in 1..(n - (e + 1) + 1) : c[j] = s[e + 1 + j - 1]
    BY <1>2, <2>1 DEF CutFacts
  <2>3. n - (e + 1) + 1 = n - e /\ (IF e + 1 <= n THEN n - (e + 1) + 1 ELSE 0) = n - e
    BY <1>1
  <2>4. \A j \in 1..(n - e) : e + 1 + j - 1 = e + j
    BY <1>1
  <2> HIDE DEF c
  <2> QED BY <2>2, <2>3, <2>4
<1> HIDE DEF c
<1>4. X!IsAt(c, t, i) <=> i + Len(t) - 1 <= Len(c) /\ \A j \in 1..Len(t) : c[i + j - 1] = t[j]
  BY <1>3, StandsAt
<1>5. X!IsAt(s, t, e + i) <=> (e + i) + Len(t) - 1 <= n
                              /\ \A j \in 1..Len(t) : s[(e + i) + j - 1] = t[j]
  <2> DEFINE k == e + i
  <2>1. k \in Nat \ {0} /\ s \in Seq(S) /\ t \in Seq(S)
    BY <1>1
  <2> HIDE DEF k
  <2>2. X!IsAt(s, t, k) <=> k + Len(t) - 1 <= Len(s) /\ \A j \in 1..Len(t) : s[k + j - 1] = t[j]
    BY <2>1, StandsAt
  <2> QED BY <2>2 DEF k
<1>6. CASE i + Len(t) - 1 <= n - e
  <2>1. \A j \in 1..Len(t) : i + j - 1 \in 1..(n - e) /\ e + (i + j - 1) = (e + i) + j - 1
    BY <1>1, <1>6
  <2>2. \A j \in 1..Len(t) : c[i + j - 1] = s[(e + i) + j - 1]
    BY <1>3, <2>1
  <2>3. (e + i) + Len(t) - 1 <= n
    BY <1>1, <1>6
  <2> QED BY <1>3, <1>4, <1>5, <1>6, <2>2, <2>3 DEF c
<1>7. CASE ~(i + Len(t) - 1 <= n - e)
  <2>1. ~((e + i) + Len(t) - 1 <= n)
    BY <1>1, <1>7
  <2> QED BY <1>3, <1>4, <1>5, <1>7, <2>1 DEF c
<1> QED BY <1>6, <1>7

(* The ends of the occurrences, one after another. *)

NextEnd(r, o, e) ==
  LET at == X!FirstAt(X!Slice(r, e, Len(r)), o)
  IN  IF e = -1 \/ at = 0 THEN -1 ELSE e + at - 1 + Len(o)

IterEnd(End, r, o) ==
  End = [k \in Nat |-> IF k = 0 THEN 0 ELSE NextEnd(r, o, End[k - 1])]

LEMMA EndUnfolds ==
  ASSUME NEW r, NEW o, NEW k
  PROVE  X!EndOfNth(r, o, k) = (CHOOSE End : IterEnd(End, r, o))[k]
BY Zenon DEF X!EndOfNth, IterEnd, NextEnd

\* From e on, an occurrence ends at n and none before it.
IsNextEnd(r, o, e, n) ==
  LET i == n - Len(o) + 1
  IN  /\ n \in e..Len(r) /\ i \in Nat \ {0} /\ e < i /\ X!IsAt(r, o, i)
      /\ \A j \in Nat \ {0} : e < j /\ j < i => ~X!IsAt(r, o, j)

NoneLeft(r, o, e) == \A j \in Nat \ {0} : e < j => ~X!IsAt(r, o, j)

LEMMA NextEndIs ==
  ASSUME NEW S, NEW r \in Seq(S), NEW o \in Seq(S), NEW e \in 0..Len(r)
  PROVE  \/ NextEnd(r, o, e) = -1 /\ NoneLeft(r, o, e)
         \/ IsNextEnd(r, o, e, NextEnd(r, o, e))
<1> DEFINE c == X!Slice(r, e, Len(r))
           at == X!FirstAt(c, o)
<1>1. Len(r) \in Nat /\ Len(o) \in Nat /\ e \in Nat /\ e # -1
  BY LenProperties
<1>2. \A i \in Nat \ {0} : X!IsAt(c, o, i) <=> X!IsAt(r, o, e + i)
  BY StandsInRest
<1>3. c \in Seq(S)
  <2>1. 1 \in Nat \ {0}
    OBVIOUS
  <2> QED BY <2>1, StandsInRest
<1>4. NextEnd(r, o, e) = IF e = -1 \/ at = 0 THEN -1 ELSE e + at - 1 + Len(o)
  BY DEF NextEnd
<1> HIDE DEF c, at
<1>5. IsFirst(c, o, at)
  BY <1>3, FirstPlaceIs DEF at
<1>7. CASE at = 0
  <2>1. \A i \in Nat \ {0} : ~X!IsAt(c, o, i)
    BY <1>5, <1>7 DEF IsFirst
  <2>2. ASSUME NEW j \in Nat \ {0}, e < j PROVE ~X!IsAt(r, o, j)
    <3>1. j - e \in Nat \ {0} /\ e + (j - e) = j
      BY <1>1, <2>2
    <3> QED BY <1>2, <2>1, <3>1
  <2> QED BY <1>4, <1>7, <2>2 DEF NoneLeft
<1>8. CASE at # 0
  <2>1. at \in Nat \ {0} /\ X!IsAt(c, o, at) /\ \A i \in Nat \ {0} : i < at => ~X!IsAt(c, o, i)
    BY <1>5, <1>8 DEF IsFirst
  <2> DEFINE i == e + at
             n == i - 1 + Len(o)
  <2>2. i \in Nat \ {0} /\ e < i /\ n \in Nat /\ n - Len(o) + 1 = i
    BY <1>1, <2>1
  <2>3. NextEnd(r, o, e) = n
    BY <1>1, <1>4, <1>8, <2>1
  <2>4. X!IsAt(r, o, i)
    BY <1>2, <2>1
  <2>5. ASSUME NEW j \in Nat \ {0}, e < j, j < i PROVE ~X!IsAt(r, o, j)
    <3>1. j - e \in Nat \ {0} /\ e + (j - e) = j /\ j - e < at
      BY <1>1, <2>1, <2>5
    <3> QED BY <1>2, <2>1, <3>1
  <2>6. r \in Seq(S) /\ o \in Seq(S) /\ i \in Nat \ {0}
    BY <2>2
  <2> HIDE DEF i
  <2>7. i + Len(o) - 1 <= Len(r)
    BY <2>4, <2>6, StandsAt
  <2>8. n \in e..Len(r)
    BY <1>1, <2>2, <2>7
  <2> HIDE DEF n
  <2> QED BY <2>2, <2>3, <2>4, <2>5, <2>8 DEF IsNextEnd
<1> QED BY <1>7, <1>8

LEMMA OneNext ==
  ASSUME NEW S, NEW r \in Seq(S), NEW o \in Seq(S), NEW e \in 0..Len(r), NEW n,
         IsNextEnd(r, o, e, n)
  PROVE  NextEnd(r, o, e) = n
<1> DEFINE m == NextEnd(r, o, e)
<1>1. Len(r) \in Nat /\ Len(o) \in Nat /\ e \in Nat /\ n \in Nat
  BY LenProperties DEF IsNextEnd
<1>2. (m = -1 /\ NoneLeft(r, o, e)) \/ IsNextEnd(r, o, e, m)
  BY NextEndIs
<1> HIDE DEF m
<1>3. ~NoneLeft(r, o, e)
  BY DEF IsNextEnd, NoneLeft
<1>4. IsNextEnd(r, o, e, m) /\ m \in Nat
  BY <1>1, <1>2, <1>3 DEF IsNextEnd
<1>5. ~(m < n) /\ ~(n < m)
  BY <1>1, <1>4 DEF IsNextEnd
<1> QED BY <1>1, <1>4, <1>5 DEF m

EndsAre(f, r, o) ==
  /\ f \in [Nat -> {-1} \cup 0..Len(r)] /\ f[0] = 0
  /\ \A k \in Nat : X!EndOfNth(r, o, k) = f[k] /\ f[k + 1] = NextEnd(r, o, f[k])

LEMMA EndsType ==
  ASSUME NEW S, NEW r \in Seq(S), NEW o \in Seq(S)
  PROVE  \E f : EndsAre(f, r, o)
<1> DEFINE P == {-1} \cup 0..Len(r)
           g == [q \in Nat \X P |-> NextEnd(r, o, q[2])]
<1>1. Len(r) \in Nat
  BY LenProperties
<1>2. \A e \in P : NextEnd(r, o, e) \in P
  <2>1. NextEnd(r, o, -1) = -1
    BY DEF NextEnd
  <2>2. ASSUME NEW e \in 0..Len(r) PROVE NextEnd(r, o, e) \in P
    <3>1. NextEnd(r, o, e) = -1 \/ IsNextEnd(r, o, e, NextEnd(r, o, e))
      BY NextEndIs
    <3>2. IsNextEnd(r, o, e, NextEnd(r, o, e)) => NextEnd(r, o, e) \in e..Len(r)
      BY DEF IsNextEnd
    <3> QED BY <1>1, <3>1, <3>2
  <2> QED BY <2>1, <2>2
<1>3. 0 \in P /\ g \in [Nat \X P -> P]
  BY <1>1, <1>2
<1>4. \A q \in Nat \X P : g[q] = NextEnd(r, o, q[2])
  OBVIOUS
<1>5. \A k \in Nat, e \in P : <<k, e>> \in Nat \X P /\ <<k, e>>[2] = e
  OBVIOUS
<1> HIDE DEF g, P
<1>6. PICK h : IsCarriedOn(h, P, 0, g)
  BY <1>3, CarriedOn
<1>7. h \in [Nat -> P] /\ \A k \in Nat : h[k] = IF k = 0 THEN 0 ELSE NextEnd(r, o, h[k - 1])
  <2>1. h \in [Nat -> P] /\ \A k \in Nat : h[k] = IF k = 0 THEN 0 ELSE g[<<k, h[k - 1]>>]
    BY <1>6 DEF IsCarriedOn
  <2>2. \A k \in Nat : k # 0 => k - 1 \in Nat /\ h[k - 1] \in P
    BY <2>1
  <2> QED BY <1>4, <1>5, <2>1, <2>2
<1>8. IterEnd(h, r, o)
  BY <1>7 DEF IterEnd
<1> DEFINE f == CHOOSE End : IterEnd(End, r, o)
<1>9. IterEnd(f, r, o)
  BY <1>8
<1>10. \A k \in Nat : X!EndOfNth(r, o, k) = f[k]
  BY EndUnfolds
<1> HIDE DEF f
<1>11. f = [k \in Nat |-> IF k = 0 THEN 0 ELSE NextEnd(r, o, f[k - 1])]
  BY <1>9 DEF IterEnd
<1>12. \A k \in Nat : f[k] = IF k = 0 THEN 0 ELSE NextEnd(r, o, f[k - 1])
  BY <1>11
<1>13. f = h
  <2> DEFINE T == {k \in Nat : f[k] = h[k]}
  <2>1. 0 \in T
    BY <1>7, <1>12
  <2>2. ASSUME NEW k \in Nat, k \in T PROVE k + 1 \in T
    <3>1. k + 1 \in Nat /\ k + 1 # 0 /\ (k + 1) - 1 = k
      OBVIOUS
    <3>2. f[k + 1] = NextEnd(r, o, f[k]) /\ h[k + 1] = NextEnd(r, o, h[k])
      BY <1>7, <1>12, <3>1
    <3> QED BY <2>2, <3>1, <3>2
  <2> HIDE DEF T
  <2>3. Nat \subseteq T
    BY <2>1, <2>2, Upward
  <2>4. \A k \in Nat : f[k] = h[k]
    BY <2>3 DEF T
  <2>5. DOMAIN f = Nat /\ f = [k \in Nat |-> f[k]]
    BY <1>11, Zenon
  <2> QED BY <1>7, <2>4, <2>5
<1>14. \A k \in Nat : f[k + 1] = NextEnd(r, o, f[k])
  <2> TAKE k \in Nat
  <2>1. k + 1 \in Nat /\ k + 1 # 0 /\ (k + 1) - 1 = k
    OBVIOUS
  <2> QED BY <1>12, <2>1
<1> QED BY <1>7, <1>10, <1>13, <1>14 DEF EndsAre, P

\* The first c occurrences there are, and no more; the ends climb.
HasEnds(f, c, r, o) ==
  /\ EndsAre(f, r, o) /\ c \in 0..Len(r)
  /\ \A k \in 0..c : f[k] \in 0..Len(r)
  /\ \A k \in Nat : k > c => f[k] = -1
  /\ \A k \in Nat : k < c => IsNextEnd(r, o, f[k], f[k + 1])
  /\ Cardinality({k \in 1..Len(r) : X!EndOfNth(r, o, k) # -1}) = c

LEMMA EndsCounted ==
  ASSUME NEW S, NEW r \in Seq(S), NEW o \in Seq(S), o # <<>>
  PROVE  \E f, c : HasEnds(f, c, r, o)
<1> DEFINE n == Len(r)
<1>1. n \in Nat /\ Len(o) \in Nat \ {0}
  BY LenProperties, EmptySeq
<1>2. PICK f : EndsAre(f, r, o)
  BY EndsType
<1>3. f \in [Nat -> {-1} \cup 0..n] /\ f[0] = 0 /\ \A k \in Nat : f[k + 1] = NextEnd(r, o, f[k])
  BY <1>2 DEF EndsAre
<1> HIDE DEF n
<1>4. ASSUME NEW k \in Nat, f[k + 1] # -1
      PROVE  f[k] \in 0..n /\ IsNextEnd(r, o, f[k], f[k + 1]) /\ f[k + 1] >= f[k] + 1
  <2>1. f[k] # -1
    BY <1>3, <1>4 DEF NextEnd
  <2>2. f[k] \in 0..n
    BY <1>3, <2>1
  <2>3. IsNextEnd(r, o, f[k], f[k + 1])
    <3> DEFINE e == f[k]
    <3>1. e \in 0..Len(r) /\ r \in Seq(S) /\ o \in Seq(S)
      BY <2>2 DEF n
    <3> HIDE DEF e
    <3>2. NextEnd(r, o, e) = -1 \/ IsNextEnd(r, o, e, NextEnd(r, o, e))
      BY <3>1, NextEndIs
    <3> QED BY <1>3, <1>4, <3>2 DEF e
  <2>4. f[k + 1] \in Int /\ f[k] < f[k + 1] - Len(o) + 1
    BY <1>3, <2>3 DEF IsNextEnd
  <2> QED BY <1>1, <2>2, <2>3, <2>4
<1>5. \A k \in Nat : f[k] # -1 => f[k] >= k
  <2> DEFINE T == {k \in Nat : f[k] # -1 => f[k] >= k}
  <2>1. 0 \in T
    BY <1>3
  <2>2. ASSUME NEW k \in Nat, k \in T PROVE k + 1 \in T
    <3> SUFFICES ASSUME f[k + 1] # -1 PROVE f[k + 1] >= k + 1
      OBVIOUS
    <3>1. f[k] \in 0..n /\ f[k + 1] >= f[k] + 1
      BY <1>4
    <3>2. f[k] >= k
      BY <2>2, <3>1
    <3>3. f[k + 1] \in Int
      BY <1>3
    <3> QED BY <1>1, <3>1, <3>2, <3>3
  <2> HIDE DEF T
  <2>3. Nat \subseteq T
    BY <2>1, <2>2, Upward
  <2> QED BY <2>3 DEF T
<1> DEFINE U == {k \in Nat : f[k + 1] = -1}
<1>6. n \in U
  <2>1. n + 1 \in Nat /\ f[n + 1] \in {-1} \cup 0..n
    BY <1>1, <1>3
  <2> QED BY <1>1, <1>5, <2>1
<1>7. PICK c \in U : \A k \in U : c <= k
  <2>1. U # {} /\ U \in SUBSET Nat
    BY <1>6
  <2> QED BY <2>1, LeastOf
<1>8. c \in 0..n /\ f[c + 1] = -1
  BY <1>1, <1>6, <1>7
<1>9. \A k \in Nat : k < c => f[k + 1] # -1
  BY <1>7
<1> HIDE DEF U
<1>10. ASSUME NEW k \in 0..c PROVE f[k] \in 0..n
  <2>1. CASE k = 0
    <3>1. f[k] = 0
      BY <1>3, <2>1
    <3> QED BY <1>1, <3>1
  <2>2. CASE k # 0
    <3>1. k - 1 \in Nat /\ k - 1 < c /\ (k - 1) + 1 = k /\ k \in Nat
      BY <1>8, <2>2
    <3>2. f[k] # -1
      BY <1>9, <3>1
    <3> QED BY <1>3, <3>1, <3>2
  <2> QED BY <2>1, <2>2
<1>11. \A k \in Nat : k > c => f[k] = -1
  <2> DEFINE T == {k \in Nat : k > c => f[k] = -1}
  <2>1. 0 \in T
    BY <1>8
  <2>2. ASSUME NEW k \in Nat, k \in T PROVE k + 1 \in T
    <3> SUFFICES ASSUME k + 1 > c PROVE f[k + 1] = -1
      OBVIOUS
    <3>1. CASE k = c
      BY <1>8, <3>1
    <3>2. CASE k # c
      <4>1. k > c
        BY <1>8, <3>2
      <4> QED BY <1>4, <2>2, <4>1
    <3> QED BY <3>1, <3>2
  <2> HIDE DEF T
  <2>3. Nat \subseteq T
    BY <2>1, <2>2, Upward
  <2> QED BY <2>3 DEF T
<1>12. \A k \in Nat : k < c => IsNextEnd(r, o, f[k], f[k + 1])
  BY <1>4, <1>9
<1>13. {k \in 1..n : X!EndOfNth(r, o, k) # -1} = 1..c
  <2>1. ASSUME NEW k \in 1..n PROVE X!EndOfNth(r, o, k) # -1 <=> k <= c
    <3>1. k \in Nat /\ X!EndOfNth(r, o, k) = f[k]
      BY <1>1, <1>2 DEF EndsAre
    <3>2. CASE k <= c
      <4>1. f[k] \in 0..n
        BY <1>10, <3>1, <3>2
      <4> QED BY <1>1, <3>1, <3>2, <4>1
    <3>3. CASE ~(k <= c)
      <4>1. f[k] = -1
        BY <1>8, <1>11, <3>1, <3>3
      <4> QED BY <3>1, <3>3, <4>1
    <3> QED BY <3>2, <3>3
  <2>2. \A k \in 1..c : k \in 1..n /\ k <= c
    BY <1>1, <1>8
  <2>3. \A k \in 1..n : k <= c => k \in 1..c
    BY <1>1, <1>8
  <2> QED BY <2>1, <2>2, <2>3
<1>14. Cardinality(1..c) = c
  BY <1>8, FS_Interval
<1>15. HasEnds(f, c, r, o)
  BY <1>2, <1>8, <1>10, <1>11, <1>12, <1>13, <1>14 DEF HasEnds, n
<1> QED BY <1>15

\* What is put out before each end.
IsPutOut(out, f, S, r, o, w) ==
  /\ out \in [Nat -> Seq(S)] /\ out[0] = <<>>
  /\ \A k \in Nat : out[k + 1] = (out[k] \o X!Slice(r, f[k], f[k + 1] - Len(o))) \o w

IterOut(Out, r, o, w) ==
  Out = [k \in Nat |->
           IF k = 0 THEN <<>>
           ELSE Out[k - 1] \o X!Slice(r, X!EndOfNth(r, o, k - 1), X!EndOfNth(r, o, k) - Len(o))
                  \o w]

LEMMA SameNumber ==
  ASSUME NEW P
  PROVE  X!Cardinality(P) = Cardinality(P)
BY Zenon DEF X!Cardinality, Cardinality

LEMMA AllUnfolds ==
  ASSUME NEW r, NEW o, NEW w
  PROVE  LET c == X!Cardinality({k \in 1..Len(r) : X!EndOfNth(r, o, k) # -1})
         IN  X!SubstituteAll(r, o, w) =
               IF o = <<>> THEN w \o X!FlattenSeq([i \in DOMAIN r |-> <<r[i]>> \o w])
               ELSE (CHOOSE Out : IterOut(Out, r, o, w))[c]
                      \o X!Slice(r, X!EndOfNth(r, o, c), Len(r))
BY Zenon DEF X!SubstituteAll, IterOut

IsAllOf(S, r, o, w, f, c) ==
  \E out : /\ IsPutOut(out, f, S, r, o, w)
           /\ X!SubstituteAll(r, o, w) = out[c] \o X!Slice(r, f[c], Len(r))

LEMMA PutOut ==
  ASSUME NEW S, NEW r \in Seq(S), NEW o \in Seq(S), NEW w \in Seq(S), o # <<>>,
         NEW f, NEW c, HasEnds(f, c, r, o)
  PROVE  IsAllOf(S, r, o, w, f, c)
<1> DEFINE Runs == Seq(S)
           mid == [k \in Nat |-> X!Slice(r, f[k], f[k + 1] - Len(o))]
           g == [q \in Nat \X Runs |-> (q[2] \o mid[q[1] - 1]) \o w]
           h == [q \in Nat \X Runs |-> IF q[1] = 0 THEN <<>> ELSE g[q]]
<1>0. EndsAre(f, r, o)
  BY DEF HasEnds
<1>1. Len(r) \in Nat /\ Len(o) \in Nat \ {0} /\ <<>> \in Runs
  BY LenProperties, EmptySeq
<1>2. ASSUME NEW k \in Nat PROVE mid[k] \in Runs
  <2>1. f[k] \in {-1} \cup 0..Len(r) /\ f[k + 1] \in {-1} \cup 0..Len(r)
        /\ f[k + 1] = NextEnd(r, o, f[k])
    <3>1. k + 1 \in Nat
      OBVIOUS
    <3> QED BY <1>0, <3>1 DEF EndsAre
  <2>2. f[k] = -1 => f[k + 1] = -1
    BY <2>1 DEF NextEnd
  <2> DEFINE i == f[k] + 1
             j == f[k + 1] - Len(o)
  <2>3. i \in Int /\ j \in Int /\ \A p \in i..j : p \in 1..Len(r)
    BY <1>1, <2>1, <2>2
  <2> HIDE DEF i, j
  <2>4. \A p \in i..j : r[p] \in S
    BY <2>3, ElementOfSeq
  <2>5. SubSeq(r, i, j) \in Seq(S)
    BY <2>3, <2>4, SubSeqProperties
  <2> QED BY <2>5 DEF X!Slice, i, j
<1> HIDE DEF mid
<1>3. \A x \in Runs, k \in Nat : (x \o mid[k]) \o w \in Runs
  <2> SUFFICES ASSUME NEW x \in Seq(S), NEW k \in Nat PROVE (x \o mid[k]) \o w \in Seq(S)
    OBVIOUS
  <2>1. mid[k] \in Seq(S)
    BY <1>2
  <2>2. x \o mid[k] \in Seq(S)
    BY <2>1, ConcatProperties
  <2> DEFINE y == x \o mid[k]
  <2> HIDE DEF y
  <2>3. y \o w \in Seq(S)
    BY <2>2, ConcatProperties DEF y
  <2> QED BY <2>3 DEF y
<1>4. h \in [Nat \X Runs -> Runs]
  <2>1. ASSUME NEW k \in Nat, NEW x \in Runs
        PROVE  (IF k = 0 THEN <<>> ELSE (x \o mid[k - 1]) \o w) \in Runs
    <3>1. k # 0 => k - 1 \in Nat
      OBVIOUS
    <3> HIDE DEF Runs
    <3> QED BY <1>1, <1>3, <3>1
  <2> HIDE DEF Runs
  <2> QED BY <2>1
<1>5. \A k \in Nat, x \in Runs : k # 0 => h[<<k, x>>] = (x \o mid[k - 1]) \o w
  OBVIOUS
<1> HIDE DEF g, h, Runs
<1>6. PICK out : IsCarriedOn(out, Runs, <<>>, h)
  BY <1>1, <1>4, CarriedOn
<1>7. out \in [Nat -> Runs] /\ \A k \in Nat : out[k] = IF k = 0 THEN <<>> ELSE (out[k - 1] \o mid[k - 1]) \o w
  <2>1. out \in [Nat -> Runs] /\ \A k \in Nat : out[k] = IF k = 0 THEN <<>> ELSE h[<<k, out[k - 1]>>]
    BY <1>6 DEF IsCarriedOn
  <2>2. \A k \in Nat : k # 0 => k - 1 \in Nat /\ out[k - 1] \in Runs
    BY <2>1
  <2> QED BY <1>5, <2>1, <2>2
<1>8. \A k \in Nat : k # 0 =>
        mid[k - 1] = X!Slice(r, X!EndOfNth(r, o, k - 1), X!EndOfNth(r, o, k) - Len(o))
  <2> TAKE k \in Nat
  <2> SUFFICES ASSUME k # 0
               PROVE mid[k - 1] = X!Slice(r, X!EndOfNth(r, o, k - 1), X!EndOfNth(r, o, k) - Len(o))
    OBVIOUS
  <2>1. k - 1 \in Nat /\ (k - 1) + 1 = k
    OBVIOUS
  <2>2. X!EndOfNth(r, o, k - 1) = f[k - 1] /\ X!EndOfNth(r, o, k) = f[k]
    BY <1>0, <2>1 DEF EndsAre
  <2> QED BY <2>1, <2>2 DEF mid
<1>9. IterOut(out, r, o, w)
  <2>1. \A k \in Nat : out[k] =
           IF k = 0 THEN <<>>
           ELSE out[k - 1] \o X!Slice(r, X!EndOfNth(r, o, k - 1), X!EndOfNth(r, o, k) - Len(o)) \o w
    BY <1>7, <1>8
  <2>2. out = [k \in Nat |-> out[k]]
    BY <1>7
  <2> QED BY <2>1, <2>2 DEF IterOut
<1> DEFINE v == CHOOSE Out : IterOut(Out, r, o, w)
<1>10. IterOut(v, r, o, w)
  BY <1>9
<1>11. X!SubstituteAll(r, o, w) = v[c] \o X!Slice(r, X!EndOfNth(r, o, c), Len(r))
  <2> DEFINE P == {k \in 1..Len(r) : X!EndOfNth(r, o, k) # -1}
  <2>1. X!Cardinality(P) = c
    BY SameNumber DEF HasEnds
  <2> HIDE DEF P
  <2> QED BY <2>1, AllUnfolds DEF P
<1> HIDE DEF v
<1>12. \A k \in Nat : v[k] = IF k = 0 THEN <<>> ELSE (v[k - 1] \o mid[k - 1]) \o w
  <2>1. \A k \in Nat : v[k] =
           IF k = 0 THEN <<>>
           ELSE v[k - 1] \o X!Slice(r, X!EndOfNth(r, o, k - 1), X!EndOfNth(r, o, k) - Len(o)) \o w
    BY <1>10, Zenon DEF IterOut
  <2> QED BY <1>8, <2>1
<1>13. \A k \in Nat : v[k] = out[k]
  <2> DEFINE T == {k \in Nat : v[k] = out[k]}
  <2>1. 0 \in T
    BY <1>7, <1>12
  <2>2. ASSUME NEW k \in Nat, k \in T PROVE k + 1 \in T
    <3>1. k + 1 \in Nat /\ k + 1 # 0 /\ (k + 1) - 1 = k
      OBVIOUS
    <3>2. v[k + 1] = (v[k] \o mid[k]) \o w /\ out[k + 1] = (out[k] \o mid[k]) \o w
      BY <1>7, <1>12, <3>1
    <3> QED BY <2>2, <3>1, <3>2
  <2> HIDE DEF T
  <2>3. Nat \subseteq T
    BY <2>1, <2>2, Upward
  <2> QED BY <2>3 DEF T
<1>14. \A k \in Nat : out[k + 1] = (out[k] \o X!Slice(r, f[k], f[k + 1] - Len(o))) \o w
  <2> TAKE k \in Nat
  <2>1. k + 1 \in Nat /\ k + 1 # 0 /\ (k + 1) - 1 = k
    OBVIOUS
  <2>2. out[k + 1] = (out[k] \o mid[k]) \o w
    BY <1>7, <2>1
  <2> QED BY <2>2 DEF mid
<1>15. IsPutOut(out, f, S, r, o, w)
  BY <1>7, <1>14 DEF IsPutOut, Runs
<1>16. c \in Nat /\ X!EndOfNth(r, o, c) = f[c]
  <2>1. c \in Nat
    BY <1>1 DEF HasEnds
  <2> QED BY <1>0, <2>1 DEF EndsAre
<1> QED BY <1>11, <1>13, <1>15, <1>16 DEF IsAllOf

\* What ends within a part two sequences share is the same in both.
LEMMA StandsAlike ==
  ASSUME NEW S, NEW r \in Seq(S), NEW d \in Seq(S), NEW o \in Seq(S), NEW b \in Nat,
         b <= Len(r), b <= Len(d), \A j \in 1..b : d[j] = r[j],
         NEW i \in Nat \ {0}, i + Len(o) - 1 <= b
  PROVE  X!IsAt(d, o, i) <=> X!IsAt(r, o, i)
<1>1. Len(r) \in Nat /\ Len(d) \in Nat /\ Len(o) \in Nat
  BY LenProperties
<1>2. \A j \in 1..Len(o) : i + j - 1 \in 1..b
  BY <1>1
<1>3. \A j \in 1..Len(o) : d[i + j - 1] = r[i + j - 1]
  BY <1>2
<1>4. X!IsAt(d, o, i) <=> i + Len(o) - 1 <= Len(d) /\ \A j \in 1..Len(o) : d[i + j - 1] = o[j]
  BY StandsAt
<1>5. X!IsAt(r, o, i) <=> i + Len(o) - 1 <= Len(r) /\ \A j \in 1..Len(o) : r[i + j - 1] = o[j]
  BY StandsAt
<1>6. i + Len(o) - 1 <= Len(d) /\ i + Len(o) - 1 <= Len(r)
  BY <1>1
<1> QED BY <1>3, <1>4, <1>5, <1>6

LEMMA NextCarries ==
  ASSUME NEW S, NEW r \in Seq(S), NEW d \in Seq(S), NEW o \in Seq(S), NEW b \in Nat,
         b <= Len(r), b <= Len(d), \A j \in 1..b : d[j] = r[j],
         NEW e \in Nat, NEW n \in Nat, n <= b, IsNextEnd(r, o, e, n)
  PROVE  IsNextEnd(d, o, e, n)
<1> DEFINE i == n - Len(o) + 1
<1>1. Len(r) \in Nat /\ Len(d) \in Nat /\ Len(o) \in Nat
  BY LenProperties
<1>2. /\ n \in e..Len(r) /\ i \in Nat \ {0} /\ e < i /\ X!IsAt(r, o, i)
      /\ \A j \in Nat \ {0} : e < j /\ j < i => ~X!IsAt(r, o, j)
  BY DEF IsNextEnd
<1>3. \A j \in Nat \ {0} : j <= i => j + Len(o) - 1 <= b
  BY <1>1
<1> HIDE DEF i
<1>4. ASSUME NEW j \in Nat \ {0}, j <= i PROVE X!IsAt(d, o, j) <=> X!IsAt(r, o, j)
  <2>1. /\ r \in Seq(S) /\ d \in Seq(S) /\ o \in Seq(S) /\ b \in Nat /\ b <= Len(r) /\ b <= Len(d)
        /\ j \in Nat \ {0} /\ j + Len(o) - 1 <= b
    BY <1>3, <1>4
  <2>2. \A k \in 1..b : d[k] = r[k]
    OBVIOUS
  <2> QED BY <2>1, <2>2, StandsAlike
<1>5. X!IsAt(d, o, i) /\ \A j \in Nat \ {0} : e < j /\ j < i => ~X!IsAt(d, o, j)
  BY <1>2, <1>4
<1>6. n \in e..Len(d)
  BY <1>1, <1>2
<1> QED BY <1>2, <1>5, <1>6 DEF IsNextEnd, i

LEMMA EndsClimb ==
  ASSUME NEW r, NEW o, NEW f, NEW c, HasEnds(f, c, r, o), Len(r) \in Nat, NEW i \in 0..c
  PROVE  \A k \in 0..i : f[k] <= f[i]
<1>0. /\ c \in Nat /\ \A k \in 0..c : f[k] \in Nat
      /\ \A k \in Nat : k < c => f[k] <= f[k + 1]
  <2>1. c \in Nat /\ \A k \in 0..c : f[k] \in Nat
    BY DEF HasEnds
  <2>2. ASSUME NEW k \in Nat, k < c PROVE f[k] <= f[k + 1]
    <3>1. IsNextEnd(r, o, f[k], f[k + 1])
      BY <2>2 DEF HasEnds
    <3>2. f[k] \in Nat
      BY <2>1, <2>2
    <3> QED BY <3>1, <3>2 DEF IsNextEnd
  <2> QED BY <2>1, <2>2
<1> DEFINE T == {j \in Nat : j <= c => \A k \in 0..j : f[k] <= f[j]}
<1>1. 0 \in T
  <2>1. \A k \in 0..0 : k = 0
    OBVIOUS
  <2>2. f[0] \in Nat
    BY <1>0
  <2> QED BY <2>1, <2>2
<1>2. ASSUME NEW j \in Nat, j \in T PROVE j + 1 \in T
  <2> SUFFICES ASSUME j + 1 <= c, NEW k \in 0..(j + 1) PROVE f[k] <= f[j + 1]
    OBVIOUS
  <2>1. j \in 0..c /\ j + 1 \in 0..c /\ j < c /\ k \in 0..c
    BY <1>0
  <2>2. f[j] \in Nat /\ f[j + 1] \in Nat /\ f[k] \in Nat /\ f[j] <= f[j + 1]
    BY <1>0, <2>1
  <2>3. k # j + 1 => f[k] <= f[j]
    BY <1>2, <2>1
  <2> QED BY <2>2, <2>3
<1> HIDE DEF T
<1>3. i \in T /\ i <= c
  <2>1. i \in Nat /\ i <= c
    BY <1>0
  <2> QED BY <1>1, <1>2, <2>1, Upward
<1> QED BY <1>3 DEF T

LEMMA PartEnds ==
  ASSUME NEW S, NEW r \in Seq(S), NEW d \in Seq(S), NEW o \in Seq(S), NEW f, NEW c,
         HasEnds(f, c, r, o), NEW i \in 0..c, f[i] <= Len(d), \A j \in 1..f[i] : d[j] = r[j]
  PROVE  X!EndOfNth(d, o, i) = f[i]
<1>1. Len(r) \in Nat /\ Len(d) \in Nat /\ c \in Nat /\ i \in Nat
  BY LenProperties DEF HasEnds
<1>2. \A k \in 0..c : f[k] \in 0..Len(r)
  BY DEF HasEnds
<1>3. \A k \in 0..i : f[k] <= f[i] /\ f[k] \in Nat /\ f[i] \in Nat /\ f[i] <= Len(r)
  <2>1. \A k \in 0..i : f[k] <= f[i]
    BY <1>1, EndsClimb
  <2> QED BY <1>1, <1>2, <2>1
<1>4. PICK h : EndsAre(h, d, o)
  BY EndsType
<1> DEFINE T == {k \in Nat : k <= i => h[k] = f[k]}
<1>5. 0 \in T
  <2>1. f[0] = 0 /\ h[0] = 0
    BY <1>4 DEF HasEnds, EndsAre
  <2> QED BY <2>1
<1>6. ASSUME NEW k \in Nat, k \in T PROVE k + 1 \in T
  <2> SUFFICES ASSUME k + 1 <= i PROVE h[k + 1] = f[k + 1]
    OBVIOUS
  <2> DEFINE e == f[k]
             n == f[k + 1]
             b == f[i]
  <2>1. k < c /\ k \in 0..i /\ k + 1 \in 0..i /\ i \in 0..i
    BY <1>1
  <2>2. IsNextEnd(r, o, e, n)
    BY <2>1 DEF HasEnds
  <2>3. e \in Nat /\ n \in Nat /\ b \in Nat /\ n <= b /\ b <= Len(r) /\ b <= Len(d)
    BY <1>3, <2>1
  <2>4. /\ r \in Seq(S) /\ d \in Seq(S) /\ o \in Seq(S) /\ \A j \in 1..b : d[j] = r[j]
    OBVIOUS
  <2>5. e <= b
    BY <1>3, <2>1
  <2>6. h[k] = e
    BY <1>6, <2>1
  <2>7. h[k + 1] = NextEnd(d, o, h[k])
    BY <1>4 DEF EndsAre
  <2> HIDE DEF e, n, b
  <2>8. IsNextEnd(d, o, e, n)
    BY <2>2, <2>3, <2>4, NextCarries
  <2>9. e \in 0..Len(d)
    BY <1>1, <2>3, <2>5
  <2>10. NextEnd(d, o, e) = n
    BY <2>4, <2>8, <2>9, OneNext
  <2> QED BY <2>6, <2>7, <2>10 DEF n
<1> HIDE DEF T
<1>7. i \in T
  BY <1>1, <1>5, <1>6, Upward
<1>8. h[i] = f[i]
  BY <1>1, <1>7 DEF T
<1> QED BY <1>1, <1>4, <1>8 DEF EndsAre

\* What stands up to a place, what stands from there.
LEMMA Slices ==
  ASSUME NEW S, NEW s \in Seq(S), NEW i \in 0..Len(s), NEW j \in i..Len(s)
  PROVE  /\ X!Slice(s, i, j) \in Seq(S) /\ Len(X!Slice(s, i, j)) = j - i
         /\ \A k \in 1..(j - i) : X!Slice(s, i, j)[k] = s[i + k]
<1> DEFINE c == X!Slice(s, i, j)
           m == i + 1
<1>1. Len(s) \in Nat /\ i \in Nat /\ j \in Nat /\ m \in Int /\ j \in Int /\ 1 <= m /\ j <= Len(s)
      /\ i <= j
  BY LenProperties
<1>2. c = SubSeq(s, m, j)
  BY DEF X!Slice
<1>3. j - m + 1 = j - i /\ (IF m <= j THEN j - m + 1 ELSE 0) = j - i
      /\ \A k \in 1..(j - i) : m + k - 1 = i + k
  BY <1>1
<1> HIDE DEF c, m
<1>4. CutFacts(S, s, m, j)
  BY <1>1, Cuts
<1>5. c \in Seq(S) /\ Len(c) = j - i /\ \A k \in 1..(j - i) : c[k] = s[i + k]
  BY <1>2, <1>3, <1>4 DEF CutFacts
<1> QED BY <1>5 DEF c

LEMMA SlicesJoin ==
  ASSUME NEW S, NEW s \in Seq(S), NEW i \in 0..Len(s), NEW j \in i..Len(s), NEW k \in j..Len(s)
  PROVE  X!Slice(s, i, j) \o X!Slice(s, j, k) = X!Slice(s, i, k)
<1>1. Len(s) \in Nat /\ i \in Nat /\ j \in Nat /\ k \in Nat
  BY LenProperties
<1> DEFINE m == i + 1
<1>2. m \in 1..(Len(s) + 1) /\ j \in (m - 1)..Len(s) /\ k \in j..Len(s) /\ s \in Seq(S)
  BY <1>1
<1> HIDE DEF m
<1>3. SubSeq(s, m, j) \o SubSeq(s, j + 1, k) = SubSeq(s, m, k)
  BY <1>2, ConcatAdjacentSubSeq
<1> QED BY <1>3 DEF m, X!Slice

\* Of two texts joined, the first and the second.
LEMMA JoinedSlices ==
  ASSUME NEW S, NEW s \in Seq(S), NEW t \in Seq(S)
  PROVE  /\ s \o t \in Seq(S) /\ Len(s \o t) = Len(s) + Len(t)
         /\ \A i \in 0..Len(s) : X!Slice(s \o t, 0, i) = X!Slice(s, 0, i)
         /\ X!Slice(s \o t, Len(s), Len(s \o t)) = t
<1> DEFINE d == s \o t
<1>1. JoinFacts(S, s, t)
  BY Joins
<1>2. /\ d \in Seq(S) /\ Len(d) = Len(s) + Len(t) /\ Len(s) \in Nat /\ Len(t) \in Nat
      /\ \A j \in 1..Len(s) : d[j] = s[j]
      /\ \A j \in 1..Len(t) : d[Len(s) + j] = t[j]
  BY <1>1 DEF JoinFacts
<1> HIDE DEF d
<1>3. ASSUME NEW i \in 0..Len(s) PROVE X!Slice(d, 0, i) = X!Slice(s, 0, i)
  <2> DEFINE a == X!Slice(d, 0, i)
             b == X!Slice(s, 0, i)
             z == 0
  <2>1. z \in 0..Len(d) /\ z \in 0..Len(s) /\ i \in z..Len(d) /\ i \in z..Len(s)
        /\ d \in Seq(S) /\ s \in Seq(S) /\ i - z = i
    BY <1>2
  <2> HIDE DEF z
  <2>2. X!Slice(d, z, i) \in Seq(S) /\ Len(X!Slice(d, z, i)) = i
        /\ \A k \in 1..i : X!Slice(d, z, i)[k] = d[z + k]
    BY <2>1, Slices
  <2>3. X!Slice(s, z, i) \in Seq(S) /\ Len(X!Slice(s, z, i)) = i
        /\ \A k \in 1..i : X!Slice(s, z, i)[k] = s[z + k]
    BY <2>1, Slices
  <2>4. a \in Seq(S) /\ b \in Seq(S) /\ Len(a) = Len(b)
    BY <2>2, <2>3 DEF z
  <2>5. \A k \in 1..i : a[k] = b[k]
    <3> TAKE k \in 1..i
    <3>1. k \in 1..Len(s) /\ 0 + k = k
      BY <1>2
    <3> QED BY <1>2, <2>2, <2>3, <3>1 DEF z
  <2>6. Len(a) = i
    BY <2>2 DEF z
  <2> HIDE DEF a, b
  <2>7. a = b
    BY <2>4, <2>5, <2>6, SeqEqual
  <2> QED BY <2>7 DEF a, b
<1>4. X!Slice(d, Len(s), Len(d)) = t
  <2> DEFINE i == Len(s)
             j == Len(d)
             c == X!Slice(d, i, j)
  <2>1. i \in 0..Len(d) /\ j \in i..Len(d) /\ d \in Seq(S) /\ j - i = Len(t)
    BY <1>2
  <2>2. \A k \in 1..Len(t) : d[i + k] = t[k]
    BY <1>2
  <2> HIDE DEF i, j
  <2>3. c \in Seq(S) /\ Len(c) = Len(t) /\ \A k \in 1..Len(t) : c[k] = d[i + k]
    BY <2>1, Slices
  <2> HIDE DEF c
  <2>4. c \in Seq(S) /\ t \in Seq(S) /\ Len(c) = Len(t) /\ \A k \in 1..Len(c) : c[k] = t[k]
    BY <2>2, <2>3
  <2>5. c = t
    BY <2>4, SeqEqual
  <2> QED BY <2>5 DEF c, i, j
<1> QED BY <1>2, <1>3, <1>4 DEF d

IsOneBack(S, r, o, w, f, i, x) ==
  LET mid == X!Slice(r, f[i - 1], f[i] - Len(o))
  IN  /\ mid \in Seq(S) /\ (mid \o w) \o x \in Seq(S)
      /\ X!SubstituteNth(X!Slice(r, 0, f[i]) \o x, o, w, i) =
           X!Slice(r, 0, f[i - 1]) \o ((mid \o w) \o x)

\* The substitution of the i-th, where what follows it is already made over.
LEMMA OneBack ==
  ASSUME NEW S, NEW r \in Seq(S), NEW o \in Seq(S), NEW w \in Seq(S), o # <<>>,
         NEW f, NEW c, HasEnds(f, c, r, o), NEW i \in 1..c, NEW x \in Seq(S)
  PROVE  IsOneBack(S, r, o, w, f, i, x)
<1> DEFINE a == X!Slice(r, 0, f[i])
           d == a \o x
           e == f[i - 1]
           n == f[i]
           b == n - Len(o)
           mid == X!Slice(r, e, b)
           head == X!Slice(r, 0, e)
<1>1. Len(r) \in Nat /\ Len(o) \in Nat \ {0} /\ c \in Nat /\ i \in Nat \ {0}
  BY LenProperties, EmptySeq DEF HasEnds
<1>2. e \in 0..Len(r) /\ n \in 0..Len(r) /\ IsNextEnd(r, o, e, n)
  <2>1. i - 1 \in 0..c /\ i \in 0..c /\ i - 1 \in Nat /\ i - 1 < c /\ (i - 1) + 1 = i
    BY <1>1
  <2> QED BY <2>1 DEF HasEnds
<1>3. b \in e..n
  <2>1. e < n - Len(o) + 1
    BY <1>2 DEF IsNextEnd
  <2> QED BY <1>1, <1>2, <2>1
<1> HIDE DEF e, n, b, mid, head
<1>4. a \in Seq(S) /\ Len(a) = n /\ \A k \in 1..n : a[k] = r[k]
  <2> DEFINE z == 0
  <2>1. z \in 0..Len(r) /\ n \in z..Len(r) /\ n - z = n
    BY <1>1, <1>2
  <2>2. \A k \in 1..n : z + k = k
    BY <1>2
  <2> HIDE DEF z
  <2>3. X!Slice(r, z, n) \in Seq(S) /\ Len(X!Slice(r, z, n)) = n
        /\ \A k \in 1..n : X!Slice(r, z, n)[k] = r[k]
    BY <2>1, <2>2, Slices
  <2> QED BY <2>3 DEF z, n
<1> HIDE DEF a
<1>5. /\ d \in Seq(S) /\ Len(d) = n + Len(x) /\ X!Slice(d, n, Len(d)) = x
      /\ \A k \in 0..n : X!Slice(d, 0, k) = X!Slice(a, 0, k)
  <2>1. /\ a \o x \in Seq(S) /\ Len(a \o x) = Len(a) + Len(x)
        /\ \A k \in 0..Len(a) : X!Slice(a \o x, 0, k) = X!Slice(a, 0, k)
        /\ X!Slice(a \o x, Len(a), Len(a \o x)) = x
    BY <1>4, JoinedSlices
  <2> QED BY <1>4, <2>1
<1>6. \A k \in 1..n : d[k] = r[k]
  <2>1. JoinFacts(S, a, x)
    BY <1>4, Joins
  <2> QED BY <1>4, <2>1 DEF JoinFacts
<1>7. Len(x) \in Nat
  BY LenProperties
<1> HIDE DEF d
<1>8. X!EndOfNth(d, o, i) = n
  <2>1. f[i] <= Len(d) /\ i \in 0..c /\ \A j \in 1..f[i] : d[j] = r[j]
    BY <1>1, <1>2, <1>5, <1>6, <1>7 DEF n
  <2>2. X!EndOfNth(d, o, i) = f[i]
    BY <1>5, <2>1, PartEnds
  <2> QED BY <2>2 DEF n
<1>9. X!SubstituteNth(d, o, w, i) = (X!Slice(d, 0, b) \o w) \o X!Slice(d, n, Len(d))
  <2>1. ~(i < 1) /\ n # -1
    BY <1>1, <1>2
  <2> QED BY <1>8, <2>1 DEF X!SubstituteNth, b
<1>10. X!Slice(d, 0, b) = X!Slice(r, 0, b)
  <2> DEFINE u == X!Slice(d, 0, b)
             v == X!Slice(r, 0, b)
             z == 0
  <2>1. z \in 0..Len(d) /\ z \in 0..Len(r) /\ b \in z..Len(d) /\ b \in z..Len(r) /\ b - z = b
        /\ d \in Seq(S)
    BY <1>1, <1>2, <1>3, <1>5, <1>7
  <2>2. \A k \in 1..b : z + k = k /\ k \in 1..n
    BY <1>2, <1>3
  <2> HIDE DEF z
  <2>3. X!Slice(d, z, b) \in Seq(S) /\ Len(X!Slice(d, z, b)) = b
        /\ \A k \in 1..b : X!Slice(d, z, b)[k] = d[k]
    BY <2>1, <2>2, Slices
  <2>4. X!Slice(r, z, b) \in Seq(S) /\ Len(X!Slice(r, z, b)) = b
        /\ \A k \in 1..b : X!Slice(r, z, b)[k] = r[k]
    BY <2>1, <2>2, Slices
  <2>5. u \in Seq(S) /\ v \in Seq(S) /\ Len(u) = Len(v) /\ Len(u) = b /\ \A k \in 1..b : u[k] = v[k]
    BY <1>6, <2>2, <2>3, <2>4 DEF z
  <2> HIDE DEF u, v
  <2>6. u = v
    BY <2>5, SeqEqual
  <2> QED BY <2>6 DEF u, v
<1>11. X!Slice(r, 0, b) = head \o mid /\ head \in Seq(S) /\ mid \in Seq(S)
  <2> DEFINE z == 0
  <2>1. z \in 0..Len(r) /\ e \in z..Len(r) /\ b \in e..Len(r)
    BY <1>1, <1>2, <1>3
  <2> HIDE DEF z
  <2>2. X!Slice(r, z, e) \o X!Slice(r, e, b) = X!Slice(r, z, b)
    BY <2>1, SlicesJoin
  <2>3. X!Slice(r, z, e) \in Seq(S)
    BY <2>1, Slices
  <2>4. X!Slice(r, e, b) \in Seq(S)
    BY <1>2, <2>1, Slices
  <2> QED BY <2>2, <2>3, <2>4 DEF z, head, mid
<1>12. mid \o w \in Seq(S)
  BY <1>11, ConcatProperties
<1> DEFINE y == mid \o w
<1>13. y \in Seq(S)
  BY <1>12
<1> HIDE DEF y
<1>14. y \o x \in Seq(S)
  BY <1>13, ConcatProperties
<1>15. ((head \o mid) \o w) \o x = head \o (y \o x)
  <2>1. Brackets(head, mid, w)
    BY <1>11, Associates
  <2>2. Brackets(head, y, x)
    BY <1>11, <1>13, Associates
  <2> QED BY <2>1, <2>2 DEF Brackets, y
<1>16. X!SubstituteNth(d, o, w, i) = head \o (y \o x)
  BY <1>5, <1>9, <1>10, <1>11, <1>15
<1> QED BY <1>11, <1>14, <1>16 DEF d, a, y, mid, head, b, e, n, IsOneBack

IterDone(Done, r, o, w, n) ==
  Done = [k \in Nat |-> IF k = 0 THEN r ELSE X!SubstituteNth(Done[k - 1], o, w, n + 1 - k)]

LEMMA DoneUnfolds ==
  ASSUME NEW r, NEW o, NEW w, NEW n
  PROVE  X!OneByOne(r, o, w, n) = (CHOOSE Done : IterDone(Done, r, o, w, n))[n]
BY Zenon DEF X!OneByOne, IterDone

\* What a substitution makes of sequences is a sequence.
LEMMA NthType ==
  ASSUME NEW S, NEW d \in Seq(S), NEW o \in Seq(S), NEW w \in Seq(S), NEW i \in Int
  PROVE  X!SubstituteNth(d, o, w, i) \in Seq(S)
<1> DEFINE n == X!EndOfNth(d, o, i)
           b == n - Len(o)
<1>1. CASE i < 1 \/ o = <<>> \/ n = -1
  BY <1>1 DEF X!SubstituteNth
<1>2. CASE ~(i < 1 \/ o = <<>> \/ n = -1)
  <2>1. PICK h : EndsAre(h, d, o)
    BY EndsType
  <2>2. Len(d) \in Nat /\ Len(o) \in Nat /\ i \in Nat /\ i - 1 \in Nat /\ (i - 1) + 1 = i
    BY <1>2, LenProperties
  <2>3. h[i - 1] \in {-1} \cup 0..Len(d) /\ h[i] = NextEnd(d, o, h[i - 1]) /\ n = h[i]
    BY <2>1, <2>2 DEF EndsAre
  <2> HIDE DEF n
  <2>4. h[i - 1] # -1
    BY <1>2, <2>3 DEF NextEnd
  <2> DEFINE e == h[i - 1]
  <2>5. e \in 0..Len(d) /\ d \in Seq(S) /\ o \in Seq(S)
    BY <2>3, <2>4
  <2> HIDE DEF e
  <2>6. IsNextEnd(d, o, e, NextEnd(d, o, e)) \/ NextEnd(d, o, e) = -1
    BY <2>5, NextEndIs
  <2>7. IsNextEnd(d, o, e, n)
    BY <1>2, <2>3, <2>6 DEF e
  <2>8. n \in 0..Len(d) /\ b \in 0..n
    BY <2>2, <2>5, <2>7 DEF IsNextEnd
  <2> HIDE DEF b
  <2> DEFINE z == 0
             l == Len(d)
  <2>9. z \in 0..Len(d) /\ b \in z..Len(d) /\ n \in 0..Len(d) /\ l \in n..Len(d)
    BY <2>2, <2>8
  <2> HIDE DEF z, l
  <2>10. X!Slice(d, z, b) \in Seq(S)
    BY <2>9, Slices
  <2>11. X!Slice(d, n, l) \in Seq(S)
    BY <2>9, Slices
  <2> DEFINE head == X!Slice(d, z, b)
             tail == X!Slice(d, n, l)
  <2>12. head \in Seq(S) /\ tail \in Seq(S)
    BY <2>10, <2>11
  <2> HIDE DEF head, tail
  <2>13. head \o w \in Seq(S)
    BY <2>12, ConcatProperties
  <2> DEFINE y == head \o w
  <2>14. y \in Seq(S)
    BY <2>13
  <2> HIDE DEF y
  <2>15. y \o tail \in Seq(S)
    BY <2>12, <2>14, ConcatProperties
  <2>16. X!SubstituteNth(d, o, w, i) = y \o tail
    BY <1>2 DEF X!SubstituteNth, n, y, head, tail, z, l, b
  <2> QED BY <2>15, <2>16
<1> QED BY <1>1, <1>2

IsDone(g, S, r, o, w, n) ==
  /\ g \in [Nat -> Seq(S)] /\ g[0] = r /\ X!OneByOne(r, o, w, n) = g[n]
  /\ \A k \in Nat : g[k + 1] = X!SubstituteNth(g[k], o, w, n - k)

LEMMA DoneType ==
  ASSUME NEW S, NEW r \in Seq(S), NEW o \in Seq(S), NEW w \in Seq(S), NEW n \in Nat
  PROVE  \E g : IsDone(g, S, r, o, w, n)
<1> DEFINE Runs == Seq(S)
           step == [q \in Nat \X Runs |-> X!SubstituteNth(q[2], o, w, n + 1 - q[1])]
<1>1. \A k \in Nat, d \in Runs : X!SubstituteNth(d, o, w, n + 1 - k) \in Runs
  <2> SUFFICES ASSUME NEW k \in Nat, NEW d \in Seq(S)
               PROVE  X!SubstituteNth(d, o, w, n + 1 - k) \in Seq(S)
    OBVIOUS
  <2> DEFINE i == n + 1 - k
  <2>1. i \in Int
    OBVIOUS
  <2> HIDE DEF i
  <2>2. X!SubstituteNth(d, o, w, i) \in Seq(S)
    BY <2>1, NthType
  <2> QED BY <2>2 DEF i
<1> HIDE DEF Runs
<1>2. step \in [Nat \X Runs -> Runs]
  BY <1>1
<1>3. \A k \in Nat, d \in Runs : step[<<k, d>>] = X!SubstituteNth(d, o, w, n + 1 - k)
  OBVIOUS
<1> HIDE DEF step
<1>4. r \in Runs
  BY DEF Runs
<1>5. PICK h : IsCarriedOn(h, Runs, r, step)
  BY <1>2, <1>4, CarriedOn
<1>6. h \in [Nat -> Runs]
      /\ \A k \in Nat : h[k] = IF k = 0 THEN r ELSE X!SubstituteNth(h[k - 1], o, w, n + 1 - k)
  <2>1. h \in [Nat -> Runs] /\ \A k \in Nat : h[k] = IF k = 0 THEN r ELSE step[<<k, h[k - 1]>>]
    BY <1>5 DEF IsCarriedOn
  <2>2. \A k \in Nat : k # 0 => k - 1 \in Nat /\ h[k - 1] \in Runs
    BY <2>1
  <2> QED BY <1>3, <2>1, <2>2
<1>7. IterDone(h, r, o, w, n)
  <2>1. h = [k \in Nat |-> h[k]]
    BY <1>6
  <2> QED BY <1>6, <2>1 DEF IterDone
<1> DEFINE v == CHOOSE Done : IterDone(Done, r, o, w, n)
<1>8. IterDone(v, r, o, w, n)
  BY <1>7
<1>9. X!OneByOne(r, o, w, n) = v[n]
  BY DoneUnfolds
<1> HIDE DEF v
<1>10. \A k \in Nat : v[k] = IF k = 0 THEN r ELSE X!SubstituteNth(v[k - 1], o, w, n + 1 - k)
  BY <1>8, Zenon DEF IterDone
<1>11. \A k \in Nat : /\ k + 1 \in Nat /\ k + 1 # 0 /\ (k + 1) - 1 = k /\ n + 1 - (k + 1) = n - k
  OBVIOUS
<1>12. \A k \in Nat : h[k + 1] = X!SubstituteNth(h[k], o, w, n - k)
                      /\ v[k + 1] = X!SubstituteNth(v[k], o, w, n - k)
  BY <1>6, <1>10, <1>11
<1>13. v[n] = h[n]
  <2> DEFINE T == {k \in Nat : v[k] = h[k]}
  <2>1. 0 \in T
    BY <1>6, <1>10
  <2>2. ASSUME NEW k \in Nat, k \in T PROVE k + 1 \in T
    BY <1>12, <2>2
  <2> HIDE DEF T
  <2>3. Nat \subseteq T
    BY <2>1, <2>2, Upward
  <2> QED BY <2>3 DEF T
<1>14. h[0] = r
  BY <1>6
<1> QED BY <1>6, <1>9, <1>12, <1>13, <1>14 DEF IsDone, Runs

LEMMA WholeSlice ==
  ASSUME NEW S, NEW r \in Seq(S)
  PROVE  X!Slice(r, 0, Len(r)) = r /\ X!Slice(r, 0, 0) = <<>>
<1>1. Len(r) \in Nat /\ 0 + 1 = 1
  BY LenProperties
<1>2. SubSeq(r, 1, Len(r)) = r
  BY SubSeqFull
<1>3. SubSeq(r, 1, 0) = <<>>
  <2> DEFINE m == 1
             k == 0
  <2>1. m \in Int /\ k \in Int /\ k < m
    OBVIOUS
  <2> HIDE DEF m, k
  <2>2. SubSeq(r, m, k) = <<>>
    BY <2>1, SubSeqEmpty
  <2> QED BY <2>2 DEF m, k
<1> QED BY <1>1, <1>2, <1>3 DEF X!Slice

\* All at once is one by one.
LEMMA AllIsOneByOne ==
  ASSUME NEW S, NEW r \in Seq(S), NEW o \in Seq(S), NEW w \in Seq(S), o # <<>>
  PROVE  X!SubstituteAll(r, o, w) = X!OneByOne(r, o, w, Len(r))
<1> DEFINE n == Len(r)
           all == X!SubstituteAll(r, o, w)
<1>1. PICK f, c : HasEnds(f, c, r, o)
  BY EndsCounted
<1>2. PICK out : IsPutOut(out, f, S, r, o, w) /\ all = out[c] \o X!Slice(r, f[c], n)
  <2>1. r \in Seq(S) /\ o \in Seq(S) /\ w \in Seq(S) /\ o # <<>> /\ HasEnds(f, c, r, o)
    BY <1>1
  <2>2. IsAllOf(S, r, o, w, f, c)
    BY <2>1, PutOut
  <2> QED BY <2>2 DEF IsAllOf
<1>3. n \in Nat /\ c \in Nat /\ c <= n
  BY <1>1, LenProperties DEF HasEnds
<1> HIDE DEF all
<1>4. PICK g : IsDone(g, S, r, o, w, n)
  BY <1>3, DoneType
<1>5. /\ g[0] = r /\ X!OneByOne(r, o, w, n) = g[n]
      /\ \A k \in Nat : g[k + 1] = X!SubstituteNth(g[k], o, w, n - k)
  BY <1>4 DEF IsDone
<1>6. g[n - c] = r
  <2> DEFINE T == {k \in Nat : k <= n - c => g[k] = r}
  <2>1. 0 \in T
    BY <1>5
  <2>2. ASSUME NEW k \in Nat, k \in T PROVE k + 1 \in T
    <3> SUFFICES ASSUME k + 1 <= n - c PROVE g[k + 1] = r
      OBVIOUS
    <3> DEFINE i == n - k
    <3>1. i \in Nat /\ i > c /\ k <= n - c
      BY <1>3
    <3>2. X!EndOfNth(r, o, i) = -1
      BY <1>1, <3>1 DEF HasEnds, EndsAre
    <3>3. X!SubstituteNth(r, o, w, i) = r
      BY <3>2 DEF X!SubstituteNth
    <3> QED BY <1>5, <2>2, <3>1, <3>3
  <2> HIDE DEF T
  <2>3. n - c \in T
    BY <1>3, <2>1, <2>2, Upward
  <2> QED BY <1>3, <2>3 DEF T
<1> DEFINE Reached(j) == \E x \in Seq(S) : /\ g[(n - c) + j] = X!Slice(r, 0, f[c - j]) \o x
                                           /\ out[c - j] \o x = all
<1>7. Reached(0)
  <2> DEFINE x == X!Slice(r, f[c], n)
             z == 0
             e == f[c]
  <2>1. z \in 0..n /\ e \in z..n /\ n \in e..n
    BY <1>1, <1>3 DEF HasEnds
  <2>2. X!Slice(r, z, e) \o X!Slice(r, e, n) = X!Slice(r, z, n) /\ X!Slice(r, e, n) \in Seq(S)
    <3> HIDE DEF z, e
    <3>1. z \in 0..Len(r) /\ e \in z..Len(r) /\ n \in e..Len(r) /\ e \in 0..Len(r) /\ r \in Seq(S)
      BY <1>3, <2>1
    <3> HIDE DEF n
    <3>2. X!Slice(r, z, e) \o X!Slice(r, e, n) = X!Slice(r, z, n)
      BY <3>1, SlicesJoin
    <3>3. X!Slice(r, e, n) \in Seq(S)
      BY <3>1, Slices
    <3> QED BY <3>2, <3>3
  <2>3. x \in Seq(S) /\ X!Slice(r, 0, e) \o x = r
    BY <2>2, WholeSlice
  <2>4. c - 0 = c /\ (n - c) + 0 = n - c
    BY <1>3
  <2>5. out[c] \o x = all
    BY <1>2
  <2> HIDE DEF x, n
  <2> QED BY <1>6, <2>3, <2>4, <2>5 DEF e
<1>8. ASSUME NEW j \in Nat, j < c, Reached(j) PROVE Reached(j + 1)
  <2>1. PICK x \in Seq(S) : g[(n - c) + j] = X!Slice(r, 0, f[c - j]) \o x /\ out[c - j] \o x = all
    BY <1>8
  <2> DEFINE i == c - j
             mid == X!Slice(r, f[i - 1], f[i] - Len(o))
             y == mid \o w
             head == X!Slice(r, 0, f[i - 1])
  <2>2. i \in 1..c /\ i - 1 \in Nat /\ (i - 1) + 1 = i /\ i - 1 = c - (j + 1)
        /\ (n - c) + j \in Nat /\ ((n - c) + j) + 1 = (n - c) + (j + 1) /\ n - ((n - c) + j) = i
    BY <1>3, <1>8
  <2> HIDE DEF i
  <2>3. /\ mid \in Seq(S) /\ y \o x \in Seq(S)
        /\ X!SubstituteNth(X!Slice(r, 0, f[i]) \o x, o, w, i) = head \o (y \o x)
    <3>1. /\ r \in Seq(S) /\ o \in Seq(S) /\ w \in Seq(S) /\ o # <<>> /\ HasEnds(f, c, r, o)
          /\ i \in 1..c /\ x \in Seq(S)
      BY <1>1, <2>2
    <3>2. IsOneBack(S, r, o, w, f, i, x)
      BY <3>1, OneBack
    <3> QED BY <3>2 DEF IsOneBack
  <2>4. g[(n - c) + (j + 1)] = X!SubstituteNth(g[(n - c) + j], o, w, i)
    BY <1>5, <2>2
  <2>5. g[(n - c) + (j + 1)] = head \o (y \o x)
    BY <2>1, <2>3, <2>4 DEF i
  <2>6. out[i] = (out[i - 1] \o mid) \o w /\ out[i - 1] \in Seq(S)
    BY <1>2, <2>2 DEF IsPutOut
  <2> DEFINE p == out[i - 1]
  <2>7. p \in Seq(S) /\ mid \in Seq(S)
    BY <2>3, <2>6
  <2> HIDE DEF mid, p
  <2>8. y \in Seq(S)
    BY <2>7, ConcatProperties
  <2>9. Brackets(p, mid, w)
    BY <2>7, Associates
  <2>10. ((p \o mid) \o w) = p \o y
    BY <2>9 DEF Brackets
  <2> HIDE DEF y
  <2>11. Brackets(p, y, x)
    BY <2>7, <2>8, Associates
  <2>12. out[i] \o x = p \o (y \o x)
    BY <2>6, <2>10, <2>11 DEF Brackets, p
  <2>13. p \o (y \o x) = all
    BY <2>1, <2>12 DEF i
  <2> HIDE DEF head
  <2>14. /\ y \o x \in Seq(S)
         /\ g[(n - c) + (j + 1)] = X!Slice(r, 0, f[c - (j + 1)]) \o (y \o x)
         /\ out[c - (j + 1)] \o (y \o x) = all
    BY <2>2, <2>3, <2>5, <2>13 DEF head, p
  <2> QED BY <2>14
<1>9. Reached(c)
  <2> HIDE DEF Reached
  <2> DEFINE T == {j \in Nat : j <= c => Reached(j)}
  <2>1. 0 \in T
    BY <1>7
  <2>2. ASSUME NEW j \in Nat, j \in T PROVE j + 1 \in T
    <3> SUFFICES ASSUME j + 1 <= c PROVE Reached(j + 1)
      OBVIOUS
    <3>1. j < c /\ j <= c
      BY <1>3
    <3> QED BY <1>8, <2>2, <3>1
  <2> HIDE DEF T
  <2>3. c \in T
    BY <1>3, <2>1, <2>2, Upward
  <2> QED BY <1>3, <2>3 DEF T
<1>10. PICK x \in Seq(S) : g[(n - c) + c] = X!Slice(r, 0, f[c - c]) \o x /\ out[c - c] \o x = all
  BY <1>9
<1>11. (n - c) + c = n /\ c - c = 0 /\ f[0] = 0 /\ out[0] = <<>>
  BY <1>1, <1>2, <1>3 DEF HasEnds, EndsAre, IsPutOut
<1>12. X!Slice(r, 0, 0) = <<>>
  BY WholeSlice
<1>13. <<>> \o x = x
  BY ConcatEmptySeq
<1>14. g[n] = x /\ all = x
  <2> HIDE DEF n
  <2> QED BY <1>10, <1>11, <1>12, <1>13
<1> QED BY <1>5, <1>14 DEF all

(* Cuts. *)

LEMMA LeftIs ==
  ASSUME NEW S, NEW r \in Seq(S), NEW n \in Nat
  PROVE  LET k == X!ClampPos(n, Len(r))
         IN  /\ k \in 0..Len(r)
             /\ X!FnLeft(r, n) = X!Text(X!Slice(r, 0, k)) /\ X!Slice(r, 0, k) \in Seq(S)
             /\ X!FnRight(r, n) = X!Text(X!Slice(r, Len(r) - k, Len(r)))
             /\ X!Slice(r, Len(r) - k, Len(r)) \in Seq(S)
<1> DEFINE l == Len(r)
           k == X!ClampPos(n, l)
           z == 0
           e == l - k
<1>1. l \in Nat /\ k \in 0..l /\ ~(n < 0)
  BY LenProperties DEF X!ClampPos
<1>2. X!FnLeft(r, n) = X!Text(X!Slice(r, 0, k)) /\ X!FnRight(r, n) = X!Text(X!Slice(r, l - k, l))
  BY <1>1 DEF X!FnLeft, X!FnRight, X!SideChars
<1> HIDE DEF k
<1>3. z \in 0..Len(r) /\ k \in z..Len(r) /\ e \in 0..Len(r) /\ l \in e..Len(r) /\ k \in 0..Len(r)
  BY <1>1
<1> HIDE DEF z, e, l
<1>4. X!Slice(r, z, k) \in Seq(S)
  BY <1>3, Slices
<1>5. X!Slice(r, e, l) \in Seq(S)
  BY <1>3, Slices
<1> QED BY <1>2, <1>3, <1>4, <1>5 DEF z, e, l, k

LEMMA SidesJoin ==
  ASSUME NEW S, NEW r \in Seq(S), NEW n \in 0..Len(r)
  PROVE  X!FnLeft(r, n).str \o X!FnRight(r, Len(r) - n).str = r
<1> DEFINE l == Len(r)
           z == 0
           i == l - n
<1>1. l \in Nat /\ n \in Nat /\ i \in Nat /\ l - i = n /\ X!ClampPos(n, l) = n /\ X!ClampPos(i, l) = i
  BY LenProperties DEF X!ClampPos
<1>2. z \in 0..Len(r) /\ n \in z..Len(r) /\ l \in n..Len(r)
  BY <1>1
<1>3. X!FnLeft(r, n) = X!Text(X!Slice(r, 0, n))
  BY <1>1, LeftIs
<1>4. X!FnRight(r, i) = X!Text(X!Slice(r, n, l))
  <2>1. r \in Seq(S) /\ i \in Nat
    BY <1>1
  <2> HIDE DEF i
  <2>2. X!FnRight(r, i) = X!Text(X!Slice(r, Len(r) - X!ClampPos(i, Len(r)), Len(r)))
    BY <2>1, LeftIs
  <2> QED BY <1>1, <2>2
<1>5. X!Slice(r, z, n) \o X!Slice(r, n, l) = X!Slice(r, z, l)
  <2> HIDE DEF z, l
  <2> QED BY <1>2, SlicesJoin
<1>6. X!Slice(r, 0, l) = r
  BY WholeSlice
<1>7. \A s : X!Text(s).str = s
  BY DEF X!Text
<1> QED BY <1>3, <1>4, <1>5, <1>6, <1>7

LEMMA TextInputs ==
  /\ Half \in Nat \ {0} /\ Counts \subseteq (-Half)..(Half - 1) /\ Texts \subseteq Seq(X!Runes)
  /\ Utf8 \in [X!Runes -> Seq(Octets) \ {<<>>}] /\ Lower \in [X!Runes -> X!Runes]
BY InputsAssumption DEF X!InputsAreTexts

LEMMA IntsAre == X!Ints \subseteq (-Half)..(Half - 1)
<1>1. Half \in Nat \ {0} /\ Counts \subseteq (-Half)..(Half - 1)
  BY TextInputs
<1> QED BY <1>1 DEF X!Ints

\* A sum of two positions goes round when it is beyond the integers.
LEMMA PlusIs ==
  ASSUME NEW m \in 0..(Half - 1), NEW n \in 0..(Half - 1)
  PROVE  /\ m + n < Half => X!Plus(m, n) = m + n
         /\ m + n >= Half => X!Plus(m, n) \in Int /\ X!Plus(m, n) < 0
<1> DEFINE k == m + n + Half
           b == 2 * Half
<1>0. Half \in Nat \ {0}
  BY TextInputs
<1>1. b \in Nat \ {0} /\ k \in Nat /\ m \in Nat /\ n \in Nat
  BY <1>0
<1>2. X!Plus(m, n) = (k % b) - Half
  BY DEF X!Plus
<1>3. CASE m + n < Half
  <2>1. k = 0 * b + k /\ k \in 0..(b - 1)
    BY <1>0, <1>1, <1>3
  <2> HIDE DEF k, b
  <2>2. k % b = k
    BY <1>1, <2>1, QuotientIs
  <2> QED BY <1>0, <1>1, <1>2, <1>3, <2>2 DEF k
<1>4. CASE m + n >= Half
  <2> DEFINE l == k - b
  <2>1. k = 1 * b + l /\ l \in 0..(b - 1) /\ l < Half
    BY <1>0, <1>1, <1>4
  <2> HIDE DEF k, b, l
  <2>2. k % b = l
    <3>1. 1 \in Int
      OBVIOUS
    <3> QED BY <1>1, <2>1, <3>1, QuotientIs
  <2>3. l \in Int
    BY <1>1, <2>1
  <2> QED BY <1>0, <1>1, <1>2, <1>4, <2>1, <2>2, <2>3
<1> QED BY <1>0, <1>1, <1>3, <1>4

LEMMA MidUnfolds ==
  ASSUME NEW r, NEW m, NEW n
  PROVE  LET from == X!ClampPos(m - 1, Len(r))
             to == X!ClampPos(X!Plus(from, n), Len(r))
         IN  X!FnMid(r, m, n) = IF m < 1 \/ n < 0 THEN X!ValueError
                                ELSE IF to < from THEN X!Panic ELSE X!Text(X!Slice(r, from, to))
BY Zenon DEF X!FnMid, X!Cut

LEMMA ReplaceUnfolds ==
  ASSUME NEW r, NEW m, NEW n, NEW w
  PROVE  LET from == X!ClampPos(m - 1, Len(r))
             to == X!ClampPos(X!Plus(from, n), Len(r))
         IN  X!FnReplace(r, m, n, w) =
               IF m < 1 \/ n < 0 THEN X!ValueError
               ELSE IF to < from THEN X!Panic
               ELSE X!Text((X!Slice(r, 0, from) \o w) \o X!Slice(r, to, Len(r)))
BY Zenon DEF X!FnReplace, X!Cut

\* Which runes a cut takes out.
CutBounds(r, m, n, from, to) ==
  /\ from = X!ClampPos(m - 1, Len(r)) /\ from \in 0..Len(r)
  /\ to = X!ClampPos(from + n, Len(r)) /\ to \in from..Len(r)

LEMMA CutsAre ==
  ASSUME NEW S, NEW r \in Seq(S), NEW m \in 1..(Half - 1), NEW n \in 0..(Half - 1), NEW w
  PROVE  LET from == X!ClampPos(m - 1, Len(r))
             to == X!ClampPos(from + n, Len(r))
         IN  /\ from + n >= Half => /\ X!FnMid(r, m, n) = X!Panic
                                    /\ X!FnReplace(r, m, n, w) = X!Panic
             /\ from + n < Half =>
                  /\ CutBounds(r, m, n, from, to)
                  /\ X!FnMid(r, m, n) = X!Text(X!Slice(r, from, to))
                  /\ X!FnReplace(r, m, n, w) =
                       X!Text((X!Slice(r, 0, from) \o w) \o X!Slice(r, to, Len(r)))
<1> DEFINE from == X!ClampPos(m - 1, Len(r))
           p == X!Plus(from, n)
           to == X!ClampPos(p, Len(r))
<1>0. Half \in Nat \ {0} /\ Len(r) \in Nat
  BY TextInputs, LenProperties
<1>1. from \in 0..Len(r) /\ from \in 0..(Half - 1) /\ ~(m < 1 \/ n < 0)
  BY <1>0 DEF X!ClampPos
<1> HIDE DEF from
<1>2. /\ from + n < Half => p = from + n
      /\ from + n >= Half => p \in Int /\ p < 0
  BY <1>1, PlusIs
<1>3. /\ X!FnMid(r, m, n) = IF to < from THEN X!Panic ELSE X!Text(X!Slice(r, from, to))
      /\ X!FnReplace(r, m, n, w) =
           IF to < from THEN X!Panic ELSE X!Text((X!Slice(r, 0, from) \o w) \o X!Slice(r, to, Len(r)))
  <2>1. X!FnMid(r, m, n) = IF m < 1 \/ n < 0 THEN X!ValueError
                           ELSE IF to < from THEN X!Panic ELSE X!Text(X!Slice(r, from, to))
    BY MidUnfolds, Zenon DEF from
  <2>2. X!FnReplace(r, m, n, w) =
          IF m < 1 \/ n < 0 THEN X!ValueError
          ELSE IF to < from THEN X!Panic
          ELSE X!Text((X!Slice(r, 0, from) \o w) \o X!Slice(r, to, Len(r)))
    BY ReplaceUnfolds, Zenon DEF from
  <2> HIDE DEF to
  <2> QED BY <1>1, <2>1, <2>2
<1> HIDE DEF p
<1>4. CASE from + n >= Half
  <2>1. to < from
    BY <1>0, <1>1, <1>2, <1>4 DEF X!ClampPos
  <2>2. ~(from + n < Half)
    BY <1>0, <1>1, <1>4
  <2> QED BY <1>3, <2>1, <2>2 DEF from
<1>5. CASE from + n < Half
  <2>1. to \in from..Len(r) /\ ~(to < from) /\ to = X!ClampPos(from + n, Len(r))
    BY <1>0, <1>1, <1>2, <1>5 DEF X!ClampPos
  <2>2. ~(from + n >= Half)
    BY <1>0, <1>1, <1>5
  <2>3. CutBounds(r, m, n, from, to)
    BY <1>1, <2>1 DEF CutBounds, from
  <2>4. /\ X!FnMid(r, m, n) = X!Text(X!Slice(r, from, to))
        /\ X!FnReplace(r, m, n, w) = X!Text((X!Slice(r, 0, from) \o w) \o X!Slice(r, to, Len(r)))
    BY <1>3, <2>1
  <2> HIDE DEF to
  <2> QED BY <2>1, <2>2, <2>3, <2>4 DEF from
<1>6. from + n \in Int
  BY <1>0, <1>1
<1> QED BY <1>0, <1>4, <1>5, <1>6

(* What a call makes of a text is a text. *)

IsTextOrNone(S, v) == v.kind = "string" => v.str \in Seq(S)

LEMMA TextKinds ==
  /\ \A S, s : s \in Seq(S) => IsTextOrNone(S, X!Text(s))
  /\ \A S : IsTextOrNone(S, X!ValueError) /\ IsTextOrNone(S, X!Panic)
BY DEF IsTextOrNone, X!Text, X!ValueError, X!Panic

LEMMA SidesType ==
  ASSUME NEW S, NEW r \in Seq(S), NEW n \in Int
  PROVE  IsTextOrNone(S, X!FnLeft(r, n)) /\ IsTextOrNone(S, X!FnRight(r, n))
<1>1. CASE n < 0
  BY <1>1, TextKinds DEF X!FnLeft, X!FnRight, X!SideChars
<1>2. CASE ~(n < 0)
  <2>1. n \in Nat
    BY <1>2
  <2> DEFINE k == X!ClampPos(n, Len(r))
  <2>2. /\ X!FnLeft(r, n) = X!Text(X!Slice(r, 0, k)) /\ X!Slice(r, 0, k) \in Seq(S)
        /\ X!FnRight(r, n) = X!Text(X!Slice(r, Len(r) - k, Len(r)))
        /\ X!Slice(r, Len(r) - k, Len(r)) \in Seq(S)
    BY <2>1, LeftIs
  <2> QED BY <2>2, TextKinds
<1> QED BY <1>1, <1>2

LEMMA CutType ==
  ASSUME NEW S, NEW r \in Seq(S), NEW w \in Seq(S), NEW m \in Int, NEW n \in Int
  PROVE  IsTextOrNone(S, X!FnMid(r, m, n)) /\ IsTextOrNone(S, X!FnReplace(r, m, n, w))
<1> DEFINE l == Len(r)
           from == X!ClampPos(m - 1, l)
           p == X!Plus(from, n)
           to == X!ClampPos(p, l)
<1>1. /\ X!FnMid(r, m, n) = IF m < 1 \/ n < 0 THEN X!ValueError
                            ELSE IF to < from THEN X!Panic ELSE X!Text(X!Slice(r, from, to))
      /\ X!FnReplace(r, m, n, w) =
           IF m < 1 \/ n < 0 THEN X!ValueError
           ELSE IF to < from THEN X!Panic
           ELSE X!Text((X!Slice(r, 0, from) \o w) \o X!Slice(r, to, l))
  BY MidUnfolds, ReplaceUnfolds, Zenon
<1>2. l \in Nat /\ Half \in Nat \ {0}
  BY TextInputs, LenProperties
<1>3. m >= 1 => from \in 0..l
  BY <1>2 DEF X!ClampPos
<1>4. from \in Int
  BY <1>2 DEF X!ClampPos
<1> HIDE DEF from
<1>5. p \in Int
  <2> DEFINE k == from + n + Half
             b == 2 * Half
  <2>1. k \in Int /\ b \in Nat \ {0}
    BY <1>2, <1>4
  <2>2. p = (k % b) - Half
    BY DEF X!Plus
  <2> HIDE DEF k, b
  <2>3. k % b \in 0..(b - 1)
    BY <2>1
  <2> QED BY <1>2, <2>1, <2>2, <2>3
<1> HIDE DEF p
<1>6. to \in Int /\ to <= l
  BY <1>2, <1>5 DEF X!ClampPos
<1> HIDE DEF to
<1>7. CASE m < 1 \/ n < 0 \/ to < from
  BY <1>1, <1>7, TextKinds
<1>8. CASE ~(m < 1 \/ n < 0 \/ to < from)
  <2> DEFINE z == 0
  <2>1. /\ from \in 0..l /\ to \in from..l /\ to \in 0..l /\ z \in 0..l /\ from \in z..l
        /\ l \in to..l
    BY <1>2, <1>3, <1>4, <1>6, <1>8
  <2> HIDE DEF z
  <2>2. X!Slice(r, from, to) \in Seq(S)
    BY <2>1, Slices
  <2>3. X!Slice(r, z, from) \in Seq(S)
    BY <2>1, Slices
  <2>4. X!Slice(r, to, l) \in Seq(S)
    <3>1. to \in 0..Len(r) /\ l \in to..Len(r)
      BY <2>1
    <3> HIDE DEF l
    <3> QED BY <3>1, Slices
  <2> DEFINE head == X!Slice(r, z, from)
             tail == X!Slice(r, to, l)
             y == head \o w
  <2>5. head \in Seq(S) /\ tail \in Seq(S)
    BY <2>3, <2>4
  <2> HIDE DEF head, tail
  <2>6. y \in Seq(S)
    BY <2>5, ConcatProperties
  <2> HIDE DEF y
  <2>7. y \o tail \in Seq(S)
    BY <2>5, <2>6, ConcatProperties
  <2>8. X!FnMid(r, m, n) = X!Text(X!Slice(r, from, to)) /\ X!FnReplace(r, m, n, w) = X!Text(y \o tail)
    BY <1>1, <1>8 DEF y, head, tail, z
  <2> QED BY <2>2, <2>7, <2>8, TextKinds
<1> QED BY <1>7, <1>8

LEMMA SameRun ==
  ASSUME NEW s
  PROVE  X!FlattenSeq(s) = F!FlattenSeq(s)
BY Zenon DEF X!FlattenSeq, F!FlattenSeq

LEMMA FlatTyped ==
  ASSUME NEW S, NEW s \in Seq(Seq(S))
  PROVE  X!FlattenSeq(s) \in Seq(S)
<1>1. CASE s = <<>>
  <2>1. Len(s) = 0 /\ s \in Seq(S)
    BY <1>1, EmptySeq
  <2> QED BY <2>1 DEF X!FlattenSeq
<1>2. CASE s # <<>>
  <2>1. PICK f : IsRun(f, s) /\ F!FlattenSeq(s) = f[Len(s)]
    BY <1>2, FlattenIs
  <2>2. RunFacts(S, f, s)
    BY <1>2, <2>1, RunType
  <2>3. Len(s) \in 1..Len(s) /\ \A i \in 1..Len(s) : f[i] \in Seq(S)
    BY <2>2 DEF RunFacts
  <2>4. f[Len(s)] \in Seq(S)
    BY <2>3
  <2> QED BY <2>1, <2>4, SameRun
<1> QED BY <1>1, <1>2

LEMMA AllType ==
  ASSUME NEW S, NEW r \in Seq(S), NEW o \in Seq(S), NEW w \in Seq(S)
  PROVE  X!SubstituteAll(r, o, w) \in Seq(S)
<1>1. CASE o = <<>>
  <2> DEFINE s == [i \in DOMAIN r |-> <<r[i]>> \o w]
             flat == X!FlattenSeq(s)
  <2>1. Len(r) \in Nat /\ DOMAIN r = 1..Len(r) /\ \A i \in 1..Len(r) : r[i] \in S
    BY LenProperties, ElementOfSeq
  <2>2. \A i \in 1..Len(r) : <<r[i]>> \o w \in Seq(S)
    <3> TAKE i \in 1..Len(r)
    <3> DEFINE u == <<r[i]>>
    <3>1. u \in Seq(S)
      BY <2>1
    <3> HIDE DEF u
    <3>2. u \o w \in Seq(S)
      BY <3>1, ConcatProperties
    <3> QED BY <3>2 DEF u
  <2>3. s \in Seq(Seq(S))
    BY <2>1, <2>2, IsASeq
  <2> HIDE DEF s
  <2>4. flat \in Seq(S)
    BY <2>3, FlatTyped
  <2>5. X!SubstituteAll(r, o, w) = w \o flat
    BY <1>1, AllUnfolds DEF s
  <2> HIDE DEF flat
  <2> QED BY <2>4, <2>5, ConcatProperties
<1>2. CASE o # <<>>
  <2>1. PICK f, c : HasEnds(f, c, r, o)
    BY <1>2, EndsCounted
  <2>2. IsAllOf(S, r, o, w, f, c)
    BY <1>2, <2>1, PutOut
  <2>3. PICK out : IsPutOut(out, f, S, r, o, w)
                   /\ X!SubstituteAll(r, o, w) = out[c] \o X!Slice(r, f[c], Len(r))
    BY <2>2 DEF IsAllOf
  <2> DEFINE l == Len(r)
             e == f[c]
             tail == X!Slice(r, e, l)
             head == out[c]
  <2>4. l \in Nat /\ c \in Nat
    BY <2>1, LenProperties DEF HasEnds
  <2>5. e \in 0..Len(r) /\ l \in e..Len(r) /\ head \in Seq(S)
    <3>1. c \in 0..c
      BY <2>4
    <3>2. e \in 0..Len(r)
      BY <2>1, <3>1 DEF HasEnds
    <3> QED BY <2>3, <2>4, <3>2 DEF IsPutOut
  <2> HIDE DEF e, l
  <2>6. tail \in Seq(S)
    BY <2>5, Slices
  <2> HIDE DEF head, tail
  <2>7. head \o tail \in Seq(S)
    BY <2>5, <2>6, ConcatProperties
  <2> QED BY <2>3, <2>7 DEF head, tail, e, l
<1> QED BY <1>1, <1>2

TextInv == owner = "texts" => text \in Seq(X!Runes)

LEMMA TextInvariance == Spec => []TextInv
<1>0. Texts \subseteq Seq(X!Runes) /\ X!Ints \subseteq Int
  <2>1. Texts \subseteq Seq(X!Runes) /\ Half \in Nat
    BY TextInputs
  <2> QED BY <2>1, IntsAre
<1>1. Init => TextInv
  BY <1>0 DEF Init, X!Init, TextInv
<1>2. TextInv /\ [Next]_vars => TextInv'
  <2> SUFFICES ASSUME TextInv, [Next]_vars, owner' = "texts" PROVE text' \in Seq(X!Runes)
    BY DEF TextInv
  <2>1. CASE UNCHANGED vars
    BY <2>1 DEF vars, TextInv
  <2>2. CASE Next
    <3>1. owner = "texts" /\ X!Next
      BY <2>2 DEF Next, ArrayStep, LimitStep, ImportStep, ColumnStep, CallStep, DateStep, AddressStep, TextStep
    <3>2. text \in Seq(X!Runes)
      BY <3>1 DEF TextInv
    <3>3. ASSUME NEW v, X!Becomes(v), IsTextOrNone(X!Runes, v) PROVE text' \in Seq(X!Runes)
      BY <3>2, <3>3 DEF X!Becomes, IsTextOrNone
    <3>4. ASSUME X!TakeCut PROVE text' \in Seq(X!Runes)
      <4>1. PICK m \in X!Ints, n \in X!Ints :
              X!Becomes(X!FnLeft(text, n)) \/ X!Becomes(X!FnRight(text, n)) \/ X!Becomes(X!FnMid(text, m, n))
        BY <3>4 DEF X!TakeCut
      <4>2. m \in Int /\ n \in Int
        BY <1>0
      <4>3. IsTextOrNone(X!Runes, X!FnLeft(text, n)) /\ IsTextOrNone(X!Runes, X!FnRight(text, n))
        BY <3>2, <4>2, SidesType
      <4>4. IsTextOrNone(X!Runes, X!FnMid(text, m, n))
        BY <3>2, <4>2, CutType
      <4> QED BY <3>3, <4>1, <4>3, <4>4
    <3>5. ASSUME X!Replace PROVE text' \in Seq(X!Runes)
      <4>1. PICK m \in X!Ints, n \in X!Ints, new \in Texts : X!Becomes(X!FnReplace(text, m, n, new))
        BY <3>5 DEF X!Replace
      <4>2. m \in Int /\ n \in Int /\ new \in Seq(X!Runes)
        BY <1>0
      <4>3. IsTextOrNone(X!Runes, X!FnReplace(text, m, n, new))
        BY <3>2, <4>2, CutType
      <4> QED BY <3>3, <4>1, <4>3
    <3>6. ASSUME X!Substitute PROVE text' \in Seq(X!Runes)
      <4>1. PICK old \in Texts, new \in Texts :
              \/ X!Becomes(X!Text(X!SubstituteAll(text, old, new)))
              \/ \E n \in X!Ints : X!Becomes(X!Text(X!SubstituteNth(text, old, new, n)))
        BY <3>6 DEF X!Substitute
      <4>2. old \in Seq(X!Runes) /\ new \in Seq(X!Runes)
        BY <1>0
      <4>3. IsTextOrNone(X!Runes, X!Text(X!SubstituteAll(text, old, new)))
        BY <3>2, <4>2, AllType, TextKinds
      <4>4. ASSUME NEW n \in X!Ints
            PROVE  IsTextOrNone(X!Runes, X!Text(X!SubstituteNth(text, old, new, n)))
        <5>1. n \in Int
          BY <1>0
        <5>2. X!SubstituteNth(text, old, new, n) \in Seq(X!Runes)
          BY <3>2, <4>2, <5>1, NthType
        <5> QED BY <5>2, TextKinds
      <4> QED BY <3>3, <4>1, <4>3, <4>4
    <3> QED BY <3>1, <3>4, <3>5, <3>6 DEF X!Next
  <2> QED BY <2>1, <2>2
<1> QED BY <1>1, <1>2, PTL DEF Spec

\* REPLACE is what stands before, the new runes and what stands after.
LEMMA ReplaceJoins ==
  ASSUME NEW S, NEW r \in Seq(S), NEW m \in 1..(Half - 1), NEW n \in 0..(Half - 1), NEW w \in Seq(S)
  PROVE  LET whole == Len(r)
             k == IF m - 1 + n < whole THEN whole - (m - 1 + n) ELSE 0
         IN  X!FnReplace(r, m, n, w) =
               IF X!ClampPos(m - 1, whole) + n >= Half THEN X!Panic
               ELSE X!Text((X!FnLeft(r, m - 1).str \o w) \o X!FnRight(r, k).str)
<1> DEFINE whole == Len(r)
           k == IF m - 1 + n < whole THEN whole - (m - 1 + n) ELSE 0
           from == X!ClampPos(m - 1, whole)
           to == X!ClampPos(from + n, whole)
           p == m - 1
<1>0. whole \in Nat /\ Half \in Nat \ {0} /\ p \in Nat /\ k \in Nat /\ n \in Nat
  BY TextInputs, LenProperties
<1>1. from \in 0..whole
  BY <1>0 DEF X!ClampPos
<1>2. whole - X!ClampPos(k, whole) = to
  <2> HIDE DEF whole
  <2>1. \A i \in Int : X!ClampPos(i, whole) = IF i > whole THEN whole ELSE i
    BY DEF X!ClampPos
  <2>2. X!ClampPos(k, whole) = k
    BY <1>0, <2>1
  <2>3. from = (IF p > whole THEN whole ELSE p) /\ from + n \in Int
    BY <1>0, <2>1
  <2>4. to = IF from + n > whole THEN whole ELSE from + n
    BY <2>1, <2>3
  <2> HIDE DEF from, to
  <2>5. CASE m - 1 + n < whole
    <3>1. k = whole - (m - 1 + n) /\ from = m - 1
      BY <1>0, <2>3, <2>5
    <3> QED BY <1>0, <2>2, <2>4, <2>5, <3>1
  <2>6. CASE ~(m - 1 + n < whole)
    <3>1. k = 0 /\ to = whole
      BY <1>0, <2>3, <2>4, <2>6
    <3> QED BY <1>0, <2>2, <3>1
  <2> QED BY <2>5, <2>6
<1> HIDE DEF k, p
<1>3. X!FnLeft(r, p) = X!Text(X!Slice(r, 0, X!ClampPos(p, whole)))
  BY <1>0, LeftIs
<1>4. X!FnRight(r, k) = X!Text(X!Slice(r, to, whole))
  <2>1. X!FnRight(r, k) = X!Text(X!Slice(r, Len(r) - X!ClampPos(k, Len(r)), Len(r)))
    BY <1>0, LeftIs
  <2> QED BY <1>2, <2>1
<1>5. /\ from + n >= Half => X!FnReplace(r, m, n, w) = X!Panic
      /\ from + n < Half => X!FnReplace(r, m, n, w) =
                              X!Text((X!Slice(r, 0, from) \o w) \o X!Slice(r, to, whole))
  BY CutsAre
<1>6. \A s : X!Text(s).str = s
  BY DEF X!Text
<1>7. X!FnLeft(r, p).str = X!Slice(r, 0, from) /\ X!FnRight(r, k).str = X!Slice(r, to, whole)
  BY <1>3, <1>4, <1>6 DEF p
<1>8. from + n >= Half \/ from + n < Half
  BY <1>0, <1>1
<1> HIDE DEF from, to, whole
<1>9. X!FnReplace(r, m, n, w) =
        IF from + n >= Half THEN X!Panic ELSE X!Text((X!FnLeft(r, p).str \o w) \o X!FnRight(r, k).str)
  BY <1>5, <1>7, <1>8
<1> QED BY <1>9 DEF from, whole, p, k

\* LEFT and RIGHT, MID and REPLACE, and SUBSTITUTE take apart and put together the text
\* there is, whatever its length (fnMid, fnReplace, substituteNth).
THEOREM PartsJoin == Spec => []CutsRejoin
<1>1. TextInv => CutsRejoin
  <2> SUFFICES ASSUME text \in Seq(X!Runes) PROVE X!CutsRejoin
    BY DEF TextInv, CutsRejoin
  <2> DEFINE whole == Len(text)
  <2>0. Texts \subseteq Seq(X!Runes) /\ Half \in Nat \ {0}
    BY TextInputs
  <2>1. \A n \in 0..whole : X!FnLeft(text, n).str \o X!FnRight(text, whole - n).str = text
    BY SidesJoin
  <2>2. ASSUME NEW m \in X!Ints \cap Nat, NEW n \in X!Ints \cap Nat, NEW new \in Texts, m >= 1
        PROVE  LET k == IF m - 1 + n < whole THEN whole - (m - 1 + n) ELSE 0
               IN  X!FnReplace(text, m, n, new) =
                     IF X!ClampPos(m - 1, whole) + n >= Half THEN X!Panic
                     ELSE X!Text((X!FnLeft(text, m - 1).str \o new) \o X!FnRight(text, k).str)
    <3>1. m \in 1..(Half - 1) /\ n \in 0..(Half - 1) /\ new \in Seq(X!Runes) /\ text \in Seq(X!Runes)
      BY <2>0, <2>2, IntsAre
    <3> QED BY <3>1, ReplaceJoins
  <2>3. ASSUME NEW old \in Texts \ {<<>>}, NEW new \in Texts
        PROVE  X!SubstituteAll(text, old, new) = X!OneByOne(text, old, new, whole)
    <3>1. old \in Seq(X!Runes) /\ new \in Seq(X!Runes) /\ old # <<>>
      BY <2>0
    <3> QED BY <3>1, AllIsOneByOne
  <2> QED BY <2>1, <2>2, <2>3 DEF X!CutsRejoin
<1> QED BY <1>1, TextInvariance, PTL

(* The bytes of a text. *)

LEMMA CodeIs ==
  /\ \A r \in X!Runes : Utf8[r] \in Seq(Octets) /\ Len(Utf8[r]) \in Nat \ {0}
  /\ \A r, q \in X!Runes : /\ Utf8[r] = Utf8[q] => r = q
                           /\ Utf8[r][1] = Utf8[q][1] => Len(Utf8[r]) = Len(Utf8[q])
                           /\ \A i \in 2..Len(Utf8[q]) : Utf8[q][i] # Utf8[r][1]
<1>1. \A r \in X!Runes : Utf8[r] \in Seq(Octets) /\ Utf8[r] # <<>>
  BY TextInputs
<1>2. \A r \in X!Runes : Len(Utf8[r]) \in Nat \ {0}
  BY <1>1, EmptySeq
<1> QED BY <1>1, <1>2, EncodingAssumption DEF X!Utf8IsACode

Encoded(s) == [i \in DOMAIN s |-> Utf8[s[i]]]

LEMMA BytesAre ==
  ASSUME NEW s
  PROVE  X!Bytes(s) = F!FlattenSeq(Encoded(s))
<1>1. X!Bytes(s) = X!FlattenSeq(Encoded(s))
  BY Zenon DEF X!Bytes, Encoded
<1> QED BY <1>1, SameRun

LEMMA EncodedIs ==
  ASSUME NEW s \in Seq(X!Runes)
  PROVE  /\ Encoded(s) \in Seq(Seq(Octets)) /\ Len(Encoded(s)) = Len(s) /\ Len(s) \in Nat
         /\ \A i \in 1..Len(s) : s[i] \in X!Runes /\ Encoded(s)[i] = Utf8[s[i]]
<1> DEFINE n == Len(s)
           Runs == Seq(Octets)
           e == [i \in 1..n |-> Utf8[s[i]]]
<1>1. n \in Nat /\ DOMAIN s = 1..n /\ \A i \in 1..n : s[i] \in X!Runes
  BY LenProperties, ElementOfSeq
<1>2. \A i \in 1..n : Utf8[s[i]] \in Runs
  BY <1>1, CodeIs
<1>3. Encoded(s) = e
  BY <1>1 DEF Encoded
<1> HIDE DEF n, Runs
<1>4. e \in Seq(Runs)
  BY <1>1, <1>2, IsASeq
<1>5. DOMAIN e = 1..n
  OBVIOUS
<1>6. \A i \in 1..n : e[i] = Utf8[s[i]]
  OBVIOUS
<1> HIDE DEF e
<1>7. Len(e) = n
  BY <1>1, <1>4, <1>5, LenProperties
<1> QED BY <1>1, <1>3, <1>4, <1>6, <1>7 DEF n, Runs

\* The bytes of the first runes, of the first i for every i.
IsSpelt(f, s) ==
  /\ \A i \in 1..Len(s) : f[i] \in Seq(Octets) /\ s[i] \in X!Runes
  /\ f[1] = Utf8[s[1]] /\ X!Bytes(s) = f[Len(s)] /\ Len(s) \in Nat \ {0}
  /\ \A i \in 1..Len(s) : i # 1 => f[i] = f[i - 1] \o Utf8[s[i]]

LEMMA Spelt ==
  ASSUME NEW s \in Seq(X!Runes), s # <<>>
  PROVE  \E f : IsSpelt(f, s)
<1> DEFINE e == Encoded(s)
           n == Len(s)
<1>1. /\ e \in Seq(Seq(Octets)) /\ Len(e) = n /\ n \in Nat /\ n # 0
      /\ \A i \in 1..n : s[i] \in X!Runes /\ e[i] = Utf8[s[i]]
  BY EncodedIs, EmptySeq
<1> HIDE DEF e
<1>2. e # <<>>
  BY <1>1, EmptySeq
<1>3. PICK f : IsRun(f, e) /\ F!FlattenSeq(e) = f[Len(e)]
  BY <1>1, <1>2, FlattenIs
<1>4. RunFacts(Octets, f, e)
  BY <1>1, <1>2, <1>3, RunType
<1>5. X!Bytes(s) = f[n]
  BY <1>1, <1>3, BytesAre DEF e
<1>6. 1 \in 1..n
  BY <1>1
<1>7. IsSpelt(f, s)
  BY <1>1, <1>4, <1>5, <1>6 DEF RunFacts, IsSpelt
<1> QED BY <1>7

LEMMA NoBytes == X!Bytes(<<>>) = <<>> /\ Len(X!Bytes(<<>>)) = 0
<1> DEFINE e == Encoded(<<>>)
<1>1. <<>> \in Seq(X!Runes) /\ Len(<<>>) = 0
  BY EmptySeq
<1>2. e \in Seq(Seq(Octets)) /\ Len(e) = 0
  BY <1>1, EncodedIs
<1> HIDE DEF e
<1>3. F!FlattenSeq(e) = e
  BY <1>2 DEF F!FlattenSeq
<1>4. e = <<>>
  BY <1>2, EmptySeq
<1> QED BY <1>1, <1>3, <1>4, BytesAre DEF e

\* The bytes of the first runes are the first of the bytes.
LEMMA SpeltPrefix ==
  ASSUME NEW s \in Seq(X!Runes), s # <<>>, NEW f, IsSpelt(f, s), NEW i \in 1..Len(s)
  PROVE  X!Bytes(SubSeq(s, 1, i)) = f[i]
<1> DEFINE q == SubSeq(s, 1, i)
           n == Len(s)
<1>1. /\ \A k \in 1..n : f[k] \in Seq(Octets) /\ s[k] \in X!Runes
      /\ f[1] = Utf8[s[1]] /\ n \in Nat \ {0}
      /\ \A k \in 1..n : k # 1 => f[k] = f[k - 1] \o Utf8[s[k]]
  BY DEF IsSpelt
<1>2. q \in Seq(X!Runes) /\ Len(q) = i /\ \A k \in 1..i : q[k] = s[k]
  <2> DEFINE m == 1
  <2>1. m \in Int /\ i \in Int /\ 1 <= m /\ i <= Len(s) /\ m <= i /\ i - m + 1 = i
        /\ \A k \in 1..i : m + k - 1 = k
    BY <1>1
  <2> HIDE DEF m
  <2>2. CutFacts(X!Runes, s, m, i)
    BY <2>1, Cuts
  <2>3. SubSeq(s, m, i) \in Seq(X!Runes) /\ Len(SubSeq(s, m, i)) = i
        /\ \A k \in 1..i : SubSeq(s, m, i)[k] = s[k]
    BY <2>1, <2>2 DEF CutFacts
  <2> QED BY <2>3 DEF m
<1> HIDE DEF q, n
<1>3. i \in Nat \ {0} /\ i <= n
  BY <1>1 DEF n
<1>4. q # <<>>
  BY <1>2, <1>3, EmptySeq
<1>5. PICK h : IsSpelt(h, q)
  BY <1>2, <1>4, Spelt
<1>6. h[1] = Utf8[q[1]] /\ X!Bytes(q) = h[i]
      /\ \A k \in 1..i : k # 1 => h[k] = h[k - 1] \o Utf8[q[k]]
  BY <1>2, <1>5 DEF IsSpelt
<1> DEFINE T == {k \in Nat : k \in 1..i => h[k] = f[k]}
<1>7. 0 \in T
  BY <1>3
<1>8. ASSUME NEW k \in Nat, k \in T PROVE k + 1 \in T
  <2> SUFFICES ASSUME k + 1 \in 1..i PROVE h[k + 1] = f[k + 1]
    OBVIOUS
  <2>1. q[k + 1] = s[k + 1] /\ k + 1 \in 1..n
    <3>1. n \in Nat
      BY <1>1
    <3>2. k + 1 \in 1..n
      BY <1>3, <3>1
    <3>3. q[k + 1] = s[k + 1]
      BY <1>2
    <3> QED BY <3>2, <3>3
  <2>2. CASE k = 0
    BY <1>1, <1>6, <2>1, <2>2
  <2>3. CASE k # 0
    <3>1. k \in 1..i /\ k + 1 # 1 /\ (k + 1) - 1 = k
      BY <1>3, <2>3
    <3>2. h[k + 1] = h[k] \o Utf8[q[k + 1]] /\ f[k + 1] = f[k] \o Utf8[s[k + 1]]
      BY <1>1, <1>6, <2>1, <3>1
    <3>3. h[k] = f[k]
      BY <1>8, <3>1
    <3> QED BY <2>1, <3>2, <3>3
  <2> QED BY <2>2, <2>3
<1> HIDE DEF T
<1>9. i \in T
  BY <1>3, <1>7, <1>8, Upward
<1> QED BY <1>3, <1>6, <1>9 DEF T, q

\* Where the bytes of each rune lie.
IsLaid(b, off, s) ==
  /\ b \in Seq(Octets) /\ Len(s) \in Nat /\ \A i \in 1..Len(s) : s[i] \in X!Runes
  /\ \A i \in 1..(Len(s) + 1) : off[i] \in Nat
  /\ off[1] = 0 /\ Len(b) = off[Len(s) + 1]
  /\ \A i \in 1..Len(s) : off[i + 1] = off[i] + Len(Utf8[s[i]])
  /\ \A i \in 1..Len(s) : \A j \in 1..Len(Utf8[s[i]]) : b[off[i] + j] = Utf8[s[i]][j]

IsCounted(off, s) == \A i \in 1..Len(s) : off[i] = Len(X!Bytes(SubSeq(s, 1, i - 1)))

LEMMA Laid ==
  ASSUME NEW s \in Seq(X!Runes)
  PROVE  \E off : IsLaid(X!Bytes(s), off, s) /\ IsCounted(off, s)
<1> DEFINE n == Len(s)
<1>1. n \in Nat /\ \A i \in 1..n : s[i] \in X!Runes
  BY LenProperties, ElementOfSeq
<1>2. CASE s = <<>>
  <2> DEFINE off == [i \in 1..1 |-> 0]
  <2>1. Len(s) = 0
    BY <1>2, EmptySeq
  <2>2. Len(X!Bytes(s)) = 0 /\ X!Bytes(s) \in Seq(Octets)
    BY <1>2, NoBytes, EmptySeq
  <2>3. off[1] = 0 /\ \A i \in 1..1 : off[i] \in Nat
    OBVIOUS
  <2> HIDE DEF off
  <2>4. 1..0 = {} /\ 0 + 1 = 1
    OBVIOUS
  <2>5. IsLaid(X!Bytes(s), off, s)
    BY <2>1, <2>2, <2>3, <2>4 DEF IsLaid
  <2>6. IsCounted(off, s)
    BY <2>1, <2>4 DEF IsCounted
  <2> QED BY <2>5, <2>6
<1>3. CASE s # <<>>
  <2>1. PICK f : IsSpelt(f, s)
    BY <1>3, Spelt
  <2>2. /\ \A i \in 1..n : f[i] \in Seq(Octets)
        /\ f[1] = Utf8[s[1]] /\ X!Bytes(s) = f[n] /\ n \in Nat \ {0}
        /\ \A i \in 1..n : i # 1 => f[i] = f[i - 1] \o Utf8[s[i]]
    BY <2>1 DEF IsSpelt
  <2> DEFINE off == [i \in 1..(n + 1) |-> IF i = 1 THEN 0 ELSE Len(f[i - 1])]
             b == X!Bytes(s)
  <2>3. \A i \in 1..n : off[i + 1] = Len(f[i]) /\ Len(f[i]) \in Nat
    <3> TAKE i \in 1..n
    <3>1. i + 1 \in 1..(n + 1) /\ i + 1 # 1 /\ (i + 1) - 1 = i
      BY <1>1
    <3>2. f[i] \in Seq(Octets)
      BY <2>2
    <3> QED BY <3>1, <3>2, LenProperties
  <2>4. off[1] = 0 /\ \A i \in 1..n : i # 1 => i - 1 \in 1..n /\ off[i] = Len(f[i - 1])
    BY <1>1
  <2>5. \A i \in 1..(n + 1) : off[i] \in Nat
    <3> TAKE i \in 1..(n + 1)
    <3>1. CASE i = 1
      BY <2>4, <3>1
    <3>2. CASE i # 1
      <4>1. i - 1 \in 1..n /\ (i - 1) + 1 = i
        BY <1>1, <3>2
      <4> QED BY <2>3, <4>1
    <3> QED BY <3>1, <3>2
  <2> HIDE DEF off, b, n
  <2>6. ASSUME NEW i \in 1..n
        PROVE  /\ off[i + 1] = off[i] + Len(Utf8[s[i]])
               /\ \A j \in 1..Len(Utf8[s[i]]) : f[i][off[i] + j] = Utf8[s[i]][j]
    <3> DEFINE u == Utf8[s[i]]
    <3>1. u \in Seq(Octets) /\ Len(u) \in Nat
      BY <1>1, CodeIs
    <3> HIDE DEF u
    <3>2. CASE i = 1
      <4>1. f[i] = u /\ off[i] = 0 /\ off[i + 1] = Len(u)
        BY <2>2, <2>3, <2>4, <3>2 DEF u
      <4>2. \A j \in 1..Len(u) : 0 + j = j
        BY <3>1
      <4> QED BY <3>1, <4>1, <4>2 DEF u
    <3>3. CASE i # 1
      <4> DEFINE g == f[i - 1]
      <4>1. g \in Seq(Octets) /\ off[i] = Len(g) /\ f[i] = g \o u
        BY <2>2, <2>4, <3>3 DEF u
      <4> HIDE DEF g
      <4>2. JoinFacts(Octets, g, u)
        BY <3>1, <4>1, Joins
      <4>3. off[i + 1] = Len(g) + Len(u) /\ \A j \in 1..Len(u) : f[i][Len(g) + j] = u[j]
        BY <2>3, <4>1, <4>2 DEF JoinFacts
      <4> QED BY <4>1, <4>3 DEF u
    <3> QED BY <3>2, <3>3
  <2>7. ASSUME NEW i \in 1..n PROVE \A p \in 1..Len(f[i]) : b[p] = f[i][p]
    <3> DEFINE T == {k \in Nat : k \in i..n => /\ Len(f[i]) <= Len(f[k])
                                               /\ \A p \in 1..Len(f[i]) : f[k][p] = f[i][p]}
    <3>1. 0 \in T
      BY <1>1
    <3>2. ASSUME NEW k \in Nat, k \in T PROVE k + 1 \in T
      <4> SUFFICES ASSUME k + 1 \in i..n
                   PROVE  /\ Len(f[i]) <= Len(f[k + 1])
                          /\ \A p \in 1..Len(f[i]) : f[k + 1][p] = f[i][p]
        OBVIOUS
      <4>1. CASE k + 1 = i
        <5>1. Len(f[i]) \in Nat
          BY <2>3
        <5> QED BY <4>1, <5>1
      <4>2. CASE k + 1 # i
        <5>1. k \in i..n /\ k \in 1..n /\ k + 1 \in 1..n /\ k + 1 # 1 /\ (k + 1) - 1 = k
          BY <1>1, <4>2
        <5> DEFINE g == f[k]
                   u == Utf8[s[k + 1]]
        <5>2. Len(f[i]) <= Len(g) /\ \A p \in 1..Len(f[i]) : g[p] = f[i][p]
          BY <3>2, <5>1
        <5>3. f[k + 1] = g \o u /\ g \in Seq(Octets) /\ u \in Seq(Octets) /\ Len(f[i]) \in Nat
          BY <1>1, <2>2, <2>3, <5>1, CodeIs
        <5> HIDE DEF g, u
        <5>4. JoinFacts(Octets, g, u)
          BY <5>3, Joins
        <5>5. Len(f[k + 1]) = Len(g) + Len(u) /\ Len(g) \in Nat /\ Len(u) \in Nat
              /\ \A p \in 1..Len(g) : f[k + 1][p] = g[p]
          BY <5>3, <5>4 DEF JoinFacts
        <5> QED BY <5>2, <5>3, <5>5
      <4> QED BY <4>1, <4>2
    <3> HIDE DEF T
    <3>3. n \in T
      BY <1>1, <3>1, <3>2, Upward
    <3>4. n \in i..n
      BY <1>1
    <3> QED BY <2>2, <3>3, <3>4 DEF T, b
  <2>8. \A i \in 1..n : \A j \in 1..Len(Utf8[s[i]]) : b[off[i] + j] = Utf8[s[i]][j]
    <3> TAKE i \in 1..n
    <3> DEFINE u == Utf8[s[i]]
    <3>1. Len(u) \in Nat /\ off[i + 1] = off[i] + Len(u) /\ off[i + 1] = Len(f[i]) /\ off[i] \in Nat
      <4>1. i \in 1..(n + 1)
        BY <1>1
      <4> QED BY <1>1, <2>3, <2>5, <2>6, <4>1, CodeIs
    <3>2. \A j \in 1..Len(u) : f[i][off[i] + j] = u[j]
      BY <2>6
    <3> HIDE DEF u
    <3>3. \A j \in 1..Len(u) : off[i] + j \in 1..Len(f[i])
      BY <3>1
    <3>4. \A j \in 1..Len(u) : b[off[i] + j] = u[j]
      BY <2>7, <3>2, <3>3
    <3> QED BY <3>4 DEF u
  <2>9. b \in Seq(Octets) /\ Len(b) = off[n + 1]
    <3>1. n \in 1..n
      BY <2>2
    <3> QED BY <2>2, <2>3, <3>1 DEF b
  <2>10. IsLaid(b, off, s)
    BY <1>1, <2>4, <2>5, <2>6, <2>8, <2>9 DEF IsLaid, n
  <2>11. ASSUME NEW i \in 1..Len(s) PROVE off[i] = Len(X!Bytes(SubSeq(s, 1, i - 1)))
    <3>1. CASE i = 1
      <4> DEFINE k == 0
                 m == 1
      <4>1. m \in Int /\ k \in Int /\ k < m
        OBVIOUS
      <4> HIDE DEF k, m
      <4>2. SubSeq(s, m, k) = <<>>
        BY <4>1, SubSeqEmpty
      <4>3. SubSeq(s, 1, i - 1) = <<>>
        BY <3>1, <4>2 DEF k, m
      <4> QED BY <2>4, <3>1, <4>3, NoBytes
    <3>2. CASE i # 1
      <4> DEFINE k == i - 1
      <4>1. k \in 1..Len(s) /\ off[i] = Len(f[k])
        BY <2>4, <3>2 DEF n
      <4> HIDE DEF k
      <4>2. X!Bytes(SubSeq(s, 1, k)) = f[k]
        BY <1>3, <2>1, <4>1, SpeltPrefix
      <4> QED BY <4>1, <4>2 DEF k
    <3> QED BY <3>1, <3>2
  <2> QED BY <2>10, <2>11 DEF IsCounted, b
<1> QED BY <1>2, <1>3

Widths(s) == \A i \in 1..Len(s) : Len(Utf8[s[i]]) \in Nat \ {0} /\ Utf8[s[i]] \in Seq(Octets)

LEMMA WidthsAre ==
  ASSUME NEW b, NEW off, NEW s, IsLaid(b, off, s)
  PROVE  Widths(s)
BY CodeIs DEF IsLaid, Widths

\* Further runes lie further on.
LEMMA OffsetsClimb ==
  ASSUME NEW b, NEW off, NEW s, IsLaid(b, off, s), NEW i \in 1..(Len(s) + 1)
  PROVE  \A k \in 1..(Len(s) + 1) : i < k => off[i] < off[k]
<1> DEFINE n == Len(s)
           T == {k \in Nat : k \in 1..(n + 1) /\ i < k => off[i] < off[k]}
<1>0. /\ n \in Nat /\ \A k \in 1..(n + 1) : off[k] \in Nat
      /\ \A k \in 1..n : off[k + 1] = off[k] + Len(Utf8[s[k]])
  BY DEF IsLaid
<1>1. \A k \in 1..n : Len(Utf8[s[k]]) \in Nat \ {0}
  BY WidthsAre DEF Widths
<1>2. \A k \in 1..n : off[k] < off[k + 1] /\ off[k] \in Nat /\ off[k + 1] \in Nat
  <2> TAKE k \in 1..n
  <2>1. off[k] \in Nat
    <3>1. k \in 1..(n + 1)
      BY <1>0
    <3> QED BY <1>0, <3>1
  <2> QED BY <1>0, <1>1, <2>1
<1> HIDE DEF n
<1>3. 0 \in T
  OBVIOUS
<1>4. ASSUME NEW k \in Nat, k \in T PROVE k + 1 \in T
  <2> SUFFICES ASSUME k + 1 \in 1..(n + 1), i < k + 1 PROVE off[i] < off[k + 1]
    OBVIOUS
  <2>1. i \in 1..(n + 1)
    BY DEF n
  <2>2. k \in 1..n /\ k \in 1..(n + 1)
    BY <1>0, <2>1
  <2>3. CASE i = k
    BY <1>2, <2>2, <2>3
  <2>4. CASE i # k
    <3>1. i < k
      BY <2>1, <2>4
    <3>2. off[i] < off[k] /\ off[i] \in Nat
      BY <1>0, <1>4, <2>1, <2>2, <3>1
    <3> QED BY <1>2, <2>2, <3>2
  <2> QED BY <2>3, <2>4
<1> HIDE DEF T
<1>5. Nat \subseteq T
  BY <1>3, <1>4, Upward
<1>6. \A k \in 1..(n + 1) : k \in T
  BY <1>0, <1>5
<1> QED BY <1>6 DEF T, n

\* Every byte is one of a rune.
LEMMA Belongs ==
  ASSUME NEW b, NEW off, NEW s, IsLaid(b, off, s), NEW p \in 1..Len(b)
  PROVE  \E i \in 1..Len(s) : \E j \in 1..Len(Utf8[s[i]]) : p = off[i] + j
<1> DEFINE n == Len(s)
           U == {i \in Nat : i \in 1..(n + 1) /\ p <= off[i]}
<1>0. /\ n \in Nat /\ \A k \in 1..(n + 1) : off[k] \in Nat
      /\ \A k \in 1..n : off[k + 1] = off[k] + Len(Utf8[s[k]])
      /\ off[1] = 0 /\ Len(b) = off[n + 1]
  BY DEF IsLaid
<1>1. \A k \in 1..n : Len(Utf8[s[k]]) \in Nat \ {0}
  BY WidthsAre DEF Widths
<1> HIDE DEF n
<1>2. n + 1 \in 1..(n + 1) /\ off[n + 1] \in Nat /\ p \in Nat \ {0} /\ p <= off[n + 1]
  <2>1. n + 1 \in 1..(n + 1)
    BY <1>0
  <2>2. off[n + 1] \in Nat
    BY <1>0, <2>1
  <2> QED BY <1>0, <2>1, <2>2
<1>3. n + 1 \in U
  BY <1>2
<1>4. PICK k \in U : \A m \in U : k <= m
  <2>1. U # {} /\ U \in SUBSET Nat
    BY <1>3
  <2> QED BY <2>1, LeastOf
<1>5. k \in 1..(n + 1) /\ p <= off[k] /\ k # 1
  BY <1>0, <1>2, <1>4
<1> DEFINE i == k - 1
<1>6. i \in 1..n /\ i \in Nat /\ i \in 1..(n + 1) /\ i + 1 = k /\ ~(k <= i)
  BY <1>0, <1>5
<1>7. i \notin U
  BY <1>4, <1>6
<1>8. ~(p <= off[i]) /\ off[i] \in Nat /\ off[k] = off[i] + Len(Utf8[s[i]])
      /\ Len(Utf8[s[i]]) \in Nat
  BY <1>0, <1>1, <1>6, <1>7
<1> HIDE DEF i, U
<1> DEFINE j == p - off[i]
<1>9. j \in 1..Len(Utf8[s[i]]) /\ p = off[i] + j
  BY <1>2, <1>5, <1>8
<1>10. i \in 1..Len(s)
  BY <1>6 DEF n
<1> HIDE DEF j
<1> QED BY <1>9, <1>10

\* Where its runes stand the offsets keep step.
InStep(off, u, i, m) == \A k \in 0..m : off[i + k] = off[i] + u[k + 1]

LEMMA KeepStep ==
  ASSUME NEW b, NEW off, NEW s, IsLaid(b, off, s), NEW d, NEW u, NEW t, IsLaid(d, u, t),
         NEW i \in Nat \ {0}, NEW m \in Nat, m <= Len(t), i + m - 1 <= Len(s),
         \A k \in 1..m : s[i + k - 1] = t[k]
  PROVE  InStep(off, u, i, m)
<1> DEFINE T == {k \in Nat : k <= m => off[i + k] = off[i] + u[k + 1]}
<1>0. /\ Len(s) \in Nat /\ Len(t) \in Nat /\ u[1] = 0
      /\ \A k \in 1..(Len(s) + 1) : off[k] \in Nat
      /\ \A k \in 1..(Len(t) + 1) : u[k] \in Nat
      /\ \A k \in 1..Len(s) : off[k + 1] = off[k] + Len(Utf8[s[k]])
      /\ \A k \in 1..Len(t) : u[k + 1] = u[k] + Len(Utf8[t[k]])
  BY DEF IsLaid
<1>1. 0 \in T
  <2>1. i \in 1..(Len(s) + 1) /\ i + 0 = i /\ 0 + 1 = 1
    BY <1>0
  <2> QED BY <1>0, <2>1
<1>2. ASSUME NEW k \in Nat, k \in T PROVE k + 1 \in T
  <2> SUFFICES ASSUME k + 1 <= m PROVE off[i + (k + 1)] = off[i] + u[(k + 1) + 1]
    OBVIOUS
  <2> DEFINE p == i + k
             q == k + 1
  <2>1. /\ p \in 1..Len(s) /\ q \in 1..Len(t) /\ q \in 1..(Len(t) + 1) /\ q \in 1..m
        /\ i + q - 1 = p /\ p + 1 = i + (k + 1) /\ i \in 1..(Len(s) + 1) /\ k <= m
    BY <1>0
  <2> HIDE DEF p, q
  <2>2. s[p] = t[q]
    BY <2>1
  <2>3. off[p + 1] = off[p] + Len(Utf8[s[p]]) /\ u[q + 1] = u[q] + Len(Utf8[t[q]])
    BY <1>0, <2>1
  <2>4. off[p] = off[i] + u[q]
    BY <1>2, <2>1 DEF p, q
  <2>5. off[i] \in Nat /\ u[q] \in Nat /\ Len(Utf8[t[q]]) \in Nat
    <3>1. Len(Utf8[t[q]]) \in Nat
      BY <2>1, WidthsAre DEF Widths
    <3> QED BY <1>0, <2>1, <3>1
  <2>6. off[p + 1] = off[i] + u[q + 1]
    BY <2>2, <2>3, <2>4, <2>5
  <2> QED BY <2>1, <2>6 DEF q
<1> HIDE DEF T
<1>3. Nat \subseteq T
  BY <1>1, <1>2, Upward
<1>4. \A k \in 0..m : k \in T
  BY <1>3
<1> QED BY <1>4 DEF T, InStep

\* Where its runes stand its bytes do.
LEMMA RunesThenBytes ==
  ASSUME NEW s \in Seq(X!Runes), NEW t \in Seq(X!Runes), NEW b, NEW off, IsLaid(b, off, s),
         NEW d, NEW u, IsLaid(d, u, t), NEW i \in Nat \ {0}, t # <<>>, X!IsAt(s, t, i)
  PROVE  off[i] + 1 \in Nat \ {0} /\ X!IsAt(b, d, off[i] + 1)
<1> DEFINE m == Len(t)
           n == Len(s)
           p == off[i] + 1
<1>1. m \in Nat \ {0} /\ n \in Nat
  BY EmptySeq, LenProperties
<1>2. i + m - 1 <= n /\ \A k \in 1..m : s[i + k - 1] = t[k]
  BY StandsAt
<1>3. InStep(off, u, i, m)
  <2>1. m <= Len(t) /\ m \in Nat /\ i + m - 1 <= Len(s)
    BY <1>1, <1>2
  <2> HIDE DEF m
  <2> QED BY <1>2, <2>1, KeepStep
<1>4. /\ b \in Seq(Octets) /\ d \in Seq(Octets) /\ Len(b) = off[n + 1] /\ Len(d) = u[m + 1]
      /\ \A k \in 1..(n + 1) : off[k] \in Nat
      /\ \A k \in 1..(m + 1) : u[k] \in Nat
      /\ \A k \in 1..n : \A j \in 1..Len(Utf8[s[k]]) : b[off[k] + j] = Utf8[s[k]][j]
      /\ \A k \in 1..m : \A j \in 1..Len(Utf8[t[k]]) : d[u[k] + j] = Utf8[t[k]][j]
  BY DEF IsLaid
<1>5. \A k \in 1..m : Len(Utf8[t[k]]) \in Nat
  BY WidthsAre DEF Widths
<1>6. \A k \in 0..m : off[i + k] = off[i] + u[k + 1]
  BY <1>3 DEF InStep
<1> HIDE DEF m, n
<1>7. i \in 1..(n + 1) /\ i + m \in 1..(n + 1) /\ m \in 0..m /\ m + 1 \in 1..(m + 1)
  BY <1>1, <1>2
<1>8. off[i] \in Nat /\ off[i + m] \in Nat /\ u[m + 1] \in Nat /\ off[i + m] = off[i] + u[m + 1]
  BY <1>4, <1>6, <1>7
<1>9. off[i + m] <= off[n + 1]
  <2> DEFINE e == i + m
             l == n + 1
  <2>1. e \in 1..l /\ l \in 1..l /\ off[l] \in Nat /\ (e = l \/ e < l)
    <3>1. n + 1 \in 1..(n + 1)
      BY <1>1
    <3>2. off[n + 1] \in Nat
      BY <1>4, <3>1
    <3>3. e <= l
      BY <1>1, <1>2
    <3> QED BY <1>1, <1>7, <3>1, <3>2, <3>3
  <2>2. \A k \in 1..l : e < k => off[e] < off[k]
    <3>1. e \in 1..(Len(s) + 1)
      BY <2>1 DEF n
    <3> HIDE DEF e
    <3>2. \A k \in 1..(Len(s) + 1) : e < k => off[e] < off[k]
      BY <3>1, OffsetsClimb
    <3> QED BY <3>2 DEF n
  <2> HIDE DEF e, l
  <2>3. off[e] <= off[l]
    <3>1. off[e] \in Nat
      BY <1>8 DEF e
    <3> QED BY <2>1, <2>2, <3>1
  <2> QED BY <2>3 DEF e, l
<1>10. p + Len(d) - 1 <= Len(b) /\ p \in Nat \ {0}
  <2>1. Len(d) = u[m + 1] /\ Len(b) = off[n + 1]
    BY <1>4
  <2>2. off[n + 1] \in Nat
    BY <2>1, <1>4, LenProperties
  <2>3. p + u[m + 1] - 1 = off[i + m]
    <3> DEFINE x == off[i]
               y == u[m + 1]
               z == off[i + m]
    <3>1. x \in Nat /\ y \in Nat /\ z = x + y /\ p = x + 1
      BY <1>8
    <3> HIDE DEF x, y, z, p
    <3>2. p + y - 1 = z
      BY <3>1
    <3> QED BY <3>2 DEF y, z
  <2> QED BY <1>8, <1>9, <2>1, <2>2, <2>3
<1>11. ASSUME NEW q \in 1..Len(d) PROVE b[p + q - 1] = d[q]
  <2>1. PICK k \in 1..m : \E j \in 1..Len(Utf8[t[k]]) : q = u[k] + j
    <3>1. \E k \in 1..Len(t) : \E j \in 1..Len(Utf8[t[k]]) : q = u[k] + j
      BY Belongs
    <3> QED BY <3>1 DEF m
  <2>2. PICK j \in 1..Len(Utf8[t[k]]) : q = u[k] + j
    BY <2>1
  <2> DEFINE e == i + k - 1
  <2>3. e \in 1..n /\ k - 1 \in 0..m /\ i + (k - 1) = e /\ (k - 1) + 1 = k /\ k \in 1..(m + 1)
    BY <1>1, <1>2
  <2>4. s[e] = t[k]
    BY <1>2
  <2>5. off[e] = off[i] + u[k]
    BY <1>6, <2>3
  <2> HIDE DEF e
  <2>6. u[k] \in Nat /\ j \in Nat
    BY <1>4, <1>5, <2>3
  <2>7. p + q - 1 = off[e] + j
    <3>1. p + (u[k] + j) - 1 = (off[i] + u[k]) + j
      BY <1>8, <2>6
    <3> QED BY <2>2, <2>5, <3>1
  <2>8. b[off[e] + j] = Utf8[t[k]][j]
    BY <1>4, <2>3, <2>4
  <2>9. d[u[k] + j] = Utf8[t[k]][j]
    BY <1>4
  <2> QED BY <2>2, <2>7, <2>8, <2>9
<1> HIDE DEF p
<1>12. X!IsAt(b, d, p)
  <2>1. b \in Seq(Octets) /\ d \in Seq(Octets)
    BY <1>4
  <2> QED BY <1>10, <1>11, <2>1, StandsAt
<1> QED BY <1>10, <1>12 DEF p

\* Where its bytes stand its runes do: a rune begins there and nowhere else.
LEMMA BytesThenRunes ==
  ASSUME NEW s \in Seq(X!Runes), NEW t \in Seq(X!Runes), NEW b, NEW off, IsLaid(b, off, s),
         NEW d, NEW u, IsLaid(d, u, t), NEW p \in Nat \ {0}, t # <<>>, X!IsAt(b, d, p)
  PROVE  \E i \in 1..Len(s) : p = off[i] + 1 /\ X!IsAt(s, t, i)
<1> DEFINE m == Len(t)
           n == Len(s)
<1>1. m \in Nat \ {0} /\ n \in Nat
  BY EmptySeq, LenProperties
<1>2. /\ b \in Seq(Octets) /\ d \in Seq(Octets) /\ Len(b) = off[n + 1] /\ Len(d) = u[m + 1]
      /\ u[1] = 0
      /\ \A k \in 1..n : s[k] \in X!Runes
      /\ \A k \in 1..m : t[k] \in X!Runes
      /\ \A k \in 1..(n + 1) : off[k] \in Nat
      /\ \A k \in 1..(m + 1) : u[k] \in Nat
      /\ \A k \in 1..n : off[k + 1] = off[k] + Len(Utf8[s[k]])
      /\ \A k \in 1..m : u[k + 1] = u[k] + Len(Utf8[t[k]])
      /\ \A k \in 1..n : \A j \in 1..Len(Utf8[s[k]]) : b[off[k] + j] = Utf8[s[k]][j]
      /\ \A k \in 1..m : \A j \in 1..Len(Utf8[t[k]]) : d[u[k] + j] = Utf8[t[k]][j]
  BY DEF IsLaid
<1>3. /\ \A k \in 1..m : Len(Utf8[t[k]]) \in Nat \ {0} /\ Utf8[t[k]] \in Seq(Octets)
      /\ \A k \in 1..n : Len(Utf8[s[k]]) \in Nat \ {0} /\ Utf8[s[k]] \in Seq(Octets)
  BY WidthsAre DEF Widths
<1>4. p + Len(d) - 1 <= Len(b) /\ \A q \in 1..Len(d) : b[p + q - 1] = d[q]
  BY <1>2, StandsAt
<1> HIDE DEF m, n
<1>5. Len(d) \in Nat \ {0} /\ Len(b) \in Nat /\ d[1] = Utf8[t[1]][1] /\ p \in 1..Len(b)
  <2>1. 1 \in 1..m /\ 1 + 1 \in 1..(m + 1) /\ m + 1 \in 1..(m + 1)
    BY <1>1
  <2>2. u[1 + 1] = u[1] + Len(Utf8[t[1]]) /\ Len(Utf8[t[1]]) \in Nat \ {0}
    BY <1>2, <1>3, <2>1
  <2>3. u[1 + 1] <= u[m + 1] /\ u[m + 1] \in Nat /\ u[1 + 1] \in Nat
    <3> DEFINE e == 1 + 1
               l == m + 1
    <3>1. e \in 1..l /\ l \in 1..l /\ (e = l \/ e < l) /\ u[e] \in Nat /\ u[l] \in Nat
      BY <1>1, <1>2, <2>1
    <3>2. \A k \in 1..l : e < k => u[e] < u[k]
      <4>1. e \in 1..(Len(t) + 1)
        BY <3>1 DEF m
      <4> HIDE DEF e
      <4>2. \A k \in 1..(Len(t) + 1) : e < k => u[e] < u[k]
        BY <4>1, OffsetsClimb
      <4> QED BY <4>2 DEF m
    <3> HIDE DEF e, l
    <3>3. u[e] <= u[l]
      BY <3>1, <3>2
    <3> QED BY <3>1, <3>3 DEF e, l
  <2>4. Len(d) \in Nat \ {0}
    BY <1>2, <2>2, <2>3
  <2>5. Len(b) \in Nat
    BY <1>2, LenProperties
  <2>6. 1 \in 1..Len(Utf8[t[1]]) /\ u[1] + 1 = 1
    BY <1>2, <2>2
  <2>7. d[1] = Utf8[t[1]][1]
    BY <1>2, <2>1, <2>6
  <2> QED BY <1>4, <2>4, <2>5, <2>7
<1>6. PICK i \in 1..n : \E j \in 1..Len(Utf8[s[i]]) : p = off[i] + j
  <2>1. \E k \in 1..Len(s) : \E j \in 1..Len(Utf8[s[k]]) : p = off[k] + j
    <3>1. IsLaid(b, off, s) /\ p \in 1..Len(b)
      BY <1>5
    <3> QED BY <3>1, Belongs
  <2> QED BY <2>1 DEF n
<1>7. PICK j \in 1..Len(Utf8[s[i]]) : p = off[i] + j
  BY <1>6
<1>8. j = 1
  <2>1. b[p] = Utf8[s[i]][j]
    BY <1>2, <1>7
  <2>2. b[p] = d[1]
    <3>1. 1 \in 1..Len(d) /\ p + 1 - 1 = p
      BY <1>5
    <3> QED BY <1>4, <3>1
  <2>3. Utf8[s[i]][j] = Utf8[t[1]][1] /\ s[i] \in X!Runes /\ t[1] \in X!Runes
    <3>1. 1 \in 1..m
      BY <1>1
    <3> QED BY <1>2, <1>5, <2>1, <2>2, <3>1
  <2>4. j \notin 2..Len(Utf8[s[i]])
    BY <2>3, CodeIs
  <2>5. Len(Utf8[s[i]]) \in Nat
    BY <1>3
  <2> QED BY <2>4, <2>5
<1>9. p = off[i] + 1 /\ off[i] \in Nat /\ i \in Nat \ {0}
  <2>1. i \in 1..(n + 1)
    BY <1>1
  <2> QED BY <1>2, <1>7, <1>8, <2>1
<1> DEFINE Keeps(k) == /\ i + k - 1 <= n /\ off[i + k] = off[i] + u[k + 1]
                       /\ \A l \in 1..k : s[i + l - 1] = t[l]
<1>10. Keeps(0)
  <2>1. i + 0 - 1 <= n /\ i + 0 = i /\ 0 + 1 = 1
    BY <1>1
  <2> QED BY <1>2, <1>9, <2>1
<1>11. ASSUME NEW k \in Nat, k + 1 <= m, Keeps(k) PROVE Keeps(k + 1)
  <2> DEFINE e == i + k
             q == k + 1
  <2>1. q \in 1..m /\ q \in 1..(m + 1) /\ q + 1 \in 1..(m + 1) /\ m + 1 \in 1..(m + 1) /\ e \in 1..(n + 1)
        /\ e \in Nat /\ q < m + 1
    BY <1>1, <1>9, <1>11
  <2>2. off[e] = off[i] + u[q]
    BY <1>11
  <2>3. u[q] < u[m + 1]
    <3>1. q \in 1..(Len(t) + 1) /\ m + 1 \in 1..(Len(t) + 1)
      BY <2>1 DEF m
    <3> DEFINE l == m + 1
    <3> HIDE DEF l, q
    <3>2. \A x \in 1..(Len(t) + 1) : q < x => u[q] < u[x]
      BY <3>1, OffsetsClimb
    <3> QED BY <2>1, <3>1, <3>2 DEF l
  <2> HIDE DEF e, q
  <2>4. e \in 1..n
    <3>1. off[e] < Len(b)
      <4>1. u[q] \in Nat /\ u[m + 1] \in Nat /\ Len(d) = u[m + 1]
        BY <1>2, <2>1
      <4>2. p + Len(d) - 1 <= Len(b)
        BY <1>4
      <4>3. off[i] + u[m + 1] <= Len(b)
        BY <1>5, <1>9, <4>1, <4>2
      <4>4. off[i] + u[q] < off[i] + u[m + 1]
        BY <1>9, <2>3, <4>1
      <4>5. off[i] + u[q] < Len(b)
        BY <1>5, <1>9, <4>1, <4>3, <4>4
      <4> QED BY <2>2, <4>5
    <3>2. e # n + 1
      BY <1>2, <1>5, <3>1
    <3> QED BY <1>1, <2>1, <3>2
  <2> DEFINE x == Utf8[s[e]]
             y == Utf8[t[q]]
  <2>5. /\ x \in Seq(Octets) /\ y \in Seq(Octets) /\ Len(x) \in Nat \ {0} /\ Len(y) \in Nat \ {0}
        /\ s[e] \in X!Runes /\ t[q] \in X!Runes /\ u[q] \in Nat
        /\ \A l \in 1..Len(x) : b[off[e] + l] = x[l]
        /\ \A l \in 1..Len(y) : d[u[q] + l] = y[l]
        /\ u[q + 1] = u[q] + Len(y) /\ off[e + 1] = off[e] + Len(x) /\ u[q + 1] \in Nat
    BY <1>2, <1>3, <2>1, <2>4
  <2>6. u[q + 1] <= u[m + 1] /\ u[m + 1] \in Nat
    <3> DEFINE l == m + 1
               z == q + 1
    <3>1. z \in 1..l /\ l \in 1..l /\ (z = l \/ z < l) /\ u[z] \in Nat /\ u[l] \in Nat
      BY <1>1, <1>2, <2>1
    <3>2. \A k1 \in 1..l : z < k1 => u[z] < u[k1]
      <4>1. z \in 1..(Len(t) + 1)
        BY <3>1 DEF m
      <4> HIDE DEF z
      <4>2. \A k1 \in 1..(Len(t) + 1) : z < k1 => u[z] < u[k1]
        BY <4>1, OffsetsClimb
      <4> QED BY <4>2 DEF m
    <3> HIDE DEF l, z
    <3>3. u[z] <= u[l]
      BY <3>1, <3>2
    <3> QED BY <3>1, <3>3 DEF l, z
  <2> HIDE DEF x, y
  <2>7. \A l \in 1..Len(y) : b[off[e] + l] = y[l]
    <3> TAKE l \in 1..Len(y)
    <3> DEFINE z == u[q] + l
    <3>1. z \in 1..Len(d) /\ p + z - 1 = off[e] + l
      <4>0. Len(d) = u[m + 1]
        BY <1>2
      <4> DEFINE v == u[q]
                 a == off[i]
                 k1 == Len(y)
      <4>1. k1 \in Nat \ {0} /\ v \in Nat /\ a \in Nat /\ v + k1 <= u[m + 1] /\ u[m + 1] \in Nat
        BY <1>9, <2>5, <2>6
      <4>5. l \in 1..k1
        OBVIOUS
      <4> HIDE DEF v, a, k1
      <4>6. l \in Nat \ {0} /\ l <= k1
        BY <4>1, <4>5
      <4>7. v + l <= u[m + 1] /\ v + l \in Nat \ {0}
        BY <4>1, <4>6
      <4>2. u[q] + l <= u[m + 1] /\ u[q] + l \in Nat \ {0}
        BY <4>7 DEF v
      <4>8. (a + 1) + (v + l) - 1 = (a + v) + l
        BY <4>1, <4>6
      <4>3. (off[i] + 1) + (u[q] + l) - 1 = (off[i] + u[q]) + l
        BY <4>8 DEF v, a
      <4>4. p + z - 1 = off[e] + l
        BY <1>9, <2>2, <4>3
      <4> QED BY <4>0, <4>1, <4>2, <4>4
    <3>2. d[z] = y[l]
      BY <2>5
    <3> HIDE DEF z
    <3>3. b[p + z - 1] = d[z]
      BY <1>4, <3>1
    <3> QED BY <3>1, <3>2, <3>3
  <2>8. x[1] = y[1]
    <3>1. 1 \in 1..Len(x) /\ 1 \in 1..Len(y)
      BY <2>5
    <3> QED BY <2>5, <2>7, <3>1
  <2>9. Len(x) = Len(y)
    BY <2>5, <2>8, CodeIs DEF x, y
  <2>10. \A l \in 1..Len(x) : x[l] = y[l]
    BY <2>5, <2>7, <2>9
  <2>11. x = y
    BY <2>5, <2>9, <2>10, SeqEqual
  <2>12. s[e] = t[q]
    BY <2>5, <2>11, CodeIs DEF x, y
  <2>13. off[e + 1] = off[i] + u[q + 1]
    BY <1>9, <2>2, <2>5, <2>9
  <2>14. i + (k + 1) = e + 1 /\ (k + 1) + 1 = q + 1 /\ i + (k + 1) - 1 <= n
    BY <1>1, <1>9, <2>4 DEF e, q
  <2>15. ASSUME NEW l \in 1..(k + 1) PROVE s[i + l - 1] = t[l]
    <3>1. CASE l = k + 1
      <4>1. i + l - 1 = e /\ l = q
        BY <1>9, <3>1 DEF e, q
      <4> QED BY <2>12, <4>1
    <3>2. CASE l # k + 1
      <4>1. l \in 1..k
        BY <3>2
      <4> QED BY <1>11, <4>1
    <3> QED BY <3>1, <3>2
  <2> QED BY <2>13, <2>14, <2>15
<1>12. Keeps(m)
  <2> HIDE DEF Keeps
  <2> DEFINE T == {k \in Nat : k <= m => Keeps(k)}
  <2>1. 0 \in T
    BY <1>10
  <2>2. ASSUME NEW k \in Nat, k \in T PROVE k + 1 \in T
    <3> SUFFICES ASSUME k + 1 <= m PROVE Keeps(k + 1)
      OBVIOUS
    <3>1. k <= m
      BY <1>1
    <3> QED BY <1>11, <2>2, <3>1
  <2> HIDE DEF T
  <2>3. m \in T
    BY <1>1, <2>1, <2>2, Upward
  <2> QED BY <1>1, <2>3 DEF T
<1>13. X!IsAt(s, t, i)
  <2>1. i + Len(t) - 1 <= Len(s) /\ \A l \in 1..Len(t) : s[i + l - 1] = t[l]
    BY <1>12 DEF m, n
  <2> QED BY <1>9, <2>1, StandsAt
<1> QED BY <1>9, <1>13 DEF n

(* Searches. *)

LocatedIn(b, d, start) ==
  LET at == X!FirstAt(X!Slice(b, start - 1, Len(b)), d)
  IN  IF start < 1 \/ start - 1 > Len(b) \/ at = 0 THEN X!ValueError ELSE X!Position(start - 1 + at)

LEMMA LocateUnfolds ==
  ASSUME NEW needle, NEW haystack, NEW start, NEW isExact
  PROVE  X!Locate(needle, haystack, start, isExact) =
           LocatedIn(X!Bytes(IF isExact THEN haystack ELSE X!Lowered(haystack)),
                     X!Bytes(IF isExact THEN needle ELSE X!Lowered(needle)), start)
BY Zenon DEF X!Locate, LocatedIn

LEMMA LoweredIs ==
  ASSUME NEW s \in Seq(X!Runes)
  PROVE  X!Lowered(s) \in Seq(X!Runes) /\ Len(X!Lowered(s)) = Len(s)
<1> DEFINE n == Len(s)
           l == [i \in 1..n |-> Lower[s[i]]]
<1>1. n \in Nat /\ DOMAIN s = 1..n /\ \A i \in 1..n : s[i] \in X!Runes
  BY LenProperties, ElementOfSeq
<1>2. \A i \in 1..n : Lower[s[i]] \in X!Runes
  BY <1>1, TextInputs
<1>3. X!Lowered(s) = l
  BY <1>1 DEF X!Lowered
<1> HIDE DEF n
<1>4. l \in Seq(X!Runes)
  BY <1>1, <1>2, IsASeq
<1>5. DOMAIN l = 1..n
  OBVIOUS
<1> HIDE DEF l
<1>6. Len(l) = n
  BY <1>1, <1>4, <1>5, LenProperties
<1> QED BY <1>3, <1>4, <1>6 DEF n

Places(c, s, off, start) == {i \in 1..Len(c) : X!IsAt(c, s, i) /\ off[i] >= start - 1}

\* The first place there is, or none.
IsLocated(found, c, s, off, start) ==
  \/ Places(c, s, off, start) = {} /\ found = X!ValueError
  \/ \E i \in Places(c, s, off, start) :
       /\ \A j \in Places(c, s, off, start) : i <= j
       /\ found = X!Position(off[i] + 1)

LEMMA LocatedIs ==
  ASSUME NEW c \in Seq(X!Runes), NEW s \in Seq(X!Runes), s # <<>>, NEW start \in Nat \ {0},
         NEW b, NEW off, IsLaid(b, off, c), NEW d, NEW u, IsLaid(d, u, s)
  PROVE  IsLocated(LocatedIn(b, d, start), c, s, off, start)
<1> DEFINE n == Len(c)
           e == start - 1
           rest == X!Slice(b, e, Len(b))
           at == X!FirstAt(rest, d)
           P == Places(c, s, off, start)
           found == LocatedIn(b, d, start)
<1>1. /\ n \in Nat /\ b \in Seq(Octets) /\ d \in Seq(Octets) /\ Len(b) = off[n + 1] /\ Len(b) \in Nat
      /\ \A k \in 1..(n + 1) : off[k] \in Nat
  BY LenProperties DEF IsLaid
<1>2. e \in Nat /\ ~(start < 1)
  OBVIOUS
<1>3. found = IF e > Len(b) \/ at = 0 THEN X!ValueError ELSE X!Position(e + at)
  BY <1>2 DEF LocatedIn
<1>4. \A i : i \in P <=> i \in 1..n /\ X!IsAt(c, s, i) /\ off[i] >= e
  BY DEF Places
<1>5. ASSUME NEW i \in 1..n, X!IsAt(c, s, i)
      PROVE  off[i] \in Nat /\ X!IsAt(b, d, off[i] + 1) /\ off[i] < Len(b)
  <2>1. off[i] \in Nat /\ i \in Nat \ {0} /\ i \in 1..(n + 1) /\ n + 1 \in 1..(n + 1) /\ i < n + 1
    BY <1>1
  <2>2. X!IsAt(b, d, off[i] + 1)
    BY <1>5, <2>1, RunesThenBytes
  <2> DEFINE l == n + 1
  <2>3. i \in 1..(Len(c) + 1) /\ l \in 1..(Len(c) + 1) /\ i < l
    BY <2>1
  <2> HIDE DEF l
  <2>4. off[i] < off[l]
    BY <2>3, OffsetsClimb
  <2> QED BY <1>1, <2>1, <2>2, <2>4 DEF l
<1>6. \A i, j \in 1..n : j < i => off[j] < off[i]
  <2> TAKE i \in 1..n, j \in 1..n
  <2>1. i \in 1..(Len(c) + 1) /\ j \in 1..(Len(c) + 1)
    BY <1>1
  <2> QED BY <2>1, OffsetsClimb
<1> HIDE DEF n, e, rest, at, P, found
<1>7. CASE e > Len(b)
  <2>1. ASSUME NEW i \in P PROVE FALSE
    <3>1. off[i] \in Nat /\ off[i] < Len(b) /\ off[i] >= e
      BY <1>4, <1>5, <2>1
    <3> QED BY <1>1, <1>2, <1>7, <3>1
  <2>2. P = {}
    BY <2>1
  <2> QED BY <1>3, <1>7, <2>2 DEF IsLocated, P, found
<1>8. CASE ~(e > Len(b))
  <2>0. e \in 0..Len(b)
    BY <1>1, <1>2, <1>8
  <2>1. rest \in Seq(Octets)
    <3>1. 1 \in Nat \ {0}
      OBVIOUS
    <3> QED BY <1>1, <2>0, <3>1, StandsInRest DEF rest
  <2>2. \A k \in Nat \ {0} : X!IsAt(rest, d, k) <=> X!IsAt(b, d, e + k)
    BY <1>1, <2>0, StandsInRest DEF rest
  <2>3. IsFirst(rest, d, at)
    BY <1>1, <2>1, FirstPlaceIs DEF at
  <2>4. ASSUME NEW i \in P
        PROVE  /\ i \in 1..n /\ off[i] \in Nat /\ off[i] + 1 - e \in Nat \ {0}
               /\ X!IsAt(rest, d, off[i] + 1 - e)
    <3>1. i \in 1..n /\ X!IsAt(c, s, i) /\ off[i] >= e
      BY <1>4
    <3>2. off[i] \in Nat /\ X!IsAt(b, d, off[i] + 1)
      BY <1>5, <3>1
    <3> DEFINE k == off[i] + 1 - e
    <3>3. k \in Nat \ {0} /\ e + k = off[i] + 1
      BY <1>2, <3>1, <3>2
    <3> HIDE DEF k
    <3>4. X!IsAt(rest, d, k)
      BY <2>2, <3>2, <3>3
    <3> QED BY <3>1, <3>2, <3>3, <3>4 DEF k
  <2>5. CASE at = 0
    <3>1. \A k \in Nat \ {0} : ~X!IsAt(rest, d, k)
      BY <2>3, <2>5 DEF IsFirst
    <3>2. P = {}
      BY <2>4, <3>1
    <3> QED BY <1>3, <2>5, <3>2 DEF IsLocated, P, found
  <2>6. CASE at # 0
    <3>1. /\ at \in Nat \ {0} /\ X!IsAt(rest, d, at)
          /\ \A k \in Nat \ {0} : k < at => ~X!IsAt(rest, d, k)
      BY <2>3, <2>6 DEF IsFirst
    <3> DEFINE p == e + at
    <3>2. p \in Nat \ {0} /\ X!IsAt(b, d, p)
      BY <1>2, <2>2, <3>1
    <3> HIDE DEF p
    <3>3. PICK i \in 1..n : p = off[i] + 1 /\ X!IsAt(c, s, i)
      <4>1. \E i \in 1..Len(c) : p = off[i] + 1 /\ X!IsAt(c, s, i)
        BY <3>2, BytesThenRunes
      <4> QED BY <4>1 DEF n
    <3>4. off[i] \in Nat /\ off[i] + 1 = e + at
      BY <1>5, <3>3 DEF p
    <3>5. i \in P
      BY <1>2, <1>4, <3>1, <3>3, <3>4
    <3>6. ASSUME NEW j \in P PROVE i <= j
      <4>1. j \in 1..n /\ off[j] \in Nat /\ off[j] + 1 - e \in Nat \ {0} /\ X!IsAt(rest, d, off[j] + 1 - e)
        BY <2>4
      <4> DEFINE k == off[j] + 1 - e
      <4>2. ~(k < at)
        BY <3>1, <4>1
      <4>3. ~(off[j] < off[i])
        BY <1>2, <3>1, <3>4, <4>1, <4>2
      <4>4. ~(j < i)
        BY <1>6, <4>1, <4>3
      <4> QED BY <1>1, <4>1, <4>4
    <3>7. found = X!Position(off[i] + 1)
      BY <1>3, <1>8, <2>6, <3>4
    <3> QED BY <3>5, <3>6, <3>7 DEF IsLocated, P, found
  <2> QED BY <2>5, <2>6
<1> QED BY <1>7, <1>8

\* Of one-byte runes the bytes before are the runes before.
LEMMA OneByteEach ==
  ASSUME NEW b, NEW off, NEW c, IsLaid(b, off, c), NEW i \in 1..Len(c),
         \A k \in 1..(i - 1) : Len(Utf8[c[k]]) = 1
  PROVE  off[i] = i - 1
<1> DEFINE n == Len(c)
           T == {k \in Nat : k + 1 <= i => off[k + 1] = k}
<1>1. n \in Nat /\ off[1] = 0 /\ \A k \in 1..n : off[k + 1] = off[k] + Len(Utf8[c[k]])
  BY DEF IsLaid
<1> HIDE DEF n
<1>2. 0 \in T
  BY <1>1
<1>3. ASSUME NEW k \in Nat, k \in T PROVE k + 1 \in T
  <2> SUFFICES ASSUME (k + 1) + 1 <= i PROVE off[(k + 1) + 1] = k + 1
    OBVIOUS
  <2> DEFINE q == k + 1
  <2>1. q \in 1..n /\ q \in 1..(i - 1) /\ k + 1 <= i /\ q - 1 = k
    BY <1>1 DEF n
  <2>2. off[q] = k
    BY <1>3, <2>1
  <2> HIDE DEF q
  <2>3. off[q + 1] = off[q] + 1
    BY <1>1, <2>1
  <2> QED BY <2>2, <2>3 DEF q
<1> HIDE DEF T
<1>4. i - 1 \in T /\ i - 1 \in Nat /\ (i - 1) + 1 = i
  <2>1. i - 1 \in Nat /\ (i - 1) + 1 = i
    BY <1>1 DEF n
  <2>2. Nat \subseteq T
    BY <1>2, <1>3, Upward
  <2> QED BY <2>1, <2>2
<1> QED BY <1>4 DEF T

\* MID takes out what stands at a place.
LEMMA MidTakes ==
  ASSUME NEW S, NEW c \in Seq(S), NEW s \in Seq(S), NEW i \in 1..Len(c), X!IsAt(c, s, i), s # <<>>,
         Len(c) < Half
  PROVE  X!FnMid(c, i, Len(s)) = X!Text(s)
<1> DEFINE l == Len(s)
           n == Len(c)
           from == X!ClampPos(i - 1, n)
           to == X!ClampPos(from + l, n)
<1>1. n \in Nat /\ l \in Nat \ {0} /\ Half \in Nat \ {0}
  BY TextInputs, LenProperties, EmptySeq
<1>2. i + l - 1 <= n /\ SubSeq(c, i, i + l - 1) = s
  BY DEF X!IsAt
<1> HIDE DEF n, l
<1>3. i \in Nat \ {0} /\ i <= n
  BY <1>1 DEF n
<1>4. from = i - 1 /\ to = i + l - 1
  BY <1>1, <1>2, <1>3 DEF X!ClampPos
<1> HIDE DEF from, to
<1>5. from + l < Half /\ i \in 1..(Half - 1) /\ l \in 0..(Half - 1)
  BY <1>1, <1>2, <1>3, <1>4 DEF n
<1>6. X!FnMid(c, i, l) = X!Text(X!Slice(c, from, to))
  <2>1. from + l < Half => X!FnMid(c, i, l) = X!Text(X!Slice(c, from, to))
    BY <1>5, CutsAre DEF from, to, n
  <2> QED BY <1>5, <2>1
<1>7. X!Slice(c, from, to) = s
  <2>1. from + 1 = i
    BY <1>3, <1>4
  <2> QED BY <1>2, <1>4, <2>1 DEF X!Slice
<1> QED BY <1>6, <1>7 DEF l

\* What FindsWhatStands says of one search.
FindsAt(needle, start, isExact) ==
    LET compared == IF isExact THEN text ELSE X!Lowered(text)
        sought == IF isExact THEN needle ELSE X!Lowered(needle)
        Before(i) == Len(X!Bytes(SubSeq(compared, 1, i - 1)))
        places == {i \in DOMAIN text : X!IsAt(compared, sought, i) /\ Before(i) >= start - 1}
        first == CHOOSE i \in places : \A j \in places : i <= j
        found == X!Locate(needle, text, start, isExact)
    IN  (start >= 1 /\ needle # <<>>) =>
          IF places = {} THEN found = X!ValueError
          ELSE /\ found = X!Position(Before(first) + 1)
               /\ Len(text) < Half /\ (\A i \in 1..(first - 1) : Len(Utf8[compared[i]]) = 1) =>
                    X!FnMid(compared, found.at, Len(sought)) = X!Text(sought)

LEMMA SearchFinds ==
  ASSUME text \in Seq(X!Runes), NEW needle \in Texts, NEW start \in Counts, NEW isExact \in BOOLEAN
  PROVE  FindsAt(needle, start, isExact)
<1> SUFFICES ASSUME start >= 1, needle # <<>>
             PROVE  LET compared == IF isExact THEN text ELSE X!Lowered(text)
                        sought == IF isExact THEN needle ELSE X!Lowered(needle)
                        Before(i) == Len(X!Bytes(SubSeq(compared, 1, i - 1)))
                        places == {i \in DOMAIN text : X!IsAt(compared, sought, i) /\ Before(i) >= start - 1}
                        first == CHOOSE i \in places : \A j \in places : i <= j
                        found == X!Locate(needle, text, start, isExact)
                    IN  IF places = {} THEN found = X!ValueError
                        ELSE /\ found = X!Position(Before(first) + 1)
                             /\ Len(text) < Half
                                /\ (\A i \in 1..(first - 1) : Len(Utf8[compared[i]]) = 1) =>
                                  X!FnMid(compared, found.at, Len(sought)) = X!Text(sought)
  BY DEF FindsAt
<1> DEFINE c == IF isExact THEN text ELSE X!Lowered(text)
           s == IF isExact THEN needle ELSE X!Lowered(needle)
           Before(i) == Len(X!Bytes(SubSeq(c, 1, i - 1)))
           places == {i \in DOMAIN text : X!IsAt(c, s, i) /\ Before(i) >= start - 1}
           first == CHOOSE i \in places : \A j \in places : i <= j
           found == X!Locate(needle, text, start, isExact)
           b == X!Bytes(c)
           d == X!Bytes(s)
<1>1. needle \in Seq(X!Runes) /\ start \in Nat \ {0}
  BY TextInputs
<1>2. c \in Seq(X!Runes) /\ Len(c) = Len(text) /\ DOMAIN text = 1..Len(c) /\ Len(c) \in Nat
  BY LoweredIs, LenProperties
<1>3. s \in Seq(X!Runes) /\ s # <<>>
  <2>1. Len(needle) \in Nat \ {0} /\ Len(s) = Len(needle) /\ s \in Seq(X!Runes)
    BY <1>1, LoweredIs, EmptySeq
  <2>2. Len(s) # 0
    BY <2>1
  <2> QED BY <2>1, <2>2, EmptySeq
<1>4. found = LocatedIn(b, d, start)
  BY LocateUnfolds
<1> HIDE DEF c, s
<1>5. PICK off : IsLaid(b, off, c) /\ IsCounted(off, c)
  BY <1>2, Laid
<1>6. PICK u : IsLaid(d, u, s)
  BY <1>3, Laid
<1> HIDE DEF b, d, found
<1>7. IsLocated(found, c, s, off, start)
  BY <1>1, <1>2, <1>3, <1>4, <1>5, <1>6, LocatedIs
<1>8. \A i \in 1..Len(c) : off[i] = Before(i)
  BY <1>5 DEF IsCounted
<1>9. places = Places(c, s, off, start)
  BY <1>2, <1>8 DEF Places
<1> HIDE DEF Before, places
<1>10. CASE places = {}
  <2>1. found = X!ValueError
    BY <1>7, <1>9, <1>10 DEF IsLocated
  <2> QED BY <1>10, <2>1 DEF places, found, c, s, Before
<1>11. CASE places # {}
  <2>1. PICK i \in places : (\A j \in places : i <= j) /\ found = X!Position(off[i] + 1)
    BY <1>7, <1>9, <1>11 DEF IsLocated
  <2>2. i \in 1..Len(c) /\ X!IsAt(c, s, i) /\ places \subseteq Nat
    BY <1>2, <1>9 DEF Places
  <2>3. first = i
    BY <2>1, <2>2, LeastIs
  <2> HIDE DEF first
  <2>4. found = X!Position(Before(first) + 1)
    BY <1>8, <2>1, <2>2, <2>3
  <2>5. ASSUME Len(text) < Half, \A k \in 1..(first - 1) : Len(Utf8[c[k]]) = 1
        PROVE  X!FnMid(c, found.at, Len(s)) = X!Text(s)
    <3>1. off[i] = i - 1
      BY <1>5, <2>2, <2>3, <2>5, OneByteEach
    <3>2. found.at = i
      BY <2>1, <2>2, <3>1 DEF X!Position
    <3>3. X!FnMid(c, i, Len(s)) = X!Text(s)
      BY <1>2, <1>3, <2>2, <2>5, MidTakes
    <3> QED BY <3>2, <3>3
  <2> QED BY <1>11, <2>4, <2>5 DEF first, places, found, c, s, Before
<1> QED BY <1>10, <1>11

\* FIND and SEARCH find the first place where the runes stand, though they search the bytes
\* (locate).
THEOREM SearchesFind == Spec => []FindsWhatStands
<1>1. TextInv => FindsWhatStands
  <2> SUFFICES ASSUME text \in Seq(X!Runes) PROVE X!FindsWhatStands
    BY DEF TextInv, FindsWhatStands
  <2>1. \A needle \in Texts, start \in Counts, isExact \in BOOLEAN : FindsAt(needle, start, isExact)
    BY SearchFinds
  <2> QED BY Zenon, <2>1 DEF X!FindsWhatStands, FindsAt
<1> QED BY <1>1, TextInvariance, PTL
=============================================================================
