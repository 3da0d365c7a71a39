-------------------------- MODULE StandaloneProofs --------------------------
(***************************************************************************)
(* What Standalone promises of calls, limits, dates and imports, proved of *)
(* every value of its constants, part by part; RangeProofs and TextProofs  *)
(* have the others. The recursive functions are unfolded along the         *)
(* numbers, by the least counterexample: a set of numbers that holds 0 and *)
(* the successor of each member is Nat (Upward).                           *)
(***************************************************************************)
EXTENDS Standalone, FiniteSetTheorems, SequenceTheorems, WellFoundedInduction, TLAPS

-----------------------------------------------------------------------------
(* Numbers, sequences and what is carried along them. *)

\* A set of numbers has a least one.
LEMMA LeastOf ==
  ASSUME NEW T \in SUBSET Nat, T # {}
  PROVE  \E m \in T : \A k \in T : m <= k
<1> DEFINE Less == {p \in Nat \X Nat : p[1] < p[2]}
<1>1. IsWellFoundedOn(Less, Nat)
  BY NatLessThanWellFounded, Zenon DEF OpToRel
<1>2. \A i, j \in Nat : j < i => <<j, i>> \in Less
  OBVIOUS
<1> HIDE DEF Less
<1>3. PICK m \in T : \A k \in T : <<k, m>> \notin Less
  BY <1>1, WFMin
<1>4. \A k \in T : k \in Nat /\ m \in Nat /\ ~(k < m)
  BY <1>2, <1>3
<1> QED BY <1>4

\* Induction over the numbers, of a set of them.
LEMMA Upward ==
  ASSUME NEW T, 0 \in T, \A k \in Nat : k \in T => k + 1 \in T
  PROVE  Nat \subseteq T
<1> DEFINE U == Nat \ T
<1>1. CASE U # {}
  <2>1. PICK m \in U : \A k \in U : m <= k
    BY <1>1, LeastOf
  <2>2. m \in Nat /\ m # 0 /\ m - 1 \in Nat /\ m - 1 \notin U /\ m = (m - 1) + 1
    BY <2>1
  <2> QED BY <2>2
<1> QED BY <1>1

\* The least one is the one chosen.
LEMMA LeastIs ==
  ASSUME NEW T \in SUBSET Nat, NEW m \in T, \A k \in T : m <= k
  PROVE  (CHOOSE i \in T : \A j \in T : i <= j) = m
<1>1. \A i \in T : (\A j \in T : i <= j) => i = m
  OBVIOUS
<1> QED BY <1>1

\* A value carried along the numbers from 1: what a recursive function over them computes.
IsCarried(S, n, b, g) ==
  \E f \in [1..n -> S] : \A i \in 1..n : f[i] = IF i = 1 THEN b ELSE g[<<i, f[i - 1]>>]

LEMMA CarriedAlong ==
  ASSUME NEW S, NEW n \in Nat, NEW b \in S, NEW g \in [(1..n) \X S -> S]
  PROVE  IsCarried(S, n, b, g)
<1> DEFINE Works(m) == \E f \in [1..m -> S] :
                         \A i \in 1..m : f[i] = IF i = 1 THEN b ELSE g[<<i, f[i - 1]>>]
           T == {m \in Nat : m <= n => Works(m)}
<1>1. 0 \in T
  <2> DEFINE f == [i \in 1..0 |-> b]
  <2>1. f \in [1..0 -> S] /\ \A i \in 1..0 : f[i] = IF i = 1 THEN b ELSE g[<<i, f[i - 1]>>]
    OBVIOUS
  <2> QED BY <2>1
<1>2. ASSUME NEW m \in Nat, m \in T PROVE m + 1 \in T
  <2> SUFFICES ASSUME m + 1 <= n PROVE Works(m + 1)
    OBVIOUS
  <2>1. PICK f \in [1..m -> S] : \A i \in 1..m : f[i] = IF i = 1 THEN b ELSE g[<<i, f[i - 1]>>]
    BY <1>2
  <2> DEFINE x == IF m = 0 THEN b ELSE g[<<m + 1, f[m]>>]
             h == [i \in 1..(m + 1) |-> IF i = m + 1 THEN x ELSE f[i]]
  <2>2. x \in S
    <3>1. CASE m = 0
      BY <3>1
    <3>2. CASE m # 0
      <4>1. f[m] \in S /\ m + 1 \in 1..n
        BY <3>2
      <4> QED BY <3>2, <4>1
    <3> QED BY <3>1, <3>2
  <2>3. h \in [1..(m + 1) -> S]
    BY <2>2
  <2>4. ASSUME NEW i \in 1..(m + 1) PROVE h[i] = IF i = 1 THEN b ELSE g[<<i, h[i - 1]>>]
    <3>1. CASE i = m + 1
      <4>1. h[i] = x
        BY <3>1
      <4>2. CASE m = 0
        BY <3>1, <4>1, <4>2
      <4>3. CASE m # 0
        <5>1. i # 1 /\ i - 1 \in 1..(m + 1) /\ i - 1 # m + 1 /\ i - 1 = m
          BY <3>1, <4>3
        <5>2. h[i - 1] = f[m]
          BY <5>1
        <5>3. x = g[<<i, f[m]>>]
          BY <3>1, <4>3
        <5> HIDE DEF x, h
        <5> QED BY <4>1, <5>1, <5>2, <5>3
      <4> QED BY <4>2, <4>3
    <3>2. CASE i # m + 1
      <4>1. i \in 1..m /\ h[i] = f[i] /\ (i # 1 => h[i - 1] = f[i - 1])
        BY <3>2
      <4> QED BY <2>1, <4>1
    <3> QED BY <3>1, <3>2
  <2> HIDE DEF h, x
  <2> QED BY <2>3, <2>4
<1> HIDE DEF T
<1>3. n \in T
  BY <1>1, <1>2, Upward
<1> QED BY <1>3 DEF T, IsCarried

\* The concatenation of sequences, from the first to the i-th.
IsRun(f, s) == f = [i \in 1..Len(s) |-> IF i = 1 THEN s[i] ELSE f[i - 1] \o s[i]]

LEMMA RunOf ==
  ASSUME NEW S, NEW s \in Seq(Seq(S)), s # <<>>
  PROVE  \E f : IsRun(f, s)
<1> DEFINE n == Len(s)
           g == [q \in (1..n) \X Seq(S) |-> q[2] \o s[q[1]]]
<1>1. n \in Nat /\ n # 0 /\ s[1] \in Seq(S)
  BY EmptySeq, ElementOfSeq, LenProperties
<1>2. g \in [(1..n) \X Seq(S) -> Seq(S)]
  <2>1. \A q \in (1..n) \X Seq(S) : q[2] \o s[q[1]] \in Seq(S)
    BY ElementOfSeq, ConcatProperties
  <2> QED BY <2>1
<1> HIDE DEF n, g
<1> DEFINE b == s[1]
           Runs == Seq(S)
<1>3. PICK f \in [1..n -> Runs] : \A i \in 1..n : f[i] = IF i = 1 THEN b ELSE g[<<i, f[i - 1]>>]
  <2>1. b \in Runs /\ g \in [(1..n) \X Runs -> Runs]
    BY <1>1, <1>2
  <2> HIDE DEF b, Runs
  <2>2. IsCarried(Runs, n, b, g)
    BY <1>1, <2>1, CarriedAlong
  <2> QED BY <2>2 DEF IsCarried
<1>4. \A i \in 1..n : f[i] = IF i = 1 THEN s[i] ELSE f[i - 1] \o s[i]
  <2> TAKE i \in 1..n
  <2>1. CASE i # 1
    <3>1. i - 1 \in 1..n /\ <<i, f[i - 1]>> \in (1..n) \X Seq(S)
      BY <1>1, <2>1
    <3>2. g[<<i, f[i - 1]>>] = f[i - 1] \o s[i]
      BY <3>1 DEF g
    <3> QED BY <1>3, <2>1, <3>2
  <2> QED BY <1>3, <2>1
<1>5. f = [i \in 1..n |-> IF i = 1 THEN s[i] ELSE f[i - 1] \o s[i]]
  BY <1>4
<1> QED BY <1>5 DEF IsRun, n

RunFacts(S, f, s) ==
  /\ \A i \in 1..Len(s) : f[i] \in Seq(S)
  /\ Len(s) \in Nat \ {0} /\ f[1] = s[1]
  /\ \A i \in 1..Len(s) : i # 1 => f[i] = f[i - 1] \o s[i]

LEMMA RunType ==
  ASSUME NEW S, NEW s \in Seq(Seq(S)), s # <<>>, NEW f, IsRun(f, s)
  PROVE  RunFacts(S, f, s)
<1> DEFINE n == Len(s)
           T == {m \in Nat : m \in 1..n => f[m] \in Seq(S)}
<1>1. n \in Nat /\ n # 0 /\ \A i \in 1..n : s[i] \in Seq(S)
  BY EmptySeq, ElementOfSeq, LenProperties
<1>2. \A i \in 1..n : f[i] = IF i = 1 THEN s[i] ELSE f[i - 1] \o s[i]
  BY Zenon DEF IsRun
<1> HIDE DEF n
<1>3. 0 \in T
  BY <1>1
<1>4. ASSUME NEW m \in Nat, m \in T PROVE m + 1 \in T
  <2> SUFFICES ASSUME m + 1 \in 1..n PROVE f[m + 1] \in Seq(S)
    OBVIOUS
  <2>1. CASE m = 0
    BY <1>1, <1>2, <2>1
  <2>2. CASE m # 0
    <3>0. m \in 1..n /\ m + 1 # 1 /\ (m + 1) - 1 = m
      BY <1>1, <2>2
    <3>1. f[m + 1] = f[m] \o s[m + 1]
      BY <1>2, <3>0
    <3>2. f[m] \in Seq(S) /\ s[m + 1] \in Seq(S)
      BY <1>1, <1>4, <3>0
    <3> QED BY <3>1, <3>2, ConcatProperties
  <2> QED BY <2>1, <2>2
<1> HIDE DEF T
<1>5. Nat \subseteq T
  BY <1>3, <1>4, Upward
<1>6. \A i \in 1..n : f[i] \in Seq(S)
  BY <1>5 DEF T
<1>7. f[1] = s[1] /\ n \in Nat \ {0} /\ \A i \in 1..n : i # 1 => f[i] = f[i - 1] \o s[i]
  <2>1. 1 \in 1..n /\ n \in Nat \ {0}
    BY <1>1
  <2>2. f[1] = s[1]
    BY <1>2, <2>1
  <2>3. ASSUME NEW i \in 1..n, i # 1 PROVE f[i] = f[i - 1] \o s[i]
    BY <1>2, <2>3
  <2> QED BY <2>1, <2>2, <2>3
<1> QED BY <1>6, <1>7 DEF n, RunFacts

LEMMA FlattenIs ==
  ASSUME NEW S, NEW s \in Seq(Seq(S)), s # <<>>
  PROVE  \E f : IsRun(f, s) /\ F!FlattenSeq(s) = f[Len(s)]
<1>1. Len(s) # 0
  BY EmptySeq
<1> DEFINE f == CHOOSE f : f = [i \in 1..Len(s) |-> IF i = 1 THEN s[i] ELSE f[i - 1] \o s[i]]
<1>2. IsRun(f, s)
  BY RunOf, Zenon DEF IsRun
<1>3. F!FlattenSeq(s) = f[Len(s)]
  BY <1>1, Zenon DEF F!FlattenSeq
<1> QED BY <1>2, <1>3

\* Concatenations can be bracketed either way.
Brackets(a, b, c) == (a \o b) \o c = a \o (b \o c)

LEMMA Associates ==
  ASSUME NEW S, NEW a \in Seq(S), NEW b \in Seq(S), NEW c \in Seq(S)
  PROVE  Brackets(a, b, c)
BY ConcatAssociative DEF Brackets

\* A concatenation, and where its elements are.
JoinFacts(S, s, t) ==
  /\ s \o t \in Seq(S) /\ Len(s \o t) = Len(s) + Len(t) /\ Len(s) \in Nat /\ Len(t) \in Nat
  /\ \A j \in 1..Len(s) : (s \o t)[j] = s[j]
  /\ \A j \in 1..Len(t) : (s \o t)[Len(s) + j] = t[j]

LEMMA Joins ==
  ASSUME NEW S, NEW s \in Seq(S), NEW t \in Seq(S)
  PROVE  JoinFacts(S, s, t)
<1>1. Len(s) \in Nat /\ Len(t) \in Nat
  BY LenProperties
<1>2. /\ s \o t \in Seq(S) /\ Len(s \o t) = Len(s) + Len(t)
      /\ \A j \in 1..(Len(s) + Len(t)) : (s \o t)[j] = IF j <= Len(s) THEN s[j] ELSE t[j - Len(s)]
  BY ConcatProperties
<1>3. \A j \in 1..Len(s) : (s \o t)[j] = s[j]
  BY <1>1, <1>2
<1>4. ASSUME NEW j \in 1..Len(t) PROVE (s \o t)[Len(s) + j] = t[j]
  <2>1. Len(s) + j \in 1..(Len(s) + Len(t)) /\ ~(Len(s) + j <= Len(s)) /\ (Len(s) + j) - Len(s) = j
    BY <1>1
  <2> QED BY <1>2, <2>1
<1> QED BY <1>1, <1>2, <1>3, <1>4 DEF JoinFacts

\* A part of a sequence, from one place to another.
CutFacts(S, s, m, n) ==
  /\ SubSeq(s, m, n) \in Seq(S)
  /\ Len(SubSeq(s, m, n)) = IF m <= n THEN n - m + 1 ELSE 0
  /\ \A j \in 1..(n - m + 1) : SubSeq(s, m, n)[j] = s[m + j - 1]

LEMMA Cuts ==
  ASSUME NEW S, NEW s \in Seq(S), NEW m \in Int, NEW n \in Int, 1 <= m, n <= Len(s)
  PROVE  CutFacts(S, s, m, n)
<1>1. \A j \in m..n : s[j] \in S
  BY ElementOfSeq, LenProperties
<1>2. /\ SubSeq(s, m, n) \in Seq(S)
      /\ Len(SubSeq(s, m, n)) = IF m <= n THEN n - m + 1 ELSE 0
      /\ \A j \in 1..(n - m + 1) : SubSeq(s, m, n)[j] = s[m + j - 1]
  BY <1>1, SubSeqProperties
<1> QED BY <1>2 DEF CutFacts

\* The greatest of the numbers to n is n.
Greatest(s) == CHOOSE x \in s : \A y \in s : x >= y

LEMMA GreatestIs ==
  ASSUME NEW n \in Nat, NEW s, n \in s, \A y \in s : y \in Nat /\ y <= n
  PROVE  Greatest(s) = n
<1>1. \A x \in s : (\A y \in s : x >= y) => x = n
  OBVIOUS
<1>2. \A y \in s : n >= y
  OBVIOUS
<1> QED BY <1>1, <1>2 DEF Greatest

LEMMA GreatestIn ==
  ASSUME NEW n \in Nat, NEW s \in SUBSET (1..n), s # {}
  PROVE  Greatest(s) \in s
<1> DEFINE T == {k \in Nat : \E x \in s : k = n - x}
<1>1. T # {} /\ T \in SUBSET Nat
  <2>1. PICK x \in s : TRUE
    OBVIOUS
  <2>2. n - x \in T
    BY <2>1
  <2> QED BY <2>2
<1>2. PICK k \in T : \A j \in T : k <= j
  BY <1>1, LeastOf
<1>3. PICK x \in s : k = n - x
  BY <1>2
<1>4. \A y \in s : n - y \in T
  OBVIOUS
<1>5. \A y \in s : x >= y
  BY <1>2, <1>3, <1>4
<1> QED BY <1>3, <1>5 DEF Greatest

\* Of the first i + 1 numbers the greatest leaves the first i.
Prefix(i) == Greatest(1..(i + 1)) = i + 1 /\ (1..(i + 1)) \ {i + 1} = 1..i /\ 1..(i + 1) # {}

LEMMA PrefixIs ==
  ASSUME NEW i \in Nat
  PROVE  Prefix(i)
<1>1. Greatest(1..(i + 1)) = i + 1
  <2> DEFINE s == 1..(i + 1)
             m == i + 1
  <2>1. m \in Nat /\ m \in s /\ \A y \in s : y \in Nat /\ y <= m
    OBVIOUS
  <2> HIDE DEF s, m
  <2>2. Greatest(s) = m
    BY <2>1, GreatestIs
  <2> QED BY <2>2 DEF s, m
<1> QED BY <1>1 DEF Prefix

\* A value carried along the members of a set of numbers, the greatest last: what a fold
\* of a sequence computes.
IsFolded(f, S, n, b, g) ==
  /\ f \in [SUBSET (1..n) -> S]
  /\ \A s \in SUBSET (1..n) :
       f[s] = IF s = {} THEN b ELSE g[<<Greatest(s), f[s \ {Greatest(s)}]>>]

LEMMA FoldExists ==
  ASSUME NEW S, NEW n \in Nat, NEW b \in S, NEW g \in [(1..n) \X S -> S]
  PROVE  \E f : IsFolded(f, S, n, b, g)
<1> DEFINE T == {m \in Nat : m <= n => \E f : IsFolded(f, S, m, b, g)}
<1>1. 0 \in T
  <2> DEFINE f == [s \in SUBSET (1..0) |-> b]
  <2>1. \A s \in SUBSET (1..0) : s = {}
    OBVIOUS
  <2>2. IsFolded(f, S, 0, b, g)
    BY <2>1 DEF IsFolded
  <2> QED BY <2>2
<1>2. ASSUME NEW m \in Nat, m \in T PROVE m + 1 \in T
  <2> SUFFICES ASSUME m + 1 <= n PROVE \E h : IsFolded(h, S, m + 1, b, g)
    OBVIOUS
  <2>1. PICK f : IsFolded(f, S, m, b, g)
    BY <1>2
  <2> DEFINE h == [s \in SUBSET (1..(m + 1)) |->
                     IF m + 1 \in s THEN g[<<m + 1, f[s \ {m + 1}]>>] ELSE f[s]]
  <2>2. \A s \in SUBSET (1..(m + 1)) : s \ {m + 1} \in SUBSET (1..m)
    OBVIOUS
  <2>3. \A s \in SUBSET (1..(m + 1)) : m + 1 \notin s => s \in SUBSET (1..m)
    OBVIOUS
  <2>4. h \in [SUBSET (1..(m + 1)) -> S]
    <3> SUFFICES ASSUME NEW s \in SUBSET (1..(m + 1)) PROVE h[s] \in S
      OBVIOUS
    <3>1. CASE m + 1 \in s
      <4>1. f[s \ {m + 1}] \in S /\ m + 1 \in 1..n
        BY <2>1, <2>2 DEF IsFolded
      <4> QED BY <3>1, <4>1
    <3>2. CASE m + 1 \notin s
      BY <2>1, <2>3, <3>2 DEF IsFolded
    <3> QED BY <3>1, <3>2
  <2>5. ASSUME NEW s \in SUBSET (1..(m + 1))
        PROVE  h[s] = IF s = {} THEN b ELSE g[<<Greatest(s), h[s \ {Greatest(s)}]>>]
    <3>1. CASE m + 1 \in s
      <4>1. Greatest(s) = m + 1
        <5>1. m + 1 \in Nat /\ \A y \in s : y \in Nat /\ y <= m + 1
          OBVIOUS
        <5> DEFINE k == m + 1
        <5>2. k \in Nat /\ k \in s /\ \A y \in s : y \in Nat /\ y <= k
          BY <3>1, <5>1
        <5> HIDE DEF k
        <5>3. Greatest(s) = k
          BY <5>2, GreatestIs
        <5> QED BY <5>3 DEF k
      <4>2. h[s \ {m + 1}] = f[s \ {m + 1}]
        BY <2>2
      <4> QED BY <3>1, <4>1, <4>2
    <3>2. CASE m + 1 \notin s
      <4>1. s \in SUBSET (1..m) /\ h[s] = f[s]
        BY <2>3, <3>2
      <4>2. CASE s = {}
        BY <2>1, <4>1, <4>2 DEF IsFolded
      <4>3. CASE s # {}
        <5>1. s \ {Greatest(s)} \in SUBSET (1..m) /\ s \ {Greatest(s)} \in SUBSET (1..(m + 1))
              /\ m + 1 \notin s \ {Greatest(s)}
          BY <3>2, <4>1
        <5>2. h[s \ {Greatest(s)}] = f[s \ {Greatest(s)}]
          BY <5>1
        <5> HIDE DEF h
        <5> QED BY <2>1, <4>1, <4>3, <5>2 DEF IsFolded
      <4> QED BY <4>2, <4>3
    <3> QED BY <3>1, <3>2
  <2> HIDE DEF h
  <2>6. IsFolded(h, S, m + 1, b, g)
    BY <2>4, <2>5 DEF IsFolded
  <2> QED BY <2>6
<1> HIDE DEF T
<1>3. n \in T
  BY <1>1, <1>2, Upward
<1> QED BY <1>3 DEF T

\* What a fold over the first n numbers walks through, and where it ends.
IsWalk(v, S, n, b, g) ==
  v \in [0..n -> S] /\ v[0] = b /\ \A i \in 1..n : v[i] = g[<<i, v[i - 1]>>]

IsIteration(iter, S, n, b, g) ==
  /\ iter[{}] = b
  /\ \A s \in SUBSET (1..n) : s # {} /\ iter[s \ {Greatest(s)}] \in S =>
                              iter[s] = g[<<Greatest(s), iter[s \ {Greatest(s)}]>>]

Walks(iter, S, n, b, g) == \E v : IsWalk(v, S, n, b, g) /\ v[n] = iter[1..n]

LEMMA FoldedAlong ==
  ASSUME NEW S, NEW n \in Nat, NEW b \in S, NEW g \in [(1..n) \X S -> S], NEW iter,
         IsIteration(iter, S, n, b, g)
  PROVE  Walks(iter, S, n, b, g)
<1> DEFINE v == [i \in 0..n |-> iter[1..i]]
           T == {i \in Nat : i <= n => /\ iter[1..i] \in S
                                       /\ i # 0 => iter[1..i] = g[<<i, iter[1..(i - 1)]>>]}
<1>1. 0 \in T
  <2>1. 1..0 = {}
    OBVIOUS
  <2> QED BY <2>1 DEF IsIteration
<1>2. ASSUME NEW i \in Nat, i \in T PROVE i + 1 \in T
  <2> SUFFICES ASSUME i + 1 <= n
               PROVE  iter[1..(i + 1)] \in S /\ iter[1..(i + 1)] = g[<<i + 1, iter[1..i]>>]
    <3>1. (i + 1) - 1 = i
      OBVIOUS
    <3> QED BY <3>1
  <2>1. Prefix(i) /\ 1..(i + 1) \in SUBSET (1..n) /\ i + 1 \in 1..n
    BY PrefixIs
  <2>2. iter[1..i] \in S
    BY <1>2
  <2>3. iter[1..(i + 1)] = g[<<i + 1, iter[1..i]>>]
    BY <2>1, <2>2 DEF Prefix, IsIteration
  <2>4. g[<<i + 1, iter[1..i]>>] \in S
    BY <2>1, <2>2
  <2> QED BY <2>3, <2>4
<1> HIDE DEF T
<1>3. \A i \in 0..n : i \in T
  BY <1>1, <1>2, Upward
<1>4. IsWalk(v, S, n, b, g)
  <2>1. v \in [0..n -> S]
    <3>1. \A i \in 0..n : iter[1..i] \in S
      <4> SUFFICES ASSUME NEW i \in 0..n PROVE iter[1..i] \in S
        OBVIOUS
      <4>1. i <= n /\ i \in T
        BY <1>3
      <4> QED BY <4>1 DEF T
    <3> QED BY <3>1
  <2>2. v[0] = b
    <3>1. 1..0 = {} /\ 0 \in 0..n
      OBVIOUS
    <3> QED BY <3>1 DEF IsIteration
  <2>3. ASSUME NEW i \in 1..n PROVE v[i] = g[<<i, v[i - 1]>>]
    <3>1. i \in 0..n /\ i - 1 \in 0..n /\ i # 0 /\ i <= n
      OBVIOUS
    <3>2. v[i] = iter[1..i] /\ v[i - 1] = iter[1..(i - 1)]
      BY <3>1
    <3> QED BY <1>3, <3>1, <3>2 DEF T
  <2> QED BY <2>1, <2>2, <2>3 DEF IsWalk
<1>5. v[n] = iter[1..n]
  OBVIOUS
<1> HIDE DEF v
<1> QED BY <1>4, <1>5 DEF Walks

-----------------------------------------------------------------------------
(* The calls: what operands come to, and the conditionals. *)

\* Scalars, the values of calls and the operands that are written.
Scalar == [kind : F!Kinds, num : Int, text : Nat]
Value == Scalar \cup [kind : {"array"}, arr : Seq(Scalar) \ {<<>>}]
Written == [form : {"scalar", "range", "array"}, cells : Seq(Scalar) \ {<<>>}]

LEMMA ErrorType ==
  ASSUME NEW n \in Int
  PROVE  F!Error(n) \in Scalar
BY DEF F!Error, Scalar, F!Kinds

LEMMA CellsShape ==
  ASSUME NEW s \in Seq(Scalar) \ {<<>>}
  PROVE  Len(s) \in Nat \ {0} /\ s[1] \in Scalar /\ DOMAIN s = 1..Len(s)
BY EmptySeq, ElementOfSeq, LenProperties

LEMMA KindOfScalar ==
  ASSUME NEW v \in Scalar
  PROVE  v.kind # "array"
BY DEF Scalar, F!Kinds

\* What an operand comes to is a value.
LEMMA EvalType ==
  ASSUME NEW op \in Written
  PROVE  F!Eval(op) \in Value
<1>1. op.cells \in Seq(Scalar) \ {<<>>}
  BY DEF Written
<1>2. op.cells[1] \in Scalar
  BY <1>1, CellsShape
<1>3. F!Error(F!VALUE) \in Scalar
  BY ErrorType DEF F!VALUE
<1>4. F!Array(op.cells) \in Value
  BY <1>1 DEF F!Array, Value
<1> QED BY <1>2, <1>3, <1>4 DEF F!Eval, Value

\* A value can be written as an operand that comes to it.
LEMMA OperandBack ==
  ASSUME NEW v \in Value
  PROVE  F!AsOperand(v) \in Written /\ F!Eval(F!AsOperand(v)) = v
<1>1. CASE v \in Scalar
  <2>1. v.kind # "array"
    BY <1>1, KindOfScalar
  <2>2. <<v>> \in Seq(Scalar) /\ Len(<<v>>) = 1 /\ <<v>>[1] = v /\ <<v>> # <<>>
    BY <1>1
  <2>3. F!AsOperand(v) = [form |-> "scalar", cells |-> <<v>>]
    BY <2>1 DEF F!AsOperand, F!Operand
  <2> QED BY <2>2, <2>3 DEF F!Eval, Written
<1>2. CASE v \in [kind : {"array"}, arr : Seq(Scalar) \ {<<>>}]
  <2>1. F!AsOperand(v) = [form |-> "array", cells |-> v.arr]
    BY <1>2 DEF F!AsOperand, F!Operand
  <2>2. v = [kind |-> "array", arr |-> v.arr]
    BY <1>2
  <2> QED BY <1>2, <2>1, <2>2 DEF F!Eval, F!Array, Written
<1> QED BY <1>1, <1>2 DEF Value

LEMMA ReducedType ==
  ASSUME NEW v \in Value
  PROVE  F!Reduced(v) \in Scalar /\ (v \in Scalar => F!Reduced(v) = v)
<1>1. CASE v \in Scalar
  BY <1>1, KindOfScalar DEF F!Reduced
<1>2. CASE v \in [kind : {"array"}, arr : Seq(Scalar) \ {<<>>}]
  BY <1>2, CellsShape, KindOfScalar DEF F!Reduced
<1> QED BY <1>1, <1>2 DEF Value

\* IF(c, v, w), of a value w.
LEMMA IfOf ==
  ASSUME NEW c \in Written, NEW v \in Written, NEW w \in Value
  PROVE  F!EvalIf(<<c, v, F!AsOperand(w)>>) =
           IF F!IsError(F!Reduced(F!Eval(c))) THEN F!Reduced(F!Eval(c))
           ELSE IF F!Truthy(F!Reduced(F!Eval(c))) THEN F!Eval(v) ELSE w
<1> DEFINE ops == <<c, v, F!AsOperand(w)>>
<1>1. Len(ops) = 3 /\ ops[1] = c /\ ops[2] = v /\ ops[3] = F!AsOperand(w)
  OBVIOUS
<1>2. F!Eval(F!AsOperand(w)) = w
  BY OperandBack
<1> HIDE DEF ops
<1>3. F!EvalIf(ops) = IF F!IsError(F!Reduced(F!Eval(c))) THEN F!Reduced(F!Eval(c))
           ELSE IF F!Truthy(F!Reduced(F!Eval(c))) THEN F!Eval(v) ELSE w
  BY <1>1, <1>2 DEF F!EvalIf
<1> QED BY <1>3 DEF ops

\* A boolean is its own condition.
LEMMA BoolCond ==
  ASSUME NEW b \in BOOLEAN, CallUnit \in Nat \ {0}
  PROVE  /\ F!BoolValue(b) \in Value
         /\ F!Reduced(F!Eval(F!AsOperand(F!BoolValue(b)))) = F!BoolValue(b)
         /\ ~F!IsError(F!BoolValue(b))
         /\ F!Truthy(F!BoolValue(b)) <=> b
<1> DEFINE v == F!BoolValue(b)
<1>1. v \in Scalar /\ v.kind = "bool" /\ v.num = IF b THEN CallUnit ELSE 0
  BY DEF F!BoolValue, Scalar, F!Kinds
<1>2. v \in Value
  BY <1>1 DEF Value
<1> HIDE DEF v
<1>3. F!Reduced(F!Eval(F!AsOperand(v))) = v
  BY <1>1, <1>2, OperandBack, ReducedType
<1>4. ~F!IsError(v) /\ (F!Truthy(v) <=> b)
  BY <1>1 DEF F!IsError, F!Truthy, F!Numericish
<1> QED BY <1>2, <1>3, <1>4 DEF v

\* The first n operands left out.
LEMMA WithoutShape ==
  ASSUME NEW ops \in Seq(Written), NEW n \in Nat, n <= Len(ops)
  PROVE  /\ F!Without(ops, n) \in Seq(Written) /\ Len(F!Without(ops, n)) = Len(ops) - n
         /\ \A i \in 1..(Len(ops) - n) : F!Without(ops, n)[i] = ops[i + n]
<1>1. Len(ops) \in Nat /\ \A i \in (n + 1)..Len(ops) : ops[i] \in Written
  BY ElementOfSeq, LenProperties
<1>2. /\ SubSeq(ops, n + 1, Len(ops)) \in Seq(Written)
      /\ Len(SubSeq(ops, n + 1, Len(ops))) = IF n + 1 <= Len(ops) THEN Len(ops) - (n + 1) + 1 ELSE 0
      /\ \A i \in 1..(Len(ops) - (n + 1) + 1) : SubSeq(ops, n + 1, Len(ops))[i] = ops[(n + 1) + i - 1]
  BY <1>1, SubSeqProperties
<1> QED BY <1>1, <1>2 DEF F!Without

\* The condition of a pair of IFS, and the pairs that end it.
Cond(ops, i) == F!Reduced(F!Eval(ops[2 * i - 1]))
Stops(ops) == {i \in 1..(Len(ops) \div 2) : F!IsError(Cond(ops, i)) \/ F!Truthy(Cond(ops, i))}

LEMMA IfsIs ==
  ASSUME NEW ops, Len(ops) \in Nat, Len(ops) >= 2, Len(ops) % 2 = 0
  PROVE  /\ Stops(ops) = {} => F!EvalIfs(ops) = F!Error(F!NA)
         /\ \A m \in Stops(ops) : (\A k \in Stops(ops) : m <= k) =>
              F!EvalIfs(ops) = IF F!IsError(Cond(ops, m)) THEN Cond(ops, m) ELSE F!Eval(ops[2 * m])
<1>1. ~(Len(ops) < 2 \/ Len(ops) % 2 # 0)
  OBVIOUS
<1>2. ASSUME Stops(ops) = {} PROVE F!EvalIfs(ops) = F!Error(F!NA)
  BY <1>1, <1>2 DEF F!EvalIfs, Stops, Cond
<1>3. ASSUME NEW m \in Stops(ops), \A k \in Stops(ops) : m <= k
      PROVE  F!EvalIfs(ops) = IF F!IsError(Cond(ops, m)) THEN Cond(ops, m) ELSE F!Eval(ops[2 * m])
  <2>1. Stops(ops) \in SUBSET Nat
    BY DEF Stops
  <2>2. (CHOOSE i \in Stops(ops) : \A j \in Stops(ops) : i <= j) = m
    BY <1>3, <2>1, LeastIs
  <2>3. Stops(ops) # {}
    BY <1>3
  <2>4. F!EvalIfs(ops) =
          LET i == CHOOSE i \in Stops(ops) : \A j \in Stops(ops) : i <= j
          IN  IF Len(ops) < 2 \/ Len(ops) % 2 # 0 THEN F!Error(F!VALUE)
              ELSE IF Stops(ops) = {} THEN F!Error(F!NA)
              ELSE IF F!IsError(Cond(ops, i)) THEN Cond(ops, i) ELSE F!Eval(ops[2 * i])
    BY Zenon DEF F!EvalIfs, Stops, Cond
  <2> QED BY <1>1, <2>2, <2>3, <2>4, Zenon
<1> QED BY <1>2, <1>3

\* IFS(c, v, ...) is IF(c, v, IFS(...)).
LEMMA IfsUnrolls ==
  ASSUME NEW ops \in Seq(Written), Len(ops) >= 2, Len(ops) % 2 = 0
  PROVE  LET c == F!Reduced(F!Eval(ops[1])) IN
         F!EvalIfs(ops) = IF F!IsError(c) THEN c ELSE IF F!Truthy(c) THEN F!Eval(ops[2])
                          ELSE IF Len(ops) = 2 THEN F!Error(F!NA) ELSE F!EvalIfs(F!Without(ops, 2))
<1> DEFINE rest == F!Without(ops, 2)
           n == Len(ops) \div 2
<1>1. /\ Len(ops) \in Nat /\ n \in Nat /\ n >= 1 /\ Len(ops) = 2 * n
      /\ Cond(ops, 1) = F!Reduced(F!Eval(ops[1]))
  BY LenProperties DEF Cond
<1>2. /\ Len(rest) = Len(ops) - 2 /\ Len(rest) \in Nat /\ Len(rest) \div 2 = n - 1
      /\ \A i \in 1..(n - 1) : Cond(rest, i) = Cond(ops, i + 1) /\ rest[2 * i] = ops[2 * (i + 1)]
  <2>1. Len(rest) = Len(ops) - 2 /\ \A i \in 1..(Len(ops) - 2) : rest[i] = ops[i + 2]
    BY <1>1, WithoutShape
  <2>2. ASSUME NEW i \in 1..(n - 1)
        PROVE  rest[2 * i - 1] = ops[2 * (i + 1) - 1] /\ rest[2 * i] = ops[2 * (i + 1)]
    <3>1. 2 * i - 1 \in 1..(Len(ops) - 2) /\ 2 * i \in 1..(Len(ops) - 2)
          /\ (2 * i - 1) + 2 = 2 * (i + 1) - 1 /\ 2 * i + 2 = 2 * (i + 1)
      BY <1>1
    <3> QED BY <2>1, <3>1
  <2>3. Len(rest) = 2 * (n - 1) /\ n - 1 \in Nat
    BY <1>1, <2>1
  <2>4. Len(rest) \in Nat /\ Len(rest) \div 2 = n - 1
    <3> DEFINE k == n - 1
    <3>1. k \in Nat => (2 * k) \div 2 = k
      <4> HIDE DEF k
      <4> QED OBVIOUS
    <3> QED BY <2>3, <3>1
  <2> HIDE DEF n, rest
  <2>5. \A i \in 1..(n - 1) : Cond(rest, i) = Cond(ops, i + 1)
    BY <2>2 DEF Cond
  <2> QED BY <1>1, <2>1, <2>2, <2>4, <2>5
<1> HIDE DEF rest
<1>3. \A i \in Nat : i \in Stops(rest) <=> (i >= 1 /\ i + 1 \in Stops(ops))
  BY <1>1, <1>2 DEF Stops
<1>4. CASE 1 \in Stops(ops)
  <2>1. \A k \in Stops(ops) : 1 <= k
    BY DEF Stops
  <2>2. F!EvalIfs(ops) = IF F!IsError(Cond(ops, 1)) THEN Cond(ops, 1) ELSE F!Eval(ops[2])
    BY <1>1, <1>4, <2>1, IfsIs
  <2>3. F!IsError(Cond(ops, 1)) \/ F!Truthy(Cond(ops, 1))
    BY <1>4 DEF Stops
  <2> QED BY <1>1, <2>2, <2>3
<1>5. CASE 1 \notin Stops(ops)
  <2>1. ~F!IsError(Cond(ops, 1)) /\ ~F!Truthy(Cond(ops, 1))
    BY <1>1, <1>5 DEF Stops
  <2>2. CASE Stops(ops) = {}
    <3>1. F!EvalIfs(ops) = F!Error(F!NA)
      BY <1>1, <2>2, IfsIs
    <3>2. Stops(rest) = {}
      BY <1>3, <2>2 DEF Stops
    <3>3. Len(ops) # 2 => F!EvalIfs(rest) = F!Error(F!NA)
      <4>1. Len(ops) # 2 => Len(rest) >= 2 /\ Len(rest) % 2 = 0
        BY <1>1, <1>2
      <4> QED BY <3>2, <4>1, <1>2, IfsIs
    <3> QED BY <1>1, <2>1, <3>1, <3>3 DEF rest
  <2>3. CASE Stops(ops) # {}
    <3>1. Stops(ops) \in SUBSET Nat
      BY DEF Stops
    <3>2. PICK m \in Stops(ops) : \A k \in Stops(ops) : m <= k
      BY <2>3, <3>1, LeastOf
    <3>3. m \in Nat /\ m >= 2 /\ m <= n /\ Len(ops) # 2 /\ Len(rest) >= 2 /\ Len(rest) % 2 = 0
      <4>1. m \in 1..n /\ m # 1
        BY <1>5, <3>2 DEF Stops
      <4> HIDE DEF n
      <4>2. m \in Nat /\ m >= 2 /\ m <= n /\ Len(ops) >= 4
        BY <1>1, <4>1
      <4> QED BY <1>1, <1>2, <4>2
    <3>4. m - 1 \in Stops(rest) /\ \A k \in Stops(rest) : m - 1 <= k
      <4>1. m - 1 \in Stops(rest)
        BY <1>3, <3>2, <3>3
      <4>2. ASSUME NEW k \in Stops(rest) PROVE m - 1 <= k
        <5>1. k \in Nat /\ k + 1 \in Stops(ops)
          BY <1>3 DEF Stops
        <5> QED BY <3>2, <3>3, <5>1
      <4> QED BY <4>1, <4>2
    <3>5. F!EvalIfs(ops) = IF F!IsError(Cond(ops, m)) THEN Cond(ops, m) ELSE F!Eval(ops[2 * m])
      BY <1>1, <3>2, IfsIs
    <3>6. F!EvalIfs(rest) = IF F!IsError(Cond(rest, m - 1)) THEN Cond(rest, m - 1)
                            ELSE F!Eval(rest[2 * (m - 1)])
      BY <1>2, <3>3, <3>4, IfsIs
    <3>7. m - 1 \in 1..(n - 1) /\ (m - 1) + 1 = m
      BY <1>1, <3>3
    <3>8. Cond(rest, m - 1) = Cond(ops, m) /\ rest[2 * (m - 1)] = ops[2 * m]
      BY <1>2, <3>7
    <3> QED BY <1>1, <2>1, <3>3, <3>5, <3>6, <3>8 DEF rest
  <2> QED BY <2>2, <2>3
<1> QED BY <1>4, <1>5

LEMMA IfsType ==
  ASSUME NEW ops \in Seq(Written)
  PROVE  F!EvalIfs(ops) \in Value
<1>0. Len(ops) \in Nat /\ F!Error(F!VALUE) \in Value /\ F!Error(F!NA) \in Value
  BY ErrorType, LenProperties DEF Value, F!VALUE, F!NA
<1>1. CASE Len(ops) < 2 \/ Len(ops) % 2 # 0
  BY <1>0, <1>1 DEF F!EvalIfs
<1>2. CASE Len(ops) >= 2 /\ Len(ops) % 2 = 0
  <2>1. CASE Stops(ops) = {}
    BY <1>0, <1>2, <2>1, IfsIs
  <2>2. CASE Stops(ops) # {}
    <3>1. Stops(ops) \in SUBSET Nat
      BY DEF Stops
    <3>2. PICK m \in Stops(ops) : \A k \in Stops(ops) : m <= k
      BY <2>2, <3>1, LeastOf
    <3>3. 2 * m \in 1..Len(ops) /\ 2 * m - 1 \in 1..Len(ops)
      BY <1>0, <3>2 DEF Stops
    <3>4. Cond(ops, m) \in Value /\ F!Eval(ops[2 * m]) \in Value
      BY <3>3, ElementOfSeq, EvalType, ReducedType DEF Cond, Value
    <3> QED BY <1>0, <1>2, <3>2, <3>4, IfsIs
  <2> QED BY <2>1, <2>2
<1> QED BY <1>0, <1>1, <1>2

\* The cases of SWITCH that equal its subject.
Hits(ops) == {i \in 1..((Len(ops) - 1) \div 2) : F!EqualValues(F!Eval(ops[1]), F!Eval(ops[2 * i]))}

\* What SWITCH answers when no case does.
Default(ops) == IF Len(ops) % 2 = 0 THEN F!Eval(ops[Len(ops)]) ELSE F!Error(F!NA)

LEMMA SwitchIs ==
  ASSUME NEW ops, Len(ops) \in Nat, Len(ops) >= 3, ~F!IsError(F!Eval(ops[1]))
  PROVE  /\ Hits(ops) = {} => F!EvalSwitch(ops) = Default(ops)
         /\ \A m \in Hits(ops) : (\A k \in Hits(ops) : m <= k) =>
              F!EvalSwitch(ops) = F!Eval(ops[2 * m + 1])
<1>1. ~(Len(ops) < 3)
  OBVIOUS
<1>2. F!EvalSwitch(ops) =
        LET i == CHOOSE i \in Hits(ops) : \A j \in Hits(ops) : i <= j
        IN  IF Len(ops) < 3 THEN F!Error(F!VALUE)
            ELSE IF F!IsError(F!Eval(ops[1])) THEN F!Eval(ops[1])
            ELSE IF Hits(ops) # {} THEN F!Eval(ops[2 * i + 1]) ELSE Default(ops)
  BY Zenon DEF F!EvalSwitch, Hits, Default, F!Last
<1>3. ASSUME NEW m \in Hits(ops), \A k \in Hits(ops) : m <= k
      PROVE  F!EvalSwitch(ops) = F!Eval(ops[2 * m + 1])
  <2>1. Hits(ops) \in SUBSET Nat
    BY DEF Hits
  <2>2. (CHOOSE i \in Hits(ops) : \A j \in Hits(ops) : i <= j) = m
    BY <1>3, <2>1, LeastIs
  <2>3. Hits(ops) # {}
    BY <1>3
  <2> QED BY <1>1, <1>2, <2>2, <2>3, Zenon
<1> QED BY <1>1, <1>2, <1>3, Zenon

\* The subject and the operands after the first case and its answer.
LEMMA NextCases ==
  ASSUME NEW ops \in Seq(Written), Len(ops) >= 4
  PROVE  LET rest == <<ops[1]>> \o F!Without(ops, 3) IN
         /\ rest \in Seq(Written) /\ Len(rest) = Len(ops) - 2 /\ rest[1] = ops[1]
         /\ \A i \in 2..(Len(ops) - 2) : rest[i] = ops[i + 2]
<1> DEFINE most == F!Without(ops, 3)
           one == <<ops[1]>>
<1>1. Len(ops) \in Nat /\ ops[1] \in Written /\ 3 \in Nat /\ 3 <= Len(ops)
  BY ElementOfSeq, LenProperties
<1>2. /\ most \in Seq(Written) /\ Len(most) = Len(ops) - 3
      /\ \A i \in 1..(Len(ops) - 3) : most[i] = ops[i + 3]
  BY <1>1, WithoutShape
<1>3. one \in Seq(Written) /\ Len(one) = 1 /\ one[1] = ops[1]
  BY <1>1
<1> HIDE DEF most, one
<1>4. /\ one \o most \in Seq(Written) /\ Len(one \o most) = 1 + (Len(ops) - 3)
      /\ \A i \in 1..(1 + (Len(ops) - 3)) :
           (one \o most)[i] = IF i <= 1 THEN one[i] ELSE most[i - 1]
  <2>1. /\ one \o most \in Seq(Written) /\ Len(one \o most) = Len(one) + Len(most)
        /\ \A i \in 1..(Len(one) + Len(most)) :
             (one \o most)[i] = IF i <= Len(one) THEN one[i] ELSE most[i - Len(one)]
    BY <1>2, <1>3, ConcatProperties
  <2> QED BY <1>2, <1>3, <2>1
<1>5. \A i \in 2..(Len(ops) - 2) : (one \o most)[i] = ops[i + 2]
  <2> TAKE i \in 2..(Len(ops) - 2)
  <2>1. i - 1 \in 1..(Len(ops) - 3) /\ (i - 1) + 3 = i + 2 /\ ~(i <= 1)
        /\ i \in 1..(1 + (Len(ops) - 3))
    BY <1>1
  <2> QED BY <1>2, <1>4, <2>1
<1> QED BY <1>1, <1>3, <1>4, <1>5 DEF most, one

\* SWITCH(s, c, v, ...) is IF(s = c, v, SWITCH(s, ...)).
LEMMA SwitchUnrolls ==
  ASSUME NEW ops \in Seq(Written), Len(ops) >= 3, ~F!IsError(F!Eval(ops[1]))
  PROVE  F!EvalSwitch(ops) =
           IF F!EqualValues(F!Eval(ops[1]), F!Eval(ops[2])) THEN F!Eval(ops[3])
           ELSE IF Len(ops) = 3 THEN F!Error(F!NA) ELSE IF Len(ops) = 4 THEN F!Eval(ops[4])
           ELSE F!EvalSwitch(<<ops[1]>> \o F!Without(ops, 3))
<1> DEFINE rest == <<ops[1]>> \o F!Without(ops, 3)
           n == (Len(ops) - 1) \div 2
<1>1. Len(ops) \in Nat /\ n \in Nat /\ n >= 1 /\ (Len(ops) = 2 * n + 1 \/ Len(ops) = 2 * n + 2)
  BY LenProperties
<1>2. Hits(ops) \in SUBSET Nat /\ Hits(ops) \subseteq 1..n
  BY DEF Hits
<1>3. 1 \in Hits(ops) <=> F!EqualValues(F!Eval(ops[1]), F!Eval(ops[2]))
  BY <1>1 DEF Hits
<1>4. CASE 1 \in Hits(ops)
  <2>1. \A k \in Hits(ops) : 1 <= k
    BY <1>2
  <2>2. F!EvalSwitch(ops) = F!Eval(ops[2 * 1 + 1])
    BY <1>1, <1>4, <2>1, SwitchIs
  <2> QED BY <1>3, <1>4, <2>2
<1>5. CASE 1 \notin Hits(ops) /\ n = 1
  <2>1. Hits(ops) = {}
    BY <1>2, <1>5
  <2>2. F!EvalSwitch(ops) = Default(ops)
    BY <1>1, <2>1, SwitchIs
  <2> HIDE DEF n
  <2>3. (Len(ops) = 3 /\ Len(ops) % 2 # 0) \/ (Len(ops) = 4 /\ Len(ops) % 2 = 0)
    <3>1. 3 % 2 # 0 /\ 4 % 2 = 0 /\ 2 * 1 + 1 = 3 /\ 2 * 1 + 2 = 4
      OBVIOUS
    <3>2. Len(ops) = 2 * 1 + 1 \/ Len(ops) = 2 * 1 + 2
      BY <1>1, <1>5
    <3> QED BY <3>1, <3>2
  <2> QED BY <1>3, <1>5, <2>2, <2>3 DEF Default
<1>6. CASE 1 \notin Hits(ops) /\ n > 1
  <2>1. /\ rest \in Seq(Written) /\ Len(rest) = Len(ops) - 2 /\ rest[1] = ops[1]
        /\ \A i \in 2..(Len(ops) - 2) : rest[i] = ops[i + 2]
    BY <1>1, <1>6, NextCases
  <2> HIDE DEF rest
  <2>2. Len(rest) \in Nat /\ Len(rest) >= 3 /\ Len(ops) >= 5 /\ ~F!IsError(F!Eval(rest[1]))
    BY <1>1, <1>6, <2>1
  <2>3. (Len(rest) - 1) \div 2 = n - 1
    <3>1. Len(rest) - 1 = 2 * (n - 1) \/ Len(rest) - 1 = 2 * (n - 1) + 1
      BY <1>1, <2>1
    <3>2. \A k \in Nat : (2 * k) \div 2 = k /\ (2 * k + 1) \div 2 = k
      OBVIOUS
    <3>3. n - 1 \in Nat
      BY <1>1
    <3> QED BY <3>1, <3>2, <3>3
  <2> HIDE DEF n
  <2>4. \A i \in 1..(n - 1) : rest[2 * i] = ops[2 * (i + 1)] /\ rest[2 * i + 1] = ops[2 * (i + 1) + 1]
    <3> TAKE i \in 1..(n - 1)
    <3>1. 2 * i \in 2..(Len(ops) - 2) /\ 2 * i + 1 \in 2..(Len(ops) - 2)
          /\ 2 * i + 2 = 2 * (i + 1) /\ (2 * i + 1) + 2 = 2 * (i + 1) + 1
      BY <1>1
    <3> QED BY <2>1, <3>1
  <2>5. Hits(ops) = {i \in 1..n : F!EqualValues(F!Eval(ops[1]), F!Eval(ops[2 * i]))}
        /\ Hits(rest) = {i \in 1..(n - 1) : F!EqualValues(F!Eval(rest[1]), F!Eval(rest[2 * i]))}
    BY <2>3 DEF Hits, n
  <2>6. \A i \in Nat : i \in Hits(rest) <=> (i >= 1 /\ i + 1 \in Hits(ops))
    <3> TAKE i \in Nat
    <3>1. i \in Hits(rest) <=> (i \in 1..(n - 1) /\ F!EqualValues(F!Eval(ops[1]), F!Eval(ops[2 * (i + 1)])))
      BY <2>1, <2>4, <2>5
    <3>2. i + 1 \in Hits(ops) <=> (i + 1 \in 1..n /\ F!EqualValues(F!Eval(ops[1]), F!Eval(ops[2 * (i + 1)])))
      BY <2>5
    <3>3. i \in 1..(n - 1) <=> (i >= 1 /\ i + 1 \in 1..n)
      BY <1>1
    <3> QED BY <3>1, <3>2, <3>3
  <2>7. F!EvalSwitch(ops) = F!EvalSwitch(rest)
    <3>1. CASE Hits(ops) = {}
      <4>1. Hits(rest) = {}
        <5>1. Hits(rest) \subseteq Nat
          BY <1>1, <2>5
        <5> QED BY <2>6, <3>1, <5>1
      <4>2. F!EvalSwitch(ops) = Default(ops) /\ F!EvalSwitch(rest) = Default(rest)
        BY <1>1, <2>2, <3>1, <4>1, SwitchIs
      <4>3. Len(rest) % 2 = Len(ops) % 2 /\ rest[Len(rest)] = ops[Len(ops)]
        <5>1. Len(rest) \in 2..(Len(ops) - 2) /\ Len(rest) + 2 = Len(ops)
          BY <1>1, <2>1, <2>2
        <5> QED BY <1>1, <2>1, <5>1
      <4> QED BY <4>2, <4>3 DEF Default
    <3>2. CASE Hits(ops) # {}
      <4>1. PICK m \in Hits(ops) : \A k \in Hits(ops) : m <= k
        BY <1>2, <3>2, LeastOf
      <4>2. m \in Nat /\ m - 1 \in 1..(n - 1) /\ (m - 1) + 1 = m
        BY <1>1, <1>2, <1>6, <4>1
      <4>3. m - 1 \in Hits(rest) /\ \A k \in Hits(rest) : m - 1 <= k
        <5>1. m - 1 \in Hits(rest)
          BY <2>6, <4>1, <4>2
        <5>2. ASSUME NEW k \in Hits(rest) PROVE m - 1 <= k
          <6>1. k \in Nat /\ k + 1 \in Hits(ops)
            <7>1. Hits(rest) \subseteq Nat
              BY <1>1, <2>5
            <7> QED BY <2>6, <7>1
          <6> QED BY <4>1, <4>2, <6>1
        <5> QED BY <5>1, <5>2
      <4>4. F!EvalSwitch(ops) = F!Eval(ops[2 * m + 1])
        BY <1>1, <4>1, SwitchIs
      <4>5. F!EvalSwitch(rest) = F!Eval(rest[2 * (m - 1) + 1])
        BY <2>2, <4>3, SwitchIs
      <4> QED BY <2>4, <4>2, <4>4, <4>5
    <3> QED BY <3>1, <3>2
  <2>8. Len(ops) # 3 /\ Len(ops) # 4
    <3>1. \A k \in Nat : k >= 5 => k # 3 /\ k # 4
      OBVIOUS
    <3> QED BY <1>1, <2>2, <3>1
  <2> QED BY <1>3, <1>6, <2>7, <2>8 DEF rest
<1> QED BY <1>1, <1>4, <1>5, <1>6

LEMMA SwitchType ==
  ASSUME NEW ops \in Seq(Written)
  PROVE  F!EvalSwitch(ops) \in Value
<1>0. Len(ops) \in Nat /\ F!Error(F!VALUE) \in Value /\ F!Error(F!NA) \in Value
  BY ErrorType, LenProperties DEF Value, F!VALUE, F!NA
<1>1. CASE Len(ops) < 3
  BY <1>0, <1>1 DEF F!EvalSwitch
<1>2. CASE Len(ops) >= 3 /\ F!IsError(F!Eval(ops[1]))
  <2>1. F!Eval(ops[1]) \in Value
    BY <1>0, <1>2, ElementOfSeq, EvalType
  <2> QED BY <1>0, <1>2, <2>1 DEF F!EvalSwitch
<1>3. CASE Len(ops) >= 3 /\ ~F!IsError(F!Eval(ops[1]))
  <2>1. CASE Hits(ops) = {}
    <3>1. F!Eval(ops[Len(ops)]) \in Value
      BY <1>0, <1>3, ElementOfSeq, EvalType
    <3> QED BY <1>0, <1>3, <2>1, <3>1, SwitchIs DEF Default
  <2>2. CASE Hits(ops) # {}
    <3>1. Hits(ops) \in SUBSET Nat
      BY DEF Hits
    <3>2. PICK m \in Hits(ops) : \A k \in Hits(ops) : m <= k
      BY <2>2, <3>1, LeastOf
    <3>3. 2 * m + 1 \in 1..Len(ops)
      BY <1>0, <3>2 DEF Hits
    <3>4. F!Eval(ops[2 * m + 1]) \in Value
      BY <3>3, ElementOfSeq, EvalType
    <3> QED BY <1>0, <1>3, <3>2, <3>4, SwitchIs
  <2> QED BY <2>1, <2>2
<1> QED BY <1>0, <1>1, <1>2, <1>3

\* The operands of a call are operands, and its value is what they come to.
CallInv == owner = "calls" => args \in Seq(Written) /\ val = F!EvalCall(name, args)

LEMMA OperandsAreWritten == Operands \subseteq Written
BY InputsAssumption DEF F!OperandsAreCells, Written, Scalar

LEMMA HalvesWritten ==
  ASSUME NEW op \in Written, NEW p \in 1..Len(op.cells), p < Len(op.cells)
  PROVE  /\ F!Operand(op.form, SubSeq(op.cells, 1, p)) \in Written
         /\ F!Operand(op.form, SubSeq(op.cells, p + 1, Len(op.cells))) \in Written
<1> DEFINE c == op.cells
<1>1. c \in Seq(Scalar) \ {<<>>} /\ Len(c) \in Nat /\ p \in Int /\ p + 1 \in Int /\ 1 \in Int
      /\ \A i \in 1..Len(c) : c[i] \in Scalar
  BY CellsShape, ElementOfSeq DEF Written
<1> HIDE DEF c
<1>2. /\ SubSeq(c, 1, p) \in Seq(Scalar) /\ Len(SubSeq(c, 1, p)) = IF 1 <= p THEN p - 1 + 1 ELSE 0
  <2>1. \A i \in 1..p : c[i] \in Scalar
    BY <1>1 DEF c
  <2> QED BY <1>1, <2>1, SubSeqProperties
<1>3. /\ SubSeq(c, p + 1, Len(c)) \in Seq(Scalar)
      /\ Len(SubSeq(c, p + 1, Len(c))) = IF p + 1 <= Len(c) THEN Len(c) - (p + 1) + 1 ELSE 0
  <2>1. \A i \in (p + 1)..Len(c) : c[i] \in Scalar
    BY <1>1 DEF c
  <2> QED BY <1>1, <2>1, SubSeqProperties
<1>4. SubSeq(c, 1, p) # <<>> /\ SubSeq(c, p + 1, Len(c)) # <<>>
  <2>1. Len(SubSeq(c, 1, p)) # 0 /\ Len(SubSeq(c, p + 1, Len(c))) # 0
    BY <1>1, <1>2, <1>3 DEF c
  <2>2. Len(<<>>) = 0
    OBVIOUS
  <2> QED BY <2>1, <2>2
<1> QED BY <1>2, <1>3, <1>4 DEF Written, F!Operand, c

LEMMA SplitWritten ==
  ASSUME NEW s \in Seq(Written), NEW i \in 1..Len(s), NEW a \in Written, NEW b \in Written
  PROVE  SubSeq(s, 1, i - 1) \o <<a, b>> \o SubSeq(s, i + 1, Len(s)) \in Seq(Written)
<1>1. Len(s) \in Nat /\ \A j \in 1..Len(s) : s[j] \in Written
  BY ElementOfSeq, LenProperties
<1>2. SubSeq(s, 1, i - 1) \in Seq(Written) /\ SubSeq(s, i + 1, Len(s)) \in Seq(Written)
  <2>1. \A j \in 1..(i - 1) : s[j] \in Written
    BY <1>1
  <2>2. \A j \in (i + 1)..Len(s) : s[j] \in Written
    BY <1>1
  <2> QED BY <1>1, <2>1, <2>2, SubSeqProperties
<1>3. <<a, b>> \in Seq(Written)
  OBVIOUS
<1> QED BY <1>2, <1>3, ConcatProperties

LEMMA CallInvariance == Spec => []CallInv
<1>1. Init => CallInv
  <2> SUFFICES ASSUME Init, owner = "calls" PROVE args \in Seq(Written) /\ val = F!EvalCall(name, args)
    BY DEF CallInv
  <2>1. F!Init
    BY DEF Init
  <2> QED BY <2>1, EmptySeq DEF F!Init
<1>2. CallInv /\ [Next]_vars => CallInv'
  <2> SUFFICES ASSUME CallInv, [Next]_vars, owner' = "calls"
               PROVE  args' \in Seq(Written) /\ val' = F!EvalCall(name', args')
    BY DEF CallInv
  <2>1. CASE UNCHANGED vars
    BY <2>1 DEF vars, CallInv
  <2>2. CASE Next
    <3>1. owner = "calls" /\ F!Next
      BY <2>2 DEF Next, ArrayStep, LimitStep, ImportStep, ColumnStep, CallStep, DateStep, AddressStep, TextStep
    <3>2. args \in Seq(Written) /\ DOMAIN args = 1..Len(args)
      BY <3>1, LenProperties DEF CallInv
    <3>3. CASE \E op \in Operands : F!AddArgument(op)
      <4>1. PICK op \in Operands : F!AddArgument(op)
        BY <3>3
      <4> QED BY <3>2, <4>1, OperandsAreWritten, AppendProperties DEF F!AddArgument, F!Becomes
    <3>4. CASE \E i \in DOMAIN args : \E p \in 1..Len(args[i].cells) : F!Split(i, p)
      <4>0. PICK i \in 1..Len(args) : \E p \in 1..Len(args[i].cells) : F!Split(i, p)
        BY <3>2, <3>4
      <4>1. PICK p \in 1..Len(args[i].cells) : F!Split(i, p)
        BY <4>0
      <4>2. args[i] \in Written
        BY <3>2, ElementOfSeq
      <4>3. /\ F!Operand(args[i].form, SubSeq(args[i].cells, 1, p)) \in Written
            /\ F!Operand(args[i].form, SubSeq(args[i].cells, p + 1, Len(args[i].cells))) \in Written
        BY <4>1, <4>2, HalvesWritten DEF F!Split
      <4> QED BY <3>2, <4>1, <4>3, SplitWritten DEF F!Split, F!Becomes
    <3> QED BY <3>1, <3>3, <3>4 DEF F!Next
  <2> QED BY <2>1, <2>2
<1> QED BY <1>1, <1>2, PTL DEF Spec

\* IFERROR and IFNA of two operands.
LEMMA IferrorUnrolls ==
  ASSUME NEW ops \in Seq(Written), Len(ops) = 2, NEW isNAOnly \in BOOLEAN
  PROVE  LET test == IF isNAOnly THEN "isna" ELSE "iserror" IN
         F!EvalIferror(ops, isNAOnly) =
           F!EvalIf(<<F!AsOperand(F!EvalInspector(test, SubSeq(ops, 1, 1))), ops[2],
                      F!AsOperand(F!Eval(ops[1]))>>)
<1> DEFINE b == F!Caught(F!Eval(ops[1]), isNAOnly)
           test == IF isNAOnly THEN "isna" ELSE "iserror"
<1>1. b \in BOOLEAN
  BY DEF F!Caught, F!IsError
<1>2. ops[1] \in Written /\ ops[2] \in Written /\ F!Eval(ops[1]) \in Value
  BY ElementOfSeq, EvalType
<1>3. Len(SubSeq(ops, 1, 1)) = 1 /\ SubSeq(ops, 1, 1)[1] = ops[1]
  <2>1. \A i \in 1..1 : ops[i] \in Written
    BY <1>2
  <2> QED BY <2>1, SubSeqProperties
<1>4. F!EvalInspector(test, SubSeq(ops, 1, 1)) = F!BoolValue(b)
  <2> DEFINE s == SubSeq(ops, 1, 1)
  <2>1. Len(s) = 1 /\ s[1] = ops[1]
    BY <1>3
  <2> HIDE DEF s
  <2>2. F!EvalInspector("isna", s) = F!BoolValue(F!IsError(F!Eval(s[1])) /\ F!Eval(s[1]).num = F!NA)
    BY <2>1 DEF F!EvalInspector
  <2>3. F!EvalInspector("iserror", s) = F!BoolValue(F!IsError(F!Eval(s[1])))
    BY <2>1 DEF F!EvalInspector
  <2>4. CASE isNAOnly
    <3>1. b = (F!IsError(F!Eval(s[1])) /\ F!Eval(s[1]).num = F!NA)
      BY <2>1, <2>4 DEF F!Caught, F!IsError
    <3>2. test = "isna"
      BY <2>4
    <3> HIDE DEF b, test
    <3> QED BY <2>2, <3>1, <3>2 DEF s
  <2>5. CASE ~isNAOnly
    <3>1. b = F!IsError(F!Eval(s[1]))
      BY <2>1, <2>5 DEF F!Caught, F!IsError
    <3>2. test = "iserror"
      BY <2>5
    <3> HIDE DEF b, test
    <3> QED BY <2>3, <3>1, <3>2 DEF s
  <2> QED BY <2>4, <2>5
<1>5. F!EvalIferror(ops, isNAOnly) = IF b THEN F!Eval(ops[2]) ELSE F!Eval(ops[1])
  BY DEF F!EvalIferror
<1> HIDE DEF b, test
<1>6. CallUnit \in Nat \ {0}
  BY InputsAssumption DEF F!UnitIsPositive
<1>7. F!AsOperand(F!BoolValue(b)) \in Written
  BY <1>1, <1>6, BoolCond, OperandBack
<1>8. F!EvalIf(<<F!AsOperand(F!BoolValue(b)), ops[2], F!AsOperand(F!Eval(ops[1]))>>)
        = IF b THEN F!Eval(ops[2]) ELSE F!Eval(ops[1])
  BY <1>1, <1>2, <1>6, <1>7, BoolCond, IfOf
<1> QED BY <1>4, <1>5, <1>8 DEF test

\* Every conditional is the nest of IFs it abbreviates.
THEOREM NestsOfIfs == Spec => []ConditionalsAreNestedIfs
<1>1. CallInv => ConditionalsAreNestedIfs
  <2> SUFFICES ASSUME CallInv, owner = "calls" PROVE F!ConditionalsAreNestedIfs
    BY DEF ConditionalsAreNestedIfs
  <2>1. args \in Seq(Written) /\ val = F!EvalCall(name, args) /\ Len(args) \in Nat
    BY LenProperties DEF CallInv
  <2>2. CallUnit \in Nat \ {0}
    BY InputsAssumption DEF F!UnitIsPositive
  <2>3. F!Error(F!NA) \in Value
    BY ErrorType DEF Value, F!NA
  <2>4. ASSUME name = "ifs", Len(args) > 0, Len(args) % 2 = 0
        PROVE  val = F!EvalIf(<<args[1], args[2],
                     F!AsOperand(IF Len(args) = 2 THEN F!Error(F!NA) ELSE F!EvalIfs(F!Without(args, 2)))>>)
    <3> DEFINE w == IF Len(args) = 2 THEN F!Error(F!NA) ELSE F!EvalIfs(F!Without(args, 2))
    <3>1. val = F!EvalIfs(args)
      BY <2>1, <2>4 DEF F!EvalCall, F!Conditionals, F!EvalConditional
    <3>2. Len(args) >= 2
      BY <2>1, <2>4
    <3>3. args[1] \in Written /\ args[2] \in Written /\ w \in Value
      <4>1. Len(args) >= 2 /\ 2 \in Nat
        BY <3>2
      <4> QED BY <2>1, <2>3, <4>1, ElementOfSeq, WithoutShape, IfsType
    <3> HIDE DEF w
    <3>4. F!EvalIfs(args) = IF F!IsError(F!Reduced(F!Eval(args[1]))) THEN F!Reduced(F!Eval(args[1]))
                            ELSE IF F!Truthy(F!Reduced(F!Eval(args[1]))) THEN F!Eval(args[2]) ELSE w
      BY <2>1, <2>4, <3>2, IfsUnrolls DEF w
    <3>5. val = F!EvalIf(<<args[1], args[2], F!AsOperand(w)>>)
      BY <3>1, <3>3, <3>4, IfOf
    <3> QED BY <3>5 DEF w
  <2>5. ASSUME name = "switch", Len(args) >= 3, ~F!IsError(F!Eval(args[1]))
        PROVE  val = F!EvalIf(<<F!AsOperand(F!BoolValue(F!EqualValues(F!Eval(args[1]), F!Eval(args[2])))),
                       args[3],
                       F!AsOperand(IF Len(args) = 3 THEN F!Error(F!NA)
                                   ELSE IF Len(args) = 4 THEN F!Eval(args[4])
                                   ELSE F!EvalSwitch(<<args[1]>> \o F!Without(args, 3)))>>)
    <3> DEFINE w == IF Len(args) = 3 THEN F!Error(F!NA) ELSE IF Len(args) = 4 THEN F!Eval(args[4])
                    ELSE F!EvalSwitch(<<args[1]>> \o F!Without(args, 3))
               b == F!EqualValues(F!Eval(args[1]), F!Eval(args[2]))
    <3>1. val = F!EvalSwitch(args)
      BY <2>1, <2>5 DEF F!EvalCall, F!Conditionals, F!EvalConditional
    <3>2. args[3] \in Written /\ w \in Value
      <4>1. Len(args) = 4 => F!Eval(args[4]) \in Value
        BY <2>1, ElementOfSeq, EvalType
      <4>2. Len(args) # 3 /\ Len(args) # 4 => F!EvalSwitch(<<args[1]>> \o F!Without(args, 3)) \in Value
        <5> SUFFICES ASSUME Len(args) # 3, Len(args) # 4
                     PROVE  F!EvalSwitch(<<args[1]>> \o F!Without(args, 3)) \in Value
          OBVIOUS
        <5>1. Len(args) >= 4
          <6> DEFINE n == Len(args)
          <6>1. n \in Nat /\ n >= 3 /\ n # 3
            BY <2>1, <2>5
          <6> HIDE DEF n
          <6>2. n >= 4
            BY <6>1
          <6> QED BY <6>2 DEF n
        <5> QED BY <2>1, <5>1, NextCases, SwitchType
      <4> QED BY <2>1, <2>3, <2>5, <4>1, <4>2, ElementOfSeq
    <3>3. b \in BOOLEAN
      BY DEF F!EqualValues, F!Numericish, F!Textual
    <3>4. F!EvalSwitch(args) = IF b THEN F!Eval(args[3]) ELSE w
      BY <2>1, <2>5, SwitchUnrolls
    <3> HIDE DEF w, b
    <3>5. F!AsOperand(F!BoolValue(b)) \in Written
      BY <2>2, <3>3, BoolCond, OperandBack
    <3>6. F!EvalIf(<<F!AsOperand(F!BoolValue(b)), args[3], F!AsOperand(w)>>)
            = IF b THEN F!Eval(args[3]) ELSE w
      BY <2>2, <3>2, <3>3, <3>5, BoolCond, IfOf
    <3> QED BY <3>1, <3>4, <3>6 DEF w, b
  <2>6. ASSUME name = "iferror", Len(args) = 2
        PROVE  val = F!EvalIf(<<F!AsOperand(F!EvalInspector("iserror", SubSeq(args, 1, 1))), args[2],
                                F!AsOperand(F!Eval(args[1]))>>)
    <3>1. val = F!EvalIferror(args, FALSE)
      BY <2>1, <2>6 DEF F!EvalCall, F!Conditionals, F!EvalConditional
    <3> QED BY <2>1, <2>6, <3>1, IferrorUnrolls
  <2>7. ASSUME name = "ifna", Len(args) = 2
        PROVE  val = F!EvalIf(<<F!AsOperand(F!EvalInspector("isna", SubSeq(args, 1, 1))), args[2],
                                F!AsOperand(F!Eval(args[1]))>>)
    <3>1. val = F!EvalIferror(args, TRUE)
      BY <2>1, <2>7 DEF F!EvalCall, F!Conditionals, F!EvalConditional
    <3> QED BY <2>1, <2>7, <3>1, IferrorUnrolls
  <2> QED BY <2>4, <2>5, <2>6, <2>7, Zenon DEF F!ConditionalsAreNestedIfs
<1> QED BY <1>1, CallInvariance, PTL

-----------------------------------------------------------------------------
(* The calls: the slots of their arguments. *)

\* One of the sequences divided in two: the concatenation is the same.
LEMMA FlattenSplit ==
  ASSUME NEW S, NEW s \in Seq(Seq(S)), NEW t \in Seq(Seq(S)), NEW i \in 1..Len(s),
         Len(t) = Len(s) + 1, t[i] \o t[i + 1] = s[i],
         \A j \in 1..(i - 1) : t[j] = s[j],
         \A j \in (i + 1)..Len(s) : t[j + 1] = s[j]
  PROVE  F!FlattenSeq(t) = F!FlattenSeq(s)
<1> DEFINE n == Len(s)
<1>1. n \in Nat /\ i \in 1..n /\ i \in Nat /\ Len(t) = n + 1 /\ s # <<>> /\ t # <<>>
  BY EmptySeq, LenProperties
<1>2. PICK f : IsRun(f, s) /\ F!FlattenSeq(s) = f[n]
  BY <1>1, FlattenIs
<1>3. PICK h : IsRun(h, t) /\ F!FlattenSeq(t) = h[n + 1]
  BY <1>1, FlattenIs
<1>0. (\A j \in 1..n : s[j] \in Seq(S)) /\ (\A j \in 1..(n + 1) : t[j] \in Seq(S))
  <2> DEFINE Runs == Seq(S)
  <2>1. s \in Seq(Runs) /\ t \in Seq(Runs)
    OBVIOUS
  <2> HIDE DEF Runs
  <2>2. (\A j \in 1..Len(s) : s[j] \in Runs) /\ (\A j \in 1..Len(t) : t[j] \in Runs)
    BY <2>1, ElementOfSeq
  <2> QED BY <1>1, <2>2 DEF Runs
<1>4. /\ \A j \in 1..n : f[j] \in Seq(S) /\ s[j] \in Seq(S)
      /\ f[1] = s[1] /\ \A j \in 1..n : j # 1 => f[j] = f[j - 1] \o s[j]
  <2>1. /\ \A j \in 1..Len(s) : f[j] \in Seq(S)
        /\ Len(s) \in Nat \ {0} /\ f[1] = s[1]
        /\ \A j \in 1..Len(s) : j # 1 => f[j] = f[j - 1] \o s[j]
    <3>1. RunFacts(S, f, s)
      BY <1>1, <1>2, RunType
    <3> QED BY <3>1 DEF RunFacts
  <2> QED BY <1>0, <1>1, <2>1
<1>5. /\ \A j \in 1..(n + 1) : h[j] \in Seq(S) /\ t[j] \in Seq(S)
      /\ h[1] = t[1] /\ \A j \in 1..(n + 1) : j # 1 => h[j] = h[j - 1] \o t[j]
  <2>1. /\ \A j \in 1..Len(t) : h[j] \in Seq(S)
        /\ Len(t) \in Nat \ {0} /\ h[1] = t[1]
        /\ \A j \in 1..Len(t) : j # 1 => h[j] = h[j - 1] \o t[j]
    <3>1. RunFacts(S, h, t)
      BY <1>1, <1>3, RunType
    <3> QED BY <3>1 DEF RunFacts
  <2> QED BY <1>0, <1>1, <2>1
<1> HIDE DEF n
<1>6. \A j \in 1..(i - 1) : h[j] = f[j]
  <2> DEFINE T == {j \in Nat : j \in 1..(i - 1) => h[j] = f[j]}
  <2>1. 0 \in T
    OBVIOUS
  <2>2. ASSUME NEW j \in Nat, j \in T PROVE j + 1 \in T
    <3> SUFFICES ASSUME j + 1 \in 1..(i - 1) PROVE h[j + 1] = f[j + 1]
      OBVIOUS
    <3>1. t[j + 1] = s[j + 1]
      OBVIOUS
    <3>2. CASE j = 0
      BY <1>4, <1>5, <3>1, <3>2
    <3>3. CASE j # 0
      <4>1. j \in 1..(i - 1) /\ j + 1 # 1 /\ (j + 1) - 1 = j /\ j + 1 \in 1..n /\ j + 1 \in 1..(n + 1)
        BY <1>1, <3>3
      <4>2. h[j] = f[j]
        BY <2>2, <4>1
      <4>3. f[j + 1] = f[j] \o s[j + 1]
        BY <1>4, <4>1
      <4>4. h[j + 1] = h[j] \o t[j + 1]
        BY <1>5, <4>1
      <4> QED BY <3>1, <4>2, <4>3, <4>4
    <3> QED BY <3>2, <3>3
  <2> HIDE DEF T
  <2>3. Nat \subseteq T
    BY <2>1, <2>2, Upward
  <2>4. \A j \in 1..(i - 1) : j \in T
    BY <1>1, <2>3
  <2> QED BY <2>4 DEF T
<1>7. h[i + 1] = f[i]
  <2>1. i \in 1..(n + 1) /\ i + 1 \in 1..(n + 1) /\ i + 1 # 1 /\ (i + 1) - 1 = i
    BY <1>1
  <2>2. h[i + 1] = h[i] \o t[i + 1]
    BY <1>5, <2>1
  <2>3. CASE i = 1
    BY <1>4, <1>5, <2>2, <2>3
  <2>4. CASE i # 1
    <3>1. i - 1 \in 1..(i - 1) /\ i - 1 \in 1..n
      BY <1>1, <2>4
    <3>2. h[i] = f[i - 1] \o t[i]
      BY <1>5, <1>6, <2>1, <2>4, <3>1
    <3>3. f[i] = f[i - 1] \o s[i]
      BY <1>1, <1>4, <2>4
    <3>4. f[i - 1] \in Seq(S) /\ t[i] \in Seq(S) /\ t[i + 1] \in Seq(S)
      BY <1>4, <1>5, <2>1, <3>1
    <3>5. (f[i - 1] \o t[i]) \o t[i + 1] = f[i - 1] \o (t[i] \o t[i + 1])
      <4>1. Brackets(f[i - 1], t[i], t[i + 1])
        BY <3>4, Associates
      <4> QED BY <4>1 DEF Brackets
    <3> QED BY <2>2, <3>2, <3>3, <3>5
  <2> QED BY <2>3, <2>4
<1>8. h[n + 1] = f[n]
  <2> DEFINE T == {j \in Nat : i + j \in 1..n => h[i + j + 1] = f[i + j]}
  <2>1. 0 \in T
    BY <1>1, <1>7
  <2>2. ASSUME NEW j \in Nat, j \in T PROVE j + 1 \in T
    <3> DEFINE k == i + j + 1
    <3> SUFFICES ASSUME k \in 1..n PROVE h[k + 1] = f[k]
      BY <1>1
    <3>1. /\ k \in (i + 1)..n /\ k # 1 /\ k - 1 = i + j /\ i + j \in 1..n /\ (k + 1) - 1 = k
          /\ k + 1 \in 1..(n + 1) /\ k + 1 # 1
      BY <1>1
    <3>2. h[k] = f[k - 1]
      BY <2>2, <3>1
    <3> HIDE DEF k
    <3>3. t[k + 1] = s[k]
      BY <3>1 DEF n
    <3>4. h[k + 1] = h[k] \o t[k + 1]
      BY <1>5, <3>1
    <3>5. f[k] = f[k - 1] \o s[k]
      BY <1>4, <3>1
    <3> QED BY <3>2, <3>3, <3>4, <3>5
  <2> HIDE DEF T
  <2>3. n - i \in T
    <3>1. Nat \subseteq T
      BY <2>1, <2>2, Upward
    <3>2. n - i \in Nat
      BY <1>1
    <3> QED BY <3>1, <3>2
  <2>4. i + (n - i) = n /\ n \in 1..n
    BY <1>1
  <2> QED BY <2>3, <2>4 DEF T
<1> QED BY <1>2, <1>3, <1>8

\* What the operands of a call come to, operand by operand.
Piece(ops, spec, i) == IF F!Mode(spec, i, Len(ops)) = "cells" THEN F!ArgCells(ops[i])
                       ELSE <<F!ArgScalar(ops[i])>>
Pieces(ops, spec) == [i \in DOMAIN ops |-> Piece(ops, spec, i)]

LEMMA ValuesArePieces ==
  ASSUME NEW ops, NEW spec
  PROVE  F!ArgValues(ops, spec) = F!FlattenSeq(Pieces(ops, spec))
BY Zenon DEF F!ArgValues, Pieces, Piece

LEMMA PiecesShape ==
  ASSUME NEW ops \in Seq(Written), NEW spec
  PROVE  /\ Pieces(ops, spec) \in Seq(Seq(Scalar))
         /\ Len(Pieces(ops, spec)) = Len(ops)
         /\ \A i \in 1..Len(ops) : Pieces(ops, spec)[i] = Piece(ops, spec, i)
<1>1. Len(ops) \in Nat /\ DOMAIN ops = 1..Len(ops)
  BY LenProperties
<1>2. ASSUME NEW i \in 1..Len(ops) PROVE Piece(ops, spec, i) \in Seq(Scalar)
  <2>1. ops[i] \in Written
    BY ElementOfSeq
  <2>2. F!ArgCells(ops[i]) \in Seq(Scalar)
    BY <2>1 DEF F!ArgCells, Written
  <2>3. F!ArgScalar(ops[i]) \in Scalar
    BY <2>1, EvalType, ReducedType DEF F!ArgScalar
  <2> QED BY <2>2, <2>3 DEF Piece
<1> DEFINE Runs == Seq(Scalar)
<1>3. \A i \in 1..Len(ops) : Piece(ops, spec, i) \in Runs
  BY <1>2
<1> HIDE DEF Runs
<1>4. Pieces(ops, spec) = [i \in 1..Len(ops) |-> Piece(ops, spec, i)]
  BY <1>1 DEF Pieces
<1>5. Pieces(ops, spec) \in Seq(Runs) /\ Len(Pieces(ops, spec)) = Len(ops)
  BY <1>1, <1>3, <1>4
<1> QED BY <1>4, <1>5 DEF Runs

\* The operands of a call of which one is divided at p.
Divided(s, i, a, b) == SubSeq(s, 1, i - 1) \o <<a, b>> \o SubSeq(s, i + 1, Len(s))

IsDivided(S, s, t, i, a, b) ==
  /\ t \in Seq(S) /\ Len(t) = Len(s) + 1 /\ t[i] = a /\ t[i + 1] = b
  /\ \A j \in 1..(i - 1) : t[j] = s[j]
  /\ \A j \in (i + 1)..Len(s) : t[j + 1] = s[j]

LEMMA DividedShape ==
  ASSUME NEW S, NEW s \in Seq(S), NEW i \in 1..Len(s), NEW a \in S, NEW b \in S
  PROVE  IsDivided(S, s, Divided(s, i, a, b), i, a, b)
<1> DEFINE u == SubSeq(s, 1, i - 1)
           m == <<a, b>>
           v == SubSeq(s, i + 1, Len(s))
<1>1. Len(s) \in Nat /\ i \in Nat /\ \A j \in 1..Len(s) : s[j] \in S
  BY ElementOfSeq, LenProperties
<1>2. u \in Seq(S) /\ Len(u) = i - 1 /\ \A j \in 1..(i - 1) : u[j] = s[j]
  <2>1. CutFacts(S, s, 1, i - 1)
    BY <1>1, Cuts
  <2>2. \A j \in 1..(i - 1) : j \in 1..((i - 1) - 1 + 1) /\ 1 + j - 1 = j
    BY <1>1
  <2> QED BY <1>1, <2>1, <2>2 DEF CutFacts
<1>3. v \in Seq(S) /\ Len(v) = Len(s) - i /\ \A j \in 1..(Len(s) - i) : v[j] = s[i + j]
  <2>1. CutFacts(S, s, i + 1, Len(s))
    BY <1>1, Cuts
  <2>2. \A j \in 1..(Len(s) - i) : j \in 1..(Len(s) - (i + 1) + 1) /\ (i + 1) + j - 1 = i + j
    BY <1>1
  <2> QED BY <1>1, <2>1, <2>2 DEF CutFacts
<1>4. m \in Seq(S) /\ Len(m) = 2 /\ m[1] = a /\ m[2] = b
  OBVIOUS
<1> HIDE DEF u, m, v
<1> DEFINE w == u \o m
           t == w \o v
<1>5. /\ w \in Seq(S) /\ Len(w) = i + 1 /\ w[i] = a /\ w[i + 1] = b
      /\ \A j \in 1..(i - 1) : w[j] = s[j]
  <2>1. JoinFacts(S, u, m)
    BY <1>2, <1>4, Joins
  <2>2. 1 \in 1..2 /\ 2 \in 1..2 /\ (i - 1) + 1 = i /\ (i - 1) + 2 = i + 1
    BY <1>1
  <2> QED BY <1>2, <1>4, <2>1, <2>2 DEF JoinFacts
<1> HIDE DEF w
<1>6. /\ t \in Seq(S) /\ Len(t) = Len(s) + 1
      /\ \A j \in 1..(i + 1) : t[j] = w[j]
      /\ \A j \in 1..(Len(s) - i) : t[(i + 1) + j] = v[j]
  <2>1. JoinFacts(S, w, v)
    BY <1>3, <1>5, Joins
  <2> QED BY <1>1, <1>3, <1>5, <2>1 DEF JoinFacts
<1>7. t = Divided(s, i, a, b)
  BY DEF Divided, u, m, v, w
<1> HIDE DEF t
<1>8. t[i] = a /\ t[i + 1] = b /\ \A j \in 1..(i - 1) : t[j] = s[j]
  <2>1. i \in 1..(i + 1) /\ i + 1 \in 1..(i + 1) /\ \A j \in 1..(i - 1) : j \in 1..(i + 1)
    BY <1>1
  <2> QED BY <1>5, <1>6, <2>1
<1>9. ASSUME NEW j \in (i + 1)..Len(s) PROVE t[j + 1] = s[j]
  <2>1. j - i \in 1..(Len(s) - i) /\ (i + 1) + (j - i) = j + 1 /\ i + (j - i) = j
    BY <1>1
  <2> DEFINE k == j - i
  <2>2. k \in 1..(Len(s) - i) /\ (i + 1) + k = j + 1 /\ i + k = j
    BY <2>1
  <2> HIDE DEF k
  <2>3. t[(i + 1) + k] = v[k] /\ v[k] = s[i + k]
    BY <1>3, <1>6, <2>2
  <2> QED BY <2>2, <2>3
<1> QED BY <1>6, <1>7, <1>8, <1>9 DEF IsDivided

\* The aggregates are not called otherwise.
LEMMA EagerIs ==
  ASSUME NEW f, NEW ops, f \in DOMAIN F!Functions
  PROVE  F!EvalCall(f, ops) = F!EvalEager(f, ops)
<1>1. /\ f \notin F!Conditionals /\ f \notin F!Elsewhere /\ f \notin F!Inspectors
  BY DEF F!Functions, F!OverCells, F!Conditionals, F!Elsewhere, F!Inspectors
<1> QED BY <1>1 DEF F!EvalCall

\* The operand divided is one of the cells, as its parts are; the slots of the others
\* are those they had.
SlotsStay(fn, i, n) ==
  /\ F!Mode(fn.spec, i, n) = "cells"
  /\ F!Mode(fn.spec, i, n + 1) = "cells" /\ F!Mode(fn.spec, i + 1, n + 1) = "cells"
  /\ \A j \in 1..(i - 1) : F!Mode(fn.spec, j, n + 1) = F!Mode(fn.spec, j, n)
  /\ \A j \in (i + 1)..n : F!Mode(fn.spec, j + 1, n + 1) = F!Mode(fn.spec, j, n)
  /\ F!Accepts(fn, n) => F!Accepts(fn, n + 1)

LEMMA SlotsOf ==
  ASSUME NEW f \in DOMAIN F!Functions, f \notin {"choose", "mod", "not", "na"},
         NEW n \in Nat, NEW i \in 1..n, f \in {"large", "small"} => i < n, f = "npv" => i > 1
  PROVE  SlotsStay(F!Functions[f], i, n)
<1> DEFINE spec == F!Functions[f].spec
<1>0. F!CellsRest = [lead |-> <<>>, rest |-> "cells", tail |-> <<>>]
  BY DEF F!CellsRest, F!ScalarsOnly
<1>1. CASE f \in F!OverCells
  <2>1. F!Functions[f] = F!Function(F!CellsRest, 1, -1)
    BY <1>1 DEF F!Functions, F!OverCells
  <2>2. spec = [lead |-> <<>>, rest |-> "cells", tail |-> <<>>]
    BY <1>0, <2>1 DEF F!Function
  <2>3. \A j, k \in Nat \ {0} : j <= k => F!Mode(spec, j, k) = "cells"
    BY <2>2 DEF F!Mode
  <2>4. F!Accepts(F!Functions[f], n) => F!Accepts(F!Functions[f], n + 1)
    BY <2>1 DEF F!Function, F!Accepts
  <2> QED BY <2>3, <2>4 DEF SlotsStay
<1>2. CASE f \in {"large", "small"}
  <2>1. F!Functions[f] = F!Function(F!CellsThenK, 2, -1)
    BY <1>2 DEF F!Functions, F!OverCells
  <2>2. spec = [lead |-> <<>>, rest |-> "cells", tail |-> <<"scalar">>]
    BY <1>0, <2>1 DEF F!Function, F!CellsThenK
  <2>3. \A j, k \in Nat \ {0} : j <= k => F!Mode(spec, j, k) = IF j = k THEN "scalar" ELSE "cells"
    BY <2>2 DEF F!Mode
  <2>4. F!Accepts(F!Functions[f], n) => F!Accepts(F!Functions[f], n + 1)
    BY <2>1 DEF F!Function, F!Accepts
  <2> QED BY <1>2, <2>3, <2>4 DEF SlotsStay
<1>3. CASE f = "npv"
  <2>1. F!Functions[f] = F!Function(F!ScalarThenCells, 2, -1)
    BY <1>3 DEF F!Functions, F!OverCells
  <2>2. spec = [lead |-> <<"scalar">>, rest |-> "cells", tail |-> <<>>]
    BY <1>0, <2>1 DEF F!Function, F!ScalarThenCells
  <2>3. \A j, k \in Nat \ {0} : j <= k => F!Mode(spec, j, k) = IF j = 1 THEN "scalar" ELSE "cells"
    BY <2>2 DEF F!Mode
  <2>4. F!Accepts(F!Functions[f], n) => F!Accepts(F!Functions[f], n + 1)
    BY <2>1 DEF F!Function, F!Accepts
  <2> QED BY <1>3, <2>3, <2>4 DEF SlotsStay
<1> QED BY <1>1, <1>2, <1>3 DEF F!Functions

LEMMA SplitIsWorthTheSame ==
  ASSUME NEW ops \in Seq(Written), NEW f \in DOMAIN F!Functions,
         f \notin {"choose", "mod", "not", "na"},
         NEW i \in 1..Len(ops), f \in {"large", "small"} => i < Len(ops), f = "npv" => i > 1,
         F!Accepts(F!Functions[f], Len(ops)),
         NEW p \in 1..Len(ops[i].cells), p < Len(ops[i].cells)
  PROVE  F!EvalEager(f, Divided(ops, i, F!Operand(ops[i].form, SubSeq(ops[i].cells, 1, p)),
                                F!Operand(ops[i].form, SubSeq(ops[i].cells, p + 1, Len(ops[i].cells)))))
           = F!EvalEager(f, ops)
<1> DEFINE op == ops[i]
           a == F!Operand(op.form, SubSeq(op.cells, 1, p))
           b == F!Operand(op.form, SubSeq(op.cells, p + 1, Len(op.cells)))
           t == Divided(ops, i, a, b)
           n == Len(ops)
           spec == F!Functions[f].spec
<1>1. n \in Nat /\ op \in Written /\ \A j \in 1..n : ops[j] \in Written
  BY ElementOfSeq, LenProperties
<1>2. a \in Written /\ b \in Written
  BY <1>1, HalvesWritten
<1>3. a.cells \o b.cells = op.cells
  <2> DEFINE c == op.cells
  <2>1. c \in Seq(Scalar) /\ Len(c) \in Nat /\ p \in Int /\ 1 <= p /\ p < Len(c)
    BY <1>1, CellsShape DEF Written
  <2> HIDE DEF c
  <2>2. SubSeq(c, 1, p) \o SubSeq(c, p + 1, Len(c)) = c
    <3> DEFINE u == SubSeq(c, 1, p)
               v == SubSeq(c, p + 1, Len(c))
    <3>1. CutFacts(Scalar, c, 1, p) /\ CutFacts(Scalar, c, p + 1, Len(c))
      BY <2>1, Cuts
    <3>2. /\ u \in Seq(Scalar) /\ v \in Seq(Scalar) /\ Len(u) = p /\ Len(v) = Len(c) - p
          /\ \A j \in 1..p : u[j] = c[j]
          /\ \A j \in 1..(Len(c) - p) : v[j] = c[p + j]
      <4>1. \A j \in 1..p : j \in 1..(p - 1 + 1) /\ 1 + j - 1 = j
        BY <2>1
      <4>2. \A j \in 1..(Len(c) - p) : j \in 1..(Len(c) - (p + 1) + 1) /\ (p + 1) + j - 1 = p + j
        BY <2>1
      <4> QED BY <2>1, <3>1, <4>1, <4>2 DEF CutFacts
    <3> HIDE DEF u, v
    <3>3. JoinFacts(Scalar, u, v)
      BY <3>2, Joins
    <3>4. u \o v \in Seq(Scalar) /\ Len(u \o v) = Len(c)
      BY <2>1, <3>2, <3>3 DEF JoinFacts
    <3>5. ASSUME NEW j \in 1..Len(c) PROVE (u \o v)[j] = c[j]
      <4>1. CASE j <= p
        <5>1. j \in 1..p
          BY <2>1, <4>1
        <5> QED BY <3>2, <3>3, <5>1 DEF JoinFacts
      <4>2. CASE ~(j <= p)
        <5> DEFINE k == j - p
        <5>1. k \in 1..(Len(c) - p) /\ p + k = j
          BY <2>1, <4>2
        <5> HIDE DEF k
        <5>2. (u \o v)[p + k] = v[k] /\ v[k] = c[p + k]
          BY <3>2, <3>3, <5>1 DEF JoinFacts
        <5> QED BY <5>1, <5>2
      <4> QED BY <4>1, <4>2
    <3>6. u \o v = c
      BY <2>1, <3>4, <3>5, SeqEqual
    <3> QED BY <3>6 DEF u, v
  <2> QED BY <2>2 DEF c, F!Operand
<1>4. /\ t \in Seq(Written) /\ Len(t) = n + 1 /\ t[i] = a /\ t[i + 1] = b
      /\ \A j \in 1..(i - 1) : t[j] = ops[j]
      /\ \A j \in (i + 1)..n : t[j + 1] = ops[j]
  <2> HIDE DEF a, b
  <2>1. IsDivided(Written, ops, t, i, a, b)
    BY <1>2, DividedShape
  <2> QED BY <2>1 DEF IsDivided
<1>5. /\ F!Mode(spec, i, n) = "cells"
      /\ F!Mode(spec, i, n + 1) = "cells" /\ F!Mode(spec, i + 1, n + 1) = "cells"
      /\ \A j \in 1..(i - 1) : F!Mode(spec, j, n + 1) = F!Mode(spec, j, n)
      /\ \A j \in (i + 1)..n : F!Mode(spec, j + 1, n + 1) = F!Mode(spec, j, n)
      /\ F!Accepts(F!Functions[f], n + 1)
  <2>1. SlotsStay(F!Functions[f], i, n)
    BY <1>1, SlotsOf
  <2> QED BY <2>1 DEF SlotsStay
<1> HIDE DEF op, a, b, t, n, spec
<1>6. /\ Pieces(ops, spec) \in Seq(Seq(Scalar)) /\ Pieces(t, spec) \in Seq(Seq(Scalar))
      /\ Len(Pieces(ops, spec)) = n /\ Len(Pieces(t, spec)) = n + 1
      /\ \A j \in 1..n : Pieces(ops, spec)[j] = Piece(ops, spec, j)
      /\ \A j \in 1..(n + 1) : Pieces(t, spec)[j] = Piece(t, spec, j)
  BY <1>4, PiecesShape DEF n
<1>7. Pieces(t, spec)[i] \o Pieces(t, spec)[i + 1] = Pieces(ops, spec)[i]
  <2>1. i \in 1..n /\ i \in 1..(n + 1) /\ i + 1 \in 1..(n + 1)
    BY <1>1 DEF n
  <2>2. Piece(t, spec, i) = a.cells /\ Piece(t, spec, i + 1) = b.cells
    BY <1>4, <1>5 DEF Piece, F!ArgCells
  <2>3. Piece(ops, spec, i) = op.cells
    BY <1>5 DEF Piece, F!ArgCells, n, op
  <2> QED BY <1>3, <1>6, <2>1, <2>2, <2>3
<1>8. ASSUME NEW j \in 1..(i - 1) PROVE Pieces(t, spec)[j] = Pieces(ops, spec)[j]
  <2>1. j \in 1..n /\ j \in 1..(n + 1)
    BY <1>1 DEF n
  <2>2. t[j] = ops[j] /\ F!Mode(spec, j, n + 1) = F!Mode(spec, j, n)
    BY <1>4, <1>5
  <2>3. Piece(t, spec, j) = Piece(ops, spec, j)
    BY <1>4, <2>2 DEF Piece, n
  <2> QED BY <1>6, <2>1, <2>3
<1>9. ASSUME NEW j \in (i + 1)..n PROVE Pieces(t, spec)[j + 1] = Pieces(ops, spec)[j]
  <2>1. j \in 1..n /\ j + 1 \in 1..(n + 1)
    BY <1>1 DEF n
  <2>2. t[j + 1] = ops[j] /\ F!Mode(spec, j + 1, n + 1) = F!Mode(spec, j, n)
    BY <1>4, <1>5
  <2>3. Piece(t, spec, j + 1) = Piece(ops, spec, j)
    BY <1>4, <2>2 DEF Piece, n
  <2> QED BY <1>6, <2>1, <2>3
<1>10. F!ArgValues(t, spec) = F!ArgValues(ops, spec)
  <2> DEFINE x == Pieces(ops, spec)
             y == Pieces(t, spec)
  <2>1. /\ x \in Seq(Seq(Scalar)) /\ y \in Seq(Seq(Scalar)) /\ i \in 1..Len(x)
        /\ Len(y) = Len(x) + 1 /\ y[i] \o y[i + 1] = x[i]
        /\ \A j \in 1..(i - 1) : y[j] = x[j]
        /\ \A j \in (i + 1)..Len(x) : y[j + 1] = x[j]
    BY <1>6, <1>7, <1>8, <1>9 DEF n
  <2> HIDE DEF x, y
  <2>2. F!FlattenSeq(y) = F!FlattenSeq(x)
    BY <2>1, FlattenSplit
  <2> QED BY <2>2, ValuesArePieces DEF x, y
<1>11. F!Accepts(F!Functions[f], Len(ops)) /\ F!Accepts(F!Functions[f], Len(t))
  BY <1>4, <1>5
<1>12. F!EvalEager(f, t) = F!EvalEager(f, ops)
  BY <1>10, <1>11, Zenon DEF F!EvalEager, spec
<1> QED BY <1>12 DEF t, a, b, op

\* Only a call has the name of a function.
NamesInv == owner # "calls" => name \notin DOMAIN F!Functions

LEMMA NamesInvariance == Spec => []NamesInv
<1>1. DOMAIN F!Functions \subseteq F!Names
  BY DEF F!Names
<1>2. \A n \in I!Names : n \notin DOMAIN F!Functions
  BY DEF I!Names, F!Functions, F!OverCells
<1>3. None \notin DOMAIN F!Functions
  BY <1>1, NoneIsNoName
<1>4. Init => NamesInv
  <2> SUFFICES ASSUME Init, owner # "calls" PROVE name \notin DOMAIN F!Functions
    BY DEF NamesInv
  <2>1. name = None \/ name \in I!Names
    BY DEF Init, Absent, I!Init
  <2> QED BY <1>2, <1>3, <2>1
<1>5. NamesInv /\ [Next]_vars => NamesInv'
  <2> SUFFICES ASSUME NamesInv, [Next]_vars PROVE NamesInv'
    OBVIOUS
  <2>1. CASE UNCHANGED vars
    BY <2>1 DEF vars, NamesInv
  <2>2. CASE ArrayStep
    BY <2>2 DEF ArrayStep, NamesInv
  <2>3. CASE LimitStep
    BY <2>3 DEF LimitStep, NamesInv
  <2>4. CASE ImportStep
    BY <2>4 DEF ImportStep, NamesInv, I!Next, I!EvalImportFails, I!FetchImport, I!FetchFails,
                I!Fetched, I!Recompute, I!cellAndServer
  <2>5. CASE ColumnStep
    BY <2>5 DEF ColumnStep, NamesInv
  <2>6. CASE CallStep
    BY <2>6 DEF CallStep, NamesInv
  <2>7. CASE DateStep
    BY <2>7 DEF DateStep, NamesInv
  <2>8. CASE AddressStep
    BY <2>8 DEF AddressStep, NamesInv
  <2>9. CASE TextStep
    BY <2>9 DEF TextStep, NamesInv
  <2> QED BY <2>1, <2>2, <2>3, <2>4, <2>5, <2>6, <2>7, <2>8, <2>9 DEF Next
<1> QED BY <1>4, <1>5, PTL DEF Spec

\* However the cells of its operands are divided into ranges, a call is worth the same.
THEOREM SlotsHold == Spec => SlotsNeverShift
<1> DEFINE Same == (name \in DOMAIN F!Functions) =>
                     \A i \in DOMAIN args : \A p \in 1..Len(args[i].cells) :
                       (F!IsAggregated(i) /\ F!Split(i, p)) => val' = val
<1>1. CallInv /\ NamesInv => Same
  <2> SUFFICES ASSUME CallInv, NamesInv, name \in DOMAIN F!Functions,
                      NEW i \in DOMAIN args, NEW p \in 1..Len(args[i].cells),
                      F!IsAggregated(i), F!Split(i, p)
               PROVE  val' = val
    OBVIOUS
  <2>1. args \in Seq(Written) /\ val = F!EvalCall(name, args) /\ i \in 1..Len(args)
    BY LenProperties DEF CallInv, NamesInv
  <2>2. /\ name \notin {"choose", "mod", "not", "na"}
        /\ name \in {"large", "small"} => i < Len(args)
        /\ name = "npv" => i > 1
        /\ F!Accepts(F!Functions[name], Len(args))
    BY DEF F!IsAggregated
  <2> DEFINE halves == Divided(args, i, F!Operand(args[i].form, SubSeq(args[i].cells, 1, p)),
                               F!Operand(args[i].form, SubSeq(args[i].cells, p + 1, Len(args[i].cells))))
  <2>3. p < Len(args[i].cells) /\ val' = F!EvalCall(name, halves)
    BY DEF F!Split, F!Becomes, Divided
  <2>4. F!EvalEager(name, halves) = F!EvalEager(name, args)
    BY <2>1, <2>2, <2>3, SplitIsWorthTheSame
  <2> HIDE DEF halves
  <2> QED BY <2>1, <2>3, <2>4, EagerIs
<1>2. CallInv /\ NamesInv => [Same]_(F!vars)
  BY <1>1
<1> HIDE DEF Same
<1>3. Spec => [][Same]_(F!vars)
  BY <1>2, CallInvariance, NamesInvariance, PTL
<1> QED BY <1>3 DEF SlotsNeverShift, F!SlotsNeverShift, Same

-----------------------------------------------------------------------------
(* Machine arithmetic of every width: the budget as far as no product wraps, the floats *)
(* about an integer, and the draw from a range whose size may not fit an int64. *)

(* Remainders and the two's complement. *)

\* The remainder is the one number below the divisor that differs by a multiple of it.
LEMMA ModIs ==
  ASSUME NEW a \in Int, NEW b \in Nat \ {0}, NEW q \in Int, NEW r \in 0..(b - 1), a = q * b + r
  PROVE  a % b = r
BY SMT

\* A number that fits is itself.
LEMMA WrapFits ==
  ASSUME NEW half \in Nat \ {0}, NEW n \in L!MinInt(half)..L!MaxInt(half)
  PROVE  L!Wrap(n, half) = n
<1>1. /\ 2 * half \in Nat \ {0} /\ n + half \in Int /\ 0 \in Int
      /\ n + half \in 0..(2 * half - 1) /\ n + half = 0 * (2 * half) + (n + half)
  BY DEF L!MinInt, L!MaxInt
<1>2. (n + half) % (2 * half) = n + half
  BY <1>1, ModIs
<1> QED BY <1>2 DEF L!Wrap, L!MinInt, L!MaxInt

\* A number too large by less than a whole turn comes out a turn lower.
LEMMA WrapOver ==
  ASSUME NEW half \in Nat \ {0}, NEW n \in half..(3 * half - 1)
  PROVE  L!Wrap(n, half) = n - 2 * half
<1>1. /\ 2 * half \in Nat \ {0} /\ n + half \in Int /\ 1 \in Int
      /\ n - half \in 0..(2 * half - 1) /\ n + half = 1 * (2 * half) + (n - half)
  OBVIOUS
<1>2. (n + half) % (2 * half) = n - half
  BY <1>1, ModIs
<1> QED BY <1>2 DEF L!Wrap

\* A number too small by less than a whole turn comes out a turn higher.
LEMMA WrapUnder ==
  ASSUME NEW half \in Nat \ {0}, NEW n \in (-(3 * half))..(-half - 1)
  PROVE  L!Wrap(n, half) = n + 2 * half
<1>1. /\ 2 * half \in Nat \ {0} /\ n + half \in Int /\ -1 \in Int
      /\ n + 3 * half \in 0..(2 * half - 1) /\ n + half = (-1) * (2 * half) + (n + 3 * half)
  OBVIOUS
<1>2. (n + half) % (2 * half) = n + 3 * half
  BY <1>1, ModIs
<1> QED BY <1>2 DEF L!Wrap

\* Whatever a float is, its conversion fits.
LEMMA ToIntFits ==
  ASSUME NEW h \in Int, NEW half \in Nat \ {0}, NEW nearest \in BOOLEAN
  PROVE  L!ToInt(h, half, nearest) \in L!MinInt(half)..L!MaxInt(half)
<1>1. L!MinInt(half) \in L!MinInt(half)..L!MaxInt(half) /\ L!MaxInt(half) \in L!MinInt(half)..L!MaxInt(half)
  BY DEF L!MinInt, L!MaxInt
<1> QED BY <1>1 DEF L!ToInt

-----------------------------------------------------------------------------
(* The budget. *)

\* A product that fits is the product.
LEMMA ProductIsExact ==
  ASSUME Int64Half \in Nat \ {0}, NEW p \in Nat, p <= L!MaxInt(Int64Half)
  PROVE  L!Wrap(p, Int64Half) = p
<1>1. p \in L!MinInt(Int64Half)..L!MaxInt(Int64Half)
  BY DEF L!MinInt, L!MaxInt
<1> QED BY <1>1, WrapFits

\* The budget is a number an int holds.
LimitFits == limit \in 0..(IntHalf - 1) /\ saturates \in BOOLEAN

\* What REPT makes is exactly what the budget allows, if the product fits, and never more.
LEMMA RepeatHolds ==
  ASSUME L!WidthsFit, LimitFits, NEW n \in L!MinInt(IntHalf)..L!MaxInt(IntHalf), NEW length \in Lengths
  PROVE  /\ n * length <= L!MaxInt(Int64Half) =>
              L!Repeat(n, length, limit) = IF n >= 0 /\ n * length <= limit
                                           THEN L!Text(n * length) ELSE L!Error("#VALUE!")
         /\ L!Repeat(n, length, limit).kind = "string" => n * length <= limit
<1>1. /\ n \in Int /\ length \in Nat /\ limit \in 0..(IntHalf - 1) /\ IntHalf \in Nat
      /\ IntHalf <= Int64Half /\ Int64Half \in Nat \ {0}
      /\ L!MaxInt(IntHalf) = IntHalf - 1 /\ L!MaxInt(Int64Half) = Int64Half - 1
  BY DEF L!WidthsFit, LimitFits, L!MinInt, L!MaxInt
<1>2. CASE n < 0
  <2>1. L!Repeat(n, length, limit) = L!Error("#VALUE!") /\ ~(n >= 0)
    BY <1>1, <1>2 DEF L!Repeat
  <2>2. L!Error("#VALUE!").kind # "string"
    BY DEF L!Error
  <2> QED BY <2>1, <2>2
<1>3. CASE ~(n < 0)
  <2> DEFINE p == n * length
             bound == L!MaxInt(IntHalf)
             refused == length > 0 /\ L!Wrap(p, Int64Half) > limit
  <2>1. p \in Nat /\ n >= 0 /\ (p > limit => length > 0)
    <3>1. n \in Nat /\ length \in Nat
      BY <1>1, <1>3
    <3>2. p \in Nat
      BY <3>1
    <3>3. length = 0 => p = 0
      BY <3>1
    <3> HIDE DEF p
    <3> QED BY <1>1, <3>1, <3>2, <3>3
  <2>2. L!Repeat(n, length, limit) = IF refused THEN L!Error("#VALUE!")
                                     ELSE IF p > bound THEN L!Panic ELSE L!Text(p)
    BY <1>3 DEF L!Repeat
  <2>3. p <= L!MaxInt(Int64Half) => L!Wrap(p, Int64Half) = p
    <3> HIDE DEF p
    <3> QED BY <1>1, <2>1, ProductIsExact
  <2> HIDE DEF p
  <2>4. p <= L!MaxInt(Int64Half) => (refused <=> p > limit)
    BY <1>1, <2>1, <2>3
  <2>5. p <= limit => ~(p > bound)
    BY <1>1, <2>1
  <2>6. (p <= limit <=> ~(p > limit)) /\ (~(p > bound) => p <= L!MaxInt(Int64Half))
    BY <1>1, <2>1
  <2> HIDE DEF refused, bound
  <2>7. ASSUME p <= L!MaxInt(Int64Half)
        PROVE  L!Repeat(n, length, limit) = IF n >= 0 /\ p <= limit THEN L!Text(p)
                                            ELSE L!Error("#VALUE!")
    BY <2>1, <2>2, <2>4, <2>5, <2>6, <2>7
  <2>8. L!Error("#VALUE!").kind # "string" /\ L!Panic.kind # "string"
    BY DEF L!Error, L!Panic
  <2>9. ASSUME L!Repeat(n, length, limit).kind = "string"
        PROVE  p <= limit
    <3>1. ~refused /\ ~(p > bound)
      BY <2>2, <2>8, <2>9
    <3> QED BY <2>4, <2>6, <3>1
  <2> QED BY <2>7, <2>9 DEF p
<1> QED BY <1>2, <1>3

\* What SEQUENCE and RANDARRAY make is exactly what the budget allows, if the product fits.
LEMMA BlockHolds ==
  ASSUME L!WidthsFit, LimitFits, NEW rows \in Int, NEW cols \in Int,
         rows * cols <= L!MaxInt(Int64Half)
  PROVE  L!Block(rows, cols, limit) = IF rows >= 1 /\ cols >= 1 /\ rows * cols <= limit
                                      THEN L!Array(rows, cols) ELSE L!Error("#VALUE!")
<1>1. Int64Half \in Nat \ {0} /\ limit \in Int
  BY DEF L!WidthsFit, LimitFits
<1>2. CASE rows < 1 \/ cols < 1
  BY <1>2 DEF L!Block
<1>3. CASE ~(rows < 1 \/ cols < 1)
  <2>1. rows \in Nat /\ cols \in Nat /\ rows >= 1 /\ cols >= 1
    BY <1>3
  <2>2. rows * cols \in Nat
    BY <2>1
  <2>3. L!Wrap(rows * cols, Int64Half) = rows * cols
    BY <1>1, <2>2, ProductIsExact
  <2>4. rows * cols > limit <=> ~(rows * cols <= limit)
    BY <1>1, <2>2
  <2> QED BY <1>3, <2>1, <2>3, <2>4 DEF L!Block, L!TooManyCells
<1> QED BY <1>2, <1>3

\* For every width of int and of int64 and every budget: what is built and what is
\* repeated is exactly what the budget allows wherever the product of the numbers named
\* fits int64, and no text is ever longer than the budget.
THEOREM BudgetEveryWidth == Spec => []BudgetHolds
<1>0. L!WidthsFit
  BY InputsAssumption
<1> USE <1>0
<1> DEFINE Inv == LimitFits /\ L!BudgetHolds
<1>1. L!Init => Inv
  <2> SUFFICES ASSUME L!Init PROVE Inv
    OBVIOUS
  <2>1. limit \in 0..(IntHalf - 1)
    BY DEF L!Init, L!WidthsFit, L!EffectiveLimits
  <2> QED BY <2>1 DEF L!Init, LimitFits, L!BudgetHolds, L!Allocates
<1>2. Inv /\ [L!Next]_vars => Inv'
  <2> SUFFICES ASSUME Inv, [L!Next]_vars PROVE Inv'
    OBVIOUS
  <2>1. CASE UNCHANGED L!vars
    BY <2>1 DEF L!vars, LimitFits, L!BudgetHolds, L!Allocates, L!ExactUpTo
  <2>2. CASE L!Next
    <3>1. UNCHANGED <<saturates, limit>> /\ LimitFits'
      BY <2>2 DEF L!Next, LimitFits
    <3>2. ASSUME NEW a \in Halves, NEW length \in Lengths, L!Rept(a, length)
          PROVE  L!BudgetHolds'
      <4> DEFINE n == L!ToInt(a, IntHalf, saturates)
                 made == L!Repeat(n, length, limit)
      <4>1. n \in L!MinInt(IntHalf)..L!MaxInt(IntHalf) /\ LimitFits
        BY ToIntFits DEF L!WidthsFit, LimitFits
      <4>2. answer' = [call |-> "rept", args |-> <<n, length>>, result |-> made]
        BY <3>2 DEF L!Rept
      <4> HIDE DEF n
      <4>3. /\ n * length <= L!MaxInt(Int64Half) =>
                 made = IF n >= 0 /\ n * length <= limit THEN L!Text(n * length) ELSE L!Error("#VALUE!")
            /\ made.kind = "string" => n * length <= limit
        BY <4>1, RepeatHolds
      <4> HIDE DEF made
      <4>4. /\ answer'.call = "rept" /\ answer'.args[1] = n /\ answer'.args[2] = length
            /\ answer'.result = made /\ limit' = limit
        BY <3>1, <4>2
      <4>5. L!ExactUpTo(L!MaxInt(Int64Half))'
        BY <4>3, <4>4 DEF L!ExactUpTo
      <4>6. answer'.result.kind = "string" => answer'.args[1] * answer'.args[2] <= limit'
        BY <4>3, <4>4
      <4> QED BY <4>5, <4>6 DEF L!BudgetHolds
    <3>3. ASSUME NEW a \in Halves, NEW b \in Halves, NEW maker \in {"sequence", "randarray"},
                 L!Generate(maker, a, b)
          PROVE  L!BudgetHolds'
      <4> DEFINE rows == L!ToInt(a, IntHalf, saturates)
                 cols == L!ToInt(b, IntHalf, saturates)
                 made == L!Block(rows, cols, limit)
      <4>1. rows \in Int /\ cols \in Int /\ LimitFits
        BY ToIntFits DEF L!WidthsFit, LimitFits, L!MinInt, L!MaxInt
      <4>2. answer' = [call |-> maker, args |-> <<rows, cols>>, result |-> made]
        BY <3>3 DEF L!Generate
      <4> HIDE DEF rows, cols
      <4>3. rows * cols <= L!MaxInt(Int64Half) =>
              made = IF rows >= 1 /\ cols >= 1 /\ rows * cols <= limit
                     THEN L!Array(rows, cols) ELSE L!Error("#VALUE!")
        BY <4>1, BlockHolds
      <4>4. made.kind # "string"
        BY DEF L!Block, L!Error, L!Array
      <4> HIDE DEF made
      <4>5. /\ answer'.call # "rept" /\ answer'.args[1] = rows /\ answer'.args[2] = cols
            /\ answer'.result = made /\ limit' = limit
        BY <3>1, <4>2
      <4>6. L!ExactUpTo(L!MaxInt(Int64Half))'
        BY <4>3, <4>5 DEF L!ExactUpTo
      <4> QED BY <4>4, <4>5, <4>6 DEF L!BudgetHolds
    <3>4. ASSUME NEW a \in Halves, NEW b \in Halves, NEW draw \in L!Draws, L!RandBetween(a, b, draw)
          PROVE  L!BudgetHolds'
      BY <3>4 DEF L!RandBetween, L!BudgetHolds, L!Allocates
    <3> QED BY <2>2, <3>1, <3>2, <3>3, <3>4 DEF L!Next
  <2> QED BY <2>1, <2>2 DEF vars, L!vars
<1>3. Init => (owner = "limits" => Inv)
  BY <1>1 DEF Init
<1>4. (owner = "limits" => Inv) /\ [Next]_vars => (owner = "limits" => Inv)'
  <2> SUFFICES ASSUME owner = "limits" => Inv, [Next]_vars, owner' = "limits" PROVE Inv'
    OBVIOUS
  <2>1. CASE UNCHANGED vars
    BY <1>2, <2>1 DEF vars
  <2>2. CASE Next
    <3>1. owner = "limits" /\ L!Next
      BY <2>2 DEF Next, ArrayStep, LimitStep, ImportStep, ColumnStep, CallStep, DateStep, AddressStep, TextStep
    <3> QED BY <1>2, <3>1
  <2> QED BY <2>1, <2>2
<1>5. (owner = "limits" => Inv) => BudgetHolds
  BY DEF BudgetHolds
<1> QED BY <1>3, <1>4, <1>5, PTL DEF Spec

-----------------------------------------------------------------------------
(* The floats. *)

\* The order of multiples is that of what is multiplied.
LEMMA MultiplesOrder ==
  ASSUME NEW s \in Nat \ {0}, NEW a \in Int, NEW b \in Int
  PROVE  /\ a * s \in Int /\ b * s \in Int /\ (a <= b => a * s <= b * s)
         /\ (a * s < (b + 1) * s => a <= b)
<1>1. ASSUME NEW c \in Int, NEW d \in Int, c <= d  PROVE c * s <= d * s
  <2>1. d - c \in Nat
    BY <1>1
  <2>2. (d - c) * s \in Nat
    BY <2>1
  <2>3. d * s = c * s + (d - c) * s
    OBVIOUS
  <2>4. c * s \in Int
    OBVIOUS
  <2> DEFINE x == c * s
             y == (d - c) * s
             z == d * s
  <2>5. x \in Int /\ y \in Nat /\ z = x + y
    BY <2>2, <2>3, <2>4
  <2> HIDE DEF x, y, z
  <2>6. x <= z
    BY <2>5
  <2> QED BY <2>6 DEF x, z
<1>2. a * s \in Int /\ b * s \in Int /\ (b + 1) * s \in Int
  OBVIOUS
<1>3. ~(a <= b) => (b + 1) * s <= a * s
  BY <1>1
<1> DEFINE x == a * s
           y == (b + 1) * s
<1>4. x < y => a <= b
  <2>1. x \in Int /\ y \in Int /\ (~(a <= b) => y <= x)
    BY <1>2, <1>3
  <2> HIDE DEF x, y
  <2> QED BY <2>1
<1> QED BY <1>1, <1>2, <1>4

LEMMA DivideParts ==
  ASSUME NEW n \in Int, NEW s \in Nat \ {0}
  PROVE  /\ n \div s \in Int /\ n % s \in 0..(s - 1)
         /\ n = (n \div s) * s + (n % s)
BY SMT

\* From n to out there is no multiple of s but at the ends.
PassesNone(n, s, out) == \A k \in Int : (k * s <= n => k * s <= out) /\ (n <= k * s => out <= k * s)

\* Rounding is to a multiple, and never past one.
LEMMA RoundHolds ==
  ASSUME NEW n \in Int, NEW s \in Nat \ {0}
  PROVE  /\ \E m \in Int : L!Round(n, s) = m * s
         /\ PassesNone(n, s, L!Round(n, s))
<1> DEFINE q == n \div s
           r == n % s
           out == L!Round(n, s)
           down == q * s
           up == (q + 1) * s
<1>1. q \in Int /\ r \in 0..(s - 1) /\ n = down + r /\ q + 1 \in Int
  BY DivideParts
<1>2. down \in Int /\ up \in Int /\ up = down + s
  BY <1>1
<1>3. /\ out = down \/ out = up
      /\ r = 0 => out = down
  <2>1. out = IF 2 * r < s \/ (2 * r = s /\ q % 2 = 0) THEN down ELSE up
    BY DEF L!Round
  <2> HIDE DEF q, r, down, up, out
  <2>2. r = 0 => 2 * r < s
    OBVIOUS
  <2> QED BY <2>1, <2>2
<1>4. ASSUME NEW k \in Int
      PROVE  (k * s <= n => k * s <= out) /\ (n <= k * s => out <= k * s)
  <2> DEFINE x == k * s
  <2>1. x \in Int /\ (k <= q => x <= down) /\ (x < up => k <= q)
        /\ (q <= k => down <= x) /\ (q + 1 <= k => up <= x) /\ (down < x + s => q <= k)
    <3>1. x + s = (k + 1) * s
      OBVIOUS
    <3> HIDE DEF q
    <3> QED BY <1>1, <3>1, MultiplesOrder
  <2>2. q = k => down = x
    OBVIOUS
  <2> HIDE DEF q, r, down, up, out, x
  <2>3. ASSUME x <= n  PROVE x <= out
    <3>1. x < up
      BY <1>1, <1>2, <2>1, <2>3
    <3> QED BY <1>2, <1>3, <2>1, <3>1
  <2>4. ASSUME n <= x  PROVE out <= x
    <3>1. down < x + s
      BY <1>1, <1>2, <2>1, <2>4
    <3>2. CASE q = k
      <4>1. r = 0
        BY <1>1, <1>2, <2>2, <2>4, <3>2
      <4> QED BY <1>2, <1>3, <2>2, <3>2, <4>1
    <3>3. CASE q # k
      <4>1. q + 1 <= k
        BY <1>1, <2>1, <3>1, <3>3
      <4> QED BY <1>1, <1>2, <1>3, <2>1, <4>1
    <3> QED BY <3>2, <3>3
  <2> QED BY <2>3, <2>4 DEF x
<1>5. \E m \in Int : out = m * s
  BY <1>1, <1>3
<1>6. PassesNone(n, s, out)
  <2> HIDE DEF out
  <2> QED BY <1>4, Zenon DEF PassesNone
<1> QED BY <1>5, <1>6

\* The distances are positive, and int64 is a multiple of one of them.
LEMMA FloatTypes ==
  ASSUME L!FloatsFit
  PROVE  /\ Precision \in Nat \ {0} /\ Precision % 2 = 0 /\ 1 \in Spacings
         /\ \A s \in Spacings : s \in Nat \ {0}
         /\ Int64Half \in Nat \ {0}
<1>1. Precision \in Nat \ {0} /\ Precision % 2 = 0 /\ 1 \in Spacings
      /\ \A s \in Spacings : s \in Nat \ {0}
  BY DEF L!FloatsFit
<1>2. PICK s \in Spacings \ {1} : Int64Half = Precision * s
  BY DEF L!FloatsFit
<1>3. s \in Nat \ {0}
  BY <1>1
<1>4. Precision * s \in Nat \ {0}
  BY <1>1, <1>3
<1> QED BY <1>1, <1>2, <1>4

\* The distances are powers of two: each but 1 has its half, and divides the larger ones.
LEMMA PowersOfTwo ==
  ASSUME L!FloatsFit, NEW s \in Spacings
  PROVE  /\ s # 1 => s % 2 = 0 /\ s \div 2 \in Spacings
         /\ \A t \in Spacings : t <= s => s % t = 0
<1>1. \A x \in Spacings \ {1} : x % 2 = 0 /\ x \div 2 \in Spacings
  BY Zenon DEF L!FloatsFit
<1>2. \A x, t \in Spacings : x <= t => t % x = 0
  BY Zenon DEF L!FloatsFit
<1>3. s # 1 => s \in Spacings \ {1}
  OBVIOUS
<1> QED BY <1>1, <1>2, <1>3, Zenon

\* Every integer of int64, and the one past it, has floats about it.
LEMMA SpacingHolds ==
  ASSUME L!FloatsFit, NEW n \in -Int64Half..Int64Half
  PROVE  /\ L!Spacing(n) \in Spacings /\ L!Reaches(L!Spacing(n), n)
         /\ \A t \in Spacings : L!Reaches(t, n) => L!Spacing(n) <= t
<1> DEFINE T == {t \in Spacings : L!Reaches(t, n)}
<1>1. T \in SUBSET Nat /\ T # {}
  <2>1. PICK s \in Spacings : Int64Half = Precision * s
    BY DEF L!FloatsFit
  <2>2. L!Reaches(s, n)
    BY <2>1 DEF L!Reaches
  <2> QED BY <2>2 DEF L!FloatsFit
<1> HIDE DEF T
<1>2. PICK m \in T : \A k \in T : m <= k
  BY <1>1, LeastOf
<1>3. \E s \in Spacings : L!Reaches(s, n) /\ \A t \in Spacings : L!Reaches(t, n) => s <= t
  BY <1>2 DEF T
<1> QED BY <1>3 DEF L!Spacing

\* Of two distances the larger is at least twice the other, and so is half of it one.
LEMMA Coarser ==
  ASSUME L!FloatsFit, NEW s \in Spacings, NEW t \in Spacings, t < s
  PROVE  /\ s \div 2 \in Spacings /\ s = 2 * (s \div 2) /\ t <= s \div 2 /\ s \div 2 < s
<1>1. s \in Nat \ {0} /\ t \in Nat \ {0} /\ s # 1 /\ t <= s
  BY FloatTypes
<1>2. s % 2 = 0 /\ s \div 2 \in Spacings /\ s % t = 0
  BY <1>1, PowersOfTwo
<1>3. s = 2 * (s \div 2) /\ s \div 2 < s
  BY <1>1, <1>2
<1>4. s = (s \div t) * t /\ s \div t \in Int
  BY <1>1, <1>2, DivideParts
<1> DEFINE q == s \div t
<1>5. q >= 2
  <2>1. q <= 1 => q * t <= 1 * t
    BY <1>1, <1>4, MultiplesOrder
  <2> HIDE DEF q
  <2> QED BY <1>1, <1>4, <2>1 DEF q
<1>6. 2 * t <= s
  <2>1. 2 * t <= q * t
    <3> HIDE DEF q
    <3> QED BY <1>1, <1>4, <1>5, MultiplesOrder DEF q
  <2> QED BY <1>4, <2>1
<1> QED BY <1>1, <1>2, <1>3, <1>6

\* No rounding passes a float.
LEMMA FloatIsBound ==
  ASSUME L!FloatsFit, NEW n \in -Int64Half..Int64Half, NEW f \in Int, L!IsFloat(f)
  PROVE  /\ f <= n => f <= L!ToFloat(n)
         /\ n <= f => L!ToFloat(n) <= f
<1> DEFINE s == L!Spacing(n)
<1>1. /\ s \in Spacings /\ L!Reaches(s, n) /\ \A u \in Spacings : L!Reaches(u, n) => s <= u
      /\ s \in Nat \ {0} /\ Precision \in Nat \ {0} /\ Int64Half \in Int /\ n \in Int
  BY SpacingHolds, FloatTypes
<1>2. PICK t \in Spacings : L!Reaches(t, f) /\ f % t = 0
  BY DEF L!IsFloat
<1>3. t \in Nat \ {0} /\ L!ToFloat(n) = L!Round(n, s)
  BY FloatTypes DEF L!ToFloat
<1> HIDE DEF s
<1> DEFINE out == L!Round(n, s)
<1>4. ASSUME NEW k \in Int
      PROVE  k * s \in Int /\ (k * s <= n => k * s <= out) /\ (n <= k * s => out <= k * s)
  <2>1. n \in Int /\ s \in Nat \ {0}
    BY <1>1
  <2>2. PassesNone(n, s, out)
    BY <2>1, RoundHolds
  <2>3. k * s \in Int
    BY <2>1
  <2> HIDE DEF out
  <2> QED BY <2>2, <2>3, Zenon DEF PassesNone
<1>5. out \in Int
  <2>1. PICK m \in Int : out = m * s
    BY <1>1, RoundHolds
  <2> QED BY <1>1, <2>1
<1> HIDE DEF out
<1>6. CASE s <= t
  <2>1. PICK k \in Int : f = k * s
    <3>1. t % s = 0
      BY <1>1, <1>6, PowersOfTwo
    <3>2. f = (f \div t) * t /\ f \div t \in Int /\ t = (t \div s) * s /\ t \div s \in Int
      BY <1>1, <1>2, <1>3, <3>1, DivideParts
    <3> DEFINE a == f \div t
               b == t \div s
    <3>3. a \in Int /\ b \in Int /\ f = a * t /\ t = b * s
      BY <3>2
    <3> HIDE DEF a, b
    <3>4. f = (a * b) * s /\ a * b \in Int
      BY <1>1, <3>3
    <3> QED BY <3>4
  <2> QED BY <1>3, <1>4, <2>1 DEF out
<1>7. CASE t < s
  <2> DEFINE h == s \div 2
             c == Precision \div 2
  <2>1. h \in Spacings /\ s = 2 * h /\ t <= h /\ h < s /\ h \in Nat /\ t \in Nat
    BY <1>1, <1>3, <1>7, Coarser DEF L!FloatsFit
  <2>2. ~L!Reaches(h, n)
    BY <1>1, <2>1
  <2>3. Precision = 2 * c /\ c \in Nat
    BY <1>1 DEF L!FloatsFit
  <2> HIDE DEF h, c
  <2>4. Precision * h = c * s /\ (-c) * s = -(Precision * h)
    <3>1. (2 * c) * h = c * (2 * h) /\ (-c) * (2 * h) = -((2 * c) * h)
      BY <2>1, <2>3
    <3> QED BY <2>1, <2>3, <3>1
  <2>5. Precision * t <= Precision * h
    <3>1. Precision * t = t * Precision /\ Precision * h = h * Precision
      BY <1>1, <2>1
    <3> QED BY <1>1, <2>1, <3>1, MultiplesOrder
  <2> DEFINE edge == c * s
             low == (-c) * s
             reach == Precision * h
             width == Precision * t
  <2>6. /\ edge \in Int /\ edge = reach /\ low = -reach /\ width <= reach /\ width \in Int
        /\ ~(n \in -reach..reach) /\ f \in -width..width
    BY <1>1, <1>2, <2>1, <2>2, <2>3, <2>4, <2>5 DEF L!Reaches
  <2>7. /\ edge <= n => edge <= out
        /\ n <= low => out <= low
    BY <1>4, <2>3
  <2> HIDE DEF edge, low, reach, width
  <2>8. (f <= n => f <= out) /\ (n <= f => out <= f)
    BY <1>1, <1>5, <2>6, <2>7
  <2> QED BY <1>3, <2>8 DEF out
<1> QED BY <1>1, <1>3, <1>6, <1>7

\* What is rounded is a float, and a float rounds to itself.
LEMMA ToFloatIsFloat ==
  ASSUME L!FloatsFit, NEW n \in -Int64Half..Int64Half
  PROVE  /\ L!ToFloat(n) \in Int /\ L!IsFloat(L!ToFloat(n))
         /\ L!IsFloat(n) => L!ToFloat(n) = n
<1> DEFINE s == L!Spacing(n)
           out == L!Round(n, s)
<1>1. /\ s \in Spacings /\ L!Reaches(s, n) /\ s \in Nat \ {0} /\ Precision \in Nat
      /\ Int64Half \in Int /\ n \in Int /\ L!ToFloat(n) = out
  BY SpacingHolds, FloatTypes DEF L!ToFloat
<1> HIDE DEF s
<1>2. PICK m \in Int : out = m * s
  BY <1>1, RoundHolds
<1>3. /\ out \in Int /\ -(Precision * s) = (-Precision) * s
      /\ Precision * s \in Int /\ -Precision \in Int
  BY <1>1, <1>2
<1>4. out % s = 0
  <2>1. out = m * s + 0 /\ 0 \in 0..(s - 1)
    BY <1>1, <1>2
  <2> HIDE DEF out
  <2> QED BY <1>1, <1>3, <2>1, ModIs
<1>5. L!Reaches(s, out)
  <2>1. -(Precision * s) <= n /\ n <= Precision * s
    BY <1>1, <1>3 DEF L!Reaches
  <2>2. PassesNone(n, s, out)
    BY <1>1, RoundHolds
  <2>3. (-Precision) * s <= out /\ out <= Precision * s
    <3> HIDE DEF out
    <3>1. Precision \in Int /\ (-Precision) * s <= n
      BY <1>1, <1>3, <2>1
    <3> QED BY <1>3, <2>1, <2>2, <3>1, Zenon DEF PassesNone
  <2> HIDE DEF out
  <2> QED BY <1>3, <2>3 DEF L!Reaches
<1> HIDE DEF out
<1>6. L!IsFloat(out)
  BY <1>1, <1>4, <1>5 DEF L!IsFloat
<1>7. ASSUME L!IsFloat(n)  PROVE out = n
  <2>1. (n <= n => n <= L!ToFloat(n)) /\ (n <= n => L!ToFloat(n) <= n)
    BY <1>1, <1>7, FloatIsBound
  <2> QED BY <1>1, <1>3, <2>1
<1> QED BY <1>1, <1>3, <1>6, <1>7

\* The ends of int64: the float past its largest integer, to which that rounds.
LEMMA EndsRound ==
  ASSUME L!FloatsFit
  PROVE  /\ Int64Half \in Nat \ {0} /\ L!IsFloat(Int64Half) /\ L!IsFloat(-Int64Half)
         /\ L!ToFloat(L!MaxInt(Int64Half)) = Int64Half /\ ~L!IsFloat(L!MaxInt(Int64Half))
<1>1. PICK s \in Spacings \ {1} : Int64Half = Precision * s
  BY DEF L!FloatsFit
<1> DEFINE n == Int64Half - 1
           h == s \div 2
           c == Precision \div 2
<1>2. /\ s \in Nat \ {0} /\ Precision \in Nat \ {0} /\ s = 2 * h /\ h \in Spacings /\ h \in Nat \ {0}
      /\ 1 \in Spacings /\ h < s /\ Precision = 2 * c /\ c \in Nat \ {0} /\ Precision % 2 = 0
  <2>1. s \in Nat \ {0} /\ s % 2 = 0 /\ h \in Spacings /\ Spacings \subseteq Nat \ {0}
    BY DEF L!FloatsFit
  <2>2. Precision \in Nat \ {0} /\ Precision % 2 = 0 /\ 1 \in Spacings
    BY DEF L!FloatsFit
  <2> QED BY <2>1, <2>2
<1> HIDE DEF h, c
<1>3. /\ Int64Half \in Nat \ {0} /\ Int64Half = 4 * (c * h) /\ c * h \in Nat \ {0}
      /\ Precision * h = 2 * (c * h)
  <2>1. c * h \in Nat \ {0}
    BY <1>2
  <2>2. (2 * c) * (2 * h) = 4 * (c * h) /\ (2 * c) * h = 2 * (c * h)
    BY <1>2
  <2> QED BY <1>1, <1>2, <2>1, <2>2
<1>4. L!IsFloat(Int64Half) /\ L!IsFloat(-Int64Half)
  <2>1. Int64Half % s = 0
    <3>1. Int64Half = Precision * s + 0 /\ 0 \in 0..(s - 1)
      BY <1>1, <1>2
    <3> QED BY <1>2, <1>3, <3>1, ModIs
  <2>2. (-Int64Half) % s = 0
    <3> DEFINE x == -Int64Half
               k == -Precision
    <3>1. x \in Int /\ k \in Int /\ x = k * s + 0 /\ 0 \in 0..(s - 1) /\ s \in Nat \ {0}
      BY <1>1, <1>2, <1>3
    <3> HIDE DEF x, k
    <3>2. x % s = 0
      BY <3>1, ModIs
    <3> QED BY <3>2 DEF x
  <2>3. L!Reaches(s, Int64Half) /\ L!Reaches(s, -Int64Half)
    BY <1>1, <1>3 DEF L!Reaches
  <2> QED BY <2>1, <2>2, <2>3 DEF L!IsFloat
<1>5. n \in -Int64Half..Int64Half /\ n \in Int
  BY <1>3
<1> DEFINE u == L!Spacing(n)
<1>6. u = s
  <2>1. u \in Spacings /\ L!Reaches(u, n) /\ \A t \in Spacings : L!Reaches(t, n) => u <= t
    BY <1>5, SpacingHolds
  <2>2. u \in Nat \ {0}
    BY <2>1 DEF L!FloatsFit
  <2>3. L!Reaches(s, n)
    BY <1>1, <1>3 DEF L!Reaches
  <2>4. u <= s
    BY <2>1, <2>3
  <2> HIDE DEF u
  <2>5. ASSUME u < s  PROVE FALSE
    <3>1. u <= h
      BY <1>1, <2>1, <2>5, Coarser DEF h
    <3>2. Precision * u <= Precision * h
      <4>1. Precision * u = u * Precision /\ Precision * h = h * Precision
        BY <1>2, <2>2
      <4> QED BY <1>2, <2>2, <3>1, <4>1, MultiplesOrder
    <3> DEFINE x == Precision * u
               y == c * h
    <3>3. n <= x /\ x <= 2 * y /\ n = 4 * y - 1 /\ y \in Nat \ {0} /\ x \in Int
      BY <1>2, <1>3, <2>1, <2>2, <3>2 DEF L!Reaches
    <3> HIDE DEF x, y, n
    <3> QED BY <3>3
  <2> QED BY <1>2, <2>2, <2>4, <2>5
<1>7. n = (Precision - 1) * s + (s - 1) /\ s - 1 \in 0..(s - 1) /\ Precision - 1 \in Int
  BY <1>1, <1>2
<1>8. n % s = s - 1
  <2> HIDE DEF n
  <2> QED BY <1>2, <1>5, <1>7, ModIs
<1>9. n \div s = Precision - 1
  <2>1. n \div s \in Int /\ n = (n \div s) * s + (s - 1)
    <3> HIDE DEF n
    <3>1. n \div s \in Int /\ n = (n \div s) * s + (n % s)
      BY <1>2, <1>5, DivideParts, Zenon
    <3> QED BY <1>8, <3>1, Zenon
  <2> DEFINE q == n \div s
  <2>2. q * s = (Precision - 1) * s /\ q \in Int
    <3> DEFINE x == q * s
               y == (Precision - 1) * s
    <3>1. x \in Int /\ y \in Int /\ x + (s - 1) = y + (s - 1)
      BY <1>2, <1>7, <2>1
    <3> HIDE DEF x, y, q
    <3>2. x = y
      BY <1>2, <3>1
    <3> QED BY <2>1, <3>2 DEF x, y, q
  <2> HIDE DEF q
  <2>3. q <= Precision - 1 /\ Precision - 1 <= q
    <3>1. q * s < ((Precision - 1) + 1) * s /\ (Precision - 1) * s < (q + 1) * s
      BY <1>2, <2>2
    <3> QED BY <1>2, <1>7, <2>2, <3>1, MultiplesOrder
  <2> QED BY <1>2, <2>2, <2>3 DEF q
<1>10. L!ToFloat(n) = Int64Half
  <2>1. L!ToFloat(n) = L!Round(n, s)
    BY <1>6 DEF L!ToFloat
  <2>2. ~(2 * (s - 1) < s \/ (2 * (s - 1) = s /\ (Precision - 1) % 2 = 0))
    BY <1>2
  <2>3. L!Round(n, s) = ((Precision - 1) + 1) * s
    <3> HIDE DEF n
    <3> QED BY <1>8, <1>9, <2>2 DEF L!Round
  <2>4. ((Precision - 1) + 1) * s = Precision * s
    BY <1>2
  <2> QED BY <1>1, <2>1, <2>3, <2>4
<1>11. ~L!IsFloat(n)
  BY <1>3, <1>5, <1>10, ToFloatIsFloat
<1>12. L!MaxInt(Int64Half) = n
  BY DEF L!MaxInt
<1> HIDE DEF n
<1> QED BY <1>3, <1>4, <1>10, <1>11, <1>12

-----------------------------------------------------------------------------
(* The draw. *)

\* The size of a range of int64 is itself, read as an unsigned integer, but for the whole
\* of int64, whose size reads 0.
LEMMA ModulusIsSize ==
  ASSUME Int64Half \in Nat \ {0},
         NEW lo \in L!MinInt(Int64Half)..L!MaxInt(Int64Half),
         NEW hi \in L!MinInt(Int64Half)..L!MaxInt(Int64Half),
         lo <= hi
  PROVE  L!Modulus(lo, hi) = IF lo = L!MinInt(Int64Half) /\ hi = L!MaxInt(Int64Half)
                           THEN 0 ELSE hi - lo + 1
<1> DEFINE half == Int64Half
           size == hi - lo + 1
<1>1. /\ half \in Nat \ {0} /\ size \in 1..(2 * half) /\ 2 * half \in Nat \ {0}
      /\ size = 2 * half <=> (lo = L!MinInt(half) /\ hi = L!MaxInt(half))
  BY DEF L!MinInt, L!MaxInt
<1>2. L!Modulus(lo, hi) = L!Wrap(size, half) % (2 * half)
  BY DEF L!Modulus
<1> HIDE DEF half, size
<1>3. CASE size < half
  <2>1. L!Wrap(size, half) = size
    BY <1>1, <1>3, WrapFits DEF L!MinInt, L!MaxInt
  <2>2. size % (2 * half) = size
    <3>1. size = 0 * (2 * half) + size /\ size \in 0..(2 * half - 1) /\ size \in Int /\ 0 \in Int
      BY <1>1, <1>3
    <3> QED BY <3>1, <1>1, ModIs
  <2> QED BY <2>1, <2>2, <1>1, <1>2, <1>3 DEF half, size
<1>4. CASE size >= half /\ size < 2 * half
  <2>1. L!Wrap(size, half) = size - 2 * half
    BY <1>1, <1>4, WrapOver
  <2>2. (size - 2 * half) % (2 * half) = size
    <3>1. /\ size - 2 * half = (-1) * (2 * half) + size /\ size \in 0..(2 * half - 1)
          /\ size - 2 * half \in Int /\ -1 \in Int
      BY <1>1, <1>4
    <3> QED BY <3>1, <1>1, ModIs
  <2> QED BY <2>1, <2>2, <1>1, <1>2, <1>4 DEF half, size
<1>5. CASE size = 2 * half
  <2>1. L!Wrap(size, half) = 0
    <3>1. L!Wrap(size, half) = size - 2 * half
      BY <1>1, <1>5, WrapOver
    <3> QED BY <3>1, <1>1, <1>5
  <2>2. 0 % (2 * half) = 0
    <3>1. 0 = 0 * (2 * half) + 0 /\ 0 \in 0..(2 * half - 1) /\ 0 \in Int
      BY <1>1
    <3> QED BY <3>1, <1>1, ModIs
  <2> QED BY <2>1, <2>2, <1>1, <1>2, <1>5 DEF half
<1> QED BY <1>1, <1>3, <1>4, <1>5

\* A number of the range counted from its first bound, though the count may be read as a
\* negative one, leads to the number: the addition wraps back.
LEMMA OffsetIsExact ==
  ASSUME Int64Half \in Nat \ {0},
         NEW lo \in L!MinInt(Int64Half)..L!MaxInt(Int64Half),
         NEW r \in 0..(2 * Int64Half - 1),
         lo + r \in L!MinInt(Int64Half)..L!MaxInt(Int64Half)
  PROVE  L!Wrap(lo + L!Wrap(r, Int64Half), Int64Half) = lo + r
<1> DEFINE half == Int64Half
<1>1. /\ half \in Nat \ {0} /\ lo \in -half..(half - 1) /\ r \in 0..(2 * half - 1)
      /\ lo + r \in -half..(half - 1)
  BY DEF L!MinInt, L!MaxInt
<1> HIDE DEF half
<1>2. CASE r < half
  <2>1. L!Wrap(r, half) = r /\ L!Wrap(lo + r, half) = lo + r
    BY <1>1, <1>2, WrapFits DEF L!MinInt, L!MaxInt
  <2> QED BY <2>1 DEF half
<1>3. CASE r >= half
  <2>1. L!Wrap(r, half) = r - 2 * half
    BY <1>1, <1>3, WrapOver
  <2>2. lo + (r - 2 * half) \in (-(3 * half))..(-half - 1)
    BY <1>1, <1>3
  <2>3. L!Wrap(lo + (r - 2 * half), half) = lo + (r - 2 * half) + 2 * half
    BY <2>2, <1>1, WrapUnder
  <2>4. lo + (r - 2 * half) + 2 * half = lo + r
    BY <1>1
  <2> QED BY <2>1, <2>3, <2>4 DEF half
<1> QED BY <1>1, <1>2, <1>3

\* The draws of a range: every number of it, rounded, and no other, but for the whole of
\* int64.
LEMMA DrawsAreTheRange ==
  ASSUME Int64Half \in Nat \ {0},
         NEW lo \in L!MinInt(Int64Half)..L!MaxInt(Int64Half),
         NEW hi \in L!MinInt(Int64Half)..L!MaxInt(Int64Half),
         lo <= hi
  PROVE  {L!Between(lo, hi, draw) : draw \in L!Draws} =
           IF lo = L!MinInt(Int64Half) /\ hi = L!MaxInt(Int64Half)
           THEN {L!Panic} ELSE {L!Number(L!ToFloat(n)) : n \in lo..hi}
<1> DEFINE size == hi - lo + 1
<1>1. /\ Int64Half \in Nat \ {0} /\ lo \in Int /\ hi \in Int /\ ~(hi < lo)
      /\ size \in 1..(2 * Int64Half) /\ 0 \in L!Draws /\ size \in Nat \ {0} /\ lo..hi # {}
  BY DEF L!MinInt, L!MaxInt, L!Draws
<1>2. CASE lo = L!MinInt(Int64Half) /\ hi = L!MaxInt(Int64Half)
  <2>1. L!Modulus(lo, hi) = 0
    BY <1>2, ModulusIsSize
  <2>2. \A draw \in L!Draws : L!Between(lo, hi, draw) = L!Panic
    BY <2>1, <1>1 DEF L!Between
  <2> QED BY <2>2, <1>1, <1>2
<1>3. CASE ~(lo = L!MinInt(Int64Half) /\ hi = L!MaxInt(Int64Half))
  <2>1. L!Modulus(lo, hi) = size /\ size # 0
    BY <1>3, <1>1, ModulusIsSize
  <2>2. \A draw \in L!Draws :
          L!Between(lo, hi, draw) = L!Number(L!ToFloat(L!Wrap(lo + L!Wrap(draw % size, Int64Half), Int64Half)))
    BY <2>1, <1>1 DEF L!Between
  <2>3. \A r \in 0..(size - 1) : /\ L!Wrap(lo + L!Wrap(r, Int64Half), Int64Half) = lo + r
                                 /\ lo + r \in lo..hi
    <3> TAKE r \in 0..(size - 1)
    <3>1. /\ r \in 0..(2 * Int64Half - 1) /\ lo + r \in lo..hi
          /\ lo + r \in L!MinInt(Int64Half)..L!MaxInt(Int64Half)
      BY <1>1 DEF L!MinInt, L!MaxInt
    <3> QED BY <3>1, OffsetIsExact
  <2>4. ASSUME NEW draw \in L!Draws PROVE draw % size \in 0..(size - 1)
    BY <1>1 DEF L!Draws
  <2>5. ASSUME NEW n \in lo..hi
        PROVE  n - lo \in L!Draws /\ (n - lo) % size = n - lo /\ n - lo \in 0..(size - 1)
    <3>1. /\ n - lo \in 0..(size - 1) /\ n - lo \in L!Draws /\ n - lo \in Int /\ 0 \in Int
          /\ n - lo = 0 * size + (n - lo)
      BY <1>1 DEF L!Draws
    <3> QED BY <3>1, <1>1, ModIs
  <2> HIDE DEF size
  <2>6. ASSUME NEW draw \in L!Draws
        PROVE  L!Between(lo, hi, draw) \in {L!Number(L!ToFloat(n)) : n \in lo..hi}
    <3>1. PICK r \in 0..(size - 1) : r = draw % size
      BY <2>4
    <3> QED BY <3>1, <2>2, <2>3
  <2>7. ASSUME NEW n \in lo..hi
        PROVE  L!Number(L!ToFloat(n)) \in {L!Between(lo, hi, draw) : draw \in L!Draws}
    <3>1. L!Between(lo, hi, n - lo) = L!Number(L!ToFloat(lo + (n - lo)))
      BY <2>2, <2>3, <2>5
    <3>2. lo + (n - lo) = n
      BY <1>1
    <3> QED BY <3>1, <3>2, <2>5
  <2>8. {L!Between(lo, hi, draw) : draw \in L!Draws} = {L!Number(L!ToFloat(n)) : n \in lo..hi}
    BY <2>6, <2>7
  <2> QED BY <2>8, <1>3
<1> QED BY <1>2, <1>3

\* Rounded, the numbers of a range from a float to a float are its floats; the largest
\* int64 stands for the float past it.
LEMMA RangeRounds ==
  ASSUME L!FloatsFit,
         NEW lo \in L!MinInt(Int64Half)..L!MaxInt(Int64Half),
         NEW hi \in L!MinInt(Int64Half)..L!MaxInt(Int64Half),
         lo <= hi,
         L!IsFloat(lo) \/ lo = L!MaxInt(Int64Half),
         L!IsFloat(hi) \/ hi = L!MaxInt(Int64Half)
  PROVE  LET last == IF hi = L!MaxInt(Int64Half) THEN Int64Half ELSE hi IN
         {L!ToFloat(n) : n \in lo..hi} = {n \in lo..last : L!IsFloat(n)}
<1> DEFINE half == Int64Half
           largest == L!MaxInt(half)
           last == IF hi = largest THEN half ELSE hi
<1>1. /\ half \in Nat \ {0} /\ largest = half - 1 /\ lo \in -half..(half - 1) /\ hi \in -half..(half - 1)
      /\ L!IsFloat(half) /\ L!ToFloat(largest) = half /\ ~L!IsFloat(largest)
  BY EndsRound DEF L!MinInt, L!MaxInt
<1>2. /\ L!IsFloat(last) /\ last \in Int /\ hi <= last /\ last \in -half..half
      /\ (last = hi \/ (last = half /\ hi = largest))
  BY <1>1
<1>3. L!IsFloat(lo) \/ (lo = largest /\ hi = largest)
  BY <1>1
<1> HIDE DEF largest, last
<1>4. ASSUME NEW n \in lo..hi
      PROVE  L!ToFloat(n) \in lo..last /\ L!IsFloat(L!ToFloat(n))
  <2>1. n \in -Int64Half..Int64Half /\ n \in Int /\ lo <= n /\ n <= last
    BY <1>1, <1>2
  <2>2. L!ToFloat(n) \in Int /\ L!IsFloat(L!ToFloat(n)) /\ L!ToFloat(n) <= last
    BY <1>2, <2>1, ToFloatIsFloat, FloatIsBound
  <2>3. lo <= L!ToFloat(n)
    <3>1. CASE L!IsFloat(lo)
      BY <1>1, <2>1, <3>1, FloatIsBound
    <3>2. CASE lo = largest /\ hi = largest
      BY <1>1, <2>1, <3>2
    <3> QED BY <1>3, <3>1, <3>2
  <2> QED BY <1>1, <1>2, <2>2, <2>3
<1>5. ASSUME NEW f \in lo..last, L!IsFloat(f)
      PROVE  \E n \in lo..hi : L!ToFloat(n) = f
  <2>1. CASE f <= hi
    <3>1. f \in lo..hi /\ f \in -Int64Half..Int64Half
      BY <1>1, <1>2, <2>1
    <3> QED BY <1>5, <3>1, ToFloatIsFloat
  <2>2. CASE ~(f <= hi)
    <3>1. f = half /\ hi = largest /\ largest \in lo..hi
      BY <1>1, <1>2, <2>2
    <3> QED BY <1>1, <3>1
  <2> QED BY <2>1, <2>2
<1>6. {L!ToFloat(n) : n \in lo..hi} = {n \in lo..last : L!IsFloat(n)}
  BY <1>4, <1>5
<1> QED BY <1>6 DEF last, largest, half

\* A float without its fraction is a float.
LEMMA TruncatedFloat ==
  ASSUME L!FloatsFit, NEW h \in Int, L!IsFloat(h)
  PROVE  L!IsFloat(L!Truncate(h))
<1> DEFINE n == L!Truncate(h)
<1>1. PICK s \in Spacings : L!Reaches(s, h) /\ h % s = 0
  BY DEF L!IsFloat
<1>2. /\ s \in Nat \ {0} /\ Precision \in Nat \ {0} /\ 1 \in Spacings
      /\ s # 1 => s % 2 = 0 /\ s \div 2 \in Spacings
  BY DEF L!FloatsFit
<1>3. n \in Int /\ (h >= 0 => n >= 0 /\ 2 * n <= h) /\ (h < 0 => n <= 0 /\ 2 * n >= h)
      /\ (h % 2 = 0 => h = 2 * n)
  BY DEF L!Truncate
<1>4. CASE s = 1
  <2>1. L!Reaches(1, n)
    BY <1>1, <1>2, <1>3, <1>4 DEF L!Reaches
  <2>2. n % 1 = 0
    BY <1>3
  <2> QED BY <1>2, <2>1, <2>2 DEF L!IsFloat
<1>5. CASE s # 1
  <2> DEFINE t == s \div 2
             m == h \div s
  <2>1. t \in Spacings /\ s = 2 * t /\ t \in Nat \ {0}
    BY <1>2, <1>5
  <2>2. h = m * s /\ m \in Int
    BY <1>1, <1>2, DivideParts
  <2> HIDE DEF t, m, n
  <2>3. h = 2 * (m * t) /\ m * t \in Int
    BY <2>1, <2>2
  <2>4. n = m * t
    <3> DEFINE x == m * t
    <3>1. h = 2 * x /\ x \in Int
      BY <2>3
    <3> HIDE DEF x
    <3>2. n = x
      BY <1>3, <3>1
    <3> QED BY <3>2 DEF x
  <2>5. n % t = 0
    <3>1. n = m * t + 0 /\ 0 \in 0..(t - 1)
      BY <2>1, <2>2, <2>3, <2>4
    <3> QED BY <1>3, <2>1, <2>2, <3>1, ModIs
  <2>6. L!Reaches(t, n)
    <3> DEFINE x == Precision * t
    <3>1. Precision * s = 2 * x /\ x \in Int
      BY <1>2, <2>1
    <3>2. h \in -(2 * x)..(2 * x) /\ h = 2 * n
      BY <1>1, <2>3, <2>4, <3>1 DEF L!Reaches
    <3>3. n \in -x..x
      <4> HIDE DEF x
      <4> QED BY <1>3, <3>1, <3>2
    <3> QED BY <3>3 DEF L!Reaches
  <2> QED BY <2>1, <2>5, <2>6 DEF L!IsFloat, n
<1> QED BY <1>4, <1>5 DEF n

\* What a float converts to is a float, or the largest int64 on a build that saturates.
LEMMA ConvertedFloat ==
  ASSUME L!FloatsFit, NEW h \in Halves, Halves \subseteq Int
  PROVE  LET n == L!ToInt(h, Int64Half, saturates) IN
         \/ L!IsFloat(n) /\ n # L!MaxInt(Int64Half)
         \/ saturates /\ n = L!MaxInt(Int64Half)
<1> DEFINE n == L!ToInt(h, Int64Half, saturates)
           cut == L!Truncate(h)
<1>1. L!IsFloat(cut) /\ cut \in Int
  <2>1. L!IsFloat(h) /\ h \in Int
    BY DEF L!FloatsFit
  <2> QED BY <2>1, TruncatedFloat DEF L!Truncate
<1>2. /\ Int64Half \in Nat \ {0} /\ L!IsFloat(-Int64Half) /\ ~L!IsFloat(L!MaxInt(Int64Half))
  BY EndsRound
<1>3. n = IF cut \in L!MinInt(Int64Half)..L!MaxInt(Int64Half) THEN cut
          ELSE IF saturates /\ cut > 0 THEN L!MaxInt(Int64Half) ELSE L!MinInt(Int64Half)
  BY DEF L!ToInt
<1> HIDE DEF n, cut
<1>4. L!IsFloat(n) \/ (saturates /\ n = L!MaxInt(Int64Half))
  BY <1>1, <1>2, <1>3 DEF L!MinInt
<1> QED BY <1>2, <1>4 DEF n

\* For every width of int64 and every precision of floats, RANDBETWEEN draws the floats of
\* its range and nothing else.
THEOREM DrawsEveryWidth == Spec => []DrawsEveryFloat
<1>0. L!WidthsFit /\ L!FloatsFit
  BY InputsAssumption
<1> USE <1>0
<1> DEFINE Inv == saturates \in BOOLEAN /\ L!DrawsEveryFloat
<1>1. L!Init => Inv
  BY DEF L!Init, L!DrawsEveryFloat, L!Called
<1>2. Inv /\ [L!Next]_vars => Inv'
  <2> SUFFICES ASSUME Inv, [L!Next]_vars PROVE Inv'
    OBVIOUS
  <2>1. CASE UNCHANGED L!vars
    BY <2>1 DEF L!vars, L!DrawsEveryFloat, L!Called
  <2>2. CASE L!Next
    <3>1. saturates' = saturates
      BY <2>2 DEF L!Next
    <3>2. ASSUME NEW a \in Halves, NEW length \in Lengths, L!Rept(a, length)
          PROVE  L!DrawsEveryFloat'
      BY <3>2 DEF L!Rept, L!DrawsEveryFloat, L!Called
    <3>3. ASSUME NEW a \in Halves, NEW b \in Halves, NEW maker \in {"sequence", "randarray"},
                 L!Generate(maker, a, b)
          PROVE  L!DrawsEveryFloat'
      BY <3>3 DEF L!Generate, L!DrawsEveryFloat, L!Called
    <3>4. ASSUME NEW a \in Halves, NEW b \in Halves, NEW draw \in L!Draws, L!RandBetween(a, b, draw)
          PROVE  L!DrawsEveryFloat'
      <4> DEFINE lo == L!ToInt(a, Int64Half, saturates)
                 hi == L!ToInt(b, Int64Half, saturates)
      <4>1. /\ Int64Half \in Nat \ {0} /\ Halves \subseteq Int
            /\ lo \in L!MinInt(Int64Half)..L!MaxInt(Int64Half)
            /\ hi \in L!MinInt(Int64Half)..L!MaxInt(Int64Half)
        BY ToIntFits DEF L!WidthsFit
      <4>2. /\ hi = L!MaxInt(Int64Half) => saturates
            /\ L!IsFloat(lo) \/ lo = L!MaxInt(Int64Half)
            /\ L!IsFloat(hi) \/ hi = L!MaxInt(Int64Half)
        BY <4>1, ConvertedFloat
      <4>3. answer' = [call |-> "randbetween", args |-> <<lo, hi>>,
                       result |-> L!Between(lo, hi, draw)]
        BY <3>4 DEF L!RandBetween
      <4> HIDE DEF lo, hi
      <4>4. CASE hi < lo
        BY <4>3, <4>4 DEF L!DrawsEveryFloat, L!Between
      <4>5. CASE ~(hi < lo)
        <5>1. lo <= hi
          BY <4>1, <4>5 DEF L!MinInt, L!MaxInt
        <5> DEFINE last == IF hi = L!MaxInt(Int64Half) THEN Int64Half ELSE hi
        <5>2. {L!Between(lo, hi, d) : d \in L!Draws} =
                IF lo = L!MinInt(Int64Half) /\ hi = L!MaxInt(Int64Half)
                THEN {L!Panic} ELSE {L!Number(L!ToFloat(n)) : n \in lo..hi}
          BY <5>1, <4>1, DrawsAreTheRange
        <5>3. {L!ToFloat(n) : n \in lo..hi} = {n \in lo..last : L!IsFloat(n)}
          BY <5>1, <4>1, <4>2, RangeRounds
        <5>4. {L!Number(L!ToFloat(n)) : n \in lo..hi} = {L!Number(f) : f \in {n \in lo..last : L!IsFloat(n)}}
          <6>1. {L!Number(L!ToFloat(n)) : n \in lo..hi} = {L!Number(f) : f \in {L!ToFloat(n) : n \in lo..hi}}
            OBVIOUS
          <6> QED BY <5>3, <6>1
        <5> QED BY <5>2, <5>4, <4>2, <4>3, <4>5, <3>1 DEF L!DrawsEveryFloat
      <4> QED BY <4>4, <4>5
    <3> QED BY <2>2, <3>1, <3>2, <3>3, <3>4 DEF L!Next
  <2> QED BY <2>1, <2>2 DEF vars, L!vars
<1>3. Init => (owner = "limits" => Inv)
  BY <1>1 DEF Init
<1>4. (owner = "limits" => Inv) /\ [Next]_vars => (owner = "limits" => Inv)'
  <2> SUFFICES ASSUME owner = "limits" => Inv, [Next]_vars, owner' = "limits" PROVE Inv'
    OBVIOUS
  <2>1. CASE UNCHANGED vars
    BY <1>2, <2>1 DEF vars
  <2>2. CASE Next
    <3>1. owner = "limits" /\ L!Next
      BY <2>2 DEF Next, ArrayStep, LimitStep, ImportStep, ColumnStep, CallStep, DateStep, AddressStep, TextStep
    <3> QED BY <1>2, <3>1
  <2> QED BY <2>1, <2>2
<1>5. (owner = "limits" => Inv) => DrawsEveryFloat
  BY DEF DrawsEveryFloat
<1> QED BY <1>3, <1>4, <1>5, PTL DEF Spec

-----------------------------------------------------------------------------
(* The calendar. *)

\* The days of a year, and of the months of one, from the epoch.
Leaps(x) == (x \div 4) - (x \div 100) + (x \div 400)
Jan(y) == 365 * (y - 1) + Leaps(y - 1) - 693593
First(y, m) == Jan(y) + D!DaysBefore[m] + (IF m > 2 /\ D!IsLeap(y) THEN 1 ELSE 0)

LEMMA QuotientIs ==
  ASSUME NEW k \in Int, NEW b \in Nat \ {0}, NEW q \in Int, NEW r \in 0..(b - 1), k = q * b + r
  PROVE  k \div b = q /\ k % b = r
OBVIOUS

\* The months count on from one year to the next.
SameDay(z, k, d, y, m) == D!Day(z, k, d) = First(y, m) + d - 1

LEMMA DayIs ==
  ASSUME NEW y \in Int, NEW m \in 1..12, NEW z \in Int, NEW k \in Int, 12 * z + k = 12 * y + m,
         NEW d \in Int
  PROVE  SameDay(z, k, d, y, m)
<1>1. (k - 1) \div 12 = y - z /\ (k - 1) % 12 = m - 1
  <2>1. k - 1 = (y - z) * 12 + (m - 1)
    OBVIOUS
  <2> DEFINE q == y - z
             r == m - 1
             l == k - 1
  <2>2. q \in Int /\ r \in 0..11 /\ l \in Int /\ l = q * 12 + r
    BY <2>1
  <2> HIDE DEF q, r, l
  <2>3. l \div 12 = q /\ l % 12 = r
    BY <2>2
  <2> QED BY <2>3 DEF q, r, l
<1>2. z + (y - z) = y /\ (m - 1) + 1 = m
  OBVIOUS
<1>3. D!Day(z, k, d) = 365 * (y - 1) + ((y - 1) \div 4) - ((y - 1) \div 100) + ((y - 1) \div 400)
        + D!DaysBefore[m] + (IF m > 2 /\ D!IsLeap(y) THEN 1 ELSE 0) + d - 693594
  BY <1>1, <1>2, SMT DEF D!Day
<1>4. D!DaysBefore[m] \in Int /\ (IF m > 2 /\ D!IsLeap(y) THEN 1 ELSE 0) \in Int
  BY DEF D!DaysBefore
<1>5. (y - 1) \div 4 \in Int /\ (y - 1) \div 100 \in Int /\ (y - 1) \div 400 \in Int
  OBVIOUS
<1> DEFINE b == D!DaysBefore[m]
           l == IF m > 2 /\ D!IsLeap(y) THEN 1 ELSE 0
           q4 == (y - 1) \div 4
           q100 == (y - 1) \div 100
           q400 == (y - 1) \div 400
<1>6. First(y, m) = 365 * (y - 1) + (q4 - q100 + q400) - 693593 + b + l
  BY SMT DEF First, Jan, Leaps
<1> HIDE DEF b, l, q4, q100, q400
<1>7. D!Day(z, k, d) = 365 * (y - 1) + q4 - q100 + q400 + b + l + d - 693594
  BY <1>3, SMT DEF b, l, q4, q100, q400
<1>8. b \in Int /\ l \in Int /\ q4 \in Int /\ q100 \in Int /\ q400 \in Int
  BY <1>4, <1>5 DEF b, l, q4, q100, q400
<1> QED BY <1>6, <1>7, <1>8, SMT DEF SameDay

LEMMA FirstIs ==
  ASSUME NEW y \in Int, NEW m \in 1..12, NEW d \in Int
  PROVE  D!Day(y, m, d) = First(y, m) + d - 1
<1>0. m \in Int /\ 12 * y + m = 12 * y + m
  OBVIOUS
<1>1. SameDay(y, m, d, y, m)
  BY <1>0, DayIs, Zenon
<1> QED BY <1>1 DEF SameDay

\* A year has 365 days, or 366, and later years begin later.
LEMMA YearLength ==
  ASSUME NEW y \in Int
  PROVE  Jan(y) \in Int /\ Jan(y + 1) = Jan(y) + (IF D!IsLeap(y) THEN 366 ELSE 365)
<1> DEFINE x == y - 1
<1>1. x \in Int /\ y = x + 1
  OBVIOUS
<1>2. /\ (x + 1) \div 4 = x \div 4 + (IF (x + 1) % 4 = 0 THEN 1 ELSE 0)
      /\ (x + 1) \div 100 = x \div 100 + (IF (x + 1) % 100 = 0 THEN 1 ELSE 0)
      /\ (x + 1) \div 400 = x \div 400 + (IF (x + 1) % 400 = 0 THEN 1 ELSE 0)
      /\ (x + 1) % 100 = 0 => (x + 1) % 4 = 0
      /\ (x + 1) % 400 = 0 => (x + 1) % 100 = 0
  BY <1>1
<1> QED BY <1>1, <1>2, SMT DEF Jan, Leaps, D!IsLeap

MonthFacts(y, m) ==
  /\ First(y, m) \in Int /\ First(y, 1) = Jan(y)
  /\ D!DaysIn(y, m) \in 28..31
  /\ m # 12 => First(y, m + 1) = First(y, m) + D!DaysIn(y, m)
  /\ m = 12 => Jan(y + 1) = First(y, m) + D!DaysIn(y, m)

LEMMA MonthLength ==
  ASSUME NEW y \in Int, NEW m \in 1..12
  PROVE  MonthFacts(y, m)
<1>1. Jan(y) \in Int /\ Jan(y + 1) = Jan(y) + (IF D!IsLeap(y) THEN 366 ELSE 365)
  BY YearLength
<1> DEFINE j == Jan(y)
           k == Jan(y + 1)
<1> HIDE DEF j, k
<1>2. \A i \in 1..12 : First(y, i) = j + D!DaysBefore[i] + (IF i > 2 /\ D!IsLeap(y) THEN 1 ELSE 0)
  BY DEF First, j
<1>3. j \in Int /\ k = j + (IF D!IsLeap(y) THEN 366 ELSE 365)
  BY <1>1, SMT DEF j, k
<1>4. m = 1 \/ m = 2 \/ m = 3 \/ m = 4 \/ m = 5 \/ m = 6 \/ m = 7 \/ m = 8 \/ m = 9 \/ m = 10
      \/ m = 11 \/ m = 12
  OBVIOUS
<1> QED BY <1>2, <1>3, <1>4, SMTT(60) DEF MonthFacts, D!DaysBefore, D!DaysIn, j, k

\* Years begin in their order.
LEMMA YearsInOrder ==
  ASSUME NEW y \in Int, NEW z \in Int, y <= z
  PROVE  Jan(y) <= Jan(z)
BY SMT DEF Jan, Leaps

\* The year of a day is one of three.
LEMMA YearGuess ==
  ASSUME NEW n \in Int
  PROVE  LET g == 1900 + ((n * 400) \div 146097) IN
         g \in Int /\ Jan(g - 1) <= n /\ n < Jan(g + 2)
<1> DEFINE e == (n * 400) \div 146097
<1>1. e \in Int /\ 146097 * e <= 400 * n /\ 400 * n < 146097 * e + 146097
  BY SMT
<1> HIDE DEF e
<1>2. \A x \in Int : /\ Leaps(x) \in Int
                     /\ 400 * Leaps(x) <= 97 * x + 396 /\ 97 * x - 699 <= 400 * Leaps(x)
  BY SMTT(30) DEF Leaps
<1>3. /\ Jan((1900 + e) - 1) = 365 * (1898 + e) + Leaps(1898 + e) - 693593
      /\ Jan((1900 + e) + 2) = 365 * (1901 + e) + Leaps(1901 + e) - 693593
  <2>1. ((1900 + e) - 1) - 1 = 1898 + e /\ ((1900 + e) + 2) - 1 = 1901 + e
    BY <1>1, SMT
  <2> QED BY <2>1, SMT DEF Jan
<1> DEFINE p == Leaps(1898 + e)
           q == Leaps(1901 + e)
<1>4. /\ p \in Int /\ 400 * p <= 97 * (1898 + e) + 396
      /\ q \in Int /\ 97 * (1901 + e) - 699 <= 400 * q
  BY <1>1, <1>2, SMT
<1> HIDE DEF p, q
<1>5. Jan((1900 + e) - 1) <= n /\ n < Jan((1900 + e) + 2)
  BY <1>1, <1>3, <1>4, SMT DEF p, q
<1> QED BY <1>1, <1>5, SMT DEF e

\* The day n is the t.d-th of the month t.m of the year t.y.
IsDateOf(t, n) ==
  /\ t.y \in Int /\ t.m \in 1..12 /\ t.d \in 1..D!DaysIn(t.y, t.m)
  /\ First(t.y, t.m) + t.d - 1 = n

YearOf(n) == LET guess == 1900 + ((n * 400) \div 146097)
             IN CHOOSE y \in (guess - 1)..(guess + 1) : D!Day(y, 1, 1) <= n /\ n < D!Day(y + 1, 1, 1)
MonthOf(y, n) == CHOOSE m \in 1..12 : D!Day(y, m, 1) <= n /\ n < D!Day(y, m + 1, 1)

LEMMA DateOfUnfolds ==
  ASSUME NEW n \in Int
  PROVE  D!DateOf(n) = [y |-> YearOf(n), m |-> MonthOf(YearOf(n), n),
                        d |-> n - D!Day(YearOf(n), MonthOf(YearOf(n), n), 1) + 1]
BY SMT DEF D!DateOf, YearOf, MonthOf

LEMMA YearOfIs ==
  ASSUME NEW n \in Int
  PROVE  YearOf(n) \in Int /\ Jan(YearOf(n)) <= n /\ n < Jan(YearOf(n) + 1)
<1> DEFINE g == 1900 + ((n * 400) \div 146097)
<1>1. g \in Int /\ Jan(g - 1) <= n /\ n < Jan(g + 2)
  BY YearGuess, SMT
<1> HIDE DEF g
<1>2. \A y \in Int : D!Day(y, 1, 1) = Jan(y) /\ Jan(y) \in Int
  <2> TAKE y \in Int
  <2>1. D!Day(y, 1, 1) = First(y, 1) + 1 - 1
    BY FirstIs
  <2>2. First(y, 1) = Jan(y) /\ Jan(y) \in Int
    BY MonthLength, YearLength DEF MonthFacts
  <2> QED BY <2>1, <2>2
<1>3. \E y \in (g - 1)..(g + 1) : Jan(y) <= n /\ n < Jan(y + 1)
  <2>1. Jan(g - 1) \in Int /\ Jan(g) \in Int /\ Jan(g + 1) \in Int /\ Jan(g + 2) \in Int
    BY <1>1, <1>2
  <2>2. (g - 1) + 1 = g /\ (g + 1) + 1 = g + 2
    BY <1>1
  <2>3. CASE n < Jan(g)
    <3>1. g - 1 \in (g - 1)..(g + 1)
      BY <1>1
    <3> QED BY <1>1, <2>2, <2>3, <3>1
  <2>4. CASE Jan(g) <= n /\ n < Jan(g + 1)
    <3>1. g \in (g - 1)..(g + 1)
      BY <1>1
    <3> QED BY <2>4, <3>1
  <2>5. CASE Jan(g + 1) <= n
    <3>1. g + 1 \in (g - 1)..(g + 1)
      BY <1>1
    <3> QED BY <1>1, <2>2, <2>5, <3>1
  <2> QED BY <2>1, <2>3, <2>4, <2>5
<1>4. \A y \in (g - 1)..(g + 1) : y \in Int /\ y + 1 \in Int
  BY <1>1
<1>5. \E y \in (g - 1)..(g + 1) : D!Day(y, 1, 1) <= n /\ n < D!Day(y + 1, 1, 1)
  BY <1>2, <1>3, <1>4
<1> DEFINE c == CHOOSE y \in (g - 1)..(g + 1) : D!Day(y, 1, 1) <= n /\ n < D!Day(y + 1, 1, 1)
<1>6. c \in (g - 1)..(g + 1) /\ D!Day(c, 1, 1) <= n /\ n < D!Day(c + 1, 1, 1)
  BY <1>5
<1>7. c = YearOf(n)
  BY SMT DEF YearOf, g
<1> HIDE DEF c
<1> QED BY <1>2, <1>4, <1>6, <1>7

LEMMA MonthOfIs ==
  ASSUME NEW n \in Int, NEW y \in Int, Jan(y) <= n, n < Jan(y + 1)
  PROVE  LET m == MonthOf(y, n) IN
         m \in 1..12 /\ First(y, m) <= n /\ n < First(y, m) + D!DaysIn(y, m)
<1>1. \A m \in 1..12 : /\ D!Day(y, m, 1) = First(y, m) /\ First(y, m) \in Int
                       /\ D!Day(y, m + 1, 1) = First(y, m) + D!DaysIn(y, m)
  <2> TAKE m \in 1..12
  <2>0. \A i \in 1..12 : MonthFacts(y, i)
    BY MonthLength
  <2>1. D!Day(y, m, 1) = First(y, m) /\ First(y, m) \in Int
    <3>1. D!Day(y, m, 1) = First(y, m) + 1 - 1
      BY FirstIs
    <3> QED BY <2>0, <3>1 DEF MonthFacts
  <2>2. CASE m # 12
    <3>1. m + 1 \in 1..12
      BY <2>2
    <3>2. D!Day(y, m + 1, 1) = First(y, m + 1) + 1 - 1
      BY <3>1, FirstIs
    <3>3. First(y, m + 1) \in Int
      BY <2>0, <3>1 DEF MonthFacts
    <3> QED BY <2>0, <2>1, <2>2, <3>2, <3>3 DEF MonthFacts
  <2>3. CASE m = 12
    <3>1. 12 * y + (m + 1) = 12 * (y + 1) + 1 /\ y + 1 \in Int /\ m + 1 \in Int /\ 1 \in 1..12
      BY <2>3
    <3>2. D!Day(y, m + 1, 1) = First(y + 1, 1) + 1 - 1
      <4>1. SameDay(y, m + 1, 1, y + 1, 1)
        BY <3>1, DayIs
      <4> QED BY <4>1 DEF SameDay
    <3>3. First(y + 1, 1) = Jan(y + 1) /\ Jan(y + 1) \in Int
      <4>1. MonthFacts(y + 1, 1)
        BY <3>1, MonthLength
      <4> QED BY <3>1, <4>1, YearLength DEF MonthFacts
    <3>4. Jan(y + 1) = First(y, m) + D!DaysIn(y, m)
      BY <2>0, <2>3 DEF MonthFacts
    <3> QED BY <2>1, <3>2, <3>3, <3>4
  <2> QED BY <2>2, <2>3
<1>0. \A i \in 1..12 : MonthFacts(y, i)
  BY MonthLength
<1> DEFINE P(m) == First(y, m) <= n /\ n < First(y, m) + D!DaysIn(y, m)
<1>2. \E m \in 1..12 : P(m)
  <2>1. First(y, 1) = Jan(y)
    BY <1>0 DEF MonthFacts
  <2>2. \A m \in 1..12 : /\ D!DaysIn(y, m) \in Int
                         /\ m # 12 => First(y, m + 1) = First(y, m) + D!DaysIn(y, m)
                         /\ m = 12 => Jan(y + 1) = First(y, m) + D!DaysIn(y, m)
    BY <1>0 DEF MonthFacts
  <2> SUFFICES ASSUME \A m \in 1..12 : ~P(m) PROVE FALSE
    OBVIOUS
  <2>3. \A m \in 1..12 : m # 12 /\ First(y, m) <= n => First(y, m + 1) <= n
    BY <1>1, <2>2
  <2>4. First(y, 12) <= n
    <3>1. First(y, 2) <= n
      BY <2>1, <2>3
    <3>2. First(y, 3) <= n
      BY <2>3, <3>1
    <3>3. First(y, 4) <= n
      BY <2>3, <3>2
    <3>4. First(y, 5) <= n
      BY <2>3, <3>3
    <3>5. First(y, 6) <= n
      BY <2>3, <3>4
    <3>6. First(y, 7) <= n
      BY <2>3, <3>5
    <3>7. First(y, 8) <= n
      BY <2>3, <3>6
    <3>8. First(y, 9) <= n
      BY <2>3, <3>7
    <3>9. First(y, 10) <= n
      BY <2>3, <3>8
    <3>10. First(y, 11) <= n
      BY <2>3, <3>9
    <3> QED BY <2>3, <3>10
  <2> QED BY <2>2, <2>4
<1>3. \E m \in 1..12 : D!Day(y, m, 1) <= n /\ n < D!Day(y, m + 1, 1)
  BY <1>1, <1>2
<1>4. MonthOf(y, n) \in 1..12 /\ D!Day(y, MonthOf(y, n), 1) <= n /\ n < D!Day(y, MonthOf(y, n) + 1, 1)
  BY <1>3, Zenon DEF MonthOf
<1> QED BY <1>1, <1>4

\* The date of a day is the date of it, and there is no other.
LEMMA DateOfIs ==
  ASSUME NEW n \in Int
  PROVE  IsDateOf(D!DateOf(n), n)
<1> DEFINE y == YearOf(n)
           m == MonthOf(y, n)
<1>1. y \in Int /\ Jan(y) <= n /\ n < Jan(y + 1)
  BY YearOfIs
<1> HIDE DEF y
<1>2. m \in 1..12 /\ First(y, m) <= n /\ n < First(y, m) + D!DaysIn(y, m)
  BY <1>1, MonthOfIs
<1>3. D!DateOf(n) = [y |-> y, m |-> m, d |-> n - D!Day(y, m, 1) + 1]
  BY DateOfUnfolds DEF y
<1> HIDE DEF m
<1>4. D!Day(y, m, 1) = First(y, m) /\ First(y, m) \in Int /\ D!DaysIn(y, m) \in Int
  <2>1. D!Day(y, m, 1) = First(y, m) + 1 - 1 /\ MonthFacts(y, m)
    BY <1>1, <1>2, FirstIs, MonthLength
  <2> QED BY <2>1 DEF MonthFacts
<1> QED BY <1>1, <1>2, <1>3, <1>4 DEF IsDateOf

\* A month ends before the next begins.
InOrder(y, m, k) == First(y, m) + D!DaysIn(y, m) <= First(y, k)

LEMMA MonthsInOrder ==
  ASSUME NEW y \in Int, NEW m \in 1..12, NEW k \in 1..12, m < k
  PROVE  InOrder(y, m, k)
<1> DEFINE j == Jan(y)
<1>1. j \in Int
  BY YearLength
<1> HIDE DEF j
<1>2. /\ First(y, m) = j + D!DaysBefore[m] + (IF m > 2 /\ D!IsLeap(y) THEN 1 ELSE 0)
      /\ First(y, k) = j + D!DaysBefore[k] + (IF k > 2 /\ D!IsLeap(y) THEN 1 ELSE 0)
  BY DEF First, j
<1>3. D!DaysBefore[m] + (IF m > 2 /\ D!IsLeap(y) THEN 1 ELSE 0) + D!DaysIn(y, m)
        <= D!DaysBefore[m + 1] + (IF m + 1 > 2 /\ D!IsLeap(y) THEN 1 ELSE 0)
  <2>1. m = 1 \/ m = 2 \/ m = 3 \/ m = 4 \/ m = 5 \/ m = 6 \/ m = 7 \/ m = 8 \/ m = 9 \/ m = 10 \/ m = 11
    OBVIOUS
  <2> QED BY <2>1, SMTT(60) DEF D!DaysBefore, D!DaysIn
<1>4. D!DaysBefore[m + 1] <= D!DaysBefore[k]
  <2>1. m = 1 \/ m = 2 \/ m = 3 \/ m = 4 \/ m = 5 \/ m = 6 \/ m = 7 \/ m = 8 \/ m = 9 \/ m = 10 \/ m = 11
    OBVIOUS
  <2>2. k = 1 \/ k = 2 \/ k = 3 \/ k = 4 \/ k = 5 \/ k = 6 \/ k = 7 \/ k = 8 \/ k = 9 \/ k = 10
        \/ k = 11 \/ k = 12
    OBVIOUS
  <2> QED BY <2>1, <2>2, SMTT(60) DEF D!DaysBefore
<1>5. D!DaysBefore[m] \in Int /\ D!DaysBefore[m + 1] \in Int /\ D!DaysBefore[k] \in Int
      /\ D!DaysIn(y, m) \in Int
  BY DEF D!DaysBefore, D!DaysIn
<1> DEFINE bm == D!DaysBefore[m]
           bn == D!DaysBefore[m + 1]
           bk == D!DaysBefore[k]
           d == D!DaysIn(y, m)
<1> HIDE DEF bm, bn, bk, d
<1>6. bm \in Int /\ bn \in Int /\ bk \in Int /\ d \in Int
  BY <1>5 DEF bm, bn, bk, d
<1>7. bm + (IF m > 2 /\ D!IsLeap(y) THEN 1 ELSE 0) + d <= bn + (IF m + 1 > 2 /\ D!IsLeap(y) THEN 1 ELSE 0)
      /\ bn <= bk
  BY <1>3, <1>4 DEF bm, bn, bk, d
<1>8. First(y, m) + d <= First(y, k)
  BY <1>1, <1>2, <1>6, <1>7 DEF bm, bk
<1> QED BY <1>8 DEF d, InOrder

SameDate(s, t) == s.y = t.y /\ s.m = t.m /\ s.d = t.d

LEMMA OneDate ==
  ASSUME NEW n \in Int, NEW s, NEW t, IsDateOf(s, n), IsDateOf(t, n)
  PROVE  SameDate(s, t)
<1>1. ASSUME NEW u, IsDateOf(u, n)
      PROVE  /\ u.y \in Int /\ u.m \in 1..12 /\ u.d \in Int
             /\ Jan(u.y) \in Int /\ Jan(u.y + 1) \in Int /\ Jan(u.y) <= n /\ n < Jan(u.y + 1)
             /\ First(u.y, u.m) \in Int /\ D!DaysIn(u.y, u.m) \in Int
             /\ First(u.y, u.m) <= n /\ n < First(u.y, u.m) + D!DaysIn(u.y, u.m)
             /\ n = First(u.y, u.m) + u.d - 1
  <2> DEFINE y == u.y
             m == u.m
             d == u.d
  <2>1. y \in Int /\ m \in 1..12 /\ d \in 1..D!DaysIn(y, m) /\ First(y, m) + d - 1 = n
    BY <1>1 DEF IsDateOf
  <2> HIDE DEF y, m, d
  <2>2. MonthFacts(y, m) /\ MonthFacts(y, 1) /\ MonthFacts(y, 12)
    BY <2>1, MonthLength
  <2>3. 1 < m => InOrder(y, 1, m)
    BY <2>1, MonthsInOrder
  <2>4. m < 12 => InOrder(y, m, 12)
    BY <2>1, MonthsInOrder
  <2>5. Jan(y) \in Int /\ Jan(y + 1) \in Int
    <3>1. y + 1 \in Int
      BY <2>1
    <3> QED BY <2>1, <3>1, YearLength
  <2>6. First(y, m) \in Int /\ D!DaysIn(y, m) \in 28..31 /\ First(y, 1) = Jan(y)
    BY <2>2 DEF MonthFacts
  <2>7. First(y, 12) \in Int /\ D!DaysIn(y, 12) \in 28..31 /\ Jan(y + 1) = First(y, 12) + D!DaysIn(y, 12)
        /\ D!DaysIn(y, 1) \in 28..31
    BY <2>2 DEF MonthFacts
  <2>8. Jan(y) <= First(y, m)
    <3>1. CASE m = 1
      BY <2>5, <2>6, <3>1
    <3>2. CASE 1 < m
      <4>1. First(y, 1) + D!DaysIn(y, 1) <= First(y, m)
        BY <2>3, <3>2 DEF InOrder
      <4> QED BY <4>1, <2>5, <2>6, <2>7
    <3> QED BY <2>1, <3>1, <3>2
  <2>9. First(y, m) + D!DaysIn(y, m) <= Jan(y + 1)
    <3>1. CASE m = 12
      BY <2>5, <2>7, <3>1
    <3>2. CASE m < 12
      <4>1. First(y, m) + D!DaysIn(y, m) <= First(y, 12)
        BY <2>4, <3>2 DEF InOrder
      <4> QED BY <4>1, <2>5, <2>6, <2>7
    <3> QED BY <2>1, <3>1, <3>2
  <2>10. First(y, m) <= n /\ n < First(y, m) + D!DaysIn(y, m) /\ n = First(y, m) + d - 1 /\ d \in Int
    BY <2>1, <2>6
  <2>11. Jan(y) <= n /\ n < Jan(y + 1)
    BY <2>5, <2>6, <2>8, <2>9, <2>10
  <2> QED BY <2>1, <2>5, <2>6, <2>10, <2>11 DEF y, m, d
<1>2. s.y = t.y
  <2>1. ASSUME s.y < t.y PROVE FALSE
    <3>1. s.y + 1 \in Int /\ s.y + 1 <= t.y
      BY <1>1, <2>1
    <3>2. Jan(s.y + 1) <= Jan(t.y)
      BY <1>1, <3>1, YearsInOrder
    <3> QED BY <1>1, <3>2
  <2>2. ASSUME t.y < s.y PROVE FALSE
    <3>1. t.y + 1 \in Int /\ t.y + 1 <= s.y
      BY <1>1, <2>2
    <3>2. Jan(t.y + 1) <= Jan(s.y)
      BY <1>1, <3>1, YearsInOrder
    <3> QED BY <1>1, <3>2
  <2> QED BY <1>1, <2>1, <2>2
<1>3. s.m = t.m
  <2>1. ASSUME s.m < t.m PROVE FALSE
    <3>1. InOrder(s.y, s.m, t.m)
      BY <1>1, <1>2, <2>1, MonthsInOrder
    <3> QED BY <1>1, <1>2, <3>1 DEF InOrder
  <2>2. ASSUME t.m < s.m PROVE FALSE
    <3>1. InOrder(s.y, t.m, s.m)
      BY <1>1, <1>2, <2>2, MonthsInOrder
    <3> QED BY <1>1, <1>2, <3>1 DEF InOrder
  <2> QED BY <1>1, <2>1, <2>2
<1>4. s.d = t.d
  BY <1>1, <1>2, <1>3
<1> QED BY <1>2, <1>3, <1>4 DEF SameDate

\* A number of months since the year 0 is a month of a year.
LEMMA MonthOfYear ==
  ASSUME NEW k \in Int
  PROVE  \E y \in Int, m \in 1..12 : 12 * y + m = k
<1> DEFINE y == (k - 1) \div 12
           m == ((k - 1) % 12) + 1
<1>1. y \in Int /\ m \in 1..12 /\ 12 * y + m = k
  OBVIOUS
<1> QED BY <1>1

\* What is read of a serial within reach.
LEMMA ReadIs ==
  ASSUME NEW n \in Int, D!InputsAreNumbers, D!IsReadable(n)
  PROVE  D!TimeOf(n) = D!DateOf(n) /\ IsDateOf(D!TimeOf(n), n) /\ D!DaySerial(n) = n
         /\ D!ToDay(n, saturates) = n
<1>1. D!ToDay(n, saturates) = n
  BY DEF D!IsReadable, D!ToDay
<1>2. Horizon \in Nat /\ n \in (-Horizon)..Horizon
  BY DEF D!InputsAreNumbers, D!IsReadable
<1>3. D!DaySerial(n) = n
  BY <1>2 DEF D!DaySerial
<1>4. IsDateOf(D!DateOf(n), n)
  BY DateOfIs
<1> QED BY <1>1, <1>3, <1>4 DEF D!TimeOf

\* A serial within reach was not cut off.
LEMMA NotCutOff ==
  ASSUME NEW n \in Int, D!InputsAreNumbers, D!IsReadable(D!DaySerial(n))
  PROVE  D!DaySerial(n) = n
<1>1. Horizon \in Nat /\ D!DaySerial(n) \in (-Horizon)..Horizon
  BY DEF D!InputsAreNumbers, D!IsReadable
<1> QED BY <1>1 DEF D!DaySerial

LEMMA Fields ==
  ASSUME NEW n
  PROVE  /\ D!FnYear(n).num = D!TimeOf(n).y /\ D!FnMonth(n).num = D!TimeOf(n).m
         /\ D!FnDay(n).num = D!TimeOf(n).d
BY DEF D!FnYear, D!FnMonth, D!FnDay, D!Number

\* Of one serial, with all its offsets.
LEMMA MonthsOfSerial ==
  ASSUME D!InputsAreNumbers, NEW s \in Int, D!IsReadable(s),
         NEW y \in Int, NEW m \in 1..12, NEW d \in 1..D!DaysIn(y, m),
         D!TimeOf(s).y = y, D!TimeOf(s).m = m, D!TimeOf(s).d = d, First(y, m) + d - 1 = s,
         NEW n \in Int, D!IsReadable(D!FnEomonth(s, n).num), D!IsReadable(D!FnEomonth(s, n).num + 1)
  PROVE  LET e == D!FnEomonth(s, n).num IN
         /\ D!FnDay(e + 1).num = 1 /\ D!FnDays(e, s) = D!Number(e - s)
         /\ \A k \in Int : D!FnEomonth(e, k) = D!FnEomonth(s, n + k)
         /\ D!IsReadable(e + d) => D!FnEdate(s, n + 1) = D!Date(e + d)
<1> DEFINE e == D!FnEomonth(s, n).num
<1>0. PICK Y \in Int, M \in 1..12 : 12 * Y + M = 12 * y + (m + n + 1)
  <2>1. 12 * y + (m + n + 1) \in Int
    OBVIOUS
  <2> QED BY <2>1, MonthOfYear
<1>1. d \in Int /\ First(y, m) \in Int /\ First(Y, M) \in Int /\ D!DaysIn(Y, M) \in 28..31
  <2>1. MonthFacts(y, m) /\ MonthFacts(Y, M)
    BY MonthLength
  <2> QED BY <2>1 DEF MonthFacts
<1>2. D!FnEomonth(s, n) = D!Date(D!DaySerial(D!Day(y, m + n + 1, 1) - 1))
  BY DEF D!FnEomonth
<1>3. D!Day(y, m + n + 1, 1) = First(Y, M)
  <2>1. SameDay(y, m + n + 1, 1, Y, M)
    <3>1. m + n + 1 \in Int /\ 1 \in Int
      OBVIOUS
    <3> QED BY <1>0, <3>1, DayIs
  <2> QED BY <1>1, <2>1 DEF SameDay
<1>4. e = D!DaySerial(First(Y, M) - 1)
  BY <1>2, <1>3 DEF D!Date
<1>5. e = First(Y, M) - 1 /\ e \in Int /\ D!IsReadable(e) /\ D!IsReadable(e + 1)
  BY <1>1, <1>4, NotCutOff
<1> HIDE DEF e
<1>6. D!FnDay(e + 1).num = 1
  <2> DEFINE t == [y |-> Y, m |-> M, d |-> 1]
  <2>1. IsDateOf(t, e + 1)
    BY <1>1, <1>5 DEF IsDateOf
  <2> HIDE DEF t
  <2>2. e + 1 \in Int /\ IsDateOf(D!TimeOf(e + 1), e + 1)
    BY <1>5, ReadIs
  <2>3. SameDate(D!TimeOf(e + 1), t)
    BY <2>1, <2>2, OneDate
  <2> QED BY <2>3, Fields DEF SameDate, t
<1>7. D!FnDays(e, s) = D!Number(e - s)
  BY <1>5, ReadIs DEF D!FnDays
<1>8. PICK Z \in Int, W \in 1..12 : 12 * Z + W = 12 * Y + M - 1
  <2>1. 12 * Y + M - 1 \in Int
    OBVIOUS
  <2> QED BY <2>1, MonthOfYear
<1>9. First(Z, W) + D!DaysIn(Z, W) = First(Y, M) /\ First(Z, W) \in Int /\ D!DaysIn(Z, W) \in 28..31
  <2>1. MonthFacts(Z, W) /\ MonthFacts(Y, M)
    BY MonthLength
  <2>2. CASE W # 12
    <3>1. Z = Y /\ M = W + 1
      BY <1>8, <2>2
    <3> QED BY <2>1, <2>2, <3>1 DEF MonthFacts
  <2>3. CASE W = 12
    <3>1. Y = Z + 1 /\ M = 1
      BY <1>8, <2>3
    <3> QED BY <2>1, <2>3, <3>1 DEF MonthFacts
  <2> QED BY <2>2, <2>3
<1>10. D!TimeOf(e).y = Z /\ D!TimeOf(e).m = W
  <2> DEFINE t == [y |-> Z, m |-> W, d |-> D!DaysIn(Z, W)]
  <2>1. t.y = Z /\ t.m = W /\ t.d = D!DaysIn(Z, W)
    OBVIOUS
  <2> HIDE DEF t
  <2>2. IsDateOf(t, e)
    BY <1>5, <1>9, <2>1 DEF IsDateOf
  <2>3. IsDateOf(D!TimeOf(e), e)
    BY <1>5, ReadIs
  <2>4. SameDate(D!TimeOf(e), t)
    BY <1>5, <2>2, <2>3, OneDate
  <2> QED BY <2>1, <2>4 DEF SameDate
<1>11. ASSUME NEW k \in Int PROVE D!FnEomonth(e, k) = D!FnEomonth(s, n + k)
  <2>1. PICK U \in Int, V \in 1..12 : 12 * U + V = 12 * y + (m + (n + k) + 1)
    <3>1. 12 * y + (m + (n + k) + 1) \in Int
      OBVIOUS
    <3> QED BY <3>1, MonthOfYear
  <2>2. 12 * U + V = 12 * Z + (W + k + 1)
    BY <1>0, <1>8, <2>1
  <2>3. D!Day(y, m + (n + k) + 1, 1) = First(U, V) + 1 - 1
    <3>1. SameDay(y, m + (n + k) + 1, 1, U, V)
      <4>1. m + (n + k) + 1 \in Int /\ 1 \in Int
        OBVIOUS
      <4> QED BY <2>1, <4>1, DayIs
    <3> QED BY <3>1 DEF SameDay
  <2>4. D!Day(Z, W + k + 1, 1) = First(U, V) + 1 - 1
    <3>1. SameDay(Z, W + k + 1, 1, U, V)
      <4>1. W + k + 1 \in Int /\ 1 \in Int
        OBVIOUS
      <4> QED BY <2>2, <4>1, DayIs
    <3> QED BY <3>1 DEF SameDay
  <2>5. D!FnEomonth(s, n + k) = D!Date(D!DaySerial(D!Day(y, m + (n + k) + 1, 1) - 1))
    BY DEF D!FnEomonth
  <2>6. D!FnEomonth(e, k) = D!Date(D!DaySerial(D!Day(Z, W + k + 1, 1) - 1))
    BY <1>10 DEF D!FnEomonth
  <2> QED BY <2>3, <2>4, <2>5, <2>6
<1>12. ASSUME D!IsReadable(e + d) PROVE D!FnEdate(s, n + 1) = D!Date(e + d)
  <2>1. D!FnEdate(s, n + 1) = D!Date(D!DaySerial(D!Day(y, m + (n + 1), d)))
    BY DEF D!FnEdate
  <2>2. SameDay(y, m + (n + 1), d, Y, M)
    <3>1. 12 * y + (m + (n + 1)) = 12 * Y + M /\ m + (n + 1) \in Int
      BY <1>0
    <3> QED BY <1>1, <3>1, DayIs
  <2>3. D!Day(y, m + (n + 1), d) = e + d /\ e + d \in Int
    BY <1>1, <1>5, <2>2 DEF SameDay
  <2>4. D!DaySerial(e + d) = e + d
    BY <1>12, <2>3, ReadIs
  <2> QED BY <2>1, <2>3, <2>4
<1> QED BY <1>6, <1>7, <1>11, <1>12 DEF e

\* The next day is the next day of the week.
LEMMA NextWeekday ==
  ASSUME NEW n \in Int, D!IsReadable(n), D!IsReadable(n + 1)
  PROVE  D!FnWeekday(n + 1, 2) = D!FnWeekday(n, 1)
<1>1. D!ToDay(n, saturates) = n /\ D!ToDay(n + 1, saturates) = n + 1
  BY DEF D!ToDay, D!IsReadable
<1>2. ((((n + 1) + 6) % 7) + 6) % 7 = (n + 6) % 7
  OBVIOUS
<1>3. D!FnWeekday(n + 1, 2) = D!Number((((((n + 1) + 6) % 7) + 6) % 7) + 1)
  BY <1>1 DEF D!FnWeekday
<1>4. D!FnWeekday(n, 1) = D!Number(((n + 6) % 7) + 1)
  BY <1>1 DEF D!FnWeekday
<1> QED BY <1>2, <1>3, <1>4

\* The serial of a chain is a whole number.
DateInv == owner = "dates" => serial \in Int

LEMMA DayType ==
  ASSUME NEW y \in Int, NEW m \in Int, NEW d \in Int
  PROVE  D!Day(y, m, d) \in Int
<1>1. PICK Y \in Int, M \in 1..12 : 12 * Y + M = 12 * y + m
  <2>1. 12 * y + m \in Int
    OBVIOUS
  <2> QED BY <2>1, MonthOfYear
<1>2. SameDay(y, m, d, Y, M) /\ MonthFacts(Y, M)
  BY <1>1, DayIs, MonthLength
<1> QED BY <1>2 DEF SameDay, MonthFacts

LEMMA DaySerialType ==
  ASSUME NEW n \in Int, D!InputsAreNumbers
  PROVE  D!DaySerial(n) \in Int
BY DEF D!DaySerial, D!InputsAreNumbers

LEMMA TimeType ==
  ASSUME NEW n \in Int, D!InputsAreNumbers
  PROVE  D!TimeOf(n).y \in Int /\ D!TimeOf(n).m \in Int /\ D!TimeOf(n).d \in Int
<1>1. D!ToDay(n, saturates) \in Int
  BY DEF D!ToDay, D!InputsAreNumbers
<1>2. IsDateOf(D!TimeOf(n), D!ToDay(n, saturates))
  BY <1>1, DateOfIs DEF D!TimeOf
<1>3. MonthFacts(D!TimeOf(n).y, D!TimeOf(n).m)
  BY <1>2, MonthLength DEF IsDateOf
<1> QED BY <1>2, <1>3 DEF IsDateOf, MonthFacts

LEMMA DateInvariance == Spec => []DateInv
<1>0. D!InputsAreNumbers
  BY InputsAssumption
<1>1. Init => DateInv
  BY <1>0 DEF Init, DateInv, D!Init, D!InputsAreNumbers
<1>2. DateInv /\ [Next]_vars => DateInv'
  <2> SUFFICES ASSUME DateInv, [Next]_vars, owner' = "dates" PROVE serial' \in Int
    BY DEF DateInv
  <2>1. CASE UNCHANGED vars
    BY <2>1 DEF vars, DateInv
  <2>2. CASE Next
    <3>1. owner = "dates" /\ D!Next /\ serial \in Int
      BY <2>2 DEF Next, ArrayStep, LimitStep, ImportStep, ColumnStep, CallStep, DateStep, AddressStep, TextStep, DateInv
    <3>2. ASSUME NEW v, D!Becomes(v), v.kind = "date" => v.num \in Int PROVE serial' \in Int
      BY <3>1, <3>2 DEF D!Becomes
    <3>3. ASSUME NEW y \in Int, NEW m \in Int, NEW d \in Int PROVE D!Date(D!DaySerial(D!Day(y, m, d))).num \in Int
      BY <1>0, DayType, DaySerialType DEF D!Date
    <3>4. ASSUME NEW months \in Offsets, D!Becomes(D!FnEdate(serial, months)) PROVE serial' \in Int
      <4>1. months \in Int
        BY <1>0 DEF D!InputsAreNumbers
      <4>2. D!FnEdate(serial, months).num \in Int
        BY <1>0, <3>1, <3>3, <4>1, TimeType DEF D!FnEdate
      <4> QED BY <3>2, <3>4, <4>2
    <3>5. ASSUME NEW months \in Offsets, D!Becomes(D!FnEomonth(serial, months)) PROVE serial' \in Int
      <4>1. months \in Int
        BY <1>0 DEF D!InputsAreNumbers
      <4>2. D!Day(D!TimeOf(serial).y, D!TimeOf(serial).m + months + 1, 1) - 1 \in Int
        <5>1. D!TimeOf(serial).y \in Int /\ D!TimeOf(serial).m \in Int
          BY <1>0, <3>1, TimeType
        <5>2. D!TimeOf(serial).m + months + 1 \in Int /\ 1 \in Int
          BY <4>1, <5>1
        <5>3. D!Day(D!TimeOf(serial).y, D!TimeOf(serial).m + months + 1, 1) \in Int
          BY <5>1, <5>2, DayType
        <5> QED BY <5>3
      <4>3. D!FnEomonth(serial, months).num \in Int
        BY <1>0, <4>2, DaySerialType DEF D!FnEomonth, D!Date
      <4> QED BY <3>2, <3>5, <4>3
    <3>6. ASSUME NEW t \in Moments, D!Becomes(D!FnDate(t[1], t[2], t[3])) PROVE serial' \in Int
      <4>1. t[1] \in Int /\ t[2] \in Int /\ t[3] \in Int
        BY <1>0 DEF D!InputsAreNumbers
      <4>2. D!FnDate(t[1], t[2], t[3]).num \in Int
        BY <3>3, <4>1 DEF D!FnDate
      <4> QED BY <3>2, <3>6, <4>2
    <3>7. ASSUME NEW t \in Moments, D!Becomes(D!FnDatevalue(t[1], t[2], t[3])) PROVE serial' \in Int
      <4>1. t[1] \in Int /\ t[2] \in Int /\ t[3] \in Int
        BY <1>0 DEF D!InputsAreNumbers
      <4>2. D!FnDate(t[1], t[2], t[3]).num \in Int
        BY <3>3, <4>1 DEF D!FnDate
      <4>3. D!Error("#VALUE!").kind # "date"
        BY DEF D!Error
      <4>4. D!FnDatevalue(t[1], t[2], t[3]).kind = "date" => D!FnDatevalue(t[1], t[2], t[3]).num \in Int
        BY <4>2, <4>3 DEF D!FnDatevalue
      <4> QED BY <3>2, <3>7, <4>4
    <3> QED BY <3>1, <3>4, <3>5, <3>6, <3>7 DEF D!Next, D!AddMonths, D!WriteDate
  <2> QED BY <2>1, <2>2
<1> QED BY <1>1, <1>2, PTL DEF Spec

\* The date builtins agree on the calendar, wherever a Duration reaches.
THEOREM CalendarAgrees == Spec => []MonthsAddUp
<1>1. DateInv => MonthsAddUp
  <2> SUFFICES ASSUME DateInv, owner = "dates" PROVE D!MonthsAddUp
    BY DEF MonthsAddUp
  <2>0. D!InputsAreNumbers /\ serial \in Int /\ Offsets \subseteq Int
    BY InputsAssumption DEF D!InputsAreNumbers, DateInv
  <2> DEFINE y == D!TimeOf(serial).y
             m == D!TimeOf(serial).m
             d == D!TimeOf(serial).d
  <2>1. D!FnYear(serial).num = y /\ D!FnMonth(serial).num = m /\ D!FnDay(serial).num = d
    BY Fields
  <2>2. ASSUME D!IsReadable(serial)
        PROVE  y \in Int /\ m \in 1..12 /\ d \in 1..D!DaysIn(y, m) /\ First(y, m) + d - 1 = serial
               /\ D!DaySerial(serial) = serial
    BY <2>0, <2>2, ReadIs DEF IsDateOf
  <2>3. ASSUME D!IsReadable(serial)
        PROVE  D!FnDate(y, m, d) = D!Date(serial) /\ D!FnDatevalue(y, m, d) = D!Date(serial)
    <3> HIDE DEF y, m, d
    <3>1. d \in Int
      <4>1. MonthFacts(y, m)
        BY <2>2, <2>3, MonthLength
      <4> QED BY <2>2, <2>3, <4>1 DEF MonthFacts
    <3>2. D!Day(y, m, d) = serial
      BY <2>2, <2>3, <3>1, FirstIs
    <3> QED BY <2>2, <2>3, <3>2 DEF D!FnDate, D!FnDatevalue
  <2>4. ASSUME D!IsReadable(serial), D!IsReadable(serial + 1)
        PROVE  D!FnWeekday(serial + 1, 2) = D!FnWeekday(serial, 1)
    BY <2>0, <2>4, NextWeekday
  <2>5. ASSUME NEW n \in Offsets, D!IsReadable(serial), D!IsReadable(D!FnEomonth(serial, n).num),
               D!IsReadable(D!FnEomonth(serial, n).num + 1)
        PROVE  LET e == D!FnEomonth(serial, n).num IN
               /\ D!FnDay(e + 1).num = 1 /\ D!FnDays(e, serial) = D!Number(e - serial)
               /\ \A k \in Offsets : D!FnEomonth(e, k) = D!FnEomonth(serial, n + k)
               /\ D!IsReadable(e + d) => D!FnEdate(serial, n + 1) = D!Date(e + d)
    <3> DEFINE e == D!FnEomonth(serial, n).num
    <3>1. n \in Int
      BY <2>0
    <3>2. /\ D!FnDay(e + 1).num = 1 /\ D!FnDays(e, serial) = D!Number(e - serial)
          /\ \A k \in Int : D!FnEomonth(e, k) = D!FnEomonth(serial, n + k)
          /\ D!IsReadable(e + d) => D!FnEdate(serial, n + 1) = D!Date(e + d)
      <4>1. /\ y \in Int /\ m \in 1..12 /\ d \in 1..D!DaysIn(y, m) /\ First(y, m) + d - 1 = serial
            /\ D!TimeOf(serial).y = y /\ D!TimeOf(serial).m = m /\ D!TimeOf(serial).d = d
        BY <2>2, <2>5
      <4> HIDE DEF y, m, d
      <4> QED BY <2>0, <2>5, <3>1, <4>1, MonthsOfSerial
    <3> HIDE DEF e
    <3> QED BY <2>0, <3>2 DEF e
  <2> HIDE DEF y, m, d
  <2> QED BY <2>1, <2>3, <2>4, <2>5 DEF D!MonthsAddUp
<1> QED BY <1>1, DateInvariance, PTL

-----------------------------------------------------------------------------
(* The imports. *)

\* The lines but those numbered in drop, along the sets of their numbers: what a reader
\* that skips some of them folds.
IterKept(iter, lines, drop) ==
  iter = [s \in SUBSET (DOMAIN lines) |->
            IF s = {} THEN <<>>
            ELSE IF Greatest(s) \in drop THEN iter[s \ {Greatest(s)}]
                 ELSE Append(iter[s \ {Greatest(s)}], lines[Greatest(s)])]

LEMMA KeptExists ==
  ASSUME NEW S, NEW lines \in Seq(S), NEW drop
  PROVE  \E iter : IterKept(iter, lines, drop)
<1> DEFINE n == Len(lines)
           Runs == Seq(S)
           g == [p \in (1..n) \X Runs |-> IF p[1] \in drop THEN p[2] ELSE Append(p[2], lines[p[1]])]
<1>1. n \in Nat /\ DOMAIN lines = 1..n /\ <<>> \in Runs
  BY EmptySeq, LenProperties
<1>2. g \in [(1..n) \X Runs -> Runs]
  <2> SUFFICES ASSUME NEW i \in 1..n, NEW out \in Runs
               PROVE  (IF i \in drop THEN out ELSE Append(out, lines[i])) \in Runs
    OBVIOUS
  <2>1. lines[i] \in S
    BY ElementOfSeq
  <2>2. Append(out, lines[i]) \in Runs
    BY <2>1, AppendProperties
  <2> QED BY <2>2
<1>3. \A i \in 1..n, out \in Runs :
        g[<<i, out>>] = IF i \in drop THEN out ELSE Append(out, lines[i])
  OBVIOUS
<1> HIDE DEF g, Runs, n
<1>4. PICK f : IsFolded(f, Runs, n, <<>>, g)
  BY <1>1, <1>2, FoldExists
<1>5. ASSUME NEW s \in SUBSET (1..n)
      PROVE  f[s] = IF s = {} THEN <<>>
                    ELSE IF Greatest(s) \in drop THEN f[s \ {Greatest(s)}]
                         ELSE Append(f[s \ {Greatest(s)}], lines[Greatest(s)])
  <2>1. CASE s = {}
    BY <1>4, <2>1 DEF IsFolded
  <2>2. CASE s # {}
    <3> DEFINE m == Greatest(s)
               rest == s \ {m}
    <3>1. m \in s
      BY <1>1, <2>2, GreatestIn
    <3>2. rest \in SUBSET (1..n) /\ m \in 1..n
      BY <3>1
    <3>3. f[rest] \in Runs
      BY <1>4, <3>2 DEF IsFolded
    <3>4. f[s] = g[<<m, f[rest]>>]
      BY <1>4, <2>2 DEF IsFolded
    <3> HIDE DEF m, rest
    <3>5. f[s] = IF m \in drop THEN f[rest] ELSE Append(f[rest], lines[m])
      BY <1>3, <3>2, <3>3, <3>4
    <3> QED BY <2>2, <3>5 DEF m, rest
  <2> QED BY <2>1, <2>2
<1>6. DOMAIN f = SUBSET (1..n) /\ f = [s \in DOMAIN f |-> f[s]]
  BY <1>4 DEF IsFolded
<1>7. f = [s \in SUBSET (1..n) |->
            IF s = {} THEN <<>>
            ELSE IF Greatest(s) \in drop THEN f[s \ {Greatest(s)}]
                 ELSE Append(f[s \ {Greatest(s)}], lines[Greatest(s)])]
  BY <1>5, <1>6, Zenon
<1>8. IterKept(f, lines, drop)
  BY <1>1, <1>7 DEF IterKept
<1> QED BY <1>8

\* What is kept are lines, and all of them if none is dropped.
KeptFacts(S, lines, drop, out) == /\ out \in Seq(S)
                                  /\ drop \cap DOMAIN lines = {} => out = lines

LEMMA KeptIs ==
  ASSUME NEW S, NEW lines \in Seq(S), NEW drop, NEW iter, IterKept(iter, lines, drop)
  PROVE  KeptFacts(S, lines, drop, iter[DOMAIN lines])
<1> DEFINE n == Len(lines)
           isWhole == drop \cap DOMAIN lines = {}
           T == {i \in Nat : i <= n => /\ iter[1..i] \in Seq(S)
                                       /\ isWhole => iter[1..i] = SubSeq(lines, 1, i)}
<1>1. n \in Nat /\ DOMAIN lines = 1..n
  BY LenProperties
<1>2. \A s \in SUBSET (1..n) :
        iter[s] = IF s = {} THEN <<>>
                  ELSE IF Greatest(s) \in drop THEN iter[s \ {Greatest(s)}]
                       ELSE Append(iter[s \ {Greatest(s)}], lines[Greatest(s)])
  BY <1>1, Zenon DEF IterKept
<1>3. 0 \in T
  <2>1. iter[1..0] = <<>>
    <3>1. 1..0 = {} /\ {} \in SUBSET (1..n)
      OBVIOUS
    <3> QED BY <1>2, <3>1
  <2>2. SubSeq(lines, 1, 0) = <<>>
    OBVIOUS
  <2> QED BY <2>1, <2>2, EmptySeq
<1>4. ASSUME NEW i \in Nat, i \in T PROVE i + 1 \in T
  <2> SUFFICES ASSUME i + 1 <= n
               PROVE  /\ iter[1..(i + 1)] \in Seq(S)
                      /\ isWhole => iter[1..(i + 1)] = SubSeq(lines, 1, i + 1)
    OBVIOUS
  <2>1. Prefix(i) /\ 1..(i + 1) \in SUBSET (1..n) /\ i + 1 \in 1..n
    BY <1>1, PrefixIs
  <2>2. iter[1..(i + 1)] = IF i + 1 \in drop THEN iter[1..i] ELSE Append(iter[1..i], lines[i + 1])
    BY <1>2, <2>1 DEF Prefix
  <2>3. iter[1..i] \in Seq(S) /\ (isWhole => iter[1..i] = SubSeq(lines, 1, i))
    BY <1>4, <1>1
  <2>4. lines[i + 1] \in S
    BY <2>1, ElementOfSeq
  <2>5. Append(iter[1..i], lines[i + 1]) \in Seq(S)
    BY <2>3, <2>4, AppendProperties
  <2>6. Append(SubSeq(lines, 1, i), lines[i + 1]) = SubSeq(lines, 1, i + 1)
    BY <1>1, <2>1
  <2>7. isWhole => i + 1 \notin drop
    BY <1>1, <2>1
  <2> HIDE DEF isWhole
  <2> QED BY <2>2, <2>3, <2>5, <2>6, <2>7
<1> HIDE DEF T
<1>5. n \in T
  BY <1>1, <1>3, <1>4, Upward
<1>6. SubSeq(lines, 1, n) = lines
  BY <1>1
<1> QED BY <1>1, <1>5, <1>6 DEF T, KeptFacts

\* The lines the readers skip.
Comments(lines) == {i \in DOMAIN lines : I!IsComment(i, lines[i])}
Empties(lines) == {i \in DOMAIN lines : lines[i] = <<Blank>>}

TSVStep(out, lines, places, x) ==
  IF I!IsComment(places[x], lines[places[x]]) THEN out ELSE Append(out, lines[places[x]])
KeptStep(out, lines, drop, x) == IF x \in drop THEN out ELSE Append(out, lines[x])

IterTSV(iter, lines) ==
  iter = [s \in SUBSET (DOMAIN [i \in DOMAIN lines |-> i]) |->
           IF s = {} THEN <<>>
           ELSE LET x == I!Max(s) IN TSVStep(iter[s \ {x}], lines, [i \in DOMAIN lines |-> i], x)]

IterCSV(iter, lines) ==
  iter = [s \in SUBSET (DOMAIN lines) |->
           IF s = {} THEN <<>>
           ELSE LET x == I!Max(s)
                IN  IF lines[x] = <<Blank>> THEN iter[s \ {x}] ELSE Append(iter[s \ {x}], lines[x])]

LEMMA ReadTSVIs ==
  ASSUME NEW lines
  PROVE  I!ReadTSV(lines) = (CHOOSE iter : IterTSV(iter, lines))[DOMAIN [i \in DOMAIN lines |-> i]]
BY Zenon DEF I!ReadTSV, I!FoldLeftDomain, I!FoldLeft, I!MapThenFoldSet, IterTSV, TSVStep

LEMMA ReadCSVIs ==
  ASSUME NEW lines
  PROVE  I!ReadCSV(lines) = (CHOOSE iter : IterCSV(iter, lines))[DOMAIN lines]
BY Zenon DEF I!ReadCSV, I!FoldLeft, I!MapThenFoldSet, IterCSV

\* A reader's step is the one of the lines kept.
LEMMA SameIteration ==
  ASSUME NEW S, NEW lines \in Seq(S), NEW iter
  PROVE  /\ IterTSV(iter, lines) <=> IterKept(iter, lines, Comments(lines))
         /\ IterCSV(iter, lines) <=> IterKept(iter, lines, Empties(lines))
<1> DEFINE n == Len(lines)
<1>1. n \in Nat /\ DOMAIN lines = 1..n
  BY LenProperties
<1>2. \A s : I!Max(s) = Greatest(s)
  BY DEF I!Max, Greatest
<1>3. \A s \in SUBSET (1..n) : s # {} => Greatest(s) \in 1..n
  <2> SUFFICES ASSUME NEW s \in SUBSET (1..n), s # {} PROVE Greatest(s) \in s
    OBVIOUS
  <2> QED BY <1>1, GreatestIn
<1>4. DOMAIN [i \in DOMAIN lines |-> i] = DOMAIN lines
  OBVIOUS
<1>0. ASSUME NEW m \in 1..n, NEW out
      PROVE  TSVStep(out, lines, [i \in DOMAIN lines |-> i], m) = KeptStep(out, lines, Comments(lines), m)
  <2> DEFINE places == [i \in DOMAIN lines |-> i]
  <2>1. places[m] = m
    BY <1>1
  <2>2. m \in Comments(lines) <=> I!IsComment(m, lines[m])
    BY <1>1 DEF Comments
  <2> HIDE DEF places
  <2>3. TSVStep(out, lines, places, m)
        = IF I!IsComment(m, lines[m]) THEN out ELSE Append(out, lines[m])
    BY <2>1, Zenon DEF TSVStep
  <2>4. TSVStep(out, lines, places, m) = KeptStep(out, lines, Comments(lines), m)
    <3>1. CASE I!IsComment(m, lines[m])
      BY <2>2, <2>3, <3>1, Zenon DEF KeptStep
    <3>2. CASE ~I!IsComment(m, lines[m])
      BY <2>2, <2>3, <3>2, Zenon DEF KeptStep
    <3> QED BY <3>1, <3>2
  <2> QED BY <2>4, Zenon DEF places
<1>5. \A s \in SUBSET (1..n) :
        (IF s = {} THEN <<>>
         ELSE LET x == I!Max(s) IN TSVStep(iter[s \ {x}], lines, [i \in DOMAIN lines |-> i], x))
        = (IF s = {} THEN <<>>
           ELSE KeptStep(iter[s \ {Greatest(s)}], lines, Comments(lines), Greatest(s)))
  BY <1>0, <1>2, <1>3, Zenon
<1>6. \A s \in SUBSET (1..n) :
        (IF s = {} THEN <<>>
         ELSE LET x == I!Max(s)
              IN  IF lines[x] = <<Blank>> THEN iter[s \ {x}] ELSE Append(iter[s \ {x}], lines[x]))
        = (IF s = {} THEN <<>>
           ELSE IF Greatest(s) \in Empties(lines) THEN iter[s \ {Greatest(s)}]
                ELSE Append(iter[s \ {Greatest(s)}], lines[Greatest(s)]))
  BY <1>1, <1>2, <1>3 DEF Empties
<1>7. IterTSV(iter, lines) <=> IterKept(iter, lines, Comments(lines))
  BY <1>1, <1>4, <1>5, Zenon DEF IterTSV, IterKept, KeptStep
<1>8. IterCSV(iter, lines) <=> IterKept(iter, lines, Empties(lines))
  BY <1>1, <1>6, Zenon DEF IterCSV, IterKept
<1> QED BY <1>7, <1>8

\* What is read are lines of the body, and the whole of it if it is plain.
ReadFacts(S, lines, out) == out \in Seq(S) /\ (I!Plain(lines) => out = lines)

LEMMA ReadIsKept ==
  ASSUME NEW S, NEW lines \in Seq(S), NEW received
  PROVE  ReadFacts(S, lines, I!ReadImport(lines, received))
<1>1. DOMAIN [i \in DOMAIN lines |-> i] = DOMAIN lines
  OBVIOUS
<1>2. I!Plain(lines) => Comments(lines) \cap DOMAIN lines = {} /\ Empties(lines) \cap DOMAIN lines = {}
  BY DEF I!Plain, Comments, Empties
<1>3. ReadFacts(S, lines, I!ReadTSV(lines))
  <2> DEFINE iter == CHOOSE iter : IterTSV(iter, lines)
  <2>1. \E f : IterTSV(f, lines)
    BY KeptExists, SameIteration
  <2>2. IterTSV(iter, lines)
    BY <2>1
  <2> HIDE DEF iter
  <2>3. KeptFacts(S, lines, Comments(lines), iter[DOMAIN lines])
    BY <2>2, SameIteration, KeptIs
  <2> QED BY <1>1, <1>2, <2>3, ReadTSVIs DEF iter, KeptFacts, ReadFacts
<1>4. ReadFacts(S, lines, I!ReadCSV(lines))
  <2> DEFINE iter == CHOOSE iter : IterCSV(iter, lines)
  <2>1. \E f : IterCSV(f, lines)
    BY KeptExists, SameIteration
  <2>2. IterCSV(iter, lines)
    BY <2>1
  <2> HIDE DEF iter
  <2>3. KeptFacts(S, lines, Empties(lines), iter[DOMAIN lines])
    BY <2>2, SameIteration, KeptIs
  <2> QED BY <1>2, <2>3, ReadCSVIs DEF iter, KeptFacts, ReadFacts
<1> QED BY <1>3, <1>4 DEF I!ReadImport

\* The records of a table.
Table == Seq(Seq(Cell) \ {<<>>})

LEMMA TablesTyped == Tables \subseteq Table /\ ResultCells \in Nat
BY InputsAssumption DEF I!TablesAreRecords, Table

LEMMA TableShape ==
  ASSUME NEW cells \in Table, cells # <<>>
  PROVE  /\ Len(cells) \in Nat \ {0} /\ DOMAIN cells = 1..Len(cells)
         /\ \A i \in 1..Len(cells) : cells[i] \in Seq(Cell) /\ Len(cells[i]) \in Nat \ {0}
<1> DEFINE Row == Seq(Cell) \ {<<>>}
<1>1. cells \in Seq(Row)
  BY DEF Table
<1>2. \A row \in Row : row \in Seq(Cell) /\ Len(row) \in Nat \ {0}
  BY EmptySeq, LenProperties
<1> HIDE DEF Row
<1>3. Len(cells) \in Nat \ {0} /\ DOMAIN cells = 1..Len(cells)
  BY <1>1, EmptySeq, LenProperties
<1>4. \A i \in 1..Len(cells) : cells[i] \in Row
  BY <1>1, ElementOfSeq
<1> QED BY <1>2, <1>3, <1>4

\* A shape that is no error holds all the cells, and fits the name.
LEMMA ShapeFits ==
  ASSUME name \in I!Names, NEW cells \in Table, cells # <<>>,
         NEW v, v = I!ShapeImport(cells, name), v.kind # "error"
  PROVE  I!Rows(v) = cells /\ (v.kind = "array" => I!FitsItsName(v.arr))
<1> DEFINE n == Len(cells)
           w == Len(cells[1])
<1>1. /\ n \in Nat \ {0} /\ DOMAIN cells = 1..n /\ w \in Nat \ {0} /\ ResultCells \in Nat
      /\ \A i \in 1..n : Len(cells[i]) \in Nat \ {0}
  BY TableShape, TablesTyped
<1>2. cells[1] \in Seq(Cell) /\ cells \in Seq(Seq(Cell))
  <2>1. cells[1] \in Seq(Cell)
    BY <1>1, TableShape
  <2>2. cells \in Seq(Seq(Cell))
    BY DEF Table
  <2> QED BY <2>1, <2>2
<1>3. I!Error("#IMPORT!").kind = "error"
  BY DEF I!Error
<1>4. I!Array(cells).kind = "array" /\ I!Array(cells).arr = cells /\ I!Rows(I!Array(cells)) = cells
  BY DEF I!Array, I!Rows
<1>5. CASE name = "importcell"
  <2>1. v = I!ImportScalar(cells)
    BY <1>5 DEF I!ShapeImport
  <2>2. n = 1 /\ w = 1 /\ v = I!Scalar(cells[1][1])
    BY <1>3, <2>1 DEF I!ImportScalar
  <2>3. v.kind = "scalar" /\ v.text = cells[1][1]
    BY <2>2 DEF I!Scalar
  <2>4. I!Rows(v) = <<<<cells[1][1]>>>>
    BY <2>3 DEF I!Rows
  <2>5. cells[1] = <<cells[1][1]>>
    BY <1>2, <2>2
  <2>6. cells = <<cells[1]>>
    BY <1>2, <2>2
  <2> QED BY <2>3, <2>4, <2>5, <2>6
<1>6. CASE name = "importrow"
  <2>1. v = I!ImportRow(cells)
    BY <1>6 DEF I!ShapeImport
  <2>2. n = 1 /\ ~(w > ResultCells) /\ v = I!Array(cells)
    BY <1>1, <1>3, <2>1 DEF I!ImportRow, I!Oversize
  <2>3. I!FitsItsName(cells)
    BY <1>1, <1>6, <2>2 DEF I!FitsItsName, I!AllWidth
  <2> QED BY <1>4, <2>2, <2>3
<1>7. CASE name = "importcolumn"
  <2>1. v = I!ImportColumn(cells)
    BY <1>7 DEF I!ShapeImport
  <2>2. I!AllWidth(cells, 1) /\ ~(n > ResultCells) /\ v = I!Array(cells)
    BY <1>1, <1>3, <2>1 DEF I!ImportColumn, I!Oversize
  <2>3. w = 1
    BY <1>1, <2>2 DEF I!AllWidth
  <2>4. I!FitsItsName(cells)
    BY <1>1, <1>7, <2>2, <2>3 DEF I!FitsItsName
  <2> QED BY <1>4, <2>2, <2>4
<1>8. CASE name \in {"importrange", "importsheet"}
  <2>1. v = I!ImportRange(cells)
    BY <1>8 DEF I!ShapeImport
  <2>2. I!AllWidth(cells, w) /\ ~(n * w > ResultCells) /\ v = I!Array(cells)
    BY <1>1, <1>3, <2>1 DEF I!ImportRange, I!Oversize
  <2>3. n * w \in Nat
    BY <1>1
  <2>4. I!FitsItsName(cells)
    BY <1>1, <1>8, <2>2, <2>3 DEF I!FitsItsName
  <2> QED BY <1>4, <2>2, <2>4
<1> QED BY <1>5, <1>6, <1>7, <1>8 DEF I!Names

\* An answer is of the request that was made, which asks for the call's own type.
ImportInv == /\ owner = "imports" => name \in I!Names /\ table \in Tables /\ request \in {None, name}
             /\ owner # "imports" => request = None

LEMMA ImportInvariance == Spec => []ImportInv
<1>1. Init => ImportInv
  BY DEF Init, Absent, I!Init, ImportInv
<1>2. ImportInv /\ [Next]_vars => ImportInv'
  <2> SUFFICES ASSUME ImportInv, [Next]_vars PROVE ImportInv'
    OBVIOUS
  <2>1. CASE UNCHANGED vars
    BY <2>1 DEF vars, ImportInv
  <2>2. CASE ImportStep
    BY <2>2 DEF ImportStep, ImportInv, I!Next, I!EvalImportFails, I!FetchImport, I!FetchFails,
                I!Fetched, I!Recompute, I!cellAndServer, I!ImportMedia
  <2>3. CASE ArrayStep \/ LimitStep
    BY <2>3 DEF ArrayStep, LimitStep, ImportInv
  <2>4. CASE ColumnStep \/ CallStep
    BY <2>4 DEF ColumnStep, CallStep, F!Next, F!AddArgument, F!Split, F!Becomes, ImportInv
  <2>5. CASE DateStep \/ AddressStep \/ TextStep
    BY <2>5 DEF DateStep, AddressStep, TextStep, ImportInv
  <2> QED BY <2>1, <2>2, <2>3, <2>4, <2>5 DEF Next
<1> QED BY <1>1, <1>2, PTL DEF Spec

\* What comes of an answer: an error, or the shape of what was read.
LEMMA AnswerIs ==
  ASSUME name \in I!Names, table \in Tables, request \in {None, name},
         NEW c \in I!ContentTypes, I!Fetched(c)
  PROVE  \/ val' = I!Error("#IMPORT!") /\ ~(c.media \in {name, "tsv", "csv"} /\ I!Plain(table) /\ table # <<>>)
         \/ \E cells \in Table : /\ cells # <<>> /\ val' = I!ShapeImport(cells, name)
                                 /\ I!Plain(table) => cells = table
<1> DEFINE cells == I!ReadImport(table, c.media)
<1>1. request = name /\ val' = IF c.media \in {name, "tsv", "csv"}
                               THEN I!ParseImport(table, c.media, name) ELSE I!Error("#IMPORT!")
  BY DEF I!Fetched, I!Acceptable, I!Base
<1>2. cells \in Table /\ (I!Plain(table) => cells = table)
  <2> DEFINE Row == Seq(Cell) \ {<<>>}
  <2>1. table \in Seq(Row)
    BY TablesTyped DEF Table
  <2> HIDE DEF Row
  <2>2. ReadFacts(Row, table, cells)
    BY <2>1, ReadIsKept
  <2> QED BY <2>2 DEF ReadFacts, Table, Row
<1>3. I!ParseImport(table, c.media, name)
      = IF cells = <<>> THEN I!Error("#IMPORT!") ELSE I!ShapeImport(cells, name)
  BY DEF I!ParseImport
<1> HIDE DEF cells
<1> QED BY <1>1, <1>2, <1>3

\* Whatever a server sends under whatever label, an import is the whole of the table in
\* the shape its name promises, within the budget, or an error (readImport, shapeImport).
THEOREM NothingIsSalvaged == Spec => []NeverASalvage
<1> DEFINE Inv == owner = "imports" => I!NeverASalvage
<1>1. Init => Inv
  BY DEF Init, I!Init, I!NeverASalvage
<1>2. ASSUME ImportInv, Inv, [Next]_vars PROVE Inv'
  <2> SUFFICES ASSUME owner' = "imports" PROVE I!NeverASalvage'
    OBVIOUS
  <2>1. owner = "imports" /\ (I!Next \/ UNCHANGED I!vars)
    BY <1>2 DEF Next, vars, I!vars, ArrayStep, LimitStep, ImportStep, ColumnStep, CallStep, DateStep,
                AddressStep, TextStep
  <2>2. name \in I!Names /\ table \in Tables /\ request \in {None, name} /\ I!NeverASalvage
    BY <1>2, <2>1 DEF ImportInv
  <2>3. \A code : I!Error(code).kind = "error"
    BY DEF I!Error
  <2>4. CASE UNCHANGED I!vars
    BY <2>2, <2>4 DEF I!vars, I!NeverASalvage, I!IsError, I!Rows, I!Plain, I!FitsItsName, I!IsComment
  <2>5. CASE I!EvalImportFails \/ I!FetchFails
    BY <2>3, <2>5 DEF I!EvalImportFails, I!FetchFails, I!NeverASalvage, I!IsError
  <2>6. CASE I!FetchImport \/ I!Recompute
    BY <2>6 DEF I!FetchImport, I!Recompute, I!NeverASalvage
  <2>7. ASSUME NEW c \in I!ContentTypes, I!Fetched(c) PROVE I!NeverASalvage'
    <3>1. name' = name /\ table' = table
      BY <2>7 DEF I!Fetched, I!cellAndServer
    <3>2. CASE val' = I!Error("#IMPORT!")
      BY <2>3, <3>2 DEF I!NeverASalvage, I!IsError
    <3>3. ASSUME NEW cells \in Table, cells # <<>>, val' = I!ShapeImport(cells, name),
                 I!Plain(table) => cells = table
          PROVE  I!NeverASalvage'
      <4> SUFFICES ASSUME val'.kind # "error"
                   PROVE  /\ I!Plain(table)' => I!Rows(val)' = table'
                          /\ val'.kind = "array" => I!FitsItsName(val.arr)'
        BY DEF I!NeverASalvage, I!IsError
      <4>1. I!Rows(val') = cells /\ (val'.kind = "array" => I!FitsItsName(val'.arr))
        BY <2>2, <3>3, ShapeFits
      <4>2. I!Rows(val)' = I!Rows(val') /\ (I!Plain(table)' <=> I!Plain(table))
        BY <3>1 DEF I!Rows, I!Plain, I!IsComment
      <4>3. I!FitsItsName(val.arr)' <=> I!FitsItsName(val'.arr)
        BY <3>1 DEF I!FitsItsName, I!AllWidth
      <4> QED BY <3>1, <3>3, <4>1, <4>2, <4>3
    <3> QED BY <2>2, <2>7, <3>2, <3>3, AnswerIs
  <2> QED BY <2>1, <2>4, <2>5, <2>6, <2>7 DEF I!Next
<1> HIDE DEF Inv
<1>3. Inv => NeverASalvage
  BY DEF Inv, NeverASalvage
<1> QED BY <1>1, <1>2, <1>3, ImportInvariance, PTL DEF Spec

\* A table that fits is refused under no label, the function's own type or a standard one,
\* and one that does not under every (acceptable, readImport).
THEOREM LabelsAreNoMatter == Spec => LabelIsNoMatter
<1> DEFINE Same == \A c \in I!ContentTypes :
                     (I!Fetched(c) /\ c.media \in {name, "tsv", "csv"} /\ I!Plain(table)) =>
                       (I!IsError(val') <=> (table = <<>> \/ I!IsError(I!ShapeImport(table, name))))
<1>1. ImportInv => Same
  <2> SUFFICES ASSUME ImportInv, NEW c \in I!ContentTypes,
                      I!Fetched(c), c.media \in {name, "tsv", "csv"}, I!Plain(table)
               PROVE  I!IsError(val') <=> (table = <<>> \/ I!IsError(I!ShapeImport(table, name)))
    OBVIOUS
  <2>1. name \in I!Names /\ table \in Tables /\ request \in {None, name}
    BY DEF ImportInv, I!Fetched
  <2>2. I!IsError(I!Error("#IMPORT!"))
    BY NoneIsNoError DEF I!IsError, I!Error
  <2>3. CASE val' = I!Error("#IMPORT!") /\ table = <<>>
    BY <2>2, <2>3
  <2>4. CASE val' = I!ShapeImport(table, name) /\ table # <<>>
    BY <2>4
  <2> QED BY <2>1, <2>3, <2>4, AnswerIs
<1>2. ImportInv => [Same]_(I!vars)
  BY <1>1
<1> HIDE DEF Same
<1>3. Spec => [][Same]_(I!vars)
  BY <1>2, ImportInvariance, PTL
<1> QED BY <1>3 DEF LabelIsNoMatter, I!LabelIsNoMatter, Same
=============================================================================
