----------------------------- MODULE EmbedProofs -----------------------------
(***************************************************************************)
(* However files refer to each other: a pass never enters a file that is   *)
(* on the way to it already, so it goes no deeper than there are files;    *)
(* evaluations and computers stay matched; and what is stored, returned    *)
(* and shown is what the files mean.  In this order:                       *)
(*   the chain of computers and the stack        IInv                      *)
(*   there is a meaning, and only one            MeaningSolves             *)
(*   types, and which file a request is about    Typed                     *)
(*   what was told, stored and shown is right    Sound                     *)
(* Last, what a pass computed is rendered, the arrays spilling over it     *)
(* (RenderInv).                                                            *)
(***************************************************************************)
EXTENDS EmbedMeaning, Spill, FiniteSetTheorems, SequenceTheorems, WellFoundedInduction, TLAPS

(***************************************************************************)
(* Sequences of anything.  The values in memos and arguments do not matter *)
(* here, so nothing is said of their type.                                 *)
(***************************************************************************)

IsSeq(s) == s \in Seq({s[i] : i \in DOMAIN s})

\* The length and the elements of a sequence, and that it is one.
LEMMA SeqShape ==
  ASSUME NEW s, IsSeq(s)
  PROVE  Len(s) \in Nat /\ DOMAIN s = 1..Len(s)
BY DEF IsSeq

Appended(t, s, x) ==
  /\ IsSeq(t) /\ Len(t) = Len(s) + 1
  /\ \A i \in 1..Len(s) : t[i] = s[i]
  /\ t[Len(s) + 1] = x

LEMMA AppendShape ==
  ASSUME NEW s, IsSeq(s), NEW x
  PROVE  Appended(Append(s, x), s, x)
<1> DEFINE S == {s[i] : i \in DOMAIN s}
           T == S \cup {x}
           t == Append(s, x)
<1>1. s \in Seq(T) /\ x \in T /\ Len(s) \in Nat /\ DOMAIN s = 1..Len(s)
  <2>1. s \in Seq(S)
    BY DEF IsSeq
  <2> QED BY <2>1
<1> HIDE DEF S, T
<1>2. /\ t \in Seq(T) /\ Len(t) = Len(s) + 1 /\ t[Len(s) + 1] = x
      /\ \A i \in 1..Len(s) : t[i] = s[i]
  BY <1>1
<1> HIDE DEF t
<1>3. IsSeq(t)
  <2>1. Len(t) \in Nat /\ DOMAIN t = 1..Len(t)
    BY <1>2
  <2> QED BY <1>2, <2>1 DEF IsSeq
<1> QED BY <1>2, <1>3 DEF Appended, t

Prefix(t, s, m) ==
  /\ IsSeq(t) /\ Len(t) = m
  /\ \A i \in 1..m : t[i] = s[i]

LEMMA PrefixShape ==
  ASSUME NEW s, IsSeq(s), NEW m \in 0..Len(s)
  PROVE  Prefix(SubSeq(s, 1, m), s, m)
<1> DEFINE S == {s[i] : i \in DOMAIN s}
           t == SubSeq(s, 1, m)
<1>1. s \in Seq(S) /\ Len(s) \in Nat
  BY DEF IsSeq
<1> HIDE DEF S
<1>2. t \in Seq(S) /\ Len(t) = m /\ \A i \in 1..m : t[i] = s[i]
  BY <1>1, SubSeqProperties
<1> HIDE DEF t
<1>3. Len(t) \in Nat /\ DOMAIN t = 1..Len(t)
  BY <1>2
<1>4. IsSeq(t)
  BY <1>2, <1>3 DEF IsSeq
<1> QED BY <1>2, <1>4 DEF Prefix, t

Updated(t, s, k, x) ==
  /\ IsSeq(t) /\ Len(t) = Len(s) /\ t[k] = x
  /\ \A i \in 1..Len(s) : i # k => t[i] = s[i]

LEMMA UpdateShape ==
  ASSUME NEW s, IsSeq(s), NEW k \in 1..Len(s), NEW x
  PROVE  Updated([s EXCEPT ![k] = x], s, k, x)
<1> DEFINE S == {s[i] : i \in DOMAIN s}
           T == S \cup {x}
           t == [s EXCEPT ![k] = x]
<1>1. s \in Seq(T) /\ x \in T /\ Len(s) \in Nat /\ DOMAIN s = 1..Len(s)
  <2>1. s \in Seq(S)
    BY DEF IsSeq
  <2> QED BY <2>1
<1> HIDE DEF S, T
<1>2. /\ t \in Seq(T) /\ Len(t) = Len(s) /\ t[k] = x
      /\ \A i \in 1..Len(s) : i # k => t[i] = s[i]
  BY <1>1
<1> HIDE DEF t
<1>3. Len(t) \in Nat /\ DOMAIN t = 1..Len(t)
  BY <1>1, <1>2
<1>4. IsSeq(t)
  BY <1>2, <1>3 DEF IsSeq
<1> QED BY <1>2, <1>4 DEF Updated, t

-----------------------------------------------------------------------------
(***************************************************************************)
(* The chain of computers.                                                 *)
(***************************************************************************)

HasFile(r) == "path" \in DOMAIN r /\ "visiting" \in DOMAIN r

\* The chain carries the files on the way, and no file is on the way twice.
Nested(cs) ==
  /\ IsSeq(cs)
  /\ \A k \in 1..Len(cs) : /\ HasFile(cs[k]) /\ cs[k].path \in Paths
                           /\ cs[k].visiting = {cs[j].path : j \in 1..k}
  /\ \A j, k \in 1..Len(cs) : cs[j].path = cs[k].path => j = k

\* Two chains of the same files.
SameFiles(ds, cs) ==
  /\ IsSeq(ds) /\ Len(ds) = Len(cs)
  /\ \A k \in 1..Len(cs) : /\ HasFile(ds[k]) /\ ds[k].path = cs[k].path
                           /\ ds[k].visiting = cs[k].visiting

LEMMA SameFilesNested ==
  ASSUME NEW cs, NEW ds, Nested(cs), SameFiles(ds, cs)
  PROVE  Nested(ds)
<1>1. Len(cs) \in Nat
  BY SeqShape DEF Nested
<1>2. \A k \in 1..Len(cs) : {ds[j].path : j \in 1..k} = {cs[j].path : j \in 1..k}
  <2>1. \A k \in 1..Len(cs) : \A j \in 1..k : ds[j].path = cs[j].path
    BY <1>1 DEF SameFiles
  <2> QED BY <2>1
<1> QED BY <1>1, <1>2 DEF Nested, SameFiles

\* A child of the last computer, for a file that is not on the way.
LEMMA EnterNested ==
  ASSUME NEW cs, NEW ds, NEW x, Nested(cs), Len(cs) > 0, Appended(ds, cs, x),
         HasFile(x), x.path \in Paths, x.path \notin cs[Len(cs)].visiting,
         x.visiting = cs[Len(cs)].visiting \cup {x.path}
  PROVE  Nested(ds)
<1>1. Len(cs) \in Nat
  BY SeqShape DEF Nested
<1>2. \A k \in 1..Len(cs) : ds[k] = cs[k]
  BY DEF Appended
<1>3. ds[Len(cs) + 1] = x /\ Len(ds) = Len(cs) + 1 /\ IsSeq(ds)
  BY DEF Appended
<1>4. \A k \in 1..Len(cs) : {ds[j].path : j \in 1..k} = {cs[j].path : j \in 1..k}
  <2>1. \A k \in 1..Len(cs) : \A j \in 1..k : ds[j] = cs[j]
    BY <1>1, <1>2
  <2> QED BY <2>1
<1>5. cs[Len(cs)].visiting = {cs[j].path : j \in 1..Len(cs)}
  BY <1>1 DEF Nested
<1>6. {ds[j].path : j \in 1..(Len(cs) + 1)} = cs[Len(cs)].visiting \cup {x.path}
  <2>1. 1..(Len(cs) + 1) = 1..Len(cs) \cup {Len(cs) + 1}
    BY <1>1
  <2> QED BY <2>1, <1>2, <1>3, <1>5
<1>7. \A j \in 1..Len(cs) : cs[j].path # x.path
  BY <1>5
<1>8. \A k \in 1..Len(ds) : k \in 1..Len(cs) \/ k = Len(cs) + 1
  BY <1>1, <1>3
<1>9. \A k \in 1..Len(ds) : /\ HasFile(ds[k]) /\ ds[k].path \in Paths
                           /\ ds[k].visiting = {ds[j].path : j \in 1..k}
  BY <1>2, <1>3, <1>4, <1>6, <1>8 DEF Nested
<1>10. \A j, k \in 1..Len(ds) : ds[j].path = ds[k].path => j = k
  BY <1>2, <1>3, <1>7, <1>8 DEF Nested
<1> QED BY <1>3, <1>9, <1>10 DEF Nested

LEMMA LeaveNested ==
  ASSUME NEW cs, NEW ds, Nested(cs), Len(cs) > 0, Prefix(ds, cs, Len(cs) - 1)
  PROVE  Nested(ds)
<1>1. Len(cs) \in Nat
  BY SeqShape DEF Nested
<1>2. Len(ds) = Len(cs) - 1 /\ IsSeq(ds) /\ \A k \in 1..Len(ds) : ds[k] = cs[k] /\ k \in 1..Len(cs)
  BY <1>1 DEF Prefix
<1>3. \A k \in 1..Len(ds) : {ds[j].path : j \in 1..k} = {cs[j].path : j \in 1..k}
  <2>1. \A k \in 1..Len(ds) : \A j \in 1..k : ds[j] = cs[j]
    BY <1>1, <1>2
  <2> QED BY <2>1
<1> QED BY <1>2, <1>3 DEF Nested

\* The pass's own computer.
LEMMA SingleNested ==
  ASSUME NEW x, HasFile(x), x.path \in Paths, x.visiting = {x.path}
  PROVE  Nested(<<x>>)
<1>1. IsSeq(<<x>>) /\ Len(<<x>>) = 1 /\ <<x>>[1] = x
  BY DEF IsSeq
<1>2. \A k \in 1..Len(<<x>>) : k = 1 /\ 1..k = {1}
  BY <1>1
<1>3. {<<x>>[j].path : j \in {1}} = {x.path}
  BY <1>1
<1> QED BY <1>1, <1>2, <1>3 DEF Nested

-----------------------------------------------------------------------------
(***************************************************************************)
(* The evaluations under way, over a chain of computers.                   *)
(***************************************************************************)

HasPlace(f) == "role" \in DOMAIN f /\ "of" \in DOMAIN f /\ "comp" \in DOMAIN f

\* A frame runs in a computer of the chain; a call goes to a file not on the way to it.
Runs(cs, f) ==
  /\ HasPlace(f)
  /\ f.comp \in 1..Len(cs)
  /\ f.role = "call" => f.of \in Paths \ cs[f.comp].visiting

Placed(cs, st) ==
  /\ IsSeq(st)
  /\ Len(st) = 0 <=> Len(cs) = 0
  /\ \A i \in 1..Len(st) : Runs(cs, st[i])
  /\ \A i, j \in 1..Len(st) : i <= j => st[i].comp <= st[j].comp
  /\ \A i \in 2..Len(st) :
       st[i].comp = IF st[i].role = "entry" THEN st[i - 1].comp + 1 ELSE st[i - 1].comp
  /\ Len(st) > 0 => st[Len(st)].comp = Len(cs) /\ st[1].role # "cell"

SamePlaces(t, st) ==
  /\ IsSeq(t) /\ Len(t) = Len(st)
  /\ \A i \in 1..Len(st) : /\ HasPlace(t[i])
                           /\ t[i].role = st[i].role /\ t[i].of = st[i].of /\ t[i].comp = st[i].comp

LEMMA SamePlaced ==
  ASSUME NEW cs, NEW st, NEW t, Placed(cs, st), SamePlaces(t, st)
  PROVE  Placed(cs, t)
<1>1. Len(st) \in Nat
  BY SeqShape DEF Placed
<1>2. \A i \in 2..Len(st) : i - 1 \in 1..Len(st) /\ i \in 1..Len(st)
  BY <1>1
<1>3. Len(st) > 0 => Len(st) \in 1..Len(st) /\ 1 \in 1..Len(st)
  BY <1>1
<1>4. \A i \in 1..Len(st) : Runs(cs, t[i])
  BY DEF Placed, SamePlaces, Runs
<1>5. \A i, j \in 1..Len(t) : i <= j => t[i].comp <= t[j].comp
  BY DEF Placed, SamePlaces
<1>6. \A i \in 2..Len(t) :
        t[i].comp = IF t[i].role = "entry" THEN t[i - 1].comp + 1 ELSE t[i - 1].comp
  BY <1>2 DEF Placed, SamePlaces
<1>7. Len(t) > 0 => t[Len(t)].comp = Len(cs) /\ t[1].role # "cell"
  BY <1>3 DEF Placed, SamePlaces
<1> QED BY <1>4, <1>5, <1>6, <1>7 DEF Placed, SamePlaces

LEMMA GivenSame ==
  ASSUME NEW st, IsSeq(st), Len(st) > 0,
         \A i \in 1..Len(st) : HasPlace(st[i]), NEW v
  PROVE  SamePlaces(Given(st, v), st)
<1> DEFINE n == Len(st)
           f == [st[n] EXCEPT !.got = Append(st[n].got, v)]
<1>1. n \in Nat /\ n \in 1..n
  BY SeqShape
<1>2. HasPlace(f) /\ f.role = st[n].role /\ f.of = st[n].of /\ f.comp = st[n].comp
  <2>1. HasPlace(st[n])
    BY <1>1
  <2> QED BY <2>1, Zenon DEF HasPlace
<1>3. Given(st, v) = [st EXCEPT ![n] = f]
  BY Zenon DEF Given
<1> HIDE DEF f
<1>4. Updated(Given(st, v), st, n, f)
  BY <1>1, <1>3, UpdateShape
<1> QED BY <1>1, <1>2, <1>4 DEF Updated, SamePlaces

\* The chain's memos and arguments do not matter to where frames run.
LEMMA FilesPlaced ==
  ASSUME NEW cs, NEW ds, NEW st, Placed(cs, st), SameFiles(ds, cs)
  PROVE  Placed(ds, st)
<1>1. \A i \in 1..Len(st) : Runs(ds, st[i])
  BY DEF Placed, SameFiles, Runs
<1> QED BY <1>1 DEF Placed, SameFiles

\* A cell or a call evaluated in the last computer.
LEMMA PushPlaced ==
  ASSUME NEW cs, NEW st, NEW t, NEW f, Placed(cs, st), Len(st) > 0, IsSeq(cs),
         Appended(t, st, f), Runs(cs, f), f.comp = Len(cs), f.role # "entry"
  PROVE  Placed(cs, t)
<1>1. Len(st) \in Nat /\ Len(cs) \in Nat
  BY SeqShape DEF Placed
<1>2. Len(t) = Len(st) + 1 /\ t[Len(st) + 1] = f /\ IsSeq(t) /\ \A i \in 1..Len(st) : t[i] = st[i]
  BY DEF Appended
<1>3. \A i \in 1..Len(t) : i \in 1..Len(st) \/ i = Len(st) + 1
  BY <1>1, <1>2
<1>4. \A i \in 1..Len(t) : Runs(cs, t[i])
  BY <1>2, <1>3 DEF Placed
<1>5. \A i \in 1..Len(st) : st[i].comp <= Len(cs)
  BY <1>1 DEF Placed, Runs
<1>6. \A i, j \in 1..Len(t) : i <= j => t[i].comp <= t[j].comp
  <2> SUFFICES ASSUME NEW i \in 1..Len(t), NEW j \in 1..Len(t), i <= j
               PROVE  t[i].comp <= t[j].comp
    OBVIOUS
  <2>1. CASE j \in 1..Len(st)
    BY <1>1, <1>2, <2>1 DEF Placed
  <2>2. CASE j = Len(st) + 1
    BY <1>1, <1>2, <1>3, <1>5, <2>2
  <2> QED BY <1>3, <2>1, <2>2
<1>7. \A i \in 2..Len(t) :
        t[i].comp = IF t[i].role = "entry" THEN t[i - 1].comp + 1 ELSE t[i - 1].comp
  <2> SUFFICES ASSUME NEW i \in 2..Len(t)
               PROVE  t[i].comp = IF t[i].role = "entry" THEN t[i - 1].comp + 1 ELSE t[i - 1].comp
    OBVIOUS
  <2>1. CASE i = Len(st) + 1
    BY <1>1, <1>2, <2>1 DEF Placed
  <2>2. CASE i # Len(st) + 1
    <3>1. i \in 2..Len(st) /\ i \in 1..Len(st) /\ i - 1 \in 1..Len(st)
      BY <1>1, <1>2, <2>2
    <3> QED BY <1>2, <3>1 DEF Placed
  <2> QED BY <2>1, <2>2
<1>8. t[Len(t)].comp = Len(cs) /\ t[1].role # "cell"
  BY <1>1, <1>2 DEF Placed
<1> QED BY <1>1, <1>2, <1>4, <1>6, <1>7, <1>8 DEF Placed

\* Entering a file.
LEMMA EnterPlaced ==
  ASSUME NEW cs, NEW ds, NEW st, NEW t, NEW f, NEW x, Placed(cs, st), Len(st) > 0, IsSeq(cs),
         Appended(ds, cs, x), Appended(t, st, f),
         HasPlace(f), f.role = "entry", f.comp = Len(cs) + 1
  PROVE  Placed(ds, t)
<1>1. Len(st) \in Nat /\ Len(cs) \in Nat
  BY SeqShape DEF Placed
<1>2. Len(t) = Len(st) + 1 /\ t[Len(st) + 1] = f /\ IsSeq(t) /\ \A i \in 1..Len(st) : t[i] = st[i]
  BY DEF Appended
<1>3. \A i \in 1..Len(t) : i \in 1..Len(st) \/ i = Len(st) + 1
  BY <1>1, <1>2
<1>4. Len(ds) = Len(cs) + 1 /\ \A k \in 1..Len(cs) : ds[k] = cs[k]
  BY DEF Appended
<1>5. \A i \in 1..Len(st) : st[i].comp \in 1..Len(cs)
  BY DEF Placed, Runs
<1>6. \A i \in 1..Len(t) : Runs(ds, t[i])
  <2>1. \A i \in 1..Len(st) : Runs(ds, st[i])
    BY <1>1, <1>4, <1>5 DEF Placed, Runs
  <2>2. Runs(ds, f)
    BY <1>1, <1>4 DEF Runs
  <2> QED BY <1>2, <1>3, <2>1, <2>2
<1>7. \A i, j \in 1..Len(t) : i <= j => t[i].comp <= t[j].comp
  <2> SUFFICES ASSUME NEW i \in 1..Len(t), NEW j \in 1..Len(t), i <= j
               PROVE  t[i].comp <= t[j].comp
    OBVIOUS
  <2>1. CASE j \in 1..Len(st)
    BY <1>1, <1>2, <2>1 DEF Placed
  <2>2. CASE j = Len(st) + 1
    BY <1>1, <1>2, <1>3, <1>5, <2>2
  <2> QED BY <1>3, <2>1, <2>2
<1>8. \A i \in 2..Len(t) :
        t[i].comp = IF t[i].role = "entry" THEN t[i - 1].comp + 1 ELSE t[i - 1].comp
  <2> SUFFICES ASSUME NEW i \in 2..Len(t)
               PROVE  t[i].comp = IF t[i].role = "entry" THEN t[i - 1].comp + 1 ELSE t[i - 1].comp
    OBVIOUS
  <2>1. CASE i = Len(st) + 1
    BY <1>1, <1>2, <2>1 DEF Placed
  <2>2. CASE i # Len(st) + 1
    <3>1. i \in 2..Len(st) /\ i \in 1..Len(st) /\ i - 1 \in 1..Len(st)
      BY <1>1, <1>2, <2>2
    <3> QED BY <1>2, <3>1 DEF Placed
  <2> QED BY <2>1, <2>2
<1>9. t[Len(t)].comp = Len(ds) /\ t[1].role # "cell"
  BY <1>1, <1>2, <1>4 DEF Placed
<1> QED BY <1>1, <1>2, <1>4, <1>6, <1>7, <1>8, <1>9 DEF Placed

\* A cell or a call that is done; another frame awaits it.
LEMMA PopPlaced ==
  ASSUME NEW cs, NEW st, NEW t, Placed(cs, st), Len(st) > 1, IsSeq(cs),
         st[Len(st)].role # "entry", Prefix(t, st, Len(st) - 1)
  PROVE  Placed(cs, t)
<1>1. Len(st) \in Nat /\ Len(cs) \in Nat
  BY SeqShape DEF Placed
<1>2. Len(t) = Len(st) - 1 /\ IsSeq(t) /\ \A i \in 1..Len(t) : t[i] = st[i] /\ i \in 1..Len(st)
  BY <1>1 DEF Prefix
<1>3. st[Len(st)].comp = st[Len(st) - 1].comp /\ st[Len(st)].comp = Len(cs)
  BY <1>1 DEF Placed
<1>4. \A i \in 2..Len(t) : i \in 2..Len(st) /\ i \in 1..Len(t) /\ i - 1 \in 1..Len(t)
  BY <1>1, <1>2
<1>5. \A i \in 2..Len(t) :
        t[i].comp = IF t[i].role = "entry" THEN t[i - 1].comp + 1 ELSE t[i - 1].comp
  BY <1>2, <1>4 DEF Placed
<1>6. t[Len(t)].comp = Len(cs) /\ t[1].role # "cell"
  BY <1>1, <1>2, <1>3 DEF Placed
<1>7. \A i \in 1..Len(t) : Runs(cs, t[i])
  BY <1>2 DEF Placed
<1>8. \A i, j \in 1..Len(t) : i <= j => t[i].comp <= t[j].comp
  BY <1>2 DEF Placed
<1>9. Len(t) > 0 /\ Len(cs) > 0
  BY <1>1, <1>2 DEF Placed
<1> QED BY <1>2, <1>5, <1>6, <1>7, <1>8, <1>9 DEF Placed

\* A file that was read; its computer goes with the frame.
LEMMA LeavePlaced ==
  ASSUME NEW cs, NEW ds, NEW st, NEW t, Placed(cs, st), Len(st) > 1, IsSeq(cs),
         st[Len(st)].role = "entry", Prefix(t, st, Len(st) - 1), Prefix(ds, cs, Len(cs) - 1)
  PROVE  Placed(ds, t)
<1>1. Len(st) \in Nat /\ Len(cs) \in Nat
  BY SeqShape DEF Placed
<1>2. Len(t) = Len(st) - 1 /\ IsSeq(t) /\ \A i \in 1..Len(t) : t[i] = st[i] /\ i \in 1..Len(st)
  BY <1>1 DEF Prefix
<1>3. st[Len(st)].comp = st[Len(t)].comp + 1 /\ st[Len(st)].comp = Len(cs)
  BY <1>1, <1>2 DEF Placed
<1>4. \A i \in 1..Len(t) : st[i].comp <= st[Len(t)].comp /\ st[i].comp \in 1..Len(cs)
  BY <1>1, <1>2 DEF Placed, Runs
<1>5. Len(ds) = Len(cs) - 1 /\ \A k \in 1..(Len(cs) - 1) : ds[k] = cs[k]
  BY <1>1 DEF Prefix
<1>6. \A i \in 1..Len(t) : st[i].comp \in 1..(Len(cs) - 1)
  BY <1>1, <1>2, <1>3, <1>4
<1>7. \A i \in 1..Len(t) : Runs(ds, t[i])
  BY <1>2, <1>5, <1>6 DEF Placed, Runs
<1>8. \A i \in 2..Len(t) : i \in 2..Len(st) /\ i \in 1..Len(t) /\ i - 1 \in 1..Len(t)
  BY <1>1, <1>2
<1>9. \A i \in 2..Len(t) :
        t[i].comp = IF t[i].role = "entry" THEN t[i - 1].comp + 1 ELSE t[i - 1].comp
  BY <1>2, <1>8 DEF Placed
<1>10. t[Len(t)].comp = Len(ds) /\ t[1].role # "cell"
  BY <1>1, <1>2, <1>3, <1>4, <1>5 DEF Placed
<1>11. \A i, j \in 1..Len(t) : i <= j => t[i].comp <= t[j].comp
  BY <1>2 DEF Placed
<1>12. Len(ds) > 0
  BY <1>1, <1>2, <1>5, <1>6
<1> QED BY <1>1, <1>2, <1>7, <1>9, <1>10, <1>11, <1>12 DEF Placed

\* A single frame in the last computer, reading a file or calling one.
LEMMA FirstPlaced ==
  ASSUME NEW cs, NEW f, IsSeq(cs), Len(cs) > 0, Runs(cs, f), f.comp = Len(cs), f.role # "cell"
  PROVE  Placed(cs, <<f>>)
<1>1. IsSeq(<<f>>)
  BY DEF IsSeq
<1>2. Len(cs) \in Nat
  BY SeqShape
<1> QED BY <1>1, <1>2 DEF Placed, Runs

-----------------------------------------------------------------------------
(***************************************************************************)
(* The inductive invariant, and that every action keeps it.                *)
(***************************************************************************)

IInv == Nested(comps) /\ Placed(comps, stack)

\* What the innermost evaluation can rely on.
LEMMA TopShape ==
  ASSUME IInv, Len(stack) > 0
  PROVE  /\ Len(stack) \in Nat /\ Len(comps) \in Nat /\ Len(comps) > 0
         /\ IsSeq(stack) /\ IsSeq(comps)
         /\ Len(comps) \in 1..Len(comps) /\ Len(stack) \in 1..Len(stack)
         /\ Top = stack[Len(stack)] /\ Comp = comps[Len(comps)] /\ Top.comp = Len(comps)
         /\ Runs(comps, Top)
         /\ HasFile(Comp) /\ Comp.path \in Paths
BY SeqShape DEF IInv, Nested, Placed, Top, Comp

LEMMA NotIdle ==
  ASSUME IInv, stack # <<>>
  PROVE  Len(stack) > 0
<1>1. stack \in Seq({stack[i] : i \in DOMAIN stack})
  BY DEF IInv, Placed, IsSeq
<1> QED BY <1>1

LEMMA AskingShape ==
  ASSUME IInv, Asking
  PROVE  Len(stack) > 0
BY NotIdle DEF Asking

LEMMA AnswerKeeps ==
  ASSUME IInv, Asking, NEW v, Answer(v)
  PROVE  IInv'
<1>1. Len(stack) > 0
  BY AskingShape
<1>2. IsSeq(stack) /\ \A i \in 1..Len(stack) : HasPlace(stack[i])
  BY DEF IInv, Placed, Runs
<1>3. SamePlaces(Given(stack, v), stack)
  BY <1>1, <1>2, GivenSame
<1>4. stack' = Given(stack, v) /\ comps' = comps
  BY DEF Answer
<1> QED BY <1>3, <1>4, SamePlaced DEF IInv

LEMMA FrameShape ==
  ASSUME NEW role, NEW of, NEW k, NEW items
  PROVE  /\ HasPlace(Frame(role, of, k, items))
         /\ Frame(role, of, k, items).role = role
         /\ Frame(role, of, k, items).of = of
         /\ Frame(role, of, k, items).comp = k
BY DEF Frame, HasPlace

LEMMA ComputerShape ==
  ASSUME NEW p, NEW visiting, NEW args, NEW t
  PROVE  /\ HasFile(Computer(p, visiting, args, t))
         /\ Computer(p, visiting, args, t).path = p
         /\ Computer(p, visiting, args, t).visiting = visiting
BY DEF Computer, HasFile

\* A new state of a cell changes neither the chain nor the way.
LEMMA MemoKeeps ==
  ASSUME IInv, Len(stack) > 0, NEW r, HasFile(r),
         r.path = Comp.path, r.visiting = Comp.visiting,
         NEW ds, ds = [comps EXCEPT ![Top.comp] = r]
  PROVE  SameFiles(ds, comps)
<1>1. Top.comp = Len(comps) /\ IsSeq(comps) /\ Len(comps) \in 1..Len(comps) /\ Comp = comps[Len(comps)]
  BY TopShape
<1>2. Updated(ds, comps, Len(comps), r)
  BY <1>1, UpdateShape
<1>3. \A k \in 1..Len(comps) : HasFile(comps[k])
  BY DEF IInv, Nested
<1> QED BY <1>1, <1>2, <1>3 DEF Updated, SameFiles

LEMMA ReadUnvisitedKeeps ==
  ASSUME IInv, NEW c \in Cells, ReadUnvisited(c)
  PROVE  IInv'
<1> DEFINE r == [Comp EXCEPT !.phase[c] = "visiting"]
<1>1. Len(stack) > 0
  BY AskingShape DEF ReadUnvisited, Reading
<1>2. HasFile(Comp) /\ IsSeq(stack) /\ Top.comp = Len(comps) /\ Len(comps) \in 1..Len(comps)
  BY <1>1, TopShape
<1>3. HasFile(r) /\ r.path = Comp.path /\ r.visiting = Comp.visiting
  BY <1>2, Zenon DEF HasFile
<1>4. comps' = [comps EXCEPT ![Top.comp] = r]
  BY Zenon DEF ReadUnvisited, Comp
<1> HIDE DEF r
<1>5. SameFiles(comps', comps)
  BY <1>1, <1>3, <1>4, MemoKeeps
<1>6. Nested(comps') /\ Placed(comps', stack)
  BY <1>5, SameFilesNested, FilesPlaced DEF IInv
<1>7. stack' = Append(stack, Evaluation(c))
  BY DEF ReadUnvisited
<1>8. Appended(stack', stack, Evaluation(c))
  BY <1>2, <1>7, AppendShape
<1>9. Evaluation(c).comp = Len(comps) /\ Evaluation(c).role = "cell" /\ HasPlace(Evaluation(c))
  BY <1>2, FrameShape DEF Evaluation
<1>10. Len(comps') = Len(comps) /\ IsSeq(comps')
  BY <1>5 DEF SameFiles
<1>11. Runs(comps', Evaluation(c))
  BY <1>2, <1>9, <1>10 DEF Runs
<1>12. Placed(comps', stack')
  BY <1>1, <1>6, <1>8, <1>9, <1>10, <1>11, PushPlaced
<1> QED BY <1>6, <1>12 DEF IInv

\* A frame that is done gives way to the one below, which is given its value.
LEMMA BelowShape ==
  ASSUME IInv, Len(stack) > 1
  PROVE  Prefix(Below, stack, Len(stack) - 1)
<1>1. IsSeq(stack) /\ Len(stack) \in Nat
  BY SeqShape DEF IInv, Placed
<1> QED BY <1>1, PrefixShape DEF Below

LEMMA GivenPlaced ==
  ASSUME NEW cs, NEW st, Placed(cs, st), Len(st) > 0, NEW v
  PROVE  Placed(cs, Given(st, v))
<1>1. IsSeq(st) /\ \A i \in 1..Len(st) : HasPlace(st[i])
  BY DEF Placed, Runs
<1> QED BY <1>1, GivenSame, SamePlaced

LEMMA FinishCellKeeps ==
  ASSUME IInv, FinishCell
  PROVE  IInv'
<1> DEFINE v == Total(Top.got)
           r == [Comp EXCEPT !.phase[Top.of] = "done", !.cache[Top.of] = v]
<1>1. Len(stack) > 0
  BY NotIdle DEF FinishCell
<1>2. HasFile(Comp) /\ Len(stack) \in Nat /\ Top = stack[Len(stack)] /\ Top.role = "cell"
  BY <1>1, TopShape DEF FinishCell
<1>3. HasFile(r) /\ r.path = Comp.path /\ r.visiting = Comp.visiting
  BY <1>2, Zenon DEF HasFile
<1>4. comps' = [comps EXCEPT ![Top.comp] = r] /\ stack' = Given(Below, v)
  BY Zenon DEF FinishCell, Comp
<1> HIDE DEF r, v
<1>5. SameFiles(comps', comps)
  BY <1>1, <1>3, <1>4, MemoKeeps
<1>6. Nested(comps') /\ Placed(comps', stack) /\ IsSeq(comps')
  BY <1>5, SameFilesNested, FilesPlaced DEF IInv, SameFiles
<1>7. Len(stack) > 1
  BY <1>1, <1>2 DEF IInv, Placed
<1>8. Prefix(Below, stack, Len(stack) - 1)
  BY <1>7, BelowShape
<1>9. Placed(comps', Below) /\ Len(Below) > 0
  BY <1>2, <1>6, <1>7, <1>8, PopPlaced DEF Prefix
<1>10. Placed(comps', stack')
  BY <1>4, <1>9, GivenPlaced
<1> QED BY <1>6, <1>10 DEF IInv

\* A computer for a file that is not on the way yet.
LEMMA ChildNested ==
  ASSUME IInv, Len(stack) > 0, NEW p \in Paths \ Comp.visiting, NEW args,
         NEW ds, ds = Append(comps, Child(p, args))
  PROVE  Nested(ds) /\ Appended(ds, comps, Child(p, args)) /\ IsSeq(ds)
<1>1. /\ IsSeq(comps) /\ Len(comps) > 0 /\ Comp = comps[Len(comps)]
  BY TopShape
<1>2. Appended(ds, comps, Child(p, args)) /\ IsSeq(ds)
  BY <1>1, AppendShape DEF Appended
<1>3. /\ HasFile(Child(p, args)) /\ Child(p, args).path = p
      /\ Child(p, args).visiting = Comp.visiting \cup {p}
  BY ComputerShape DEF Child, WithPath
<1> QED BY <1>1, <1>2, <1>3, EnterNested DEF IInv

LEMMA OpenForeignKeeps ==
  ASSUME IInv, OpenForeign
  PROVE  IInv'
<1> DEFINE x == ForeignChild(Loaded)
           f == Entry(Top.comp + 1, Item.cells)
<1>1. Len(stack) > 0
  BY AskingShape DEF OpenForeign, CanEnter, Loading
<1>2. IsSeq(comps) /\ IsSeq(stack) /\ Top.comp = Len(comps) /\ Comp.path \in Paths
  BY <1>1, TopShape
<1>3. comps' = Append(comps, x) /\ stack' = Append(stack, f)
  BY DEF OpenForeign
<1>4. Loaded \in Paths \ Comp.visiting
  BY DEF OpenForeign, CanEnter
<1>5. HasPlace(f) /\ f.role = "entry" /\ f.comp = Len(comps) + 1
  BY <1>2, FrameShape DEF Entry
<1>6. Nested(comps') /\ Appended(comps', comps, x)
  BY <1>1, <1>3, <1>4, ChildNested DEF ForeignChild
<1>7. Appended(stack', stack, f)
  BY <1>2, <1>3, AppendShape
<1> HIDE DEF f, x
<1>8. Placed(comps', stack')
  BY <1>1, <1>2, <1>5, <1>6, <1>7, EnterPlaced DEF IInv
<1> QED BY <1>6, <1>8 DEF IInv

LEMMA CallSheetKeeps ==
  ASSUME IInv, CallSheet
  PROVE  IInv'
<1> DEFINE f == Call(Top.comp, Loaded, Item.args)
<1>1. Len(stack) > 0
  BY AskingShape DEF CallSheet, CanEnter, Loading
<1>2. /\ IsSeq(comps) /\ IsSeq(stack) /\ Top.comp = Len(comps) /\ Comp.path \in Paths
      /\ Len(comps) \in 1..Len(comps) /\ Comp = comps[Len(comps)]
  BY <1>1, TopShape
<1>3. comps' = comps /\ stack' = Append(stack, f)
  BY DEF CallSheet
<1>4. Loaded \in Paths \ Comp.visiting
  BY DEF CallSheet, CanEnter
<1>5. HasPlace(f) /\ f.role = "call" /\ f.comp = Len(comps) /\ f.of = Loaded
  BY <1>2, FrameShape DEF Call
<1>6. Appended(stack', stack, f)
  BY <1>2, <1>3, AppendShape
<1>7. Runs(comps, f)
  BY <1>2, <1>4, <1>5 DEF Runs
<1> HIDE DEF f
<1>8. Placed(comps, stack')
  BY <1>1, <1>2, <1>5, <1>6, <1>7, PushPlaced DEF IInv
<1> QED BY <1>3, <1>8 DEF IInv

\* A call that is made goes to a file that is not on the way.
LEMMA CalledShape ==
  ASSUME IInv, Called
  PROVE  Len(stack) > 0 /\ Top.role = "call" /\ Top.of \in Paths \ Comp.visiting
<1>1. Len(stack) > 0 /\ Top.role = "call"
  BY NotIdle DEF Called
<1> QED BY <1>1, TopShape DEF Runs

LEMMA EnterSheetKeeps ==
  ASSUME IInv, EnterSheet
  PROVE  IInv'
<1> DEFINE x == Child(Top.of, Top.got)
           f == Entry(Top.comp + 1, <<OutputCell(Top.of)>>)
<1>1. Len(stack) > 1 /\ Top.role = "call" /\ Top.of \in Paths \ Comp.visiting /\ Len(stack) > 0
  BY CalledShape DEF EnterSheet
<1>2. /\ IsSeq(comps) /\ Top.comp = Len(comps) /\ Top = stack[Len(stack)] /\ Len(stack) \in Nat
  BY <1>1, TopShape
<1>3. comps' = Append(comps, x) /\ stack' = Append(Below, f)
  BY DEF EnterSheet
<1>4. Prefix(Below, stack, Len(stack) - 1)
  BY <1>1, BelowShape
<1>5. Placed(comps, Below) /\ Len(Below) > 0 /\ IsSeq(Below)
  BY <1>1, <1>2, <1>4, PopPlaced DEF IInv, Prefix
<1>6. HasPlace(f) /\ f.role = "entry" /\ f.comp = Len(comps) + 1
  BY <1>2, FrameShape DEF Entry
<1>7. Nested(comps') /\ Appended(comps', comps, x)
  BY <1>1, <1>3, ChildNested
<1>8. Appended(stack', Below, f)
  BY <1>3, <1>5, AppendShape
<1> HIDE DEF f, x
<1>9. Placed(comps', stack')
  BY <1>2, <1>5, <1>6, <1>7, <1>8, EnterPlaced
<1> QED BY <1>7, <1>9 DEF IInv

LEMMA NoOutputKeeps ==
  ASSUME IInv, NoOutput
  PROVE  IInv'
<1>1. Len(stack) > 1 /\ Top.role = "call" /\ Len(stack) > 0
  BY CalledShape DEF NoOutput
<1>2. IsSeq(comps) /\ Top = stack[Len(stack)] /\ Len(stack) \in Nat
  BY <1>1, TopShape
<1>3. comps' = comps /\ stack' = Given(Below, Error("#REF!"))
  BY DEF NoOutput
<1>4. Prefix(Below, stack, Len(stack) - 1)
  BY <1>1, BelowShape
<1>5. Placed(comps, Below) /\ Len(Below) > 0
  BY <1>1, <1>2, <1>4, PopPlaced DEF IInv, Prefix
<1> QED BY <1>3, <1>5, GivenPlaced DEF IInv

LEMMA EnterGridKeeps ==
  ASSUME IInv, EnterGrid
  PROVE  IInv'
<1> DEFINE x == Child(Top.of, Top.got)
           f == Entry(Top.comp + 1, Order)
<1>1. Len(stack) > 0 /\ Top.of \in Paths \ Comp.visiting
  BY CalledShape DEF EnterGrid
<1>2. IsSeq(comps) /\ Top.comp = Len(comps) /\ Len(comps) \in Nat
  BY <1>1, TopShape
<1>3. comps' = Append(comps, x) /\ stack' = <<f>>
  BY DEF EnterGrid
<1>4. HasPlace(f) /\ f.role = "entry" /\ f.comp = Len(comps) + 1
  BY <1>2, FrameShape DEF Entry
<1>5. Nested(comps') /\ Appended(comps', comps, x) /\ IsSeq(comps')
  BY <1>1, <1>3, ChildNested
<1> HIDE DEF f, x
<1>6. Runs(comps', f) /\ f.comp = Len(comps') /\ Len(comps') > 0
  BY <1>2, <1>4, <1>5 DEF Runs, Appended
<1>7. Placed(comps', stack')
  BY <1>3, <1>4, <1>5, <1>6, FirstPlaced
<1> QED BY <1>5, <1>7 DEF IInv

LEMMA LeaveKeeps ==
  ASSUME IInv, Leave
  PROVE  IInv'
<1>1. Len(stack) > 1 /\ Top.role = "entry" /\ Len(stack) > 0
  BY NotIdle DEF Leave, Read
<1>2. /\ IsSeq(comps) /\ Top = stack[Len(stack)] /\ Len(stack) \in Nat
      /\ Len(comps) \in Nat /\ Len(comps) > 0
  BY <1>1, TopShape
<1>3. comps' = SubSeq(comps, 1, Len(comps) - 1) /\ stack' = Given(Below, Total(Top.got))
  BY DEF Leave
<1>4. Prefix(Below, stack, Len(stack) - 1)
  BY <1>1, BelowShape
<1>5. Prefix(comps', comps, Len(comps) - 1)
  <2>1. Len(comps) - 1 \in 0..Len(comps)
    BY <1>2
  <2> QED BY <1>2, <1>3, <2>1, PrefixShape
<1>6. Nested(comps')
  BY <1>2, <1>5, LeaveNested DEF IInv
<1>7. Placed(comps', Below) /\ Len(Below) > 0
  BY <1>1, <1>2, <1>4, <1>5, LeavePlaced DEF IInv, Prefix
<1> QED BY <1>3, <1>6, <1>7, GivenPlaced DEF IInv

LEMMA ComputeKeeps ==
  ASSUME IInv, Compute
  PROVE  IInv'
<1> DEFINE x == RootComputer(tick + 1)
           f == Entry(1, Order)
<1>1. comps' = <<x>> /\ stack' = <<f>>
  BY DEF Compute
<1>2. HasFile(x) /\ x.path = Root /\ x.visiting = {Root}
  BY ComputerShape DEF RootComputer
<1>3. HasPlace(f) /\ f.role = "entry" /\ f.comp = 1
  BY FrameShape DEF Entry
<1> HIDE DEF x, f
<1>4. Nested(<<x>>)
  BY <1>2, PathsAssumption, SingleNested
<1>5. Placed(<<x>>, <<f>>)
  <2>1. IsSeq(<<x>>) /\ Len(<<x>>) = 1
    BY <1>4 DEF Nested
  <2>2. Runs(<<x>>, f)
    BY <1>3, <2>1 DEF Runs
  <2>3. f.comp = Len(<<x>>) /\ Len(<<x>>) > 0 /\ f.role # "cell"
    BY <1>3, <2>1
  <2> QED BY <2>1, <2>2, <2>3, FirstPlaced, Zenon
<1> QED BY <1>1, <1>4, <1>5 DEF IInv

LEMMA EmbeddedGridKeeps ==
  ASSUME IInv, NEW c \in Cells, EmbeddedGrid(c)
  PROVE  IInv'
<1> DEFINE x == RootComputer(0)
           asked == disk[Root][c].args[1]
           args == asked.args
           target == Resolve[Root][asked.file]
           f == Call(1, target, args)
<1>1. comps' = <<x>> /\ stack' = <<f>> /\ target \in Paths \ {Root}
  BY DEF EmbeddedGrid
<1> HIDE DEF target, args
<1>2. HasFile(x) /\ x.path = Root /\ x.visiting = {Root}
  BY ComputerShape DEF RootComputer
<1>3. HasPlace(f) /\ f.role = "call" /\ f.comp = 1 /\ f.of \in Paths \ {Root}
  BY <1>1, FrameShape DEF Call
<1> HIDE DEF x, f
<1>4. Nested(<<x>>)
  BY <1>2, PathsAssumption, SingleNested
<1>5. Placed(<<x>>, <<f>>)
  <2>1. IsSeq(<<x>>) /\ Len(<<x>>) = 1
    BY <1>4 DEF Nested
  <2>2. Runs(<<x>>, f)
    BY <1>2, <1>3, <2>1 DEF Runs
  <2>3. f.comp = Len(<<x>>) /\ Len(<<x>>) > 0 /\ f.role # "cell"
    BY <1>3, <2>1
  <2> QED BY <2>1, <2>2, <2>3, FirstPlaced, Zenon
<1> QED BY <1>1, <1>4, <1>5 DEF IInv

LEMMA EmptyKeeps == Nested(<<>>) /\ Placed(<<>>, <<>>)
BY DEF Nested, Placed, IsSeq

LEMMA InitIInv == Init => IInv
BY EmptyKeeps DEF Init, IInv

\* Every action keeps the invariant.
LEMMA StepIInv == IInv /\ [Next]_vars => IInv'
<1> SUFFICES ASSUME IInv, [Next]_vars
             PROVE  IInv'
  OBVIOUS
<1>1. CASE TakeValue \/ TakeTick \/ TakeInput \/ LoadFails \/ LoadCycle
  BY <1>1, AnswerKeeps DEF TakeValue, TakeTick, TakeInput, LoadFails, LoadCycle, Loading
<1>2. ASSUME NEW c \in Cells, ReadDone(c) \/ ReadVisiting(c)
      PROVE  IInv'
  BY <1>2, AnswerKeeps DEF ReadDone, ReadVisiting, Reading
<1>3. ASSUME NEW c \in Cells, ReadUnvisited(c)
      PROVE  IInv'
  BY <1>3, ReadUnvisitedKeeps
<1>4. CASE FinishCell
  BY <1>4, FinishCellKeeps
<1>5. CASE OpenForeign \/ CallSheet
  BY <1>5, OpenForeignKeeps, CallSheetKeeps
<1>6. CASE EnterSheet \/ NoOutput \/ EnterGrid
  BY <1>6, EnterSheetKeeps, NoOutputKeeps, EnterGridKeeps
<1>7. CASE Leave
  BY <1>7, LeaveKeeps
<1>8. CASE Return
  BY <1>8, EmptyKeeps DEF Return, IInv
<1>9. CASE Compute
  BY <1>9, ComputeKeeps
<1>10. ASSUME NEW c \in Cells, EmbeddedGrid(c)
       PROVE  IInv'
  BY <1>10, EmbeddedGridKeeps
<1>11. CASE UNCHANGED vars
  BY <1>11 DEF vars, IInv
<1> QED BY <1>1, <1>2, <1>3, <1>4, <1>5, <1>6, <1>7, <1>8, <1>9, <1>10, <1>11 DEF Next, Step

-----------------------------------------------------------------------------
(***************************************************************************)
(* What follows.                                                           *)
(***************************************************************************)

\* IInv holds throughout: every other fact here is read off it.
THEOREM EmbedInvariance == Spec => []IInv
<1>1. Init => IInv
  BY InitIInv
<1>2. IInv /\ [Next]_vars => IInv'
  BY StepIInv
<1> QED BY <1>1, <1>2, PTL DEF Spec

\* The set of files a computer refuses to enter (embedEnv.visiting) is the way to it,
\* and no file is on the way twice.
THEOREM EmbedNesting == Spec => []NestingIsAPath
<1>1. IInv => NestingIsAPath
  <2> SUFFICES ASSUME IInv PROVE NestingIsAPath
    OBVIOUS
  <2>1. DOMAIN comps = 1..Len(comps)
    BY SeqShape DEF IInv, Nested
  <2> QED BY <2>1 DEF IInv, Nested, NestingIsAPath
<1> QED BY <1>1, EmbedInvariance, PTL

\* A child computer lives exactly as long as the reference it serves.
THEOREM EmbedFrames == Spec => []FramesMatchComputers
<1>1. IInv => FramesMatchComputers
  <2> SUFFICES ASSUME IInv PROVE FramesMatchComputers
    OBVIOUS
  <2>1. (stack = <<>> <=> Len(stack) = 0) /\ (comps = <<>> <=> Len(comps) = 0)
    <3>1. stack \in Seq({stack[i] : i \in DOMAIN stack}) /\ comps \in Seq({comps[i] : i \in DOMAIN comps})
      BY DEF IInv, Nested, Placed, IsSeq
    <3> QED BY <3>1
  <2>2. Len(stack) \in Nat
    BY SeqShape DEF IInv, Placed
  <2> QED BY <2>1, <2>2 DEF IInv, Placed, FramesMatchComputers, Top
<1> QED BY <1>1, EmbedInvariance, PTL

\* A pass embeds no deeper than there are files.
THEOREM EmbedDepth ==
  ASSUME IsFiniteSet(Paths)
  PROVE  Spec => [](Len(comps) <= Cardinality(Paths))
<1>1. IInv => Len(comps) <= Cardinality(Paths)
  <2> SUFFICES ASSUME IInv PROVE Len(comps) <= Cardinality(Paths)
    OBVIOUS
  <2> DEFINE file == [k \in 1..Len(comps) |-> comps[k].path]
  <2>1. Len(comps) \in Nat
    BY SeqShape DEF IInv, Nested
  <2>2. file \in Injection(1..Len(comps), Paths)
    BY DEF IInv, Nested, Injection, IsInjective
  <2>3. IsFiniteSet(1..Len(comps)) /\ Cardinality(1..Len(comps)) = Len(comps)
    <3> DEFINE n == Len(comps)
    <3> HIDE DEF n
    <3>1. n \in Int /\ 1 \in Int /\ n \in Nat
      BY <2>1 DEF n
    <3>2. IsFiniteSet(1..n) /\ Cardinality(1..n) = IF 1 > n THEN 0 ELSE n - 1 + 1
      BY <3>1, FS_Interval
    <3>3. (IF 1 > n THEN 0 ELSE n - 1 + 1) = n
      BY <3>1
    <3> QED BY <3>2, <3>3 DEF n
  <2> QED BY <2>2, <2>3, FS_Injection
<1> QED BY <1>1, EmbedInvariance, PTL

\* Every non-empty set of natural numbers has a least element.
LEMMA LeastOf ==
  ASSUME NEW T \in SUBSET Nat, T # {}
  PROVE  \E m \in T : \A k \in T : m <= k
<1> DEFINE Less == {p \in Nat \X Nat : p[1] < p[2]}
<1>1. IsWellFoundedOn(Less, Nat)
  BY NatLessThanWellFounded, Zenon DEF OpToRel
<1>2. \A i, j \in Nat : j < i => <<j, i>> \in Less
  OBVIOUS
<1> HIDE DEF Less
<1>3. PICK m \in T : \A k \in T : <<k, m>> \notin Less
  BY <1>1, WFMin
<1>4. \A k \in T : k \in Nat /\ m \in Nat /\ ~(k < m)
  BY <1>2, <1>3
<1> QED BY <1>4

-----------------------------------------------------------------------------
(***************************************************************************)
(* What a call makes of its operands.                                      *)
(***************************************************************************)

\* The partial sums of numbers.
Sums(f, n, a) == f \in [0..n -> Int] /\ f = [i \in 0..n |-> IF i = 0 THEN 0 ELSE f[i - 1] + a[i]]

LEMMA SumsExist ==
  ASSUME NEW n \in Nat, NEW a, \A i \in 1..n : a[i] \in Int
  PROVE  \E f : Sums(f, n, a)
<1> DEFINE Bad == {k \in Nat : k <= n /\ ~\E f : Sums(f, k, a)}
<1> SUFFICES ASSUME Bad # {} PROVE FALSE
  OBVIOUS
<1>1. PICK k \in Bad : \A j \in Bad : k <= j
  <2> HIDE DEF Bad
  <2>1. Bad \in SUBSET Nat
    BY DEF Bad
  <2> QED BY <2>1, LeastOf
<1>2. k \in Nat /\ k <= n /\ ~\E f : Sums(f, k, a)
  OBVIOUS
<1>3. CASE k = 0
  <2> DEFINE f == [i \in 0..0 |-> 0]
  <2>1. Sums(f, k, a)
    BY <1>3 DEF Sums
  <2> QED BY <1>2, <2>1
<1>4. CASE k # 0
  <2>1. k - 1 \in Nat /\ k - 1 <= n /\ k - 1 \notin Bad
    BY <1>1, <1>2, <1>4
  <2>2. PICK g : Sums(g, k - 1, a)
    BY <2>1
  <2> DEFINE f == [i \in 0..k |-> IF i = k THEN g[k - 1] + a[k] ELSE g[i]]
  <2>3. \A i \in 0..(k - 1) : g[i] \in Int /\ g[i] = IF i = 0 THEN 0 ELSE g[i - 1] + a[i]
    BY <2>2 DEF Sums
  <2>4. \A i \in 0..k : f[i] \in Int /\ f[i] = IF i = 0 THEN 0 ELSE f[i - 1] + a[i]
    <3> SUFFICES ASSUME NEW i \in 0..k
                 PROVE  f[i] \in Int /\ f[i] = IF i = 0 THEN 0 ELSE f[i - 1] + a[i]
      OBVIOUS
    <3>1. CASE i = k
      BY <1>2, <1>4, <2>1, <2>3, <3>1
    <3>2. CASE i # k
      BY <1>2, <1>4, <2>1, <2>3, <3>2
    <3> QED BY <3>1, <3>2
  <2>5. f = [i \in 0..k |-> f[i]]
    OBVIOUS
  <2> HIDE DEF f
  <2>6. Sums(f, k, a)
    BY <2>4, <2>5 DEF Sums
  <2> QED BY <1>2, <2>6
<1> QED BY <1>3, <1>4

LEMMA TotalOfNumbers ==
  ASSUME NEW got \in Seq(Value), Errors(got) = {}
  PROVE  \E f \in [0..Len(got) -> Int] :
           /\ Total(got) = Number(f[Len(got)])
           /\ \A i \in 0..Len(got) : f[i] = IF i = 0 THEN 0 ELSE f[i - 1] + got[i].n
<1> DEFINE n == Len(got)
           a == [i \in 1..n |-> got[i].n]
           sum == CHOOSE f : f = [i \in 0..n |-> IF i = 0 THEN 0 ELSE f[i - 1] + got[i].n]
<1>1. n \in Nat /\ \A i \in 1..n : a[i] \in Int
  BY DEF Errors, Value
<1>2. PICK f : Sums(f, n, a)
  <2> HIDE DEF a, n
  <2> QED BY <1>1, SumsExist
<1>3. f = [i \in 0..n |-> IF i = 0 THEN 0 ELSE f[i - 1] + got[i].n]
  <2>1. \A i \in 0..n : i # 0 => i \in 1..n
    BY <1>1
  <2> QED BY <1>2, <2>1 DEF Sums
<1>4. sum = [i \in 0..n |-> IF i = 0 THEN 0 ELSE sum[i - 1] + got[i].n]
  BY <1>3
<1>5. Total(got) = Number(sum[n])
  BY DEF Total
<1> HIDE DEF sum
<1>6. \A i \in 0..n : sum[i] = IF i = 0 THEN 0 ELSE sum[i - 1] + a[i]
  <2>1. \A i \in 0..n : i # 0 => i \in 1..n
    BY <1>1
  <2> QED BY <1>4, <2>1
<1> HIDE DEF a, n
<1>7. \A i \in 0..n : sum[i] \in Int
  <2> DEFINE Bad == {i \in 0..n : sum[i] \notin Int}
  <2> SUFFICES ASSUME Bad # {} PROVE FALSE
    OBVIOUS
  <2>1. Bad \in SUBSET Nat
    BY <1>1
  <2>2. PICK k \in Bad : \A j \in Bad : k <= j
    <3> HIDE DEF Bad
    <3> QED BY <2>1, LeastOf
  <2>3. k # 0 => k - 1 \in 0..n /\ k - 1 \notin Bad /\ k \in 1..n
    BY <1>1, <2>2
  <2>4. k \in 0..n /\ sum[k] \notin Int
    OBVIOUS
  <2>5. k # 0 => sum[k - 1] \in Int /\ a[k] \in Int
    BY <1>1, <2>3
  <2> QED BY <1>1, <1>6, <2>4, <2>5
<1>8. sum \in [0..n -> Int]
  BY <1>4, <1>7
<1>9. \A i \in 0..n : sum[i] = IF i = 0 THEN 0 ELSE sum[i - 1] + got[i].n
  BY <1>4
<1> QED BY <1>5, <1>8, <1>9 DEF n

LEMMA FirstOfErrors ==
  ASSUME NEW got \in Seq(Value), Errors(got) # {}
  PROVE  \E i \in Errors(got) : Total(got) = got[i] /\ \A j \in Errors(got) : i <= j
<1>1. Errors(got) \in SUBSET Nat
  BY DEF Errors
<1>2. \E i \in Errors(got) : \A j \in Errors(got) : i <= j
  BY <1>1, LeastOf
<1> QED BY <1>2 DEF Total

LEMMA TotalType ==
  ASSUME NEW got \in Seq(Value)
  PROVE  Total(got) \in Value
<1>1. CASE Errors(got) # {}
  BY <1>1, FirstOfErrors DEF Errors
<1>2. CASE Errors(got) = {}
  <2>1. PICK f \in [0..Len(got) -> Int] : Total(got) = Number(f[Len(got)])
    BY <1>2, TotalOfNumbers
  <2>2. Len(got) \in 0..Len(got)
    OBVIOUS
  <2> QED BY <2>1, <2>2 DEF Number, Value
<1> QED BY <1>1, <1>2

LEMMA TotalOfOne ==
  ASSUME NEW v \in Value
  PROVE  Total(<<v>>) = v
<1> DEFINE got == <<v>>
<1>1. got \in Seq(Value) /\ Len(got) = 1 /\ DOMAIN got = {1} /\ got[1] = v
  OBVIOUS
<1> HIDE DEF got
<1>2. CASE Errors(got) # {}
  <2>1. Errors(got) \subseteq {1}
    BY <1>1 DEF Errors
  <2> QED BY <1>1, <1>2, <2>1, FirstOfErrors DEF got
<1>3. CASE Errors(got) = {}
  <2>1. PICK f \in [0..1 -> Int] : /\ Total(got) = Number(f[1])
                                  /\ \A i \in 0..1 : f[i] = IF i = 0 THEN 0 ELSE f[i - 1] + got[i].n
    BY <1>1, <1>3, TotalOfNumbers
  <2>2. v.kind = "number" /\ v.n \in Int
    BY <1>1, <1>3 DEF Errors, Value
  <2>3. f[0] = 0 /\ f[1] = f[0] + got[1].n
    BY <2>1
  <2>4. f[1] = v.n
    BY <1>1, <2>2, <2>3
  <2>5. v = Number(v.n)
    BY <2>2 DEF Number, Value
  <2> QED BY <2>1, <2>4, <2>5 DEF got
<1> QED BY <1>2, <1>3

-----------------------------------------------------------------------------
(***************************************************************************)
(* What an operand and a formula mean.                                     *)
(***************************************************************************)

Places == Entered \X Cells

Pos(c) == CHOOSE i \in DOMAIN Order : Order[i] = c

\* An atom that is a reference is one to a cell after c.
AtomAfter(c, x) == x.op # "tick" /\ (x.op = "cell" => Pos(c) < Pos(x.cell))

\* So are the references of an operand, within its file.
OperandAfter(c, x) ==
  AtomAfter(c, x) /\ (x.op = "sheet" => \A i \in DOMAIN x.args : AtomAfter(c, x.args[i]))

LEMMA PosOf ==
  ASSUME NEW c \in Cells
  PROVE  Pos(c) \in DOMAIN Order /\ Order[Pos(c)] = c /\ Pos(c) \in 1..Len(Order) /\ Len(Order) \in Nat
<1>1. \E i \in DOMAIN Order : Order[i] = c
  BY DEF Cells
<1>2. DOMAIN Order = 1..Len(Order) /\ Len(Order) \in Nat
  BY OrderAssumption
<1> QED BY <1>1, <1>2 DEF Pos

LEMMA DiskShape ==
  ASSUME NEW d \in Disks, NEW p \in Paths, NEW c \in Cells
  PROVE  d[p][c] \in Formula /\ d[p][c].args \in Seq(Operand)
BY DisksAssumption DEF Formula

LEMMA GroundedAfter ==
  ASSUME NEW d \in Disks, Grounded(d), NEW p \in Paths, NEW c \in Cells,
         NEW i \in DOMAIN d[p][c].args
  PROVE  OperandAfter(c, d[p][c].args[i])
<1> DEFINE items == d[p][c].args
           x == items[i]
<1>1. Pos(c) \in DOMAIN Order /\ Order[Pos(c)] = c
  BY PosOf
<1>2. \A a \in AtomsOf(items) :
        /\ a.op # "tick"
        /\ a.op = "cell" => \A j \in DOMAIN Order : Order[j] = a.cell => Pos(c) < j
  BY <1>1 DEF Grounded
<1>3. \A a \in AtomsOf(items) : a.op = "cell" /\ a.cell \in Cells => Pos(c) < Pos(a.cell)
  BY <1>2, PosOf
<1>4. x \in ToSet(items) /\ x \in AtomsOf(items)
  BY DEF ToSet, AtomsOf
<1>5. x.op = "sheet" => \A j \in DOMAIN x.args : x.args[j] \in AtomsOf(items)
  BY <1>4 DEF ToSet, AtomsOf
<1>6. x \in Operand
  BY DiskShape
<1>7. \A a \in Atom : a.op = "cell" => a.cell \in Cells
  BY DEF Atom
<1>8. x.op = "cell" => x.cell \in Cells
  BY <1>6 DEF Operand, Atom
<1>9. x.op = "sheet" => \A j \in DOMAIN x.args : x.args[j] \in Atom
  BY <1>6 DEF Operand, Atom
<1> HIDE DEF items, x
<1>10. AtomAfter(c, x)
  BY <1>2, <1>3, <1>4, <1>8 DEF AtomAfter
<1>11. x.op = "sheet" => \A j \in DOMAIN x.args : AtomAfter(c, x.args[j])
  BY <1>2, <1>3, <1>5, <1>7, <1>9 DEF AtomAfter
<1> QED BY <1>10, <1>11 DEF OperandAfter, x, items

\* How far a place is from the end of the recursion: an entered file leaves fewer files
\* to enter, a reference within a file leads on in it.
Rank(x) == Cardinality(Paths \ x[1].visiting) * (Len(Order) + 1) + (Len(Order) - Pos(x[2]))

LEMMA RankType ==
  ASSUME IsFiniteSet(Paths), NEW w \in Entered, NEW c \in Cells
  PROVE  Rank(<<w, c>>) \in Nat
<1>1. Cardinality(Paths \ w.visiting) \in Nat
  BY FS_Difference, FS_CardinalityType
<1>2. Pos(c) \in 1..Len(Order) /\ Len(Order) \in Nat
  BY PosOf
<1> DEFINE k == Cardinality(Paths \ w.visiting)
           n == Len(Order)
<1>3. Rank(<<w, c>>) = k * (n + 1) + (n - Pos(c))
  BY DEF Rank
<1> HIDE DEF k, n
<1>4. k \in Nat /\ n \in Nat /\ Pos(c) \in 1..n
  BY <1>1, <1>2 DEF k, n
<1>5. k * (n + 1) \in Nat
  BY <1>4
<1> QED BY <1>3, <1>4, <1>5

LEMMA RankOn ==
  ASSUME IsFiniteSet(Paths), NEW w \in Entered, NEW c \in Cells, NEW b \in Cells, Pos(c) < Pos(b)
  PROVE  Rank(<<w, b>>) < Rank(<<w, c>>)
<1> DEFINE k == Cardinality(Paths \ w.visiting)
           n == Len(Order)
<1>1. /\ Rank(<<w, c>>) = k * (n + 1) + (n - Pos(c))
      /\ Rank(<<w, b>>) = k * (n + 1) + (n - Pos(b))
  BY DEF Rank
<1>2. k \in Nat /\ n \in Nat /\ Pos(c) \in 1..n /\ Pos(b) \in 1..n
  BY PosOf, FS_Difference, FS_CardinalityType
<1> HIDE DEF k, n
<1>3. k * (n + 1) \in Nat
  BY <1>2
<1> QED BY <1>1, <1>2, <1>3

LEMMA RankIn ==
  ASSUME IsFiniteSet(Paths), NEW w \in Entered, NEW c \in Cells, NEW v \in Entered, NEW b \in Cells,
         NEW q \in Paths, q \notin w.visiting, v.visiting = w.visiting \cup {q}
  PROVE  Rank(<<v, b>>) < Rank(<<w, c>>)
<1> DEFINE k == Cardinality(Paths \ w.visiting)
           j == Cardinality(Paths \ v.visiting)
           n == Len(Order)
<1>1. Rank(<<w, c>>) = k * (n + 1) + (n - Pos(c)) /\ Rank(<<v, b>>) = j * (n + 1) + (n - Pos(b))
  BY DEF Rank
<1>2. k \in Nat /\ j \in Nat /\ n \in Nat /\ Pos(c) \in 1..n /\ Pos(b) \in 1..n
  BY PosOf, FS_Difference, FS_CardinalityType
<1>3. j = k - 1
  <2>1. Paths \ v.visiting = (Paths \ w.visiting) \ {q} /\ q \in Paths \ w.visiting
    OBVIOUS
  <2>2. IsFiniteSet(Paths \ w.visiting)
    BY FS_Difference
  <2> DEFINE S == Paths \ w.visiting
  <2>3. IsFiniteSet(S) /\ q \in S /\ k = Cardinality(S) /\ j = Cardinality(S \ {q})
    BY <2>1, <2>2, Zenon
  <2> HIDE DEF S, j, k
  <2> QED BY <2>3, FS_RemoveElement
<1> HIDE DEF k, j, n
<1>4. k * (n + 1) = j * (n + 1) + (n + 1) /\ j * (n + 1) \in Nat
  BY <1>2, <1>3
<1> QED BY <1>1, <1>2, <1>4

LEMMA OperandShape ==
  ASSUME NEW x \in Operand
  PROVE  /\ x.op \in {"value", "cell", "input", "tick", "foreign", "sheet"}
         /\ x.op = "value" => x.value \in Value
         /\ x.op = "cell" => x.cell \in Cells
         /\ x.op = "input" => x.n \in Nat
         /\ x.op = "foreign" => x.file \in Names /\ x.cells \in Seq(Cells)
         /\ x.op = "sheet" => x.file \in Names /\ x.args \in Seq(Atom)
         /\ x.op \notin {"foreign", "sheet"} => x \in Atom
BY DEF Operand, Atom

LEMMA ErrorValues == Error("#REF!") \in Value /\ Error("#CIRC!") \in Value
BY DEF Error, Value

LEMMA LoadedShape ==
  ASSUME NEW p \in Paths, NEW name \in Names
  PROVE  Resolve[p][name] \in Paths \cup {None}
BY ResolveAssumption

LEMMA EnteredShape ==
  ASSUME NEW w \in Entered, NEW q \in Paths, NEW args \in Seq(Value)
  PROVE  /\ EnteredAs(q, w.visiting \cup {q}, args) \in Entered
         /\ EnteredAs(q, w.visiting \cup {q}, args).visiting = w.visiting \cup {q}
BY DEF Entered, EnteredAs

\* What agrees nearer to the end of the recursion gives the same meaning.
Agree(f, g, w, c) ==
  \A v \in Entered : \A b \in Cells : Rank(<<v, b>>) < Rank(<<w, c>>) => f[<<v, b>>] = g[<<v, b>>]

LEMMA AtomAgrees ==
  ASSUME IsFiniteSet(Paths), NEW f \in [Places -> Value], NEW g,
         NEW w \in Entered, NEW c \in Cells, Agree(f, g, w, c),
         NEW x \in Atom, AtomAfter(c, x)
  PROVE  AtomMeaning(f, w, x) = AtomMeaning(g, w, x) /\ AtomMeaning(f, w, x) \in Value
<1>1. x \in Operand
  BY DEF Operand
<1>2. x.op \in {"value", "cell", "input"}
  BY DEF Atom, AtomAfter
<1>3. CASE x.op = "value"
  BY <1>1, <1>3, OperandShape DEF AtomMeaning
<1>4. CASE x.op = "cell"
  <2>1. x.cell \in Cells /\ Pos(c) < Pos(x.cell)
    BY <1>1, <1>4, OperandShape DEF AtomAfter
  <2>2. Rank(<<w, x.cell>>) < Rank(<<w, c>>)
    BY <2>1, RankOn
  <2>3. f[<<w, x.cell>>] = g[<<w, x.cell>>] /\ f[<<w, x.cell>>] \in Value
    BY <2>1, <2>2 DEF Agree, Places
  <2> QED BY <1>4, <2>3 DEF AtomMeaning
<1>5. CASE x.op = "input"
  <2>1. x.n \in 1..Len(w.args) => w.args[x.n] \in Value
    BY DEF Entered
  <2> QED BY <1>5, <2>1, ErrorValues DEF AtomMeaning
<1> QED BY <1>2, <1>3, <1>4, <1>5

LEMMA AtomsAgree ==
  ASSUME IsFiniteSet(Paths), NEW f \in [Places -> Value], NEW g,
         NEW w \in Entered, NEW c \in Cells, Agree(f, g, w, c),
         NEW items \in Seq(Atom), \A i \in DOMAIN items : AtomAfter(c, items[i])
  PROVE  AtomMeanings(f, w, items) = AtomMeanings(g, w, items) /\ AtomMeanings(f, w, items) \in Seq(Value)
<1>1. \A i \in DOMAIN items : items[i] \in Atom
  OBVIOUS
<1>2. \A i \in DOMAIN items : /\ AtomMeaning(f, w, items[i]) = AtomMeaning(g, w, items[i])
                             /\ AtomMeaning(f, w, items[i]) \in Value
  BY <1>1, AtomAgrees
<1>3. DOMAIN items = 1..Len(items) /\ Len(items) \in Nat
  OBVIOUS
<1> QED BY <1>2, <1>3 DEF AtomMeanings

LEMMA OperandAgrees ==
  ASSUME IsFiniteSet(Paths), NEW f \in [Places -> Value], NEW g, NEW d,
         NEW w \in Entered, NEW c \in Cells, Agree(f, g, w, c),
         NEW x \in Operand, OperandAfter(c, x)
  PROVE  /\ OperandMeaning(d, f, w, x) = OperandMeaning(d, g, w, x)
         /\ OperandMeaning(d, f, w, x) \in Value
<1>1. CASE x.op \notin {"foreign", "sheet"}
  BY <1>1, OperandShape, AtomAgrees DEF OperandMeaning, OperandAfter
<1>2. ASSUME x.op \in {"foreign", "sheet"}
      PROVE  /\ OperandMeaning(d, f, w, x) = OperandMeaning(d, g, w, x)
             /\ OperandMeaning(d, f, w, x) \in Value
  <2> DEFINE q == Resolve[w.path][x.file]
             Into(args) == EnteredAs(q, w.visiting \cup {q}, args)
             outputs == {b \in Cells : d[q][b].call = "output"}
             chosen == CHOOSE b \in outputs : TRUE
             fs == [i \in DOMAIN x.cells |-> f[<<Into(<<>>), x.cells[i]>>]]
             gs == [i \in DOMAIN x.cells |-> g[<<Into(<<>>), x.cells[i]>>]]
             fa == AtomMeanings(f, w, x.args)
             ga == AtomMeanings(g, w, x.args)
  <2>1. q \in Paths \cup {None} /\ x.file \in Names
    BY <1>2, OperandShape, LoadedShape DEF Entered
  <2>2. CASE q = None \/ q \in w.visiting
    BY <1>2, <2>2, ErrorValues DEF OperandMeaning
  <2>3. CASE ~(q = None \/ q \in w.visiting)
    <3>0. q \in Paths /\ q \notin w.visiting
      BY <2>1, <2>3
    <3>1. ASSUME NEW args \in Seq(Value), NEW b \in Cells
          PROVE  f[<<Into(args), b>>] = g[<<Into(args), b>>] /\ f[<<Into(args), b>>] \in Value
      <4>1. Into(args) \in Entered /\ Into(args).visiting = w.visiting \cup {q}
        BY <3>0, EnteredShape
      <4> HIDE DEF Into, q
      <4>2. Rank(<<Into(args), b>>) < Rank(<<w, c>>)
        BY <3>0, <4>1, RankIn
      <4> QED BY <4>1, <4>2 DEF Agree, Places
    <3> HIDE DEF Into
    <3>2. CASE x.op = "foreign"
      <4>1. x.cells \in Seq(Cells) /\ <<>> \in Seq(Value)
        BY <3>2, OperandShape
      <4>2. \A i \in DOMAIN x.cells : x.cells[i] \in Cells
        BY <4>1
      <4>3. fs = gs /\ \A i \in DOMAIN x.cells : fs[i] \in Value
        BY <3>1, <4>1, <4>2
      <4>4. DOMAIN x.cells = 1..Len(x.cells) /\ Len(x.cells) \in Nat
        BY <4>1
      <4>5. fs \in Seq(Value)
        <5> DEFINE n == Len(x.cells)
        <5>1. n \in Nat /\ fs = [i \in 1..n |-> fs[i]] /\ \A i \in 1..n : fs[i] \in Value
          BY <4>3, <4>4
        <5> HIDE DEF fs, n
        <5> QED BY <5>1
      <4>6. OperandMeaning(d, f, w, x) = Total(fs) /\ OperandMeaning(d, g, w, x) = Total(gs)
        BY <1>2, <2>3, <3>2, Zenon DEF OperandMeaning, Into
      <4> HIDE DEF fs, gs
      <4> QED BY <4>3, <4>5, <4>6, TotalType
    <3>3. CASE x.op = "sheet"
      <4>1. x.args \in Seq(Atom) /\ \A i \in DOMAIN x.args : AtomAfter(c, x.args[i])
        BY <3>3, OperandShape DEF OperandAfter
      <4>2. fa = ga /\ fa \in Seq(Value)
        BY <4>1, AtomsAgree
      <4>3. x.op # "foreign"
        BY <3>3
      <4>4. CASE \E b \in Cells : outputs = {b}
        <5>1. chosen \in Cells
          BY <4>4
        <5>2. OperandMeaning(d, f, w, x) = f[<<Into(fa), chosen>>] /\ OperandMeaning(d, g, w, x) = g[<<Into(ga), chosen>>]
          BY <1>2, <2>3, <4>3, <4>4, Zenon DEF OperandMeaning, Into
        <5> HIDE DEF fa, ga, chosen
        <5> QED BY <3>1, <4>2, <5>1, <5>2
      <4>5. CASE ~\E b \in Cells : outputs = {b}
        <5>1. OperandMeaning(d, f, w, x) = Error("#REF!") /\ OperandMeaning(d, g, w, x) = Error("#REF!")
          BY <1>2, <2>3, <4>3, <4>5, Zenon DEF OperandMeaning, Into
        <5> QED BY <5>1, ErrorValues
      <4> QED BY <4>4, <4>5
    <3> QED BY <1>2, <3>2, <3>3
  <2> QED BY <2>2, <2>3
<1> QED BY <1>1, <1>2

LEMMA FormulaAgrees ==
  ASSUME IsFiniteSet(Paths), NEW f \in [Places -> Value], NEW g,
         NEW d \in Disks, Grounded(d),
         NEW w \in Entered, NEW c \in Cells, Agree(f, g, w, c)
  PROVE  /\ FormulaMeaning(d, f, w, c) = FormulaMeaning(d, g, w, c)
         /\ FormulaMeaning(d, f, w, c) \in Value
<1> DEFINE items == d[w.path][c].args
           fs == [i \in DOMAIN items |-> OperandMeaning(d, f, w, items[i])]
           gs == [i \in DOMAIN items |-> OperandMeaning(d, g, w, items[i])]
<1>1. w.path \in Paths
  BY DEF Entered
<1>2. items \in Seq(Operand)
  BY <1>1, DiskShape
<1>3. \A i \in DOMAIN items : OperandAfter(c, items[i])
  BY <1>1, GroundedAfter
<1>4. FormulaMeaning(d, f, w, c) = Total(fs) /\ FormulaMeaning(d, g, w, c) = Total(gs)
  BY DEF FormulaMeaning
<1> HIDE DEF items
<1>5. \A i \in DOMAIN items : items[i] \in Operand
  BY <1>2
<1>6. \A i \in DOMAIN items : /\ OperandMeaning(d, f, w, items[i]) = OperandMeaning(d, g, w, items[i])
                             /\ OperandMeaning(d, f, w, items[i]) \in Value
  BY <1>3, <1>5, OperandAgrees
<1>7. fs = gs /\ fs \in Seq(Value)
  <2>1. DOMAIN items = 1..Len(items) /\ Len(items) \in Nat
    BY <1>2
  <2> QED BY <1>6, <2>1
<1> HIDE DEF fs, gs
<1> QED BY <1>4, <1>7, TotalType

-----------------------------------------------------------------------------
(***************************************************************************)
(* The recursion ends: there are meanings, and only one for each place.    *)
(***************************************************************************)

\* f satisfies the equation of every place of a rank below k.
SolvesTo(d, f, k) ==
  \A w \in Entered : \A c \in Cells :
    Rank(<<w, c>>) < k => f[<<w, c>>] = FormulaMeaning(d, f, w, c)

LEMMA SolutionsAgree ==
  ASSUME IsFiniteSet(Paths), NEW d \in Disks, Grounded(d), NEW k \in Nat,
         NEW f \in [Places -> Value], SolvesTo(d, f, k), NEW g, SolvesTo(d, g, k),
         NEW w \in Entered, NEW c \in Cells, Rank(<<w, c>>) < k
  PROVE  f[<<w, c>>] = g[<<w, c>>]
<1> DEFINE Bad == {n \in Nat : \E v \in Entered : \E b \in Cells :
                     /\ Rank(<<v, b>>) = n /\ n < k /\ f[<<v, b>>] # g[<<v, b>>]}
<1> SUFFICES ASSUME Bad # {} PROVE FALSE
  <2>1. Rank(<<w, c>>) \in Nat
    BY RankType
  <2> QED BY <2>1
<1>1. PICK n \in Bad : \A j \in Bad : n <= j
  <2>1. Bad \in SUBSET Nat
    OBVIOUS
  <2> HIDE DEF Bad
  <2> QED BY <2>1, LeastOf
<1>2. PICK v \in Entered, b \in Cells : Rank(<<v, b>>) = n /\ n < k /\ f[<<v, b>>] # g[<<v, b>>]
  OBVIOUS
<1>3. Agree(f, g, v, b)
  <2> SUFFICES ASSUME NEW u \in Entered, NEW a \in Cells, Rank(<<u, a>>) < Rank(<<v, b>>)
               PROVE  f[<<u, a>>] = g[<<u, a>>]
    BY DEF Agree
  <2>1. Rank(<<u, a>>) \in Nat /\ n \in Nat /\ Rank(<<u, a>>) < n
    BY <1>2, RankType
  <2>2. Rank(<<u, a>>) \notin Bad
    BY <1>1, <2>1
  <2> QED BY <1>2, <2>1, <2>2
<1>4. FormulaMeaning(d, f, v, b) = FormulaMeaning(d, g, v, b)
  BY <1>3, FormulaAgrees
<1> QED BY <1>2, <1>4 DEF SolvesTo

LEMMA SolutionsTo ==
  ASSUME IsFiniteSet(Paths), NEW d \in Disks, Grounded(d), NEW k \in Nat
  PROVE  \E f \in [Places -> Value] : SolvesTo(d, f, k)
<1> DEFINE Bad == {n \in Nat : ~\E f \in [Places -> Value] : SolvesTo(d, f, n)}
<1> SUFFICES ASSUME Bad # {} PROVE FALSE
  OBVIOUS
<1>1. PICK n \in Bad : \A j \in Bad : n <= j
  <2>1. Bad \in SUBSET Nat
    OBVIOUS
  <2> HIDE DEF Bad
  <2> QED BY <2>1, LeastOf
<1>2. n \in Nat /\ ~\E f \in [Places -> Value] : SolvesTo(d, f, n)
  OBVIOUS
<1>3. PICK g \in [Places -> Value] : n > 0 => SolvesTo(d, g, n - 1)
  <2>1. CASE n = 0
    <3> DEFINE g == [x \in Places |-> Error("#REF!")]
    <3>1. g \in [Places -> Value] /\ ~(n > 0)
      BY <2>1, ErrorValues
    <3> HIDE DEF g
    <3> QED BY <3>1
  <2>2. CASE n # 0
    <3>1. n - 1 \in Nat /\ n - 1 \notin Bad
      BY <1>1, <1>2, <2>2
    <3> QED BY <3>1
  <2> QED BY <2>1, <2>2
<1> DEFINE f == [x \in Places |-> FormulaMeaning(d, g, x[1], x[2])]
<1>4. \A w \in Entered : \A c \in Cells : /\ f[<<w, c>>] = FormulaMeaning(d, g, w, c)
                                         /\ FormulaMeaning(d, g, w, c) \in Value
  <2>1. ASSUME NEW w \in Entered, NEW c \in Cells
        PROVE  FormulaMeaning(d, g, w, c) \in Value
    <3>1. Agree(g, g, w, c)
      BY DEF Agree
    <3> QED BY <3>1, FormulaAgrees
  <2>2. ASSUME NEW w \in Entered, NEW c \in Cells
        PROVE  f[<<w, c>>] = FormulaMeaning(d, g, w, c)
    BY DEF Places
  <2> QED BY <2>1, <2>2
<1>5. f \in [Places -> Value]
  <2>1. \A x \in Places : f[x] \in Value
    <3> SUFFICES ASSUME NEW x \in Places PROVE f[x] \in Value
      OBVIOUS
    <3>1. x[1] \in Entered /\ x[2] \in Cells
      BY DEF Places
    <3>2. FormulaMeaning(d, g, x[1], x[2]) \in Value
      BY <1>4, <3>1
    <3> QED BY <3>2
  <2>2. f = [x \in Places |-> f[x]]
    OBVIOUS
  <2> HIDE DEF f
  <2> QED BY <2>1, <2>2
<1> HIDE DEF f
<1>6. SolvesTo(d, f, n)
  <2> SUFFICES ASSUME NEW w \in Entered, NEW c \in Cells, Rank(<<w, c>>) < n
               PROVE  f[<<w, c>>] = FormulaMeaning(d, f, w, c)
    BY DEF SolvesTo
  <2>1. Rank(<<w, c>>) \in Nat
    BY RankType
  <2>2. Agree(f, g, w, c)
    <3> SUFFICES ASSUME NEW v \in Entered, NEW b \in Cells, Rank(<<v, b>>) < Rank(<<w, c>>)
                 PROVE  f[<<v, b>>] = g[<<v, b>>]
      BY DEF Agree
    <3>1. Rank(<<v, b>>) \in Nat
      BY RankType
    <3>2. n > 0 /\ Rank(<<v, b>>) < n - 1
      BY <1>2, <2>1, <3>1
    <3>3. g[<<v, b>>] = FormulaMeaning(d, g, v, b)
      BY <1>3, <3>2 DEF SolvesTo
    <3> QED BY <1>4, <3>3
  <2>3. FormulaMeaning(d, f, w, c) = FormulaMeaning(d, g, w, c)
    BY <1>5, <2>2, FormulaAgrees
  <2> QED BY <1>4, <2>3
<1> QED BY <1>2, <1>5, <1>6

\* The recursive definition of Meaning defines what it says.
LEMMA MeaningSolves ==
  ASSUME IsFiniteSet(Paths), NEW d \in Disks, Grounded(d)
  PROVE  /\ Meaning(d) \in [Places -> Value]
         /\ \A w \in Entered : \A c \in Cells :
              Meaning(d)[<<w, c>>] = FormulaMeaning(d, Meaning(d), w, c)
<1> DEFINE To(k) == CHOOSE f : f \in [Places -> Value] /\ SolvesTo(d, f, k)
           h == [x \in Places |-> To(Rank(x) + 1)[x]]
           m == Meaning(d)
<1>1. ASSUME NEW k \in Nat PROVE To(k) \in [Places -> Value] /\ SolvesTo(d, To(k), k)
  BY SolutionsTo
<1> HIDE DEF To
<1>2. ASSUME NEW w \in Entered, NEW c \in Cells
      PROVE  /\ h[<<w, c>>] = To(Rank(<<w, c>>) + 1)[<<w, c>>]
             /\ h[<<w, c>>] \in Value /\ Rank(<<w, c>>) + 1 \in Nat
  <2>1. <<w, c>> \in Places
    BY DEF Places
  <2>2. Rank(<<w, c>>) \in Nat
    BY RankType
  <2>3. Rank(<<w, c>>) + 1 \in Nat
    BY <2>2
  <2>4. To(Rank(<<w, c>>) + 1) \in [Places -> Value]
    BY <1>1, <2>3
  <2> QED BY <2>1, <2>3, <2>4
<1>3. h \in [Places -> Value]
  <2>1. \A x \in Places : h[x] \in Value
    <3> SUFFICES ASSUME NEW x \in Places PROVE h[x] \in Value
      OBVIOUS
    <3> HIDE DEF h
    <3>1. x[1] \in Entered /\ x[2] \in Cells /\ x = <<x[1], x[2]>>
      BY DEF Places
    <3> QED BY <1>2, <3>1
  <2>2. h = [x \in Places |-> h[x]]
    OBVIOUS
  <2> HIDE DEF h
  <2> QED BY <2>1, <2>2
<1> HIDE DEF h
<1>4. ASSUME NEW w \in Entered, NEW c \in Cells
      PROVE  h[<<w, c>>] = FormulaMeaning(d, h, w, c)
  <2> DEFINE k == Rank(<<w, c>>) + 1
             f == To(k)
  <2>1. k \in Nat /\ f \in [Places -> Value] /\ SolvesTo(d, f, k) /\ h[<<w, c>>] = f[<<w, c>>]
    BY <1>1, <1>2
  <2>2. Agree(f, h, w, c)
    <3> SUFFICES ASSUME NEW v \in Entered, NEW b \in Cells, Rank(<<v, b>>) < Rank(<<w, c>>)
                 PROVE  f[<<v, b>>] = h[<<v, b>>]
      BY DEF Agree
    <3> DEFINE j == Rank(<<v, b>>) + 1
               g == To(j)
    <3>1. j \in Nat /\ g \in [Places -> Value] /\ SolvesTo(d, g, j) /\ h[<<v, b>>] = g[<<v, b>>]
      BY <1>1, <1>2
    <3>2. Rank(<<v, b>>) \in Nat /\ Rank(<<w, c>>) \in Nat
      BY RankType
    <3>3. Rank(<<v, b>>) < j /\ j < k
      BY <3>2
    <3>4. SolvesTo(d, f, j)
      <4> HIDE DEF f, j, k
      <4>1. ASSUME NEW u \in Entered, NEW a \in Cells, Rank(<<u, a>>) < j PROVE Rank(<<u, a>>) < k
        <5>1. Rank(<<u, a>>) \in Nat
          BY RankType
        <5> QED BY <2>1, <3>1, <3>3, <4>1, <5>1
      <4> QED BY <2>1, <4>1 DEF SolvesTo
    <3> HIDE DEF f, g, j, k
    <3>5. g[<<v, b>>] = f[<<v, b>>]
      BY <2>1, <3>1, <3>3, <3>4, SolutionsAgree
    <3> QED BY <3>1, <3>5
  <2>3. FormulaMeaning(d, f, w, c) = FormulaMeaning(d, h, w, c)
    BY <2>1, <2>2, FormulaAgrees
  <2>4. Rank(<<w, c>>) < k
    BY RankType
  <2>5. f[<<w, c>>] = FormulaMeaning(d, f, w, c)
    BY <2>1, <2>4 DEF SolvesTo
  <2> QED BY <2>1, <2>3, <2>5
<1>5. h = [x \in Entered \X Cells |-> FormulaMeaning(d, h, x[1], x[2])]
  <2>1. \A x \in Places : h[x] = FormulaMeaning(d, h, x[1], x[2])
    <3> SUFFICES ASSUME NEW x \in Places PROVE h[x] = FormulaMeaning(d, h, x[1], x[2])
      OBVIOUS
    <3>1. x[1] \in Entered /\ x[2] \in Cells /\ x = <<x[1], x[2]>>
      BY DEF Places
    <3> QED BY <1>4, <3>1
  <2> QED BY <1>3, <2>1 DEF Places
<1>6. m = [x \in Entered \X Cells |-> FormulaMeaning(d, m, x[1], x[2])]
  BY <1>5 DEF Meaning
<1> HIDE DEF m
<1>7. ASSUME NEW w \in Entered, NEW c \in Cells
      PROVE  m[<<w, c>>] = FormulaMeaning(d, m, w, c)
  <2>1. <<w, c>> \in Entered \X Cells
    OBVIOUS
  <2> QED BY <1>6, <2>1
<1>8. ASSUME NEW w \in Entered, NEW c \in Cells
      PROVE  m[<<w, c>>] = h[<<w, c>>]
  <2>1. Rank(<<w, c>>) + 1 \in Nat /\ Rank(<<w, c>>) < Rank(<<w, c>>) + 1
    BY RankType
  <2>2. SolvesTo(d, h, Rank(<<w, c>>) + 1) /\ SolvesTo(d, m, Rank(<<w, c>>) + 1)
    BY <1>4, <1>7 DEF SolvesTo
  <2> QED BY <1>3, <2>1, <2>2, SolutionsAgree
<1>9. m \in [Places -> Value]
  <2>1. \A x \in Places : m[x] \in Value
    <3> SUFFICES ASSUME NEW x \in Places PROVE m[x] \in Value
      OBVIOUS
    <3>1. x[1] \in Entered /\ x[2] \in Cells /\ x = <<x[1], x[2]>>
      BY DEF Places
    <3>2. m[x] = h[x]
      BY <1>8, <3>1
    <3> QED BY <1>3, <3>2
  <2>2. m = [x \in Places |-> m[x]]
    <3> DEFINE e == [x \in Entered \X Cells |-> FormulaMeaning(d, m, x[1], x[2])]
    <3>1. e = [x \in Entered \X Cells |-> e[x]]
      OBVIOUS
    <3>2. m = e
      BY <1>6
    <3> HIDE DEF e
    <3> QED BY <3>1, <3>2 DEF Places
  <2> QED BY <2>1, <2>2
<1> QED BY <1>7, <1>9 DEF m

-----------------------------------------------------------------------------
(***************************************************************************)
(* Types.                                                                  *)
(***************************************************************************)

LEMMA FrameTyped ==
  ASSUME NEW f \in FrameType
  PROVE  /\ f.role \in {"entry", "call", "cell"} /\ f.comp \in Nat
         /\ f.items \in Seq(Operand) /\ f.got \in Seq(Value)
         /\ f.role = "call" => f.of \in Paths
         /\ f.role = "cell" => f.of \in Cells
BY DEF FrameType

LEMMA NewFrameTyped ==
  ASSUME NEW role \in {"entry", "call", "cell"}, NEW of, NEW k \in Nat, NEW items \in Seq(Operand),
         role = "entry" => of = None, role = "call" => of \in Paths, role = "cell" => of \in Cells
  PROVE  /\ Frame(role, of, k, items) \in FrameType
         /\ Frame(role, of, k, items).items = items /\ Frame(role, of, k, items).got = <<>>
<1> DEFINE f == Frame(role, of, k, items)
           R == [role : {"entry", "call", "cell"}, of : {None} \cup Paths \cup Cells, comp : Nat,
                 items : Seq(Operand), got : Seq(Value)]
<1>1. f.role = role /\ f.of = of /\ f.items = items /\ f.got = <<>>
  BY DEF Frame
<1>2. f \in R
  <2>1. of \in {None} \cup Paths \cup Cells /\ <<>> \in Seq(Value)
    OBVIOUS
  <2> QED BY <2>1 DEF Frame
<1> HIDE DEF f
<1>3. f \in FrameType
  BY <1>1, <1>2 DEF FrameType
<1> QED BY <1>1, <1>3 DEF f

LEMMA LocalsTyped ==
  ASSUME NEW cells \in Seq(Cells)
  PROVE  [i \in DOMAIN cells |-> Local(cells[i])] \in Seq(Operand)
<1>1. \A c \in Cells : Local(c) \in Operand
  BY DEF Local, Operand, Atom
<1>2. DOMAIN cells = 1..Len(cells) /\ Len(cells) \in Nat /\ \A i \in DOMAIN cells : cells[i] \in Cells
  OBVIOUS
<1> QED BY <1>1, <1>2

LEMMA NewComputerTyped ==
  ASSUME NEW p \in Paths, NEW visiting \in SUBSET Paths, NEW args \in Seq(Value), NEW t \in 0..MaxTick
  PROVE  /\ Computer(p, visiting, args, t) \in ComputerType
         /\ Computer(p, visiting, args, t).args = args
         /\ \A c \in Cells : Computer(p, visiting, args, t).phase[c] = "unvisited"
<1>1. Number(0) \in Value
  BY DEF Number, Value
<1> QED BY <1>1 DEF Computer, ComputerType

\* A frame told one more value.
ToldNext(f, v) == [f EXCEPT !.got = Append(f.got, v)]

LEMMA ToldTyped ==
  ASSUME NEW f \in FrameType, NEW v \in Value
  PROVE  /\ ToldNext(f, v) \in FrameType
         /\ ToldNext(f, v).role = f.role /\ ToldNext(f, v).of = f.of /\ ToldNext(f, v).comp = f.comp
         /\ ToldNext(f, v).items = f.items /\ ToldNext(f, v).got = Append(f.got, v)
<1> DEFINE g == ToldNext(f, v)
<1>1. Append(f.got, v) \in Seq(Value)
  BY FrameTyped
<1>2. g.role = f.role /\ g.of = f.of /\ g.comp = f.comp /\ g.items = f.items /\ g.got = Append(f.got, v)
  BY DEF FrameType, ToldNext
<1>3. g \in [role : {"entry", "call", "cell"}, of : {None} \cup Paths \cup Cells, comp : Nat,
             items : Seq(Operand), got : Seq(Value)]
  BY <1>1 DEF FrameType, ToldNext
<1> HIDE DEF g
<1>4. g \in FrameType
  BY <1>2, <1>3 DEF FrameType
<1> QED BY <1>2, <1>4 DEF g

\* The stack whose last frame is told v.
IsGiven(t, st, v) ==
  /\ t \in Seq(FrameType) /\ Len(t) = Len(st)
  /\ \A i \in 1..(Len(st) - 1) : t[i] = st[i]
  /\ t[Len(st)] = ToldNext(st[Len(st)], v)

LEMMA GivenTyped ==
  ASSUME NEW st \in Seq(FrameType), Len(st) > 0, NEW v \in Value
  PROVE  IsGiven(Given(st, v), st, v)
<1> DEFINE n == Len(st)
           f == ToldNext(st[n], v)
<1>1. n \in 1..n /\ n \in Nat /\ st[n] \in FrameType /\ DOMAIN st = 1..n
  OBVIOUS
<1>2. f \in FrameType
  BY <1>1, ToldTyped
<1>3. Given(st, v) = [st EXCEPT ![n] = f]
  BY Zenon DEF Given, ToldNext
<1> DEFINE t == [st EXCEPT ![n] = f]
<1> HIDE DEF f
<1> HIDE DEF n
<1>4. t \in Seq(FrameType) /\ Len(t) = Len(st) /\ \A i \in 1..n : t[i] = IF i = n THEN f ELSE st[i]
  <2>1. n \in 1..Len(st) /\ n = Len(st)
    BY <1>1 DEF n
  <2> QED BY <1>2, <2>1, ExceptSeq
<1>5. \A i \in 1..(n - 1) : i \in 1..n /\ i # n
  BY <1>1
<1> HIDE DEF t
<1> QED BY <1>1, <1>3, <1>4, <1>5 DEF IsGiven, f, t, n

\* The stack with one more frame, to which nothing was told yet.
IsPushed(t, st, f) ==
  /\ t \in Seq(FrameType) /\ Len(t) = Len(st) + 1
  /\ \A i \in 1..Len(st) : t[i] = st[i]
  /\ t[Len(st) + 1] = f

LEMMA PushTyped ==
  ASSUME NEW st \in Seq(FrameType), NEW f \in FrameType
  PROVE  IsPushed(Append(st, f), st, f)
BY DEF IsPushed

\* The stack without its last frame.
IsBelow(t, st) ==
  /\ t \in Seq(FrameType) /\ Len(t) = Len(st) - 1
  /\ \A i \in 1..(Len(st) - 1) : t[i] = st[i]

LEMMA BelowTyped ==
  ASSUME NEW st \in Seq(FrameType), Len(st) > 0
  PROVE  IsBelow(SubSeq(st, 1, Len(st) - 1), st)
<1> DEFINE m == Len(st) - 1
           t == SubSeq(st, 1, m)
<1>1. m \in Nat /\ 1 \in 1..(Len(st) + 1) /\ m \in (1 - 1)..Len(st)
  OBVIOUS
<1> HIDE DEF m
<1>2. t \in Seq(FrameType) /\ Len(t) = m /\ \A i \in 1..m : t[i] = st[i]
  BY <1>1, SubSeqProperties
<1> HIDE DEF t
<1> QED BY <1>2 DEF IsBelow, m, t

-----------------------------------------------------------------------------
(***************************************************************************)
(* What the evaluations under way were told is what their operands mean.   *)
(***************************************************************************)

\* How the file of a computer was entered.
Way(x) == EnteredAs(x.path, x.visiting, x.args)

NextOf(f) == f.items[Len(f.got) + 1]

\* The meanings of the operands of a frame.
Worth(d, w, items) == [i \in DOMAIN items |-> OperandMeaning(d, Meaning(d), w, items[i])]

Timeless(items) ==
  \A i \in DOMAIN items :
    /\ items[i].op # "tick"
    /\ items[i].op = "sheet" => \A j \in DOMAIN items[i].args : items[i].args[j].op # "tick"

\* A frame in the entered file w was told what its operands mean, as far as it goes.
Told(d, w, f) ==
  /\ Len(f.got) <= Len(f.items)
  /\ \A i \in 1..Len(f.got) : f.got[i] = OperandMeaning(d, Meaning(d), w, f.items[i])
  /\ Timeless(f.items)
  /\ f.role = "cell" => f.items = d[w.path][f.of].args

\* The frame f, in w, waits for g, in v, which finds what the next operand of f means.
Awaits(d, w, f, v, g) ==
  /\ Len(f.got) < Len(f.items)
  /\ g.role = "cell" => NextOf(f) = Local(g.of)
  /\ g.role = "call" => /\ NextOf(f).op = "sheet" /\ NextOf(f).args = g.items
                        /\ Resolve[w.path][NextOf(f).file] = g.of
  /\ g.role = "entry" => OperandMeaning(d, Meaning(d), w, NextOf(f)) = Total(Worth(d, v, g.items))

\* In one computer evaluation goes forward: what g asks for comes after the cell of f.
Before(f, g) ==
  (f.role = "cell" /\ f.comp = g.comp) => \A i \in DOMAIN g.items : OperandAfter(f.of, g.items[i])

Faithful(d, cs, st) ==
  /\ \A i \in 1..Len(st) : Told(d, Way(cs[st[i].comp]), st[i])
  /\ \A i \in 2..Len(st) :
       Awaits(d, Way(cs[st[i - 1].comp]), st[i - 1], Way(cs[st[i].comp]), st[i])
  /\ \A i, j \in 1..Len(st) : i <= j => Before(st[i], st[j])

LEMMA GiveFaithful ==
  ASSUME NEW d, NEW cs, NEW st \in Seq(FrameType), Len(st) > 0, Faithful(d, cs, st),
         NEW v \in Value, NEW t, IsGiven(t, st, v),
         Len(st[Len(st)].got) < Len(st[Len(st)].items),
         v = OperandMeaning(d, Meaning(d), Way(cs[st[Len(st)].comp]), NextOf(st[Len(st)]))
  PROVE  Faithful(d, cs, t)
<1> DEFINE n == Len(st)
           f == st[n]
           g == t[n]
           w == Way(cs[f.comp])
<1>1. n \in Nat /\ n \in 1..n /\ f \in FrameType /\ Len(t) = n
  BY DEF IsGiven
<1>2. /\ g.role = f.role /\ g.of = f.of /\ g.comp = f.comp /\ g.items = f.items
      /\ g.got = Append(f.got, v)
  BY <1>1, ToldTyped DEF IsGiven
<1>3. \A i \in 1..n : i # n => t[i] = st[i]
  BY <1>1 DEF IsGiven
<1>4. \A i \in 1..n : /\ t[i].role = st[i].role /\ t[i].of = st[i].of /\ t[i].comp = st[i].comp
                      /\ t[i].items = st[i].items
  BY <1>2, <1>3
<1>5. Told(d, w, g)
  <2>1. f.got \in Seq(Value) /\ f.items \in Seq(Operand) /\ Len(f.got) \in Nat /\ Len(f.items) \in Nat
    BY <1>1, FrameTyped
  <2>2. Told(d, w, f)
    BY <1>1 DEF Faithful
  <2>3. Len(g.got) = Len(f.got) + 1 /\ g.got[Len(f.got) + 1] = v /\ \A i \in 1..Len(f.got) : g.got[i] = f.got[i]
    BY <1>2, <2>1
  <2>4. \A i \in 1..(Len(f.got) + 1) : i \in 1..Len(f.got) \/ i = Len(f.got) + 1
    BY <2>1
  <2>5. v = OperandMeaning(d, Meaning(d), w, f.items[Len(f.got) + 1])
    BY DEF NextOf
  <2> HIDE DEF f, g, w
  <2>6. \A i \in 1..Len(g.got) : g.got[i] = OperandMeaning(d, Meaning(d), w, g.items[i])
    BY <1>2, <2>2, <2>3, <2>4, <2>5 DEF Told
  <2>7. Len(g.got) <= Len(g.items)
    BY <1>2, <2>1, <2>3 DEF f, n
  <2> QED BY <1>2, <2>2, <2>6, <2>7 DEF Told
<1>6. \A i \in 1..n : Told(d, Way(cs[t[i].comp]), t[i])
  <2>1. \A i \in 1..n : i # n => Told(d, Way(cs[t[i].comp]), t[i])
    BY <1>3 DEF Faithful
  <2>2. Told(d, Way(cs[g.comp]), g)
    BY <1>2, <1>5
  <2> QED BY <2>1, <2>2
<1>7. \A i \in 2..n : Awaits(d, Way(cs[t[i - 1].comp]), t[i - 1], Way(cs[t[i].comp]), t[i])
  <2> SUFFICES ASSUME NEW i \in 2..n
               PROVE  Awaits(d, Way(cs[t[i - 1].comp]), t[i - 1], Way(cs[t[i].comp]), t[i])
    OBVIOUS
  <2>1. i \in 1..n /\ i - 1 \in 1..n /\ i - 1 # n
    BY <1>1
  <2>2. t[i - 1] = st[i - 1] /\ t[i].role = st[i].role /\ t[i].of = st[i].of /\ t[i].comp = st[i].comp
        /\ t[i].items = st[i].items
    BY <1>3, <1>4, <2>1
  <2>3. Awaits(d, Way(cs[st[i - 1].comp]), st[i - 1], Way(cs[st[i].comp]), st[i])
    BY DEF Faithful
  <2> QED BY <2>2, <2>3 DEF Awaits
<1>8. \A i, j \in 1..n : i <= j => Before(t[i], t[j])
  BY <1>4 DEF Faithful, Before
<1> QED BY <1>1, <1>6, <1>7, <1>8 DEF Faithful

LEMMA PushFaithful ==
  ASSUME NEW d, NEW cs, NEW st \in Seq(FrameType), Faithful(d, cs, st),
         NEW t, NEW f, IsPushed(t, st, f), Told(d, Way(cs[f.comp]), f),
         Len(st) > 0 => Awaits(d, Way(cs[st[Len(st)].comp]), st[Len(st)], Way(cs[f.comp]), f),
         \A i \in 1..Len(st) : Before(st[i], f), Before(f, f)
  PROVE  Faithful(d, cs, t)
<1> DEFINE n == Len(st)
<1>1. n \in Nat /\ Len(t) = n + 1 /\ t[n + 1] = f /\ \A i \in 1..n : t[i] = st[i]
  BY DEF IsPushed
<1>2. \A i \in 1..(n + 1) : i \in 1..n \/ i = n + 1
  BY <1>1
<1>3. \A i \in 1..(n + 1) : Told(d, Way(cs[t[i].comp]), t[i])
  BY <1>1, <1>2 DEF Faithful
<1>4. \A i \in 2..(n + 1) : Awaits(d, Way(cs[t[i - 1].comp]), t[i - 1], Way(cs[t[i].comp]), t[i])
  <2> SUFFICES ASSUME NEW i \in 2..(n + 1)
               PROVE  Awaits(d, Way(cs[t[i - 1].comp]), t[i - 1], Way(cs[t[i].comp]), t[i])
    OBVIOUS
  <2>1. CASE i = n + 1
    <3>1. n > 0 /\ i - 1 = n /\ n \in 1..n
      BY <1>1, <2>1
    <3> QED BY <1>1, <2>1, <3>1
  <2>2. CASE i # n + 1
    <3>1. i \in 2..n /\ i \in 1..n /\ i - 1 \in 1..n
      BY <1>1, <2>2
    <3> QED BY <1>1, <3>1 DEF Faithful
  <2> QED BY <2>1, <2>2
<1>5. \A i, j \in 1..(n + 1) : i <= j => Before(t[i], t[j])
  <2> SUFFICES ASSUME NEW i \in 1..(n + 1), NEW j \in 1..(n + 1), i <= j PROVE Before(t[i], t[j])
    OBVIOUS
  <2>1. CASE j = n + 1
    BY <1>1, <1>2, <2>1
  <2>2. CASE j # n + 1
    <3>1. i \in 1..n /\ j \in 1..n
      BY <1>1, <2>2
    <3> QED BY <1>1, <3>1 DEF Faithful
  <2> QED BY <2>1, <2>2
<1> QED BY <1>1, <1>3, <1>4, <1>5 DEF Faithful

LEMMA PopFaithful ==
  ASSUME NEW d, NEW cs, NEW st \in Seq(FrameType), Len(st) > 0, Faithful(d, cs, st),
         NEW t, IsBelow(t, st)
  PROVE  Faithful(d, cs, t)
<1>1. Len(st) \in Nat /\ Len(t) = Len(st) - 1 /\ \A i \in 1..(Len(st) - 1) : t[i] = st[i]
  BY DEF IsBelow
<1>2. \A i \in 1..Len(t) : i \in 1..Len(st) /\ t[i] = st[i]
  BY <1>1
<1>3. \A i \in 2..Len(t) : i \in 2..Len(st) /\ i \in 1..Len(t) /\ i - 1 \in 1..Len(t)
  BY <1>1
<1> QED BY <1>2, <1>3 DEF Faithful

\* What the computers hold besides the way does not matter.
LEMMA WaysFaithful ==
  ASSUME NEW d, NEW cs, NEW ds, NEW st \in Seq(FrameType), Faithful(d, cs, st),
         \A i \in 1..Len(st) : Way(ds[st[i].comp]) = Way(cs[st[i].comp])
  PROVE  Faithful(d, ds, st)
<1>1. \A i \in 2..Len(st) : i \in 1..Len(st) /\ i - 1 \in 1..Len(st)
  OBVIOUS
<1> QED BY <1>1 DEF Faithful

\* The pass's own file, as it is entered.
RootWay == EnteredAs(Root, {Root}, <<>>)

\* The file whose nested grid a cell shows, as it is entered.
SheetOf(d, c) == d[Root][c].args[1]
Target(d, c) == Resolve[Root][SheetOf(d, c).file]
Shows(d, c) == c \in Cells /\ IsSheetCall(d[Root][c]) /\ Target(d, c) \in Paths \ {Root}
Inputs(d, c) == AtomMeanings(Meaning(d), RootWay, SheetOf(d, c).args)
NestedWay(d, c) == EnteredAs(Target(d, c), {Root} \cup {Target(d, c)}, Inputs(d, c))

WholeFile == [i \in DOMAIN Order |-> Local(Order[i])]

\* The first frame serves the request: it reads the whole file, or calls the nested one.
Serving(d, req, cs, st) ==
  Len(st) > 0 =>
    /\ Way(cs[1]) = RootWay
    /\ st[1].role = "entry" => st[1].items = WholeFile
    /\ req.name = "compute" => st[1].role = "entry" /\ st[1].comp = 1
    /\ req.name = "nested" =>
         /\ Shows(d, req.cell)
         /\ st[1].role = "call" => /\ st[1].comp = 1 /\ st[1].of = Target(d, req.cell)
                                   /\ st[1].items = SheetOf(d, req.cell).args
         /\ st[1].role = "entry" => /\ st[1].comp = 2 /\ cs[2].path = Target(d, req.cell)
                                    /\ cs[2].visiting = {Root} \cup {Target(d, req.cell)}

Typed == TypeOK /\ Serving(disk, request, comps, stack)

LEMMA WayShape ==
  ASSUME NEW x, NEW y, Way(x) = Way(y)
  PROVE  x.path = y.path /\ x.visiting = y.visiting /\ x.args = y.args
BY DEF Way, EnteredAs

LEMMA WayTyped ==
  ASSUME NEW x \in ComputerType
  PROVE  /\ Way(x) \in Entered /\ Way(x).path = x.path /\ Way(x).visiting = x.visiting
         /\ Way(x).args = x.args
BY DEF Way, EnteredAs, Entered, ComputerType

\* The request is served as long as the first frame and its computers are the same.
LEMMA ServingKept ==
  ASSUME NEW d, NEW req, NEW cs, NEW st, NEW ds, NEW t, Serving(d, req, cs, st), Len(st) > 0,
         t[1].role = st[1].role, t[1].of = st[1].of, t[1].comp = st[1].comp, t[1].items = st[1].items,
         Way(ds[1]) = Way(cs[1]), Way(ds[st[1].comp]) = Way(cs[st[1].comp])
  PROVE  Serving(d, req, ds, t)
<1>1. /\ ds[st[1].comp].path = cs[st[1].comp].path
      /\ ds[st[1].comp].visiting = cs[st[1].comp].visiting
  BY WayShape
<1> QED BY <1>1 DEF Serving

\* What holds whenever something is evaluated.
LEMMA TopTyped ==
  ASSUME IInv, Typed, Len(stack) > 0
  PROVE  /\ stack \in Seq(FrameType) /\ comps \in Seq(ComputerType) /\ disk \in Disks
         /\ Top = stack[Len(stack)] /\ Top \in FrameType /\ Top.comp = Len(comps)
         /\ Comp = comps[Len(comps)] /\ Comp \in ComputerType
         /\ Comp.path \in Paths /\ Comp.visiting \in SUBSET Paths /\ Comp.args \in Seq(Value)
         /\ Len(stack) \in Nat /\ Len(comps) \in Nat /\ Len(comps) > 0
         /\ \A i \in 1..Len(stack) : stack[i] \in FrameType /\ stack[i].comp \in 1..Len(comps)
<1>1. stack \in Seq(FrameType) /\ comps \in Seq(ComputerType) /\ disk \in Disks
  BY DEF Typed, TypeOK
<1>2. /\ Top = stack[Len(stack)] /\ Comp = comps[Len(comps)] /\ Top.comp = Len(comps)
      /\ Len(stack) \in 1..Len(stack) /\ Len(comps) \in 1..Len(comps)
  BY TopShape
<1>3. \A i \in 1..Len(stack) : stack[i] \in FrameType /\ stack[i].comp \in 1..Len(comps)
  BY <1>1 DEF IInv, Placed, Runs
<1>4. Comp \in ComputerType
  BY <1>1, <1>2
<1>5. Comp.path \in Paths /\ Comp.visiting \in SUBSET Paths /\ Comp.args \in Seq(Value)
  BY <1>4 DEF ComputerType
<1> QED BY <1>1, <1>2, <1>3, <1>4, <1>5

LEMMA AskTyped ==
  ASSUME IInv, Typed, Asking
  PROVE  /\ Len(stack) > 0 /\ Item = NextOf(Top) /\ Item \in Operand
         /\ Len(Top.got) < Len(Top.items) /\ Len(Top.got) + 1 \in DOMAIN Top.items
<1>1. Len(stack) > 0 /\ Len(Top.got) < Len(Top.items)
  BY AskingShape DEF Asking
<1>2. Top.items \in Seq(Operand) /\ Top.got \in Seq(Value)
  BY <1>1, TopTyped, FrameTyped
<1>3. Len(Top.got) + 1 \in DOMAIN Top.items
  BY <1>1, <1>2
<1> QED BY <1>1, <1>2, <1>3 DEF Item, NextOf

-----------------------------------------------------------------------------
(***************************************************************************)
(* Types are kept.                                                         *)
(***************************************************************************)

\* Values are given to the last frame, below which nothing changes.
LEMMA GiveTyped ==
  ASSUME NEW d, NEW req, NEW cs, NEW st \in Seq(FrameType), Len(st) > 0, NEW v \in Value,
         Serving(d, req, cs, st)
  PROVE  Given(st, v) \in Seq(FrameType) /\ Serving(d, req, cs, Given(st, v))
<1> DEFINE t == Given(st, v)
<1>1. IsGiven(t, st, v)
  BY GivenTyped
<1>2. t[1].role = st[1].role /\ t[1].of = st[1].of /\ t[1].comp = st[1].comp /\ t[1].items = st[1].items
  <2>1. st[Len(st)] \in FrameType
    OBVIOUS
  <2>2. CASE Len(st) = 1
    BY <1>1, <2>1, <2>2, ToldTyped DEF IsGiven
  <2>3. CASE Len(st) # 1
    BY <1>1, <2>3 DEF IsGiven
  <2> QED BY <2>2, <2>3
<1> HIDE DEF t
<1>3. Serving(d, req, cs, t)
  BY <1>2, ServingKept
<1> QED BY <1>1, <1>3 DEF IsGiven, t

LEMMA AnswerTyped ==
  ASSUME IInv, Typed, Asking, NEW v \in Value, Answer(v)
  PROVE  Typed'
<1>1. Len(stack) > 0 /\ stack \in Seq(FrameType)
  BY AskTyped, TopTyped
<1>2. /\ stack' = Given(stack, v) /\ comps' = comps /\ disk' = disk /\ tick' = tick
      /\ request' = request /\ grid' = grid /\ nested' = nested
  BY DEF Answer
<1>3. stack' \in Seq(FrameType) /\ Serving(disk, request, comps, stack')
  BY <1>1, <1>2, GiveTyped DEF Typed
<1> QED BY <1>2, <1>3 DEF Typed, TypeOK

LEMMA AnswersTyped ==
  ASSUME IInv, Typed,
         \/ TakeValue \/ TakeTick \/ TakeInput \/ LoadFails \/ LoadCycle
         \/ \E c \in Cells : ReadDone(c) \/ ReadVisiting(c)
  PROVE  Typed'
<1>1. Asking
  BY DEF TakeValue, TakeTick, TakeInput, LoadFails, LoadCycle, Loading, ReadDone, ReadVisiting, Reading
<1>2. Item \in Operand /\ Comp \in ComputerType
  BY <1>1, AskTyped, TopTyped
<1>3. CASE TakeValue
  <2>1. Item.value \in Value
    BY <1>2, <1>3, OperandShape DEF TakeValue
  <2> QED BY <1>1, <1>3, <2>1, AnswerTyped DEF TakeValue
<1>4. CASE TakeTick
  <2>1. Number(Comp.tick) \in Value
    BY <1>2, TickAssumption DEF ComputerType, Number, Value
  <2> QED BY <1>1, <1>4, <2>1, AnswerTyped DEF TakeTick
<1>5. CASE TakeInput
  <2>1. Item.n \in 1..Len(Comp.args) => Comp.args[Item.n] \in Value
    BY <1>2 DEF ComputerType
  <2>2. (IF Item.n \in 1..Len(Comp.args) THEN Comp.args[Item.n] ELSE Error("#REF!")) \in Value
    BY <2>1, ErrorValues
  <2> QED BY <1>1, <1>5, <2>2, AnswerTyped DEF TakeInput
<1>6. CASE LoadFails \/ LoadCycle
  BY <1>1, <1>6, ErrorValues, AnswerTyped DEF LoadFails, LoadCycle
<1>7. ASSUME NEW c \in Cells, ReadDone(c) \/ ReadVisiting(c) PROVE Typed'
  <2>1. Comp.cache[c] \in Value
    BY <1>2 DEF ComputerType
  <2> QED BY <1>1, <1>7, <2>1, ErrorValues, AnswerTyped DEF ReadDone, ReadVisiting
<1> QED BY <1>3, <1>4, <1>5, <1>6, <1>7

\* Computers that are entered as before.
SameWays(ds, cs, m) == \A k \in 1..m : Way(ds[k]) = Way(cs[k])

\* The same first frame, whatever it was told.
SameFirst(t, st) ==
  /\ t \in Seq(FrameType) /\ Len(t) > 0
  /\ t[1].role = st[1].role /\ t[1].of = st[1].of /\ t[1].comp = st[1].comp /\ t[1].items = st[1].items

\* A step that leaves the first frame and its computers as they are.
LEMMA StepTyped ==
  ASSUME IInv, Typed, Len(stack) > 0,
         comps' \in Seq(ComputerType), SameWays(comps', comps, stack[1].comp), SameFirst(stack', stack),
         UNCHANGED <<disk, tick, request, grid, nested>>
  PROVE  Typed'
<1>1. 1 \in 1..stack[1].comp /\ stack[1].comp \in 1..stack[1].comp
  BY TopTyped
<1>2. Serving(disk, request, comps', stack')
  BY <1>1, ServingKept DEF Typed, SameWays, SameFirst
<1>3. disk' = disk /\ tick' = tick /\ request' = request /\ grid' = grid /\ nested' = nested
  OBVIOUS
<1> QED BY <1>2, <1>3 DEF Typed, TypeOK, SameFirst

\* A new state of a cell in the last computer.
IsMemo(ds, cs, r) ==
  /\ ds \in Seq(ComputerType) /\ Len(ds) = Len(cs)
  /\ ds[Len(cs)] = r /\ \A k \in 1..(Len(cs) - 1) : ds[k] = cs[k]

LEMMA MemoTyped ==
  ASSUME NEW cs \in Seq(ComputerType), Len(cs) > 0, NEW r \in ComputerType
  PROVE  IsMemo([cs EXCEPT ![Len(cs)] = r], cs, r)
<1> DEFINE n == Len(cs)
           ds == [cs EXCEPT ![n] = r]
<1>1. n \in 1..Len(cs) /\ n = Len(cs) /\ n \in Nat
  OBVIOUS
<1> HIDE DEF n
<1>2. ds \in Seq(ComputerType) /\ Len(ds) = Len(cs) /\ \A i \in 1..n : ds[i] = IF i = n THEN r ELSE cs[i]
  BY <1>1, ExceptSeq
<1>3. \A i \in 1..(n - 1) : i \in 1..n /\ i # n
  BY <1>1
<1> HIDE DEF ds
<1> QED BY <1>1, <1>2, <1>3 DEF IsMemo, n, ds

LEMMA MemoWays ==
  ASSUME NEW cs \in Seq(ComputerType), Len(cs) > 0, NEW r, NEW ds, IsMemo(ds, cs, r),
         Way(r) = Way(cs[Len(cs)])
  PROVE  SameWays(ds, cs, Len(cs))
<1>1. \A k \in 1..Len(cs) : k = Len(cs) \/ k \in 1..(Len(cs) - 1)
  OBVIOUS
<1> QED BY <1>1 DEF SameWays, IsMemo

\* One more computer.
IsEntered(ds, cs, x) ==
  /\ ds \in Seq(ComputerType) /\ Len(ds) = Len(cs) + 1
  /\ ds[Len(cs) + 1] = x /\ \A k \in 1..Len(cs) : ds[k] = cs[k]

LEMMA EnterTyped ==
  ASSUME NEW cs \in Seq(ComputerType), NEW x \in ComputerType
  PROVE  IsEntered(Append(cs, x), cs, x)
BY DEF IsEntered

\* One computer less.
IsLeft(ds, cs) ==
  /\ ds \in Seq(ComputerType) /\ Len(ds) = Len(cs) - 1
  /\ \A k \in 1..(Len(cs) - 1) : ds[k] = cs[k]

LEMMA LeaveTyped ==
  ASSUME NEW cs \in Seq(ComputerType), Len(cs) > 0
  PROVE  IsLeft(SubSeq(cs, 1, Len(cs) - 1), cs)
<1> DEFINE m == Len(cs) - 1
           t == SubSeq(cs, 1, m)
<1>1. m \in Nat /\ 1 \in 1..(Len(cs) + 1) /\ m \in (1 - 1)..Len(cs)
  OBVIOUS
<1> HIDE DEF m
<1>2. t \in Seq(ComputerType) /\ Len(t) = m /\ \A i \in 1..m : t[i] = cs[i]
  BY <1>1, SubSeqProperties
<1> HIDE DEF t
<1> QED BY <1>2 DEF IsLeft, m, t

LEMMA GivenFirst ==
  ASSUME NEW st \in Seq(FrameType), Len(st) > 0, NEW v, NEW t, IsGiven(t, st, v), v \in Value
  PROVE  SameFirst(t, st)
<1>1. st[Len(st)] \in FrameType
  OBVIOUS
<1>2. CASE Len(st) = 1
  BY <1>1, <1>2, ToldTyped DEF IsGiven, SameFirst
<1>3. CASE Len(st) # 1
  <2>1. Len(st) \in Nat /\ Len(st) # 1 /\ Len(st) > 0
    BY <1>3
  <2> DEFINE n == Len(st)
  <2> HIDE DEF n
  <2>2. 1 \in 1..(n - 1)
    <3>1. n \in Nat /\ n # 1 /\ n > 0
      BY <2>1 DEF n
    <3> QED BY <3>1
  <2> QED BY <2>2 DEF IsGiven, SameFirst, n
<1> QED BY <1>2, <1>3

LEMMA BelowFirst ==
  ASSUME NEW st \in Seq(FrameType), Len(st) > 1, NEW t, IsBelow(t, st)
  PROVE  SameFirst(t, st) /\ Len(t) = Len(st) - 1
<1>1. 1 \in 1..(Len(st) - 1) /\ Len(st) - 1 > 0
  OBVIOUS
<1> QED BY <1>1 DEF IsBelow, SameFirst

LEMMA PushFirst ==
  ASSUME NEW st \in Seq(FrameType), Len(st) > 0, NEW f, NEW t, IsPushed(t, st, f)
  PROVE  SameFirst(t, st)
<1>1. 1 \in 1..Len(st)
  OBVIOUS
<1> QED BY <1>1 DEF IsPushed, SameFirst

LEMMA FirstTwice ==
  ASSUME NEW s, NEW t, NEW u, SameFirst(t, s), SameFirst(u, t)
  PROVE  SameFirst(u, s)
BY DEF SameFirst

\* The stack below the last frame, given a value.
LEMMA PopTyped ==
  ASSUME NEW st \in Seq(FrameType), Len(st) > 1, NEW v \in Value
  PROVE  LET b == SubSeq(st, 1, Len(st) - 1) IN
         IsBelow(b, st) /\ Len(b) > 0 /\ IsGiven(Given(b, v), b, v) /\ SameFirst(Given(b, v), st)
<1> DEFINE b == SubSeq(st, 1, Len(st) - 1)
           t == Given(b, v)
<1>1. Len(st) > 0
  OBVIOUS
<1>2. IsBelow(b, st)
  BY <1>1, BelowTyped
<1> HIDE DEF b
<1>3. b \in Seq(FrameType) /\ Len(b) > 0 /\ SameFirst(b, st)
  BY <1>2, BelowFirst DEF IsBelow
<1>4. IsGiven(t, b, v)
  BY <1>3, GivenTyped
<1> HIDE DEF t
<1>5. SameFirst(t, st)
  BY <1>3, <1>4, GivenFirst, FirstTwice
<1> QED BY <1>2, <1>3, <1>4, <1>5 DEF b, t

-----------------------------------------------------------------------------
(***************************************************************************)
(* What each action does to the chain and to the stack.                    *)
(***************************************************************************)

Aside == <<disk, tick, request, grid, nested>>

\* A frame with nothing told to it yet.
IsNew(f, role, of, k, items) ==
  /\ f \in FrameType /\ f.role = role /\ f.of = of /\ f.comp = k /\ f.items = items /\ f.got = <<>>

LEMMA NewFrame ==
  ASSUME NEW role \in {"entry", "call", "cell"}, NEW of, NEW k \in Nat, NEW items \in Seq(Operand),
         role = "entry" => of = None, role = "call" => of \in Paths, role = "cell" => of \in Cells
  PROVE  IsNew(Frame(role, of, k, items), role, of, k, items)
<1>1. Frame(role, of, k, items) \in FrameType
  BY NewFrameTyped
<1> QED BY <1>1 DEF Frame, IsNew

LEMMA NewEntry ==
  ASSUME NEW k \in Nat, NEW cells \in Seq(Cells)
  PROVE  IsNew(Entry(k, cells), "entry", None, k, [i \in DOMAIN cells |-> Local(cells[i])])
<1> DEFINE items == [i \in DOMAIN cells |-> Local(cells[i])]
<1>1. items \in Seq(Operand)
  BY LocalsTyped
<1> HIDE DEF items
<1>2. Entry(k, cells) = Frame("entry", None, k, items)
  BY DEF Entry, items
<1> QED BY <1>1, <1>2, NewFrame DEF items

LEMMA AtomsTyped ==
  ASSUME NEW args \in Seq(Atom)
  PROVE  args \in Seq(Operand)
<1>1. Atom \subseteq Operand
  BY DEF Operand
<1> QED BY <1>1

\* The last computer's file is entered as before when a cell of it changes state.
MemoState(r, x, c, phase, v) ==
  /\ r \in ComputerType /\ Way(r) = Way(x)
  /\ r.phase = [x.phase EXCEPT ![c] = phase] /\ r.cache = [x.cache EXCEPT ![c] = v]

LEMMA ReadUnvisitedShape ==
  ASSUME IInv, Typed, NEW c \in Cells, ReadUnvisited(c)
  PROVE  /\ Asking /\ Item = Local(c) /\ Comp.phase[c] = "unvisited"
         /\ UNCHANGED Aside
         /\ \E r : /\ MemoState(r, Comp, c, "visiting", Comp.cache[c])
                   /\ IsMemo(comps', comps, r)
         /\ \E f : /\ IsPushed(stack', stack, f)
                   /\ IsNew(f, "cell", c, Len(comps), disk[Comp.path][c].args)
<1> DEFINE r == [Comp EXCEPT !.phase[c] = "visiting"]
           f == Evaluation(c)
<1>1. Asking /\ Item = Local(c) /\ Comp.phase[c] = "unvisited" /\ UNCHANGED Aside
  BY DEF ReadUnvisited, Reading, Aside
<1>2. Len(stack) > 0 /\ Comp \in ComputerType /\ Comp = comps[Len(comps)] /\ Top.comp = Len(comps)
      /\ Len(comps) > 0 /\ comps \in Seq(ComputerType) /\ stack \in Seq(FrameType)
      /\ disk \in Disks /\ Comp.path \in Paths /\ Len(comps) \in Nat
  BY <1>1, AskTyped, TopTyped
<1>3. MemoState(r, Comp, c, "visiting", Comp.cache[c])
  <2>1. r.path = Comp.path /\ r.visiting = Comp.visiting /\ r.args = Comp.args
        /\ r.cache = Comp.cache /\ r.phase = [Comp.phase EXCEPT ![c] = "visiting"]
    BY <1>2 DEF ComputerType
  <2>2. r \in ComputerType
    BY <1>2 DEF ComputerType
  <2>3. Comp.cache = [Comp.cache EXCEPT ![c] = Comp.cache[c]]
    BY <1>2 DEF ComputerType
  <2> HIDE DEF r
  <2> QED BY <2>1, <2>2, <2>3 DEF MemoState, Way
<1>4. comps' = [comps EXCEPT ![Top.comp] = r]
  BY Zenon DEF ReadUnvisited, Comp
<1> HIDE DEF r
<1>5. IsMemo(comps', comps, r)
  BY <1>2, <1>3, <1>4, MemoTyped DEF MemoState
<1>6. IsNew(f, "cell", c, Len(comps), disk[Comp.path][c].args)
  <2>1. disk[Comp.path][c].args \in Seq(Operand)
    BY <1>2, DiskShape
  <2> QED BY <1>2, <2>1, NewFrame DEF Evaluation
<1> HIDE DEF f
<1>7. stack' = Append(stack, f)
  BY DEF ReadUnvisited, f
<1>8. IsPushed(stack', stack, f)
  BY <1>2, <1>6, <1>7, PushTyped DEF IsNew
<1> QED BY <1>1, <1>3, <1>5, <1>6, <1>8

LEMMA FinishCellShape ==
  ASSUME IInv, Typed, FinishCell
  PROVE  /\ Len(stack) > 1 /\ ~Asking /\ Top.role = "cell" /\ Top.of \in Cells
         /\ UNCHANGED Aside /\ Total(Top.got) \in Value
         /\ \E r : /\ MemoState(r, Comp, Top.of, "done", Total(Top.got))
                   /\ IsMemo(comps', comps, r)
         /\ IsBelow(Below, stack) /\ IsGiven(stack', Below, Total(Top.got))
         /\ SameFirst(stack', stack)
<1> DEFINE v == Total(Top.got)
           c == Top.of
           r == [Comp EXCEPT !.phase[c] = "done", !.cache[c] = v]
<1>1. Len(stack) > 0 /\ ~Asking /\ Top.role = "cell" /\ UNCHANGED Aside
  BY NotIdle DEF FinishCell, Aside
<1>2. Comp \in ComputerType /\ Comp = comps[Len(comps)] /\ Top.comp = Len(comps) /\ Top \in FrameType
      /\ Len(comps) > 0 /\ comps \in Seq(ComputerType) /\ stack \in Seq(FrameType)
      /\ Top = stack[Len(stack)] /\ Len(stack) \in Nat
  BY <1>1, TopTyped
<1>3. v \in Value /\ c \in Cells
  BY <1>1, <1>2, FrameTyped, TotalType
<1>4. Len(stack) > 1
  BY <1>1, <1>2 DEF IInv, Placed
<1>5. comps' = [comps EXCEPT ![Top.comp] = r] /\ stack' = Given(Below, v)
  BY Zenon DEF FinishCell, Comp
<1> HIDE DEF v, c
<1>6. MemoState(r, Comp, c, "done", v)
  <2>1. r.path = Comp.path /\ r.visiting = Comp.visiting /\ r.args = Comp.args
        /\ r.cache = [Comp.cache EXCEPT ![c] = v] /\ r.phase = [Comp.phase EXCEPT ![c] = "done"]
    BY <1>2 DEF ComputerType
  <2>2. r \in ComputerType
    BY <1>2, <1>3 DEF ComputerType
  <2> HIDE DEF r
  <2> QED BY <2>1, <2>2 DEF MemoState, Way
<1> HIDE DEF r
<1>7. IsMemo(comps', comps, r)
  BY <1>2, <1>5, <1>6, MemoTyped DEF MemoState
<1>8. IsBelow(Below, stack) /\ IsGiven(stack', Below, v) /\ SameFirst(stack', stack)
  BY <1>2, <1>3, <1>4, <1>5, PopTyped DEF Below
<1> QED BY <1>1, <1>3, <1>4, <1>6, <1>7, <1>8 DEF v, c

\* The children of the computer at hand.
IsChild(x, p, args) ==
  /\ x \in ComputerType /\ Way(x) = EnteredAs(p, Comp.visiting \cup {p}, args)
  /\ \A c \in Cells : x.phase[c] = "unvisited"

LEMMA ChildTyped ==
  ASSUME IInv, Typed, Len(stack) > 0, NEW p \in Paths, NEW args \in Seq(Value)
  PROVE  IsChild(Child(p, args), p, args)
<1> DEFINE visiting == Comp.visiting \cup {p}
<1>1. visiting \in SUBSET Paths /\ 0 \in 0..MaxTick
  BY TopTyped, TickAssumption
<1>2. Child(p, args) = Computer(p, visiting, args, 0)
  BY DEF Child, WithPath
<1> HIDE DEF visiting
<1>3. /\ Child(p, args) \in ComputerType
      /\ \A c \in Cells : Child(p, args).phase[c] = "unvisited"
  BY <1>1, <1>2, NewComputerTyped
<1>4. Way(Child(p, args)) = EnteredAs(p, visiting, args)
  BY <1>2 DEF Computer, Way, EnteredAs
<1> QED BY <1>3, <1>4 DEF IsChild, visiting

\* What an operand that is in another file, which may be entered, looks like.
LEMMA CanEnterShape ==
  ASSUME IInv, Typed, CanEnter
  PROVE  /\ Asking /\ Item \in Operand /\ Item = NextOf(Top) /\ Len(stack) > 0
         /\ Item.op \in {"foreign", "sheet"}
         /\ Loaded = Resolve[Comp.path][Item.file] /\ Loaded \in Paths \ Comp.visiting
BY AskTyped DEF CanEnter, Loading, Loaded

LEMMA OpenForeignShape ==
  ASSUME IInv, Typed, OpenForeign
  PROVE  /\ CanEnter /\ Item.op = "foreign" /\ Item.cells \in Seq(Cells) /\ UNCHANGED Aside
         /\ \E x : IsChild(x, Loaded, <<>>) /\ IsEntered(comps', comps, x)
         /\ \E f : /\ IsPushed(stack', stack, f)
                   /\ IsNew(f, "entry", None, Len(comps) + 1,
                            [i \in DOMAIN Item.cells |-> Local(Item.cells[i])])
<1> DEFINE x == ForeignChild(Loaded)
           cells == Item.cells
           f == Entry(Top.comp + 1, cells)
<1>1. CanEnter /\ Item.op = "foreign" /\ UNCHANGED Aside
  BY DEF OpenForeign, Aside
<1>2. Len(stack) > 0 /\ Item \in Operand /\ Loaded \in Paths
  BY <1>1, CanEnterShape
<1>3. Top.comp = Len(comps) /\ comps \in Seq(ComputerType) /\ stack \in Seq(FrameType) /\ Len(comps) \in Nat
  BY <1>2, TopTyped
<1>4. cells \in Seq(Cells)
  BY <1>1, <1>2, OperandShape
<1>5. IsChild(x, Loaded, <<>>)
  <2>1. <<>> \in Seq(Value)
    OBVIOUS
  <2> QED BY <1>2, <2>1, ChildTyped DEF ForeignChild
<1>6. comps' = Append(comps, x) /\ stack' = Append(stack, f)
  BY DEF OpenForeign
<1> HIDE DEF cells, x
<1>7. IsEntered(comps', comps, x)
  BY <1>3, <1>5, <1>6, EnterTyped DEF IsChild
<1>8. IsNew(f, "entry", None, Len(comps) + 1, [i \in DOMAIN cells |-> Local(cells[i])])
  BY <1>3, <1>4, NewEntry
<1> HIDE DEF f
<1>9. IsPushed(stack', stack, f)
  BY <1>3, <1>6, <1>8, PushTyped DEF IsNew
<1> QED BY <1>1, <1>4, <1>5, <1>7, <1>8, <1>9 DEF cells

LEMMA CallSheetShape ==
  ASSUME IInv, Typed, CallSheet
  PROVE  /\ CanEnter /\ Item.op = "sheet" /\ UNCHANGED Aside /\ comps' = comps
         /\ \E f : /\ IsPushed(stack', stack, f)
                   /\ IsNew(f, "call", Loaded, Len(comps), Item.args)
<1> DEFINE args == Item.args
           f == Call(Top.comp, Loaded, args)
<1>1. CanEnter /\ Item.op = "sheet" /\ UNCHANGED Aside /\ comps' = comps
  BY DEF CallSheet, Aside
<1>2. Len(stack) > 0 /\ Item \in Operand /\ Loaded \in Paths
  BY <1>1, CanEnterShape
<1>3. Top.comp = Len(comps) /\ stack \in Seq(FrameType) /\ Len(comps) \in Nat
  BY <1>2, TopTyped
<1>4. args \in Seq(Operand)
  BY <1>1, <1>2, OperandShape, AtomsTyped
<1>5. stack' = Append(stack, f)
  BY DEF CallSheet
<1> HIDE DEF args
<1>6. IsNew(f, "call", Loaded, Len(comps), args)
  BY <1>2, <1>3, <1>4, NewFrame DEF Call
<1> HIDE DEF f
<1>7. IsPushed(stack', stack, f)
  BY <1>3, <1>5, <1>6, PushTyped DEF IsNew
<1> QED BY <1>1, <1>6, <1>7 DEF args

\* A call whose arguments are all evaluated.
LEMMA CalledTyped ==
  ASSUME IInv, Typed, Called
  PROVE  /\ Len(stack) > 0 /\ Top.role = "call" /\ Top.of \in Paths \ Comp.visiting
         /\ Top.got \in Seq(Value) /\ ~Asking
<1>1. Len(stack) > 0 /\ Top.role = "call" /\ Top.of \in Paths \ Comp.visiting
  BY CalledShape
<1>2. Top.got \in Seq(Value)
  BY <1>1, TopTyped, FrameTyped
<1> QED BY <1>1, <1>2 DEF Called

LEMMA OutputIsOnly ==
  ASSUME NEW p, HasOutput(p), IsFiniteSet(Cells)
  PROVE  OutputCell(p) \in Cells /\ OutputCells(p) = {OutputCell(p)}
<1> DEFINE S == OutputCells(p)
           T == {i \in DOMAIN Order : Order[i] \in S}
           i == CHOOSE i \in DOMAIN Order : Order[i] \in S /\ \A j \in DOMAIN Order : Order[j] \in S => i <= j
<1>1. S \subseteq Cells
  BY DEF OutputCells
<1>2. IsFiniteSet(S) /\ Cardinality(S) = 1
  BY <1>1, FS_Subset DEF HasOutput
<1>3. PICK c : S = {c}
  BY <1>2, FS_Singleton
<1>4. c \in Cells
  BY <1>1, <1>3
<1>5. T \in SUBSET Nat /\ T # {}
  BY <1>3, <1>4, OrderAssumption DEF Cells
<1> HIDE DEF S
<1>6. \E k \in T : \A j \in T : k <= j
  <2> HIDE DEF T
  <2> QED BY <1>5, LeastOf
<1>7. i \in DOMAIN Order /\ Order[i] \in S
  BY <1>6
<1>8. OutputCell(p) = Order[i]
  BY DEF OutputCell, S
<1> HIDE DEF i
<1> QED BY <1>3, <1>4, <1>7, <1>8 DEF S

LEMMA CellsFinite == IsFiniteSet(Cells)
<1>1. DOMAIN Order = 1..Len(Order) /\ Len(Order) \in Nat
  BY OrderAssumption
<1>2. IsFiniteSet(1..Len(Order))
  BY <1>1, FS_Interval
<1>3. Cells = {Order[i] : i \in 1..Len(Order)}
  BY <1>1 DEF Cells
<1>4. Order \in Surjection(1..Len(Order), Cells)
  BY <1>1, <1>3, OrderAssumption DEF Surjection
<1> QED BY <1>2, <1>4, FS_Surjection

LEMMA EnterSheetShape ==
  ASSUME IInv, Typed, EnterSheet
  PROVE  /\ Called /\ Len(stack) > 1 /\ UNCHANGED Aside
         /\ OutputCell(Top.of) \in Cells /\ OutputCells(Top.of) = {OutputCell(Top.of)}
         /\ \E x : IsChild(x, Top.of, Top.got) /\ IsEntered(comps', comps, x)
         /\ IsBelow(Below, stack) /\ SameFirst(stack', stack)
         /\ \E f : /\ IsPushed(stack', Below, f)
                   /\ IsNew(f, "entry", None, Len(comps) + 1, <<Local(OutputCell(Top.of))>>)
<1> DEFINE x == Child(Top.of, Top.got)
           c == OutputCell(Top.of)
           f == Entry(Top.comp + 1, <<c>>)
<1>1. Called /\ Len(stack) > 1 /\ UNCHANGED Aside /\ HasOutput(Top.of)
  BY DEF EnterSheet, Aside
<1>2. c \in Cells /\ OutputCells(Top.of) = {c}
  BY <1>1, OutputIsOnly, CellsFinite
<1>3. Len(stack) > 0 /\ Top.of \in Paths /\ Top.got \in Seq(Value)
  BY <1>1, CalledTyped
<1>4. Top.comp = Len(comps) /\ comps \in Seq(ComputerType) /\ stack \in Seq(FrameType) /\ Len(comps) \in Nat
  BY <1>3, TopTyped
<1>5. IsChild(x, Top.of, Top.got)
  BY <1>3, ChildTyped
<1>6. comps' = Append(comps, x) /\ stack' = Append(Below, f)
  BY DEF EnterSheet
<1> HIDE DEF c, x
<1>7. IsEntered(comps', comps, x)
  BY <1>4, <1>5, <1>6, EnterTyped DEF IsChild
<1>8. IsNew(f, "entry", None, Len(comps) + 1, <<Local(c)>>)
  <2>1. <<c>> \in Seq(Cells)
    BY <1>2
  <2>2. [i \in DOMAIN <<c>> |-> Local(<<c>>[i])] = <<Local(c)>>
    OBVIOUS
  <2> DEFINE cells == <<c>>
  <2>3. f = Entry(Len(comps) + 1, cells) /\ Len(comps) + 1 \in Nat
    BY <1>4
  <2>4. cells \in Seq(Cells) /\ [i \in DOMAIN cells |-> Local(cells[i])] = <<Local(c)>>
    BY <2>1, <2>2
  <2> HIDE DEF cells, f
  <2> QED BY <2>3, <2>4, NewEntry
<1> HIDE DEF f
<1>9. IsBelow(Below, stack)
  BY <1>3, <1>4, BelowTyped DEF Below
<1>10. IsPushed(stack', Below, f) /\ Len(Below) > 0
  BY <1>1, <1>4, <1>6, <1>8, <1>9, PushTyped, BelowFirst DEF IsNew, IsBelow, SameFirst
<1>11. SameFirst(stack', stack)
  BY <1>1, <1>4, <1>9, <1>10, BelowFirst, PushFirst, FirstTwice DEF IsBelow
<1> QED BY <1>1, <1>2, <1>5, <1>7, <1>8, <1>9, <1>10, <1>11 DEF c

LEMMA NoOutputShape ==
  ASSUME IInv, Typed, NoOutput
  PROVE  /\ Called /\ Len(stack) > 1 /\ UNCHANGED Aside /\ comps' = comps
         /\ ~\E c \in Cells : OutputCells(Top.of) = {c}
         /\ IsBelow(Below, stack) /\ IsGiven(stack', Below, Error("#REF!"))
         /\ SameFirst(stack', stack)
<1>1. /\ Called /\ Len(stack) > 1 /\ UNCHANGED Aside /\ comps' = comps /\ ~HasOutput(Top.of)
      /\ stack' = Given(Below, Error("#REF!"))
  BY DEF NoOutput, Aside
<1>2. ASSUME NEW c \in Cells, OutputCells(Top.of) = {c} PROVE FALSE
  <2>1. Cardinality(OutputCells(Top.of)) = 1
    BY <1>2, FS_Singleton
  <2> QED BY <1>1, <2>1 DEF HasOutput
<1>3. Len(stack) > 0
  BY <1>1, CalledTyped
<1>4. stack \in Seq(FrameType)
  BY <1>3, TopTyped
<1>5. IsBelow(Below, stack) /\ IsGiven(stack', Below, Error("#REF!")) /\ SameFirst(stack', stack)
  BY <1>1, <1>4, ErrorValues, PopTyped DEF Below
<1> QED BY <1>1, <1>2, <1>5

LEMMA LeaveShape ==
  ASSUME IInv, Typed, Leave
  PROVE  /\ Read /\ Len(stack) > 1 /\ UNCHANGED Aside /\ Total(Top.got) \in Value
         /\ IsLeft(comps', comps) /\ stack[Len(stack) - 1].comp = Len(comps) - 1
         /\ IsBelow(Below, stack) /\ IsGiven(stack', Below, Total(Top.got))
         /\ SameFirst(stack', stack) /\ stack[1].comp \in 1..(Len(comps) - 1)
<1>1. Read /\ Len(stack) > 1 /\ UNCHANGED Aside
      /\ comps' = SubSeq(comps, 1, Len(comps) - 1) /\ stack' = Given(Below, Total(Top.got))
  BY DEF Leave, Aside
<1>2. Len(stack) > 0 /\ Top.role = "entry"
  BY <1>1, NotIdle DEF Read
<1>3. Comp \in ComputerType /\ Top.comp = Len(comps) /\ Top \in FrameType
      /\ Len(comps) > 0 /\ comps \in Seq(ComputerType) /\ stack \in Seq(FrameType)
      /\ Top = stack[Len(stack)] /\ Len(stack) \in Nat /\ Len(comps) \in Nat
  BY <1>2, TopTyped
<1>4. Total(Top.got) \in Value
  BY <1>3, FrameTyped, TotalType
<1>5. IsLeft(comps', comps)
  BY <1>1, <1>3, LeaveTyped
<1>6. IsBelow(Below, stack) /\ IsGiven(stack', Below, Total(Top.got)) /\ SameFirst(stack', stack)
  BY <1>1, <1>3, <1>4, PopTyped DEF Below
<1>7. stack[Len(stack) - 1].comp = Len(comps) - 1 /\ stack[1].comp \in 1..(Len(comps) - 1)
  <2>1. Len(stack) \in 2..Len(stack) /\ Len(stack) - 1 \in 1..Len(stack) /\ 1 \in 1..Len(stack)
        /\ 1 <= Len(stack) - 1
    BY <1>1, <1>3
  <2>2. stack[Len(stack)].comp = stack[Len(stack) - 1].comp + 1
    BY <1>2, <1>3, <2>1 DEF IInv, Placed
  <2>3. stack[Len(stack) - 1].comp \in 1..Len(comps) /\ stack[1].comp \in 1..Len(comps)
    BY <1>2, <2>1, TopTyped
  <2>4. stack[1].comp <= stack[Len(stack) - 1].comp
    BY <2>1 DEF IInv, Placed
  <2> QED BY <1>3, <2>2, <2>3, <2>4
<1> QED BY <1>1, <1>4, <1>5, <1>6, <1>7

LEMMA SingleTyped ==
  ASSUME NEW f \in FrameType
  PROVE  /\ <<f>> \in Seq(FrameType) /\ Len(<<f>>) = 1 /\ <<f>>[1] = f
OBVIOUS

LEMMA EnterGridShape ==
  ASSUME IInv, Typed, EnterGrid
  PROVE  /\ Called /\ Len(stack) = 1 /\ Len(comps) = 1 /\ UNCHANGED Aside
         /\ request.name = "nested" /\ Top.of = Target(disk, request.cell)
         /\ Shows(disk, request.cell) /\ Top.items = SheetOf(disk, request.cell).args
         /\ Way(Comp) = RootWay /\ Comp = comps[1] /\ Top = stack[1]
         /\ \E x : IsChild(x, Top.of, Top.got) /\ IsEntered(comps', comps, x)
         /\ \E f : /\ stack' = <<f>>
                   /\ IsNew(f, "entry", None, 2, WholeFile)
<1> DEFINE x == Child(Top.of, Top.got)
           f == Entry(Top.comp + 1, Order)
<1>1. Called /\ Len(stack) = 1 /\ UNCHANGED Aside /\ comps' = Append(comps, x) /\ stack' = <<f>>
  BY DEF EnterGrid, Aside
<1>2. Len(stack) > 0 /\ Top.role = "call" /\ Top.of \in Paths /\ Top.got \in Seq(Value)
  BY <1>1, CalledTyped
<1>3. Top.comp = Len(comps) /\ comps \in Seq(ComputerType) /\ Top = stack[1] /\ Comp = comps[Len(comps)]
  BY <1>1, <1>2, TopTyped
<1>4. request.name \in {"compute", "nested"}
  BY DEF Typed, TypeOK
<1>5. /\ request.name = "nested" /\ Top.of = Target(disk, request.cell) /\ Top.comp = 1
      /\ Shows(disk, request.cell) /\ Top.items = SheetOf(disk, request.cell).args
      /\ Way(comps[1]) = RootWay
  BY <1>2, <1>3, <1>4 DEF Typed, Serving
<1>6. IsChild(x, Top.of, Top.got)
  BY <1>2, ChildTyped
<1> HIDE DEF x
<1>7. IsEntered(comps', comps, x)
  BY <1>1, <1>3, <1>6, EnterTyped DEF IsChild
<1>8. IsNew(f, "entry", None, 2, WholeFile)
  <2>1. Top.comp + 1 = 2 /\ 2 \in Nat /\ Order \in Seq(Cells)
    BY <1>5, OrderAssumption
  <2>2. f = Entry(2, Order)
    BY <2>1
  <2> HIDE DEF f
  <2> QED BY <2>1, <2>2, NewEntry DEF WholeFile
<1> HIDE DEF f
<1> QED BY <1>1, <1>3, <1>5, <1>6, <1>7, <1>8

LEMMA EnterGridTyped ==
  ASSUME IInv, Typed, EnterGrid
  PROVE  Typed'
<1>1. PICK x : IsChild(x, Top.of, Top.got) /\ IsEntered(comps', comps, x)
  BY EnterGridShape
<1>2. PICK f : stack' = <<f>> /\ IsNew(f, "entry", None, 2, WholeFile)
  BY EnterGridShape
<1>3. f \in FrameType /\ f.role = "entry" /\ f.comp = 2 /\ f.items = WholeFile
  BY <1>2 DEF IsNew
<1>4. stack' \in Seq(FrameType) /\ stack'[1] = f
  BY <1>2, <1>3, SingleTyped
<1>5. /\ Len(comps) = 1 /\ UNCHANGED Aside /\ request.name = "nested" /\ Top.of = Target(disk, request.cell)
      /\ Shows(disk, request.cell) /\ Way(comps[1]) = RootWay /\ Comp = comps[1]
  BY EnterGridShape
<1>6. comps' \in Seq(ComputerType) /\ comps'[2] = x /\ comps'[1] = comps[1]
  BY <1>1, <1>5 DEF IsEntered
<1>7. x.path = Top.of /\ x.visiting = {Root} \cup {Top.of}
  <2>1. Comp.visiting = {Root}
    BY <1>5 DEF Way, RootWay, EnteredAs
  <2> QED BY <1>1, <2>1 DEF IsChild, Way, EnteredAs
<1>8. Serving(disk, request, comps', stack')
  BY <1>3, <1>4, <1>5, <1>6, <1>7 DEF Serving
<1>9. disk' = disk /\ tick' = tick /\ request' = request /\ grid' = grid /\ nested' = nested
  BY <1>5 DEF Aside
<1> QED BY <1>4, <1>6, <1>8, <1>9 DEF Typed, TypeOK

\* What is answered when the first frame has read its file.
LEMMA ReturnShape ==
  ASSUME IInv, Typed, Return
  PROVE  /\ Len(stack) = 1 /\ Top = stack[1] /\ Top.role = "entry" /\ Top.items = WholeFile /\ ~Asking
         /\ \A c \in Cells : Pos(c) \in 1..Len(Top.got) /\ Top.got[Pos(c)] \in Value
         /\ UNCHANGED <<disk, tick, request>> /\ comps' = <<>> /\ stack' = <<>>
         /\ \/ /\ request.name = "compute" /\ UNCHANGED nested /\ Top.comp = 1 /\ Way(Comp) = RootWay
               /\ grid' = [c \in Cells |-> Top.got[Pos(c)]]
            \/ /\ request.name = "nested" /\ UNCHANGED grid /\ Shows(disk, request.cell)
               /\ Top.comp = 2 /\ Comp.path = Target(disk, request.cell)
               /\ Comp.visiting = {Root} \cup {Target(disk, request.cell)}
               /\ nested' = [cell |-> request.cell, path |-> Comp.path,
                             grid |-> [c \in Cells |-> Top.got[Pos(c)]]]
<1> DEFINE values == [c \in Cells |-> Top.got[Pos(c)]]
<1>1. /\ Len(stack) = 1 /\ stack # <<>> /\ ~Asking /\ Top.role = "entry"
      /\ UNCHANGED <<disk, tick, request>> /\ comps' = <<>> /\ stack' = <<>>
      /\ IF request.name = "compute" THEN grid' = values /\ UNCHANGED nested
         ELSE nested' = [cell |-> request.cell, path |-> Comp.path, grid |-> values] /\ UNCHANGED grid
  BY DEF Return, Read, Pos
<1>2. Len(stack) > 0
  BY <1>1
<1>3. Top.comp = Len(comps) /\ Top = stack[1] /\ Comp = comps[Len(comps)] /\ Top \in FrameType
  BY <1>1, <1>2, TopTyped
<1>4. request.name \in {"compute", "nested"}
  BY DEF Typed, TypeOK
<1>5. Top.items = WholeFile /\ Way(comps[1]) = RootWay
  BY <1>1, <1>2, <1>3 DEF Typed, Serving
<1>6. \A c \in Cells : Pos(c) \in 1..Len(Top.got) /\ Top.got[Pos(c)] \in Value
  <2>1. Top.got \in Seq(Value) /\ Len(Top.got) >= Len(Order)
    <3>1. Len(WholeFile) = Len(Order)
      BY OrderAssumption DEF WholeFile
    <3>2. Top.got \in Seq(Value) /\ Len(Top.got) \in Nat /\ Len(Order) \in Nat
      BY <1>3, FrameTyped, OrderAssumption
    <3> QED BY <1>1, <1>5, <3>1, <3>2 DEF Asking
  <2>2. \A c \in Cells : Pos(c) \in 1..Len(Order) /\ Len(Order) \in Nat
    BY PosOf
  <2>3. Len(Top.got) \in Nat /\ \A i \in 1..Len(Top.got) : Top.got[i] \in Value
    BY <2>1
  <2> HIDE DEF values
  <2> QED BY <2>1, <2>2, <2>3
<1> HIDE DEF values
<1>7. CASE request.name = "compute"
  <2>1. Top.comp = 1 /\ Way(Comp) = RootWay
    BY <1>1, <1>2, <1>3, <1>5, <1>7 DEF Typed, Serving
  <2> QED BY <1>1, <1>3, <1>5, <1>6, <1>7, <2>1 DEF values
<1>8. CASE request.name = "nested"
  <2>1. /\ Top.comp = 2 /\ Comp.path = Target(disk, request.cell) /\ Shows(disk, request.cell)
        /\ Comp.visiting = {Root} \cup {Target(disk, request.cell)}
    BY <1>1, <1>2, <1>3, <1>8 DEF Typed, Serving
  <2> QED BY <1>1, <1>3, <1>5, <1>6, <1>8, <2>1 DEF values
<1> QED BY <1>4, <1>7, <1>8

LEMMA ReturnTyped ==
  ASSUME IInv, Typed, Return
  PROVE  Typed'
<1> DEFINE values == [c \in Cells |-> Top.got[Pos(c)]]
<1>1. values \in [Cells -> Value]
  BY ReturnShape
<1>2. comps' = <<>> /\ stack' = <<>> /\ disk' = disk /\ tick' = tick /\ request' = request
  BY ReturnShape
<1>3. comps' \in Seq(ComputerType) /\ stack' \in Seq(FrameType) /\ Len(stack') = 0
  BY <1>2
<1>4. Serving(disk', request', comps', stack')
  BY <1>3 DEF Serving
<1>5. \/ nested' = nested /\ grid' = values
      \/ /\ grid' = grid /\ Shows(disk, request.cell) /\ Comp.path = Target(disk, request.cell)
         /\ nested' = [cell |-> request.cell, path |-> Comp.path, grid |-> values]
  BY ReturnShape
<1> HIDE DEF values
<1>6. CASE nested' = nested /\ grid' = values
  BY <1>1, <1>2, <1>3, <1>4, <1>6 DEF Typed, TypeOK
<1>7. CASE /\ grid' = grid /\ Shows(disk, request.cell) /\ Comp.path = Target(disk, request.cell)
           /\ nested' = [cell |-> request.cell, path |-> Comp.path, grid |-> values]
  <2>1. nested' \in [cell : Cells, path : Paths, grid : [Cells -> Value]]
    <3>1. request.cell \in Cells /\ Comp.path \in Paths
      BY <1>7 DEF Shows
    <3> QED BY <1>1, <1>7, <3>1
  <2> QED BY <1>2, <1>3, <1>4, <1>7, <2>1 DEF Typed, TypeOK
<1> QED BY <1>5, <1>6, <1>7

LEMMA RootTyped ==
  ASSUME NEW t \in 0..MaxTick
  PROVE  /\ RootComputer(t) \in ComputerType /\ Way(RootComputer(t)) = RootWay
         /\ \A c \in Cells : RootComputer(t).phase[c] = "unvisited"
<1>1. Root \in Paths /\ {Root} \in SUBSET Paths /\ <<>> \in Seq(Value)
  BY PathsAssumption
<1> DEFINE way == {Root}
           args == <<>>
<1>2. /\ RootComputer(t) \in ComputerType
      /\ \A c \in Cells : RootComputer(t).phase[c] = "unvisited"
  <2>1. RootComputer(t) = Computer(Root, way, args, t)
    BY DEF RootComputer
  <2> HIDE DEF way, args
  <2>2. Root \in Paths /\ way \in SUBSET Paths /\ args \in Seq(Value)
    BY <1>1 DEF way, args
  <2>3. /\ Computer(Root, way, args, t) \in ComputerType
        /\ \A c \in Cells : Computer(Root, way, args, t).phase[c] = "unvisited"
    BY <2>2, NewComputerTyped
  <2> QED BY <2>1, <2>3
<1>3. Way(RootComputer(t)) = RootWay
  BY DEF RootComputer, Computer, Way, RootWay, EnteredAs
<1> QED BY <1>2, <1>3

\* The pass's own computer and the frame it begins with.
IsStart(t, f) == /\ comps' = <<RootComputer(t)>> /\ stack' = <<f>> /\ t \in 0..MaxTick

LEMMA StartShape ==
  ASSUME NEW t, NEW f, IsStart(t, f), f \in FrameType
  PROVE  /\ comps' \in Seq(ComputerType) /\ Len(comps') = 1 /\ Way(comps'[1]) = RootWay
         /\ comps'[1].phase = [c \in Cells |-> "unvisited"]
         /\ stack' \in Seq(FrameType) /\ Len(stack') = 1 /\ stack'[1] = f
<1> DEFINE x == RootComputer(t)
<1>1. x \in ComputerType /\ Way(x) = RootWay
  BY RootTyped DEF IsStart
<1>2. x.phase = [c \in Cells |-> "unvisited"]
  BY DEF RootComputer, Computer
<1>3. comps' = <<x>> /\ stack' = <<f>>
  BY DEF IsStart
<1> HIDE DEF x
<1> QED BY <1>1, <1>2, <1>3

LEMMA ComputeShape ==
  ASSUME Typed, Compute
  PROVE  \E f : /\ IsStart(tick + 1, f) /\ IsNew(f, "entry", None, 1, WholeFile)
                /\ disk' = disk /\ tick' = tick + 1 /\ request'.name = "compute"
                /\ request' = [name |-> "compute", cell |-> None]
                /\ grid' = None /\ nested' = nested
<1> DEFINE f == Entry(1, Order)
<1>1. /\ comps' = <<RootComputer(tick + 1)>> /\ stack' = <<f>> /\ tick < MaxTick
      /\ disk' = disk /\ tick' = tick + 1 /\ request' = [name |-> "compute", cell |-> None]
      /\ grid' = None /\ nested' = nested
  BY DEF Compute
<1>2. tick + 1 \in 0..MaxTick
  BY <1>1, TickAssumption DEF Typed, TypeOK
<1>3. IsNew(f, "entry", None, 1, WholeFile)
  <2>1. Order \in Seq(Cells) /\ 1 \in Nat
    BY OrderAssumption
  <2> HIDE DEF f
  <2> QED BY <2>1, NewEntry DEF WholeFile, f
<1> HIDE DEF f
<1> QED BY <1>1, <1>2, <1>3 DEF IsStart

LEMMA ComputeTyped ==
  ASSUME Typed, Compute
  PROVE  Typed'
<1>1. PICK f : /\ IsStart(tick + 1, f) /\ IsNew(f, "entry", None, 1, WholeFile)
               /\ disk' = disk /\ tick' = tick + 1 /\ request'.name = "compute"
               /\ request' = [name |-> "compute", cell |-> None]
               /\ grid' = None /\ nested' = nested
  BY ComputeShape
<1>2. f \in FrameType /\ f.role = "entry" /\ f.comp = 1 /\ f.items = WholeFile
  BY <1>1 DEF IsNew
<1>3. /\ comps' \in Seq(ComputerType) /\ Way(comps'[1]) = RootWay
      /\ stack' \in Seq(FrameType) /\ stack'[1] = f
  BY <1>1, <1>2, StartShape
<1>4. Serving(disk', request', comps', stack')
  BY <1>1, <1>2, <1>3 DEF Serving
<1>5. tick' \in 0..MaxTick
  BY <1>1 DEF IsStart
<1>6. request' \in [name : {"compute", "nested"}, cell : Cells \cup {None}]
  BY <1>1
<1> QED BY <1>1, <1>3, <1>4, <1>5, <1>6 DEF Typed, TypeOK

LEMMA SheetShape ==
  ASSUME NEW d \in Disks, NEW c \in Cells, IsSheetCall(d[Root][c])
  PROVE  /\ SheetOf(d, c) \in Operand /\ SheetOf(d, c).op = "sheet"
         /\ SheetOf(d, c).args \in Seq(Atom) /\ SheetOf(d, c).args \in Seq(Operand)
         /\ SheetOf(d, c).file \in Names
         /\ d[Root][c].args \in Seq(Operand) /\ Len(d[Root][c].args) = 1
         /\ d[Root][c].call = "value"
<1>1. d[Root][c] \in Formula /\ d[Root][c].args \in Seq(Operand)
  BY PathsAssumption, DiskShape
<1>2. Len(d[Root][c].args) = 1 /\ d[Root][c].call = "value" /\ SheetOf(d, c).op = "sheet"
  BY <1>1 DEF Formula, IsSheetCall, SheetOf
<1>3. SheetOf(d, c) \in Operand
  BY <1>1, <1>2 DEF SheetOf
<1>4. SheetOf(d, c).args \in Seq(Atom) /\ SheetOf(d, c).file \in Names
  BY <1>2, <1>3, OperandShape
<1> QED BY <1>1, <1>2, <1>3, <1>4, AtomsTyped

LEMMA EmbeddedGridShape ==
  ASSUME Typed, NEW c \in Cells, EmbeddedGrid(c)
  PROVE  \E f : /\ IsStart(0, f) /\ IsNew(f, "call", Target(disk, c), 1, SheetOf(disk, c).args)
                /\ Shows(disk, c)
                /\ disk' = disk /\ tick' = tick /\ request'.name = "nested" /\ request'.cell = c
                /\ request' = [name |-> "nested", cell |-> c]
                /\ grid' = grid /\ nested' = None
<1> DEFINE args == SheetOf(disk, c).args
           target == Target(disk, c)
           f == Call(1, target, args)
<1>1. /\ comps' = <<RootComputer(0)>> /\ stack' = <<f>> /\ target \in Paths \ {Root}
      /\ disk' = disk /\ tick' = tick /\ request' = [name |-> "nested", cell |-> c]
      /\ grid' = grid /\ nested' = None /\ IsSheetCall(disk[Root][c])
  BY DEF EmbeddedGrid, Target, SheetOf
<1>2. disk \in Disks
  BY DEF Typed, TypeOK
<1>3. args \in Seq(Operand)
  BY <1>1, <1>2, SheetShape
<1>4. Shows(disk, c) /\ 0 \in 0..MaxTick
  BY <1>1, TickAssumption DEF Shows
<1> HIDE DEF args, target
<1>5. IsNew(f, "call", target, 1, args)
  BY <1>1, <1>3, NewFrame DEF Call
<1> HIDE DEF f
<1> QED BY <1>1, <1>4, <1>5 DEF IsStart, args, target

LEMMA EmbeddedGridTyped ==
  ASSUME Typed, NEW c \in Cells, EmbeddedGrid(c)
  PROVE  Typed'
<1>1. PICK f : /\ IsStart(0, f) /\ IsNew(f, "call", Target(disk, c), 1, SheetOf(disk, c).args)
               /\ Shows(disk, c)
               /\ disk' = disk /\ tick' = tick /\ request'.name = "nested" /\ request'.cell = c
               /\ request' = [name |-> "nested", cell |-> c]
               /\ grid' = grid /\ nested' = None
  BY EmbeddedGridShape
<1>2. f \in FrameType /\ f.role = "call" /\ f.comp = 1 /\ f.items = SheetOf(disk, c).args
      /\ f.of = Target(disk, c)
  BY <1>1 DEF IsNew
<1>3. /\ comps' \in Seq(ComputerType) /\ Way(comps'[1]) = RootWay
      /\ stack' \in Seq(FrameType) /\ stack'[1] = f
  BY <1>1, <1>2, StartShape
<1>4. Serving(disk', request', comps', stack')
  BY <1>1, <1>2, <1>3 DEF Serving
<1>5. request' \in [name : {"compute", "nested"}, cell : Cells \cup {None}]
  BY <1>1
<1> QED BY <1>1, <1>3, <1>4, <1>5 DEF Typed, TypeOK

-----------------------------------------------------------------------------

LEMMA PushKeeps ==
  ASSUME IInv, Typed, Len(stack) > 0, comps' \in Seq(ComputerType),
         SameWays(comps', comps, Len(comps)), UNCHANGED Aside,
         NEW f, IsPushed(stack', stack, f)
  PROVE  Typed'
<1>1. SameWays(comps', comps, stack[1].comp)
  <2>1. stack[1].comp \in 1..Len(comps) /\ Len(comps) \in Nat
    BY TopTyped
  <2>2. \A k \in 1..stack[1].comp : k \in 1..Len(comps)
    BY <2>1
  <2> QED BY <2>2 DEF SameWays
<1>2. SameFirst(stack', stack)
  BY TopTyped, PushFirst
<1> QED BY <1>1, <1>2, StepTyped DEF Aside

LEMMA ReadUnvisitedTyped ==
  ASSUME IInv, Typed, NEW c \in Cells, ReadUnvisited(c)
  PROVE  Typed'
<1>1. Asking /\ UNCHANGED Aside
  BY ReadUnvisitedShape
<1>2. PICK r : MemoState(r, Comp, c, "visiting", Comp.cache[c]) /\ IsMemo(comps', comps, r)
  BY ReadUnvisitedShape
<1>3. PICK f : /\ IsPushed(stack', stack, f)
               /\ IsNew(f, "cell", c, Len(comps), disk[Comp.path][c].args)
  BY ReadUnvisitedShape
<1>4. Len(stack) > 0
  BY <1>1, AskTyped
<1>5. comps' \in Seq(ComputerType) /\ SameWays(comps', comps, Len(comps))
  BY <1>2, <1>4, TopTyped, MemoWays DEF MemoState, IsMemo
<1> QED BY <1>1, <1>3, <1>4, <1>5, PushKeeps

LEMMA FinishCellTyped ==
  ASSUME IInv, Typed, FinishCell
  PROVE  Typed'
<1>1. Len(stack) > 1 /\ UNCHANGED Aside /\ SameFirst(stack', stack)
  BY FinishCellShape
<1>2. PICK r : MemoState(r, Comp, Top.of, "done", Total(Top.got)) /\ IsMemo(comps', comps, r)
  BY FinishCellShape
<1>3. Len(stack) > 0
  BY <1>1, NotIdle DEF FinishCell
<1>4. comps' \in Seq(ComputerType) /\ SameWays(comps', comps, Len(comps))
  BY <1>2, <1>3, TopTyped, MemoWays DEF MemoState, IsMemo
<1>5. SameWays(comps', comps, stack[1].comp)
  <2>1. stack[1].comp \in 1..Len(comps) /\ Len(comps) \in Nat
    BY <1>3, TopTyped
  <2>2. \A k \in 1..stack[1].comp : k \in 1..Len(comps)
    BY <2>1
  <2> QED BY <1>4, <2>2 DEF SameWays
<1> QED BY <1>1, <1>3, <1>4, <1>5, StepTyped DEF Aside

LEMMA EnteredWays ==
  ASSUME NEW cs, NEW ds, NEW x, IsEntered(ds, cs, x)
  PROVE  SameWays(ds, cs, Len(cs))
BY DEF IsEntered, SameWays

LEMMA OpenForeignTyped ==
  ASSUME IInv, Typed, OpenForeign
  PROVE  Typed'
<1>1. PICK x : IsChild(x, Loaded, <<>>) /\ IsEntered(comps', comps, x)
  BY OpenForeignShape
<1>2. PICK f : /\ IsPushed(stack', stack, f)
               /\ IsNew(f, "entry", None, Len(comps) + 1,
                        [i \in DOMAIN Item.cells |-> Local(Item.cells[i])])
  BY OpenForeignShape
<1>3. UNCHANGED Aside /\ Len(stack) > 0
  BY OpenForeignShape, CanEnterShape
<1>4. comps' \in Seq(ComputerType) /\ SameWays(comps', comps, Len(comps))
  BY <1>1, EnteredWays DEF IsEntered
<1> QED BY <1>2, <1>3, <1>4, PushKeeps

LEMMA CallSheetTyped ==
  ASSUME IInv, Typed, CallSheet
  PROVE  Typed'
<1>1. PICK f : IsPushed(stack', stack, f) /\ IsNew(f, "call", Loaded, Len(comps), Item.args)
  BY CallSheetShape
<1>2. UNCHANGED Aside /\ comps' = comps /\ Len(stack) > 0
  BY CallSheetShape, CanEnterShape
<1>3. comps' \in Seq(ComputerType) /\ SameWays(comps', comps, Len(comps))
  BY <1>2, TopTyped DEF SameWays
<1> QED BY <1>1, <1>2, <1>3, PushKeeps

LEMMA EnterSheetTyped ==
  ASSUME IInv, Typed, EnterSheet
  PROVE  Typed'
<1>1. Called /\ UNCHANGED Aside /\ SameFirst(stack', stack)
  BY EnterSheetShape
<1>2. PICK x : IsChild(x, Top.of, Top.got) /\ IsEntered(comps', comps, x)
  BY EnterSheetShape
<1>3. Len(stack) > 0
  BY <1>1, CalledTyped
<1>4. comps' \in Seq(ComputerType) /\ SameWays(comps', comps, Len(comps))
  BY <1>2, EnteredWays DEF IsEntered
<1>5. SameWays(comps', comps, stack[1].comp)
  <2>1. stack[1].comp \in 1..Len(comps) /\ Len(comps) \in Nat
    BY <1>3, TopTyped
  <2>2. \A k \in 1..stack[1].comp : k \in 1..Len(comps)
    BY <2>1
  <2> QED BY <1>4, <2>2 DEF SameWays
<1> QED BY <1>1, <1>3, <1>4, <1>5, StepTyped DEF Aside

LEMMA NoOutputTyped ==
  ASSUME IInv, Typed, NoOutput
  PROVE  Typed'
<1>1. Called /\ UNCHANGED Aside /\ comps' = comps /\ SameFirst(stack', stack)
  BY NoOutputShape
<1>2. Len(stack) > 0
  BY <1>1, CalledTyped
<1>3. comps' \in Seq(ComputerType) /\ SameWays(comps', comps, stack[1].comp)
  BY <1>1, <1>2, TopTyped DEF SameWays
<1> QED BY <1>1, <1>2, <1>3, StepTyped DEF Aside

LEMMA LeaveKeepsTyped ==
  ASSUME IInv, Typed, Leave
  PROVE  Typed'
<1>1. /\ Len(stack) > 1 /\ UNCHANGED Aside /\ IsLeft(comps', comps) /\ SameFirst(stack', stack)
      /\ stack[1].comp \in 1..(Len(comps) - 1)
  BY LeaveShape
<1>2. Len(stack) > 0
  BY <1>1, NotIdle DEF Leave, Read
<1>3. comps' \in Seq(ComputerType) /\ SameWays(comps', comps, stack[1].comp)
  <2>1. Len(comps) \in Nat
    BY <1>2, TopTyped
  <2>2. \A k \in 1..stack[1].comp : k \in 1..(Len(comps) - 1)
    BY <1>1, <2>1
  <2> QED BY <1>1, <2>2 DEF IsLeft, SameWays
<1> QED BY <1>1, <1>2, <1>3, StepTyped DEF Aside

LEMMA InitTyped == Init => Typed
<1> SUFFICES ASSUME Init PROVE Typed
  OBVIOUS
<1>1. comps \in Seq(ComputerType) /\ stack \in Seq(FrameType) /\ Len(stack) = 0
  BY DEF Init
<1>2. tick \in 0..MaxTick /\ request \in [name : {"compute", "nested"}, cell : Cells \cup {None}]
  BY TickAssumption DEF Init
<1>3. disk \in Disks /\ grid = None /\ nested = None
  BY DEF Init
<1> QED BY <1>1, <1>2, <1>3 DEF Typed, TypeOK, Serving

LEMMA StepTypes == IInv /\ Typed /\ [Next]_vars => Typed'
<1> SUFFICES ASSUME IInv, Typed, [Next]_vars
             PROVE  Typed'
  OBVIOUS
<1>1. CASE \/ TakeValue \/ TakeTick \/ TakeInput \/ LoadFails \/ LoadCycle
           \/ \E c \in Cells : ReadDone(c) \/ ReadVisiting(c)
  BY <1>1, AnswersTyped
<1>2. ASSUME NEW c \in Cells, ReadUnvisited(c)
      PROVE  Typed'
  BY <1>2, ReadUnvisitedTyped
<1>3. CASE FinishCell
  BY <1>3, FinishCellTyped
<1>4. CASE OpenForeign \/ CallSheet
  BY <1>4, OpenForeignTyped, CallSheetTyped
<1>5. CASE EnterSheet \/ NoOutput \/ EnterGrid
  BY <1>5, EnterSheetTyped, NoOutputTyped, EnterGridTyped
<1>6. CASE Leave \/ Return
  BY <1>6, LeaveKeepsTyped, ReturnTyped
<1>7. CASE Compute
  BY <1>7, ComputeTyped
<1>8. ASSUME NEW c \in Cells, EmbeddedGrid(c)
      PROVE  Typed'
  BY <1>8, EmbeddedGridTyped
<1>9. CASE UNCHANGED vars
  BY <1>9 DEF vars, Typed, TypeOK
<1> QED BY <1>1, <1>2, <1>3, <1>4, <1>5, <1>6, <1>7, <1>8, <1>9 DEF Next, Step

\* Every value, formula and file the computers and the evaluations hold is of its kind.
THEOREM EmbedTypeCorrect == Spec => []TypeOK
<1>1. Init => IInv /\ Typed
  BY InitIInv, InitTyped
<1>2. IInv /\ Typed /\ [Next]_vars => (IInv /\ Typed)'
  BY StepIInv, StepTypes
<1>3. Typed => TypeOK
  BY DEF Typed
<1> QED BY <1>1, <1>2, <1>3, PTL DEF Spec

-----------------------------------------------------------------------------
(***************************************************************************)
(* What was told is right.                                                 *)
(***************************************************************************)

\* A cell that is being visited has its frame.
IsVisited(st, k, c) ==
  \E i \in 1..Len(st) : st[i].role = "cell" /\ st[i].comp = k /\ st[i].of = c

\* What a computer has stored is right, and a cell it is visiting is under evaluation.
Memo(d, cs, st) ==
  \A k \in 1..Len(cs) : \A c \in Cells :
    /\ cs[k].phase[c] = "done" => cs[k].cache[c] = Meaning(d)[<<Way(cs[k]), c>>]
    /\ cs[k].phase[c] = "visiting" => IsVisited(st, k, c)

\* The nested file was entered with the values of the arguments.
ServedArgs(d, req, cs, st) ==
  (Len(st) > 0 /\ req.name = "nested" /\ st[1].role = "entry") => cs[2].args = Inputs(d, req.cell)

\* The grids last shown are right.
Answered(d, g, n) ==
  /\ g # None => \A c \in Cells : g[c] = Meaning(d)[<<RootWay, c>>]
  /\ n # None => /\ Shows(d, n.cell) /\ n.path = Target(d, n.cell)
                 /\ \A c \in Cells : n.grid[c] = Meaning(d)[<<NestedWay(d, n.cell), c>>]

Sound(d, req, cs, st, g, n) ==
  Faithful(d, cs, st) /\ Memo(d, cs, st) /\ ServedArgs(d, req, cs, st) /\ Answered(d, g, n)

SInv == Grounded(disk) => Sound(disk, request, comps, stack, grid, nested)

\* All that is known when a step is made.
Known == IInv /\ Typed /\ Grounded(disk) /\ Sound(disk, request, comps, stack, grid, nested)

LEMMA CellMeaning ==
  ASSUME IsFiniteSet(Paths), NEW d \in Disks, Grounded(d), NEW w \in Entered, NEW c \in Cells
  PROVE  /\ Meaning(d)[<<w, c>>] = Total(Worth(d, w, d[w.path][c].args))
         /\ Meaning(d)[<<w, c>>] \in Value
<1>1. Meaning(d)[<<w, c>>] = FormulaMeaning(d, Meaning(d), w, c)
  BY MeaningSolves
<1>2. Meaning(d)[<<w, c>>] \in Value
  BY MeaningSolves DEF Places
<1> QED BY <1>1, <1>2 DEF FormulaMeaning, Worth

\* A frame that asks for nothing more was told all its operands mean.
LEMMA ToldAll ==
  ASSUME NEW d, NEW w, NEW f \in FrameType, Told(d, w, f), ~(Len(f.got) < Len(f.items))
  PROVE  f.got = Worth(d, w, f.items)
<1>1. f.got \in Seq(Value) /\ f.items \in Seq(Operand)
  BY FrameTyped
<1> DEFINE n == Len(f.items)
           g == f.got
<1>2. Len(f.got) \in Nat /\ n \in Nat /\ DOMAIN f.items = 1..n
  BY <1>1
<1>3. Len(f.got) = n
  BY <1>2 DEF Told
<1>4. g = [i \in 1..n |-> g[i]]
  BY <1>1, <1>3
<1>5. \A i \in 1..n : g[i] = OperandMeaning(d, Meaning(d), w, f.items[i])
  BY <1>3 DEF Told
<1> HIDE DEF g, n
<1> QED BY <1>2, <1>4, <1>5 DEF Worth, g

\* An atom means the same as an operand.
LEMMA AtomOperand ==
  ASSUME NEW d, NEW m, NEW w, NEW x \in Atom
  PROVE  OperandMeaning(d, m, w, x) = AtomMeaning(m, w, x)
<1>1. x.op \notin {"foreign", "sheet"}
  BY DEF Atom
<1> QED BY <1>1 DEF OperandMeaning

LEMMA AtomsWorth ==
  ASSUME NEW d, NEW w, NEW items \in Seq(Atom)
  PROVE  Worth(d, w, items) = AtomMeanings(Meaning(d), w, items)
<1>1. \A i \in DOMAIN items : items[i] \in Atom
  OBVIOUS
<1>2. \A i \in DOMAIN items : OperandMeaning(d, Meaning(d), w, items[i]) = AtomMeaning(Meaning(d), w, items[i])
  BY <1>1, AtomOperand
<1> QED BY <1>2 DEF Worth, AtomMeanings

LEMMA LocalMeaning ==
  ASSUME NEW d, NEW w, NEW c
  PROVE  OperandMeaning(d, Meaning(d), w, Local(c)) = Meaning(d)[<<w, c>>]
BY DEF OperandMeaning, AtomMeaning, Local

\* References within a file go on from cell to cell.
LEMMA AfterOn ==
  ASSUME NEW a \in Cells, NEW c \in Cells, Pos(a) < Pos(c), NEW x \in Operand, OperandAfter(c, x)
  PROVE  OperandAfter(a, x)
<1>1. Pos(a) \in Nat /\ \A b \in Cells : Pos(b) \in Nat
  BY PosOf
<1>2. ASSUME NEW y \in Operand, AtomAfter(c, y) PROVE AtomAfter(a, y)
  <2>1. y.op = "cell" => y.cell \in Cells
    BY OperandShape
  <2> QED BY <1>1, <1>2, <2>1 DEF AtomAfter
<1>3. AtomAfter(a, x)
  BY <1>2 DEF OperandAfter
<1>4. ASSUME x.op = "sheet", NEW i \in DOMAIN x.args PROVE AtomAfter(a, x.args[i])
  <2>1. x.args \in Seq(Operand)
    BY <1>4, OperandShape, AtomsTyped
  <2>2. x.args[i] \in Operand
    BY <1>4, <2>1
  <2>3. AtomAfter(c, x.args[i])
    BY <1>4 DEF OperandAfter
  <2> QED BY <1>2, <2>2, <2>3
<1> QED BY <1>3, <1>4 DEF OperandAfter

LEMMA LocalAfter ==
  ASSUME NEW a, NEW c, OperandAfter(a, Local(c))
  PROVE  Pos(a) < Pos(c)
BY DEF OperandAfter, AtomAfter, Local

LEMMA ArgAfter ==
  ASSUME NEW a, NEW x \in Operand, x.op = "sheet", OperandAfter(a, x), NEW i \in DOMAIN x.args
  PROVE  OperandAfter(a, x.args[i])
<1>1. x.args[i] \in Atom
  BY OperandShape
<1>2. x.args[i].op # "sheet"
  BY <1>1 DEF Atom
<1> QED BY <1>2 DEF OperandAfter

LEMMA AfterTimeless ==
  ASSUME NEW c, NEW items, \A i \in DOMAIN items : OperandAfter(c, items[i])
  PROVE  Timeless(items)
BY DEF OperandAfter, AtomAfter, Timeless

LEMMA LocalsTimeless ==
  ASSUME NEW cells
  PROVE  Timeless([i \in DOMAIN cells |-> Local(cells[i])])
BY DEF Timeless, Local

LEMMA ArgsTimeless ==
  ASSUME NEW items, Timeless(items), NEW i \in DOMAIN items, items[i].op = "sheet",
         items[i].args \in Seq(Atom)
  PROVE  Timeless(items[i].args)
<1>1. \A j \in DOMAIN items[i].args : items[i].args[j].op # "sheet"
  BY DEF Atom
<1> QED BY <1>1 DEF Timeless

\* Nothing told yet: right.
LEMMA NewTold ==
  ASSUME NEW d, NEW w, NEW f, NEW role, NEW of, NEW k, NEW items \in Seq(Operand),
         IsNew(f, role, of, k, items), Timeless(items),
         role = "cell" => items = d[w.path][of].args
  PROVE  Told(d, w, f)
<1>1. Len(f.got) = 0 /\ Len(f.items) \in Nat
  BY DEF IsNew
<1> QED BY <1>1 DEF Told, IsNew

\* What holds of the innermost evaluation.
LEMMA TopKnown ==
  ASSUME Known, Len(stack) > 0
  PROVE  /\ Told(disk, Way(Comp), Top) /\ Way(Comp) \in Entered
         /\ \A i \in 1..Len(stack) : Before(stack[i], Top)
         /\ Way(Comp).path = Comp.path /\ Way(Comp).visiting = Comp.visiting /\ Way(Comp).args = Comp.args
         /\ Faithful(disk, comps, stack) /\ Memo(disk, comps, stack)
<1>1. Top = stack[Len(stack)] /\ Comp = comps[Len(comps)] /\ Top.comp = Len(comps) /\ Comp \in ComputerType
      /\ Len(stack) \in 1..Len(stack)
  BY TopTyped DEF Known
<1>2. Faithful(disk, comps, stack) /\ Memo(disk, comps, stack)
  BY DEF Known, Sound
<1>3. Told(disk, Way(Comp), Top) /\ \A i \in 1..Len(stack) : Before(stack[i], Top)
  BY <1>1, <1>2 DEF Faithful
<1> QED BY <1>1, <1>2, <1>3, WayTyped

-----------------------------------------------------------------------------
(***************************************************************************)
(* Every action keeps it.                                                  *)
(***************************************************************************)

Stays == Sound(disk, request, comps', stack', grid, nested)

LEMMA VisitingFrame ==
  ASSUME NEW d, NEW cs, NEW st, Memo(d, cs, st), NEW k \in 1..Len(cs), NEW c \in Cells,
         cs[k].phase[c] = "visiting"
  PROVE  IsVisited(st, k, c)
BY DEF Memo

LEMMA MemoFrames ==
  ASSUME NEW d, NEW cs, NEW st, NEW t, Memo(d, cs, st), Len(t) = Len(st),
         \A i \in 1..Len(st) : t[i].role = st[i].role /\ t[i].of = st[i].of /\ t[i].comp = st[i].comp
  PROVE  Memo(d, cs, t)
<1>1. \A k, c : IsVisited(st, k, c) => IsVisited(t, k, c)
  BY DEF IsVisited
<1> QED BY <1>1 DEF Memo

LEMMA GivenFrames ==
  ASSUME NEW st \in Seq(FrameType), Len(st) > 0, NEW v \in Value, NEW t, IsGiven(t, st, v)
  PROVE  /\ Len(t) = Len(st)
         /\ \A i \in 1..Len(st) : t[i].role = st[i].role /\ t[i].of = st[i].of /\ t[i].comp = st[i].comp
<1>1. st[Len(st)] \in FrameType /\ Len(t) = Len(st)
  BY DEF IsGiven
<1>2. \A i \in 1..Len(st) : i = Len(st) \/ i \in 1..(Len(st) - 1)
  OBVIOUS
<1>3. /\ t[Len(st)].role = st[Len(st)].role /\ t[Len(st)].of = st[Len(st)].of
      /\ t[Len(st)].comp = st[Len(st)].comp
  BY <1>1, ToldTyped DEF IsGiven
<1> QED BY <1>1, <1>2, <1>3 DEF IsGiven

LEMMA ServedKept ==
  ASSUME NEW d, NEW req, NEW cs, NEW ds, NEW st, NEW t, ServedArgs(d, req, cs, st), Len(st) > 0,
         SameFirst(t, st), ds[2].args = cs[2].args
  PROVE  ServedArgs(d, req, ds, t)
BY DEF ServedArgs, SameFirst

LEMMA AnswerSound ==
  ASSUME Known, Asking, NEW v \in Value, Answer(v),
         v = OperandMeaning(disk, Meaning(disk), Way(Comp), Item)
  PROVE  Stays
<1>1. Len(stack) > 0 /\ Item = NextOf(Top) /\ Len(Top.got) < Len(Top.items)
  BY AskTyped DEF Known
<1>2. stack \in Seq(FrameType) /\ Top = stack[Len(stack)] /\ Comp = comps[Top.comp]
  BY <1>1, TopTyped DEF Known
<1>3. Faithful(disk, comps, stack) /\ Memo(disk, comps, stack)
  BY <1>1, TopKnown
<1>4. IsGiven(stack', stack, v) /\ comps' = comps
  BY <1>1, <1>2, GivenTyped DEF Answer
<1>5. Faithful(disk, comps, stack')
  BY <1>1, <1>2, <1>3, <1>4, GiveFaithful
<1>6. Memo(disk, comps, stack')
  BY <1>1, <1>2, <1>3, <1>4, GivenFrames, MemoFrames
<1>7. SameFirst(stack', stack)
  BY <1>1, <1>2, <1>4, GivenFirst
<1>8. ServedArgs(disk, request, comps, stack')
  BY <1>1, <1>7, ServedKept DEF Known, Sound
<1> QED BY <1>4, <1>5, <1>6, <1>8 DEF Stays, Known, Sound

\* No frame asks for TICK().
LEMMA NoTick ==
  ASSUME Known, TakeTick
  PROVE  FALSE
<1>1. Asking /\ Item.op = "tick"
  BY DEF TakeTick
<1>2. Len(stack) > 0 /\ Item = NextOf(Top) /\ Len(Top.got) + 1 \in DOMAIN Top.items
  BY <1>1, AskTyped DEF Known
<1>3. Timeless(Top.items)
  BY <1>2, TopKnown DEF Told
<1> QED BY <1>1, <1>2, <1>3 DEF Timeless, NextOf

\* No cell is asked for while it is visited.
LEMMA NoCircle ==
  ASSUME Known, NEW c \in Cells, ReadVisiting(c)
  PROVE  FALSE
<1>1. Asking /\ Item = Local(c) /\ Comp.phase[c] = "visiting"
  BY DEF ReadVisiting, Reading
<1>2. Len(stack) > 0 /\ Item = NextOf(Top) /\ Len(Top.got) + 1 \in DOMAIN Top.items
  BY <1>1, AskTyped DEF Known
<1>3. Top.comp = Len(comps) /\ Comp = comps[Len(comps)] /\ Len(comps) \in 1..Len(comps)
  BY <1>2, TopTyped DEF Known
<1>4. PICK i \in 1..Len(stack) : stack[i].role = "cell" /\ stack[i].comp = Len(comps) /\ stack[i].of = c
  BY <1>1, <1>2, <1>3, TopKnown, VisitingFrame DEF IsVisited
<1>5. Before(stack[i], Top)
  BY <1>2, TopKnown
<1>6. OperandAfter(c, Local(c))
  BY <1>1, <1>2, <1>3, <1>4, <1>5 DEF Before, NextOf
<1>7. Pos(c) < Pos(c) /\ Pos(c) \in Nat
  BY <1>6, LocalAfter, PosOf
<1> QED BY <1>7

LEMMA AnswersSound ==
  ASSUME Known,
         \/ TakeValue \/ TakeTick \/ TakeInput \/ LoadFails \/ LoadCycle
         \/ \E c \in Cells : ReadDone(c) \/ ReadVisiting(c)
  PROVE  Stays
<1> DEFINE w == Way(Comp)
           m == Meaning(disk)
<1>1. Asking
  BY DEF TakeValue, TakeTick, TakeInput, LoadFails, LoadCycle, Loading, ReadDone, ReadVisiting, Reading
<1>2. Item \in Operand /\ Comp \in ComputerType /\ Len(stack) > 0 /\ Top.comp = Len(comps)
      /\ Comp = comps[Len(comps)] /\ Len(comps) \in 1..Len(comps)
  BY <1>1, AskTyped, TopTyped DEF Known
<1>3. w.path = Comp.path /\ w.visiting = Comp.visiting /\ w.args = Comp.args
  BY <1>2, WayTyped
<1> HIDE DEF w, m
<1>4. CASE TakeValue
  <2>1. Item.value \in Value /\ Item.op = "value" /\ Answer(Item.value)
    BY <1>2, <1>4, OperandShape DEF TakeValue
  <2>2. Item.value = OperandMeaning(disk, m, w, Item)
    BY <2>1 DEF OperandMeaning, AtomMeaning
  <2> QED BY <1>1, <2>1, <2>2, AnswerSound DEF w, m
<1>5. CASE TakeTick
  BY <1>5, NoTick
<1>6. CASE TakeInput
  <2> DEFINE v == IF Item.n \in 1..Len(Comp.args) THEN Comp.args[Item.n] ELSE Error("#REF!")
  <2>1. Item.n \in 1..Len(Comp.args) => Comp.args[Item.n] \in Value
    BY <1>2 DEF ComputerType
  <2>2. v \in Value /\ Item.op = "input" /\ Answer(v)
    BY <1>6, <2>1, ErrorValues DEF TakeInput
  <2>3. v = OperandMeaning(disk, m, w, Item)
    BY <1>3, <2>2 DEF OperandMeaning, AtomMeaning
  <2> HIDE DEF v
  <2> QED BY <1>1, <2>2, <2>3, AnswerSound DEF w, m
<1>7. CASE LoadFails
  <2>1. Item.op \in {"foreign", "sheet"} /\ Resolve[w.path][Item.file] = None /\ Answer(Error("#REF!"))
    BY <1>3, <1>7 DEF LoadFails, Loading, Loaded
  <2>2. Error("#REF!") = OperandMeaning(disk, m, w, Item)
    BY <2>1 DEF OperandMeaning
  <2> QED BY <1>1, <2>1, <2>2, ErrorValues, AnswerSound DEF w, m
<1>8. CASE LoadCycle
  <2>1. Item.op \in {"foreign", "sheet"} /\ Resolve[w.path][Item.file] \in w.visiting
        /\ Answer(Error("#CIRC!"))
    BY <1>3, <1>8 DEF LoadCycle, Loading, Loaded
  <2>2. None \notin w.visiting
    BY <1>2, <1>3, PathsAssumption DEF ComputerType
  <2>3. Error("#CIRC!") = OperandMeaning(disk, m, w, Item)
    BY <2>1, <2>2 DEF OperandMeaning
  <2> QED BY <1>1, <2>1, <2>3, ErrorValues, AnswerSound DEF w, m
<1>9. ASSUME NEW c \in Cells, ReadDone(c) PROVE Stays
  <2>1. Item = Local(c) /\ Comp.phase[c] = "done" /\ Answer(Comp.cache[c]) /\ Comp.cache[c] \in Value
    BY <1>2, <1>9 DEF ReadDone, Reading, ComputerType
  <2>2. Comp.cache[c] = m[<<w, c>>]
    BY <1>2, <2>1, TopKnown DEF Memo, w, m
  <2>3. Comp.cache[c] = OperandMeaning(disk, m, w, Item)
    BY <2>1, <2>2, LocalMeaning DEF m
  <2> QED BY <1>1, <2>1, <2>3, AnswerSound DEF w, m
<1>10. ASSUME NEW c \in Cells, ReadVisiting(c) PROVE Stays
  BY <1>10, NoCircle
<1> QED BY <1>4, <1>5, <1>6, <1>7, <1>8, <1>9, <1>10

-----------------------------------------------------------------------------

\* The chain's files are entered as before; the stack grows by one frame.
LEMMA PushSound ==
  ASSUME Known, Len(stack) > 0, comps' \in Seq(ComputerType),
         SameWays(comps', comps, Len(comps)), NEW f, IsPushed(stack', stack, f),
         Told(disk, Way(comps'[f.comp]), f),
         Awaits(disk, Way(Comp), Top, Way(comps'[f.comp]), f),
         \A i \in 1..Len(stack) : Before(stack[i], f), Before(f, f),
         Memo(disk, comps', stack'), Len(comps') >= Len(comps)
  PROVE  Stays
<1>1. /\ stack \in Seq(FrameType) /\ Top = stack[Len(stack)] /\ Comp = comps[Len(comps)]
      /\ Top.comp = Len(comps) /\ Len(comps) > 0 /\ Len(comps) \in Nat
      /\ \A i \in 1..Len(stack) : stack[i].comp \in 1..Len(comps)
  BY TopTyped DEF Known
<1>2. \A i \in 1..Len(stack) : Way(comps'[stack[i].comp]) = Way(comps[stack[i].comp])
  BY <1>1 DEF SameWays
<1>3. Faithful(disk, comps', stack)
  BY <1>1, <1>2, TopKnown, WaysFaithful
<1>4. Way(comps'[stack[Len(stack)].comp]) = Way(Comp)
  BY <1>1 DEF SameWays
<1>5. Faithful(disk, comps', stack')
  BY <1>1, <1>3, <1>4, PushFaithful
<1>6. SameFirst(stack', stack)
  BY <1>1, PushFirst
<1>7. ServedArgs(disk, request, comps', stack')
  <2>1. CASE stack[1].role = "entry" /\ request.name = "nested"
    <3>1. stack[1].comp = 2 /\ 1 \in 1..Len(stack)
      BY <2>1 DEF Known, Typed, Serving
    <3>2. 2 \in 1..Len(comps)
      BY <1>1, <3>1
    <3>3. comps'[2].args = comps[2].args
      BY <3>2, WayShape DEF SameWays
    <3> QED BY <1>6, <3>3, ServedKept DEF Known, Sound
  <2>2. CASE ~(stack[1].role = "entry" /\ request.name = "nested")
    BY <1>6, <2>2 DEF ServedArgs, SameFirst
  <2> QED BY <2>1, <2>2
<1> QED BY <1>5, <1>7 DEF Stays, Known, Sound

LEMMA ReadUnvisitedSound ==
  ASSUME Known, NEW c \in Cells, ReadUnvisited(c)
  PROVE  Stays
<1>1. Asking /\ Item = Local(c) /\ Comp.phase[c] = "unvisited"
  BY ReadUnvisitedShape DEF Known
<1>2. PICK r : MemoState(r, Comp, c, "visiting", Comp.cache[c]) /\ IsMemo(comps', comps, r)
  BY ReadUnvisitedShape DEF Known
<1>3. PICK f : /\ IsPushed(stack', stack, f)
               /\ IsNew(f, "cell", c, Len(comps), disk[Comp.path][c].args)
  BY ReadUnvisitedShape DEF Known
<1>4. Len(stack) > 0 /\ Item = NextOf(Top) /\ Len(Top.got) < Len(Top.items)
      /\ Len(Top.got) + 1 \in DOMAIN Top.items
  BY <1>1, AskTyped DEF Known
<1>5. /\ stack \in Seq(FrameType) /\ comps \in Seq(ComputerType) /\ disk \in Disks
      /\ Top = stack[Len(stack)] /\ Top.comp = Len(comps) /\ Comp = comps[Len(comps)]
      /\ Comp \in ComputerType /\ Comp.path \in Paths /\ Len(stack) \in Nat
      /\ Len(comps) \in Nat /\ Len(comps) > 0
      /\ \A i \in 1..Len(stack) : stack[i] \in FrameType /\ stack[i].comp \in 1..Len(comps)
  BY <1>4, TopTyped DEF Known
<1>6. comps' \in Seq(ComputerType) /\ SameWays(comps', comps, Len(comps)) /\ Len(comps') = Len(comps)
      /\ comps'[Len(comps)] = r /\ Way(r) = Way(Comp)
  BY <1>2, <1>5, MemoWays DEF MemoState, IsMemo
<1> DEFINE items == disk[Comp.path][c].args
<1>7. items \in Seq(Operand) /\ \A i \in DOMAIN items : OperandAfter(c, items[i])
  BY <1>5, DiskShape, GroundedAfter DEF Known
<1>8. f.role = "cell" /\ f.of = c /\ f.comp = Len(comps) /\ f.items = items /\ f \in FrameType
      /\ IsNew(f, "cell", c, Len(comps), items)
  BY <1>3 DEF IsNew
<1>9. Timeless(items)
  BY <1>7, AfterTimeless
<1>10. Told(disk, Way(comps'[f.comp]), f)
  <2>1. Way(r).path = Comp.path
    BY <1>6 DEF Way, EnteredAs
  <2>2. items = disk[Way(r).path][c].args
    BY <2>1
  <2> HIDE DEF items
  <2> QED BY <1>6, <1>7, <1>8, <1>9, <2>2, NewTold
<1>11. Awaits(disk, Way(Comp), Top, Way(comps'[f.comp]), f)
  BY <1>1, <1>4, <1>8 DEF Awaits
<1> HIDE DEF items
<1>12. \A i \in DOMAIN items : items[i] \in Operand
  BY <1>7
<1>13. ASSUME NEW i \in 1..Len(stack) PROVE Before(stack[i], f)
  <2> SUFFICES ASSUME stack[i].role = "cell", stack[i].comp = Len(comps)
               PROVE  \A j \in DOMAIN items : OperandAfter(stack[i].of, items[j])
    BY <1>8 DEF Before
  <2>1. Before(stack[i], Top)
    BY <1>4, TopKnown
  <2>2. OperandAfter(stack[i].of, Local(c))
    BY <1>1, <1>4, <1>5, <2>1 DEF Before, NextOf
  <2>3. Pos(stack[i].of) < Pos(c) /\ stack[i].of \in Cells
    BY <1>5, <2>2, LocalAfter, FrameTyped
  <2> QED BY <1>7, <1>12, <2>3, AfterOn
<1>14. Before(f, f)
  BY <1>7, <1>8 DEF Before
<1>15. Memo(disk, comps', stack')
  <2> SUFFICES ASSUME NEW k \in 1..Len(comps), NEW b \in Cells
               PROVE  /\ comps'[k].phase[b] = "done" =>
                           comps'[k].cache[b] = Meaning(disk)[<<Way(comps'[k]), b>>]
                      /\ comps'[k].phase[b] = "visiting" =>
                           IsVisited(stack', k, b)
    BY <1>6 DEF Memo
  <2>1. Memo(disk, comps, stack) /\ Way(comps'[k]) = Way(comps[k])
    BY <1>4, <1>6, TopKnown DEF SameWays
  <2>2. Len(stack') = Len(stack) + 1 /\ stack'[Len(stack) + 1] = f
        /\ \A i \in 1..Len(stack) : i \in 1..Len(stack') /\ stack'[i] = stack[i]
    BY <1>3, <1>5 DEF IsPushed
  <2>3. CASE k = Len(comps) /\ b = c
    <3>1. comps'[k].phase[b] = "visiting"
      BY <1>2, <1>5, <1>6, <2>3 DEF MemoState, ComputerType
    <3>2. Len(stack) + 1 \in 1..Len(stack')
      BY <1>5, <2>2
    <3>3. IsVisited(stack', k, b)
      BY <1>8, <2>2, <2>3, <3>2 DEF IsVisited
    <3> QED BY <3>1, <3>3
  <2>4. CASE ~(k = Len(comps) /\ b = c)
    <3>1. comps'[k].phase[b] = comps[k].phase[b] /\ comps'[k].cache[b] = comps[k].cache[b]
      <4>1. CASE k = Len(comps)
        BY <1>2, <1>5, <1>6, <2>4, <4>1 DEF MemoState, ComputerType
      <4>2. CASE k # Len(comps)
        <5>1. k \in 1..(Len(comps) - 1)
          BY <1>5, <4>2
        <5> QED BY <1>2, <5>1 DEF IsMemo
      <4> QED BY <4>1, <4>2
    <3>2. comps[k].phase[b] = "done" => comps[k].cache[b] = Meaning(disk)[<<Way(comps[k]), b>>]
      BY <2>1 DEF Memo
    <3>3. comps[k].phase[b] = "visiting" =>
            IsVisited(stack, k, b)
      BY <2>1, VisitingFrame
    <3> QED BY <2>1, <2>2, <3>1, <3>2, <3>3 DEF IsVisited
  <2> QED BY <2>3, <2>4
<1> QED BY <1>3, <1>4, <1>6, <1>10, <1>11, <1>13, <1>14, <1>15, PushSound

LEMMA VisitedPushed ==
  ASSUME NEW st \in Seq(FrameType), NEW t, NEW f, IsPushed(t, st, f), NEW k, NEW c, IsVisited(st, k, c)
  PROVE  IsVisited(t, k, c)
<1>1. \A i \in 1..Len(st) : i \in 1..Len(t) /\ t[i] = st[i]
  BY DEF IsPushed
<1> QED BY <1>1 DEF IsVisited

LEMMA MemoEntered ==
  ASSUME NEW d, NEW cs \in Seq(ComputerType), NEW st, NEW ds, NEW t, NEW x, IsEntered(ds, cs, x),
         \A c \in Cells : x.phase[c] = "unvisited", Memo(d, cs, st),
         \A k \in 1..Len(cs) : \A c \in Cells : IsVisited(st, k, c) => IsVisited(t, k, c)
  PROVE  Memo(d, ds, t)
<1>1. Len(ds) = Len(cs) + 1 /\ Len(cs) \in Nat /\ ds[Len(cs) + 1] = x /\ \A k \in 1..Len(cs) : ds[k] = cs[k]
  BY DEF IsEntered
<1>2. ASSUME NEW k \in 1..Len(ds), NEW c \in Cells
      PROVE  /\ ds[k].phase[c] = "done" => ds[k].cache[c] = Meaning(d)[<<Way(ds[k]), c>>]
             /\ ds[k].phase[c] = "visiting" => IsVisited(t, k, c)
  <2>1. CASE k = Len(cs) + 1
    BY <1>1, <2>1
  <2>2. CASE k # Len(cs) + 1
    <3>1. k \in 1..Len(cs) /\ ds[k] = cs[k]
      BY <1>1, <2>2
    <3> QED BY <3>1 DEF Memo
  <2> QED BY <2>1, <2>2
<1> QED BY <1>2 DEF Memo

LEMMA EntryBefore ==
  ASSUME Known, Len(stack) > 0, NEW f, f.comp = Len(comps) + 1, f.role = "entry"
  PROVE  (\A i \in 1..Len(stack) : Before(stack[i], f)) /\ Before(f, f)
<1>1. \A i \in 1..Len(stack) : stack[i].comp \in 1..Len(comps)
  BY TopTyped DEF Known
<1>2. Len(comps) \in Nat
  BY TopTyped DEF Known
<1> QED BY <1>1, <1>2 DEF Before

LEMMA OpenForeignSound ==
  ASSUME Known, OpenForeign
  PROVE  Stays
<1> DEFINE items == [i \in DOMAIN Item.cells |-> Local(Item.cells[i])]
           w == Way(Comp)
<1>1. CanEnter /\ Item.op = "foreign" /\ Item.cells \in Seq(Cells)
  BY OpenForeignShape DEF Known
<1>2. PICK x : IsChild(x, Loaded, <<>>) /\ IsEntered(comps', comps, x)
  BY OpenForeignShape DEF Known
<1>3. PICK f : IsPushed(stack', stack, f) /\ IsNew(f, "entry", None, Len(comps) + 1, items)
  BY OpenForeignShape DEF Known
<1>4. /\ Asking /\ Item = NextOf(Top) /\ Len(stack) > 0
      /\ Loaded = Resolve[Comp.path][Item.file] /\ Loaded \in Paths \ Comp.visiting
  BY <1>1, CanEnterShape DEF Known
<1>5. /\ stack \in Seq(FrameType) /\ comps \in Seq(ComputerType) /\ Len(comps) \in Nat
      /\ Len(Top.got) < Len(Top.items)
  BY <1>4, TopTyped, AskTyped DEF Known
<1>6. w.path = Comp.path /\ w.visiting = Comp.visiting
  BY <1>4, TopKnown
<1>7. items \in Seq(Operand) /\ Timeless(items)
  BY <1>1, LocalsTyped, LocalsTimeless
<1>8. f.role = "entry" /\ f.comp = Len(comps) + 1 /\ f.items = items
  BY <1>3 DEF IsNew
<1>9. comps'[Len(comps) + 1] = x /\ comps' \in Seq(ComputerType) /\ Len(comps') >= Len(comps)
      /\ SameWays(comps', comps, Len(comps))
  BY <1>2, <1>5, EnteredWays DEF IsEntered
<1> DEFINE v == EnteredAs(Loaded, Comp.visiting \cup {Loaded}, <<>>)
<1>10. Way(comps'[f.comp]) = v
  BY <1>2, <1>8, <1>9 DEF IsChild
<1>11. OperandMeaning(disk, Meaning(disk), w, Item) = Total(Worth(disk, v, items))
  <2>1. Loaded # None /\ Loaded \notin w.visiting /\ Resolve[w.path][Item.file] = Loaded
    BY <1>4, <1>6, PathsAssumption
  <2>2. Worth(disk, v, items) = [i \in DOMAIN Item.cells |-> Meaning(disk)[<<v, Item.cells[i]>>]]
    <3> HIDE DEF v
    <3> DEFINE cells == Item.cells
    <3>1. items = [i \in DOMAIN cells |-> Local(cells[i])]
      OBVIOUS
    <3> HIDE DEF cells, items
    <3>2. Worth(disk, v, items) = [i \in DOMAIN cells |-> Meaning(disk)[<<v, cells[i]>>]]
      BY <3>1, LocalMeaning DEF Worth
    <3> QED BY <3>2 DEF cells
  <2>3. v = EnteredAs(Loaded, w.visiting \cup {Loaded}, <<>>)
    BY <1>6
  <2> HIDE DEF v, w, items
  <2> QED BY <1>1, <2>1, <2>2, <2>3 DEF OperandMeaning
<1> HIDE DEF v, items
<1>12. Told(disk, Way(comps'[f.comp]), f)
  <2>1. "entry" # "cell"
    OBVIOUS
  <2> QED BY <1>3, <1>7, <2>1, NewTold
<1>13. Awaits(disk, w, Top, Way(comps'[f.comp]), f)
  BY <1>4, <1>5, <1>8, <1>10, <1>11 DEF Awaits
<1>14. (\A i \in 1..Len(stack) : Before(stack[i], f)) /\ Before(f, f)
  BY <1>4, <1>8, EntryBefore
<1>15. Memo(disk, comps', stack')
  <2>1. Memo(disk, comps, stack) /\ \A c \in Cells : x.phase[c] = "unvisited"
    BY <1>2, <1>4, TopKnown DEF IsChild
  <2>2. \A k \in 1..Len(comps) : \A c \in Cells : IsVisited(stack, k, c) => IsVisited(stack', k, c)
    BY <1>3, <1>5, VisitedPushed
  <2> QED BY <1>2, <1>5, <2>1, <2>2, MemoEntered
<1> QED BY <1>3, <1>4, <1>9, <1>12, <1>13, <1>14, <1>15, PushSound DEF w

LEMMA CallSheetSound ==
  ASSUME Known, CallSheet
  PROVE  Stays
<1> DEFINE items == Item.args
<1>1. CanEnter /\ Item.op = "sheet" /\ comps' = comps
  BY CallSheetShape DEF Known
<1>2. PICK f : IsPushed(stack', stack, f) /\ IsNew(f, "call", Loaded, Len(comps), items)
  BY CallSheetShape DEF Known
<1>3. /\ Asking /\ Item = NextOf(Top) /\ Len(stack) > 0 /\ Item \in Operand
      /\ Loaded = Resolve[Comp.path][Item.file]
  BY <1>1, CanEnterShape DEF Known
<1>4. /\ stack \in Seq(FrameType) /\ comps \in Seq(ComputerType) /\ Len(comps) \in Nat
      /\ Len(Top.got) < Len(Top.items) /\ Len(Top.got) + 1 \in DOMAIN Top.items
      /\ Top.comp = Len(comps) /\ Comp = comps[Len(comps)] /\ Len(comps) > 0
      /\ \A i \in 1..Len(stack) : stack[i] \in FrameType
  BY <1>3, TopTyped, AskTyped DEF Known
<1>5. Way(Comp).path = Comp.path /\ Timeless(Top.items) /\ Memo(disk, comps, stack)
      /\ \A i \in 1..Len(stack) : Before(stack[i], Top)
  BY <1>3, TopKnown DEF Told
<1>6. items \in Seq(Atom) /\ items \in Seq(Operand)
  BY <1>1, <1>3, OperandShape, AtomsTyped
<1>7. Timeless(items)
  BY <1>1, <1>3, <1>4, <1>5, <1>6, ArgsTimeless DEF NextOf
<1>8. f.role = "call" /\ f.comp = Len(comps) /\ f.items = items /\ f.of = Loaded
  BY <1>2 DEF IsNew
<1>9. Told(disk, Way(comps'[f.comp]), f)
  <2>1. "call" # "cell"
    OBVIOUS
  <2> QED BY <1>2, <1>6, <1>7, <2>1, NewTold
<1>10. Awaits(disk, Way(Comp), Top, Way(comps'[f.comp]), f)
  <2>1. Resolve[Way(Comp).path][Item.file] = Loaded
    BY <1>3, <1>5
  <2> QED BY <1>1, <1>3, <1>4, <1>8, <2>1 DEF Awaits
<1>11. ASSUME NEW i \in 1..Len(stack) PROVE Before(stack[i], f)
  <2> SUFFICES ASSUME stack[i].role = "cell", stack[i].comp = Len(comps), NEW j \in DOMAIN items
               PROVE  OperandAfter(stack[i].of, items[j])
    BY <1>8 DEF Before
  <2>1. OperandAfter(stack[i].of, Item)
    BY <1>3, <1>4, <1>5 DEF Before, NextOf
  <2> QED BY <1>1, <1>3, <2>1, ArgAfter
<1>12. Before(f, f)
  BY <1>8 DEF Before
<1>13. Memo(disk, comps', stack')
  <2>1. \A k, c : IsVisited(stack, k, c) => IsVisited(stack', k, c)
    BY <1>2, <1>4, VisitedPushed
  <2> QED BY <1>1, <1>5, <2>1 DEF Memo
<1>14. comps' \in Seq(ComputerType) /\ SameWays(comps', comps, Len(comps)) /\ Len(comps') >= Len(comps)
  BY <1>1, <1>4 DEF SameWays
<1> QED BY <1>2, <1>3, <1>9, <1>10, <1>11, <1>12, <1>13, <1>14, PushSound

-----------------------------------------------------------------------------

\* The arguments the nested file was entered with stay.
LEMMA ServedStays ==
  ASSUME Known, Len(stack) > 0, SameWays(comps', comps, stack[1].comp), SameFirst(stack', stack)
  PROVE  ServedArgs(disk, request, comps', stack')
<1>1. CASE stack[1].role = "entry" /\ request.name = "nested"
  <2>1. stack[1].comp = 2
    BY <1>1 DEF Known, Typed, Serving
  <2>2. 2 \in 1..stack[1].comp
    BY <2>1
  <2>3. comps'[2].args = comps[2].args
    BY <2>2, WayShape DEF SameWays
  <2> QED BY <2>3, ServedKept DEF Known, Sound
<1>2. CASE ~(stack[1].role = "entry" /\ request.name = "nested")
  BY <1>2 DEF ServedArgs, SameFirst
<1> QED BY <1>1, <1>2

\* The frame below the innermost one, and what it awaits.
Under == stack[Len(stack) - 1]

LEMMA UnderKnown ==
  ASSUME Known, Len(stack) > 1, IsBelow(Below, stack),
         SameWays(comps', comps, Under.comp)
  PROVE  /\ Len(Below) > 0 /\ Below \in Seq(FrameType) /\ Below[Len(Below)] = Under
         /\ Len(stack) - 1 \in 1..Len(stack) /\ Len(Below) = Len(stack) - 1
         /\ \A i \in 1..Len(Below) : Below[i] = stack[i]
         /\ Under \in FrameType /\ Under.comp \in 1..Len(comps)
         /\ Awaits(disk, Way(comps[Under.comp]), Under, Way(Comp), Top)
         /\ Faithful(disk, comps', Below) /\ Way(comps'[Under.comp]) = Way(comps[Under.comp])
         /\ SameWays(comps', comps, stack[1].comp)
<1>1. Len(stack) \in Nat /\ Len(stack) > 0
  BY TopTyped DEF Known
<1>2. Len(stack) - 1 \in 1..Len(stack) /\ Len(stack) \in 2..Len(stack) /\ 1 \in 1..Len(stack)
      /\ \A i \in 1..(Len(stack) - 1) : i \in 1..Len(stack) /\ i <= Len(stack) - 1
  BY <1>1
<1>3. /\ Len(Below) > 0 /\ Below \in Seq(FrameType) /\ Below[Len(Below)] = Under
      /\ Len(Below) = Len(stack) - 1 /\ \A i \in 1..Len(Below) : Below[i] = stack[i]
  BY <1>1, <1>2 DEF IsBelow, Under
<1>4. /\ Top = stack[Len(stack)] /\ Comp = comps[Top.comp] /\ stack \in Seq(FrameType)
      /\ \A i \in 1..Len(stack) : stack[i] \in FrameType /\ stack[i].comp \in 1..Len(comps)
  BY <1>1, TopTyped DEF Known
<1>5. Awaits(disk, Way(comps[Under.comp]), Under, Way(Comp), Top)
  BY <1>1, <1>2, <1>4, TopKnown DEF Faithful, Under
<1>6. \A i \in 1..(Len(stack) - 1) : stack[i].comp \in 1..Under.comp
  <2>1. \A i \in 1..(Len(stack) - 1) : stack[i].comp <= Under.comp
    BY <1>2 DEF Known, IInv, Placed, Under
  <2>2. \A i \in 1..Len(stack) : stack[i].comp \in Nat /\ stack[i].comp >= 1
    BY <1>4
  <2> QED BY <1>2, <2>1, <2>2 DEF Under
<1>7. \A i \in 1..Len(Below) : Way(comps'[Below[i].comp]) = Way(comps[Below[i].comp])
  BY <1>3, <1>6 DEF SameWays
<1>8. Faithful(disk, comps', Below)
  <2>1. Faithful(disk, comps, Below)
    BY <1>1, <1>4, TopKnown, PopFaithful
  <2> QED BY <1>3, <1>7, <2>1, WaysFaithful
<1>9. Way(comps'[Under.comp]) = Way(comps[Under.comp])
  <2>1. Under.comp \in 1..Under.comp
    BY <1>2, <1>6 DEF Under
  <2> QED BY <2>1 DEF SameWays
<1>10. SameWays(comps', comps, stack[1].comp)
  <2>1. stack[1].comp \in 1..Under.comp /\ Under.comp \in Nat
    BY <1>1, <1>2, <1>4, <1>6 DEF Under
  <2>2. \A k \in 1..stack[1].comp : k \in 1..Under.comp
    BY <2>1
  <2> QED BY <2>2 DEF SameWays
<1> QED BY <1>1, <1>2, <1>3, <1>4, <1>5, <1>8, <1>9, <1>10 DEF Under

LEMMA PopSound ==
  ASSUME Known, Len(stack) > 1, IsBelow(Below, stack), SameFirst(stack', stack),
         SameWays(comps', comps, Under.comp), NEW v \in Value, IsGiven(stack', Below, v),
         v = OperandMeaning(disk, Meaning(disk), Way(comps[Under.comp]), NextOf(Under)),
         Memo(disk, comps', stack')
  PROVE  Stays
<1>1. /\ Len(Below) > 0 /\ Below \in Seq(FrameType) /\ Below[Len(Below)] = Under
      /\ Awaits(disk, Way(comps[Under.comp]), Under, Way(Comp), Top)
      /\ Faithful(disk, comps', Below) /\ Way(comps'[Under.comp]) = Way(comps[Under.comp])
      /\ SameWays(comps', comps, stack[1].comp)
  BY UnderKnown
<1>2. Len(Under.got) < Len(Under.items)
  BY <1>1 DEF Awaits
<1>3. Faithful(disk, comps', stack')
  BY <1>1, <1>2, GiveFaithful
<1>4. Len(stack) > 0
  BY TopTyped, NotIdle DEF Known
<1>5. ServedArgs(disk, request, comps', stack')
  BY <1>1, <1>4, ServedStays
<1> QED BY <1>3, <1>5 DEF Stays, Known, Sound

\* What a frame that is done comes to.
LEMMA DoneKnown ==
  ASSUME Known, Len(stack) > 0, ~Asking
  PROVE  Top.got = Worth(disk, Way(Comp), Top.items)
<1>1. Told(disk, Way(Comp), Top) /\ Top \in FrameType
  BY TopKnown, TopTyped DEF Known
<1>2. stack # <<>>
  BY TopTyped DEF Known
<1>3. ~(Len(Top.got) < Len(Top.items))
  BY <1>2 DEF Asking
<1> QED BY <1>1, <1>3, ToldAll

\* A visited cell other than that of the innermost frame has its frame below.
LEMMA VisitedBelow ==
  ASSUME NEW st \in Seq(FrameType), Len(st) > 1, NEW b, IsBelow(b, st), NEW v \in Value, NEW t, IsGiven(t, b, v),
         NEW k, NEW c, IsVisited(st, k, c),
         ~(st[Len(st)].role = "cell" /\ st[Len(st)].comp = k /\ st[Len(st)].of = c)
  PROVE  IsVisited(t, k, c)
<1>1. PICK i \in 1..Len(st) : st[i].role = "cell" /\ st[i].comp = k /\ st[i].of = c
  BY DEF IsVisited
<1>2. Len(st) \in Nat /\ i # Len(st)
  BY <1>1
<1>3. i \in 1..(Len(st) - 1)
  BY <1>2
<1>4. b \in Seq(FrameType) /\ Len(b) > 0 /\ i \in 1..Len(b) /\ b[i] = st[i]
  BY <1>2, <1>3 DEF IsBelow
<1>5. i \in 1..Len(t) /\ t[i].role = b[i].role /\ t[i].comp = b[i].comp /\ t[i].of = b[i].of
  BY <1>4, GivenFrames
<1> QED BY <1>1, <1>4, <1>5 DEF IsVisited

LEMMA FinishCellSound ==
  ASSUME IsFiniteSet(Paths), Known, FinishCell
  PROVE  Stays
<1> DEFINE v == Total(Top.got)
           c == Top.of
           w == Way(Comp)
<1>1. /\ Len(stack) > 1 /\ ~Asking /\ Top.role = "cell" /\ c \in Cells /\ v \in Value
      /\ IsBelow(Below, stack) /\ IsGiven(stack', Below, v) /\ SameFirst(stack', stack)
  BY FinishCellShape DEF Known
<1>2. PICK r : MemoState(r, Comp, c, "done", v) /\ IsMemo(comps', comps, r)
  BY FinishCellShape DEF Known
<1>3. Len(stack) > 0
  BY <1>1, NotIdle DEF FinishCell, Known
<1>4. /\ stack \in Seq(FrameType) /\ comps \in Seq(ComputerType) /\ disk \in Disks
      /\ Top = stack[Len(stack)] /\ Top.comp = Len(comps) /\ Comp = comps[Len(comps)]
      /\ Comp \in ComputerType /\ Len(stack) \in Nat /\ Len(comps) \in Nat /\ Len(comps) > 0
  BY <1>3, TopTyped DEF Known
<1>5. comps' \in Seq(ComputerType) /\ SameWays(comps', comps, Len(comps)) /\ Len(comps') = Len(comps)
      /\ comps'[Len(comps)] = r /\ Way(r) = Way(Comp)
  BY <1>2, <1>4, MemoWays DEF MemoState, IsMemo
<1>6. Under.comp = Len(comps)
  <2>1. Len(stack) \in 2..Len(stack)
    BY <1>1, <1>4
  <2> QED BY <1>1, <1>4, <2>1 DEF Known, IInv, Placed, Under
<1>7. SameWays(comps', comps, Under.comp)
  BY <1>5, <1>6
<1>8. v = Meaning(disk)[<<w, c>>]
  <2>1. Top.got = Worth(disk, w, Top.items)
    BY <1>1, <1>3, DoneKnown
  <2>2. Top.items = disk[w.path][c].args /\ w \in Entered
    BY <1>1, <1>3, TopKnown DEF Told
  <2> HIDE DEF c, w
  <2> QED BY <1>1, <1>4, <2>1, <2>2, CellMeaning DEF Known
<1>9. v = OperandMeaning(disk, Meaning(disk), Way(comps[Under.comp]), NextOf(Under))
  <2>1. NextOf(Under) = Local(c)
    BY <1>1, <1>7, UnderKnown DEF Awaits
  <2>2. Way(comps[Under.comp]) = w
    BY <1>4, <1>6
  <2> HIDE DEF v, w, c
  <2> QED BY <1>8, <2>1, <2>2, LocalMeaning
<1> HIDE DEF v
<1>10. Memo(disk, comps', stack')
  <2> SUFFICES ASSUME NEW k \in 1..Len(comps), NEW b \in Cells
               PROVE  /\ comps'[k].phase[b] = "done" =>
                           comps'[k].cache[b] = Meaning(disk)[<<Way(comps'[k]), b>>]
                      /\ comps'[k].phase[b] = "visiting" => IsVisited(stack', k, b)
    BY <1>5 DEF Memo
  <2>1. Memo(disk, comps, stack) /\ Way(comps'[k]) = Way(comps[k])
    BY <1>3, <1>5, TopKnown DEF SameWays
  <2>2. CASE k = Len(comps) /\ b = c
    <3>1. comps'[k].phase[b] = "done" /\ comps'[k].cache[b] = v
      BY <1>1, <1>2, <1>4, <1>5, <2>2 DEF MemoState, ComputerType
    <3>2. Way(comps'[k]) = w
      BY <1>5, <2>2
    <3> QED BY <1>8, <2>2, <3>1, <3>2
  <2>3. CASE ~(k = Len(comps) /\ b = c)
    <3>1. comps'[k].phase[b] = comps[k].phase[b] /\ comps'[k].cache[b] = comps[k].cache[b]
      <4>1. CASE k = Len(comps)
        BY <1>2, <1>4, <1>5, <2>3, <4>1 DEF MemoState, ComputerType
      <4>2. CASE k # Len(comps)
        <5>1. k \in 1..(Len(comps) - 1)
          BY <1>4, <4>2
        <5> QED BY <1>2, <5>1 DEF IsMemo
      <4> QED BY <4>1, <4>2
    <3>2. comps[k].phase[b] = "done" => comps[k].cache[b] = Meaning(disk)[<<Way(comps[k]), b>>]
      BY <2>1 DEF Memo
    <3>3. comps[k].phase[b] = "visiting" => IsVisited(stack, k, b)
      BY <2>1, VisitingFrame
    <3>4. IsVisited(stack, k, b) => IsVisited(stack', k, b)
      BY <1>1, <1>4, <2>3, VisitedBelow
    <3> QED BY <2>1, <3>1, <3>2, <3>3, <3>4
  <2> QED BY <2>2, <2>3
<1> HIDE DEF c, w
<1> QED BY <1>1, <1>7, <1>9, <1>10, PopSound

\* A file that was read gives what its reader awaits.
LEMMA LeaveSound ==
  ASSUME Known, Leave
  PROVE  Stays
<1> DEFINE v == Total(Top.got)
<1>1. /\ Read /\ Len(stack) > 1 /\ v \in Value
      /\ IsLeft(comps', comps) /\ Under.comp = Len(comps) - 1
      /\ IsBelow(Below, stack) /\ IsGiven(stack', Below, v) /\ SameFirst(stack', stack)
  BY LeaveShape DEF Known, Under
<1>2. Len(stack) > 0 /\ Top.role = "entry" /\ ~Asking
  BY <1>1, NotIdle DEF Read, Known
<1>3. /\ stack \in Seq(FrameType) /\ Top = stack[Len(stack)] /\ Top.comp = Len(comps)
      /\ Len(comps) \in Nat
  BY <1>2, TopTyped DEF Known
<1>4. SameWays(comps', comps, Under.comp)
  BY <1>1 DEF IsLeft, SameWays
<1>5. v = OperandMeaning(disk, Meaning(disk), Way(comps[Under.comp]), NextOf(Under))
  <2>1. Top.got = Worth(disk, Way(Comp), Top.items)
    BY <1>2, DoneKnown
  <2>2. OperandMeaning(disk, Meaning(disk), Way(comps[Under.comp]), NextOf(Under))
          = Total(Worth(disk, Way(Comp), Top.items))
    BY <1>1, <1>2, <1>4, UnderKnown DEF Awaits
  <2> QED BY <2>1, <2>2
<1> HIDE DEF v
<1>6. Memo(disk, comps', stack')
  <2> SUFFICES ASSUME NEW k \in 1..Len(comps'), NEW b \in Cells
               PROVE  /\ comps'[k].phase[b] = "done" =>
                           comps'[k].cache[b] = Meaning(disk)[<<Way(comps'[k]), b>>]
                      /\ comps'[k].phase[b] = "visiting" => IsVisited(stack', k, b)
    BY DEF Memo
  <2>1. k \in 1..Len(comps) /\ k # Len(comps) /\ comps'[k] = comps[k]
    BY <1>1, <1>3 DEF IsLeft
  <2>2. Memo(disk, comps, stack)
    BY <1>2, TopKnown
  <2>3. comps[k].phase[b] = "done" => comps[k].cache[b] = Meaning(disk)[<<Way(comps[k]), b>>]
    BY <2>1, <2>2 DEF Memo
  <2>4. comps[k].phase[b] = "visiting" => IsVisited(stack, k, b)
    BY <2>1, <2>2, VisitingFrame
  <2>5. IsVisited(stack, k, b) => IsVisited(stack', k, b)
    BY <1>1, <1>3, <2>1, VisitedBelow
  <2> QED BY <2>1, <2>3, <2>4, <2>5
<1> QED BY <1>1, <1>4, <1>5, <1>6, PopSound

-----------------------------------------------------------------------------

\* What the frame below a call whose arguments are evaluated awaits.
LEMMA CallKnown ==
  ASSUME Known, Called, Len(stack) > 1, IsBelow(Below, stack), SameWays(comps', comps, Under.comp)
  PROVE  LET w == Way(Comp) IN
         /\ Under.comp = Len(comps) /\ Way(comps[Under.comp]) = w /\ w \in Entered
         /\ NextOf(Under).op = "sheet" /\ Len(Under.got) < Len(Under.items)
         /\ Top.got = AtomMeanings(Meaning(disk), w, NextOf(Under).args)
         /\ Resolve[w.path][NextOf(Under).file] = Top.of
         /\ Top.of \in Paths /\ Top.of # None /\ Top.of \notin w.visiting
         /\ OutputCells(Top.of) = {c \in Cells : disk[Top.of][c].call = "output"}
<1> DEFINE w == Way(Comp)
<1>1. Len(stack) > 0 /\ Top.role = "call" /\ Top.of \in Paths \ Comp.visiting /\ ~Asking
  BY CalledTyped DEF Known
<1>2. /\ stack \in Seq(FrameType) /\ Top = stack[Len(stack)] /\ Top.comp = Len(comps)
      /\ Comp = comps[Len(comps)] /\ Len(stack) \in Nat
  BY <1>1, TopTyped DEF Known
<1>3. w \in Entered /\ w.path = Comp.path /\ w.visiting = Comp.visiting
  BY <1>1, TopKnown
<1>4. Under.comp = Len(comps)
  <2>1. Len(stack) \in 2..Len(stack)
    BY <1>2
  <2> QED BY <1>1, <1>2, <2>1 DEF Known, IInv, Placed, Under
<1>5. /\ Len(Under.got) < Len(Under.items) /\ NextOf(Under).op = "sheet"
      /\ NextOf(Under).args = Top.items
      /\ Resolve[Way(comps[Under.comp]).path][NextOf(Under).file] = Top.of
      /\ Under \in FrameType
  BY <1>1, UnderKnown DEF Awaits
<1>6. Top.items \in Seq(Atom)
  <2>1. Under.items \in Seq(Operand) /\ Under.got \in Seq(Value)
    BY <1>5, FrameTyped
  <2>2. Len(Under.got) + 1 \in DOMAIN Under.items
    BY <1>5, <2>1
  <2>3. NextOf(Under) \in Operand
    BY <2>1, <2>2 DEF NextOf
  <2> QED BY <1>5, <2>3, OperandShape
<1>7. Top.got = AtomMeanings(Meaning(disk), w, NextOf(Under).args)
  BY <1>1, <1>5, <1>6, DoneKnown, AtomsWorth
<1>8. Way(comps[Under.comp]) = w
  BY <1>2, <1>4
<1>9. Top.of # None /\ Top.of \notin w.visiting /\ Top.of \in Paths
  BY <1>1, <1>3, PathsAssumption
<1>10. OutputCells(Top.of) = {c \in Cells : disk[Top.of][c].call = "output"}
  BY DEF OutputCells
<1> HIDE DEF w
<1>11. Resolve[w.path][NextOf(Under).file] = Top.of
  BY <1>5, <1>8
<1> QED BY <1>3, <1>4, <1>5, <1>7, <1>8, <1>9, <1>10, <1>11 DEF w

OutputsOf(d, q) == {c \in Cells : d[q][c].call = "output"}

\* x is a SHEET call that goes to q, which may be entered.
CallsFile(w, x, q) ==
  x.op = "sheet" /\ Resolve[w.path][x.file] = q /\ q # None /\ q \notin w.visiting

\* The cell c of q, entered with what the arguments of the call x mean.
SheetPlace(m, w, x, q, c) ==
  <<EnteredAs(q, w.visiting \cup {q}, AtomMeanings(m, w, x.args)), c>>

\* A SHEET call means what the only OUTPUT cell of its file does.
LEMMA SheetMeaning ==
  ASSUME NEW d, NEW m, NEW w, NEW x, NEW q, CallsFile(w, x, q),
         NEW c \in Cells, OutputsOf(d, q) = {c}
  PROVE  OperandMeaning(d, m, w, x) = m[SheetPlace(m, w, x, q, c)]
<1> DEFINE place == EnteredAs(q, w.visiting \cup {q}, AtomMeanings(m, w, x.args))
           outputs == OutputsOf(d, q)
<1>1. OperandMeaning(d, m, w, x) = IF \E b \in Cells : outputs = {b}
                                   THEN m[<<place, CHOOSE b \in outputs : TRUE>>]
                                   ELSE Error("#REF!")
  BY DEF OperandMeaning, OutputsOf, CallsFile
<1> HIDE DEF outputs, place
<1>2. (CHOOSE b \in outputs : TRUE) = c
  BY DEF outputs
<1>3. \E b \in Cells : outputs = {b}
  BY DEF outputs
<1>4. OperandMeaning(d, m, w, x) = m[<<place, c>>]
  BY <1>1, <1>2, <1>3
<1> QED BY <1>4 DEF place, SheetPlace

LEMMA NoSheetMeaning ==
  ASSUME NEW d, NEW m, NEW w, NEW x, NEW q, CallsFile(w, x, q),
         ~\E c \in Cells : OutputsOf(d, q) = {c}
  PROVE  OperandMeaning(d, m, w, x) = Error("#REF!")
BY DEF OperandMeaning, OutputsOf, CallsFile

LEMMA EnterSheetSound ==
  ASSUME IsFiniteSet(Paths), Known, EnterSheet
  PROVE  Stays
<1> DEFINE c == OutputCell(Top.of)
           w == Way(Comp)
           v == EnteredAs(Top.of, Comp.visiting \cup {Top.of}, Top.got)
<1>1. /\ Called /\ Len(stack) > 1 /\ IsBelow(Below, stack) /\ SameFirst(stack', stack)
      /\ c \in Cells /\ OutputCells(Top.of) = {c}
  BY EnterSheetShape DEF Known
<1>2. PICK x : IsChild(x, Top.of, Top.got) /\ IsEntered(comps', comps, x)
  BY EnterSheetShape DEF Known
<1>3. PICK f : IsPushed(stack', Below, f) /\ IsNew(f, "entry", None, Len(comps) + 1, <<Local(c)>>)
  BY EnterSheetShape DEF Known
<1>4. Len(stack) > 0 /\ Top.got \in Seq(Value) /\ Top.of \in Paths
  BY <1>1, CalledTyped DEF Known
<1>5. /\ stack \in Seq(FrameType) /\ comps \in Seq(ComputerType) /\ Len(comps) \in Nat
      /\ Comp = comps[Len(comps)] /\ Len(comps) > 0 /\ Len(stack) \in Nat
      /\ Top = stack[Len(stack)] /\ Top.comp = Len(comps) /\ disk \in Disks
  BY <1>4, TopTyped DEF Known
<1>6. SameWays(comps', comps, Len(comps)) /\ comps'[Len(comps) + 1] = x
  BY <1>2, EnteredWays DEF IsEntered
<1>7. Under.comp = Len(comps)
  <2>1. Len(stack) \in 2..Len(stack) /\ Top.role = "call"
    BY <1>1, <1>5 DEF Called
  <2> QED BY <1>5, <2>1 DEF Known, IInv, Placed, Under
<1>8. SameWays(comps', comps, Under.comp)
  BY <1>6, <1>7
<1>9. /\ Len(Below) > 0 /\ Below \in Seq(FrameType) /\ Below[Len(Below)] = Under
      /\ Faithful(disk, comps', Below) /\ Way(comps'[Under.comp]) = Way(comps[Under.comp])
      /\ SameWays(comps', comps, stack[1].comp) /\ Len(Below) = Len(stack) - 1
      /\ \A i \in 1..Len(Below) : Below[i] = stack[i]
  BY <1>1, <1>8, UnderKnown
<1>10. /\ Way(comps[Under.comp]) = w /\ w \in Entered
       /\ NextOf(Under).op = "sheet" /\ Len(Under.got) < Len(Under.items)
       /\ Top.got = AtomMeanings(Meaning(disk), w, NextOf(Under).args)
       /\ Resolve[w.path][NextOf(Under).file] = Top.of
       /\ Top.of # None /\ Top.of \notin w.visiting
       /\ OutputCells(Top.of) = OutputsOf(disk, Top.of)
  BY <1>1, <1>8, CallKnown DEF OutputsOf
<1>11. w.visiting = Comp.visiting
  BY <1>4, TopKnown
<1>12. f.role = "entry" /\ f.comp = Len(comps) + 1 /\ f.items = <<Local(c)>>
  BY <1>3 DEF IsNew
<1>13. Way(comps'[f.comp]) = v
  BY <1>2, <1>6, <1>12 DEF IsChild
<1>14. v \in Entered
  BY <1>4, <1>10, <1>11, EnteredShape
<1>15. Meaning(disk)[<<v, c>>] \in Value
  BY <1>1, <1>5, <1>14, CellMeaning DEF Known
<1>16. OperandMeaning(disk, Meaning(disk), w, NextOf(Under)) = Total(Worth(disk, v, f.items))
  <2>1. OperandMeaning(disk, Meaning(disk), w, NextOf(Under)) = Meaning(disk)[<<v, c>>]
    <3> DEFINE y == NextOf(Under)
               m == Meaning(disk)
               q == Top.of
    <3>1. <<v, c>> = SheetPlace(m, w, y, q, c)
      BY <1>10, <1>11 DEF SheetPlace
    <3>2. OutputsOf(disk, q) = {c}
      BY <1>1, <1>10
    <3>5. c \in Cells
      BY <1>1
    <3>3. CallsFile(w, y, q)
      BY <1>10 DEF CallsFile
    <3> HIDE DEF c, w, v, y, m, q
    <3>4. OperandMeaning(disk, m, w, y) = m[SheetPlace(m, w, y, q, c)]
      BY <3>2, <3>3, <3>5, SheetMeaning
    <3> QED BY <3>1, <3>4 DEF m, y
  <2>2. Worth(disk, v, <<Local(c)>>) = <<Meaning(disk)[<<v, c>>]>>
    <3> DEFINE items == <<Local(c)>>
               z == Meaning(disk)[<<v, c>>]
    <3>1. DOMAIN items = {1} /\ items[1] = Local(c)
      OBVIOUS
    <3>2. OperandMeaning(disk, Meaning(disk), v, Local(c)) = z
      BY LocalMeaning
    <3> HIDE DEF items, z, v, c
    <3>3. Worth(disk, v, items) = [i \in {1} |-> z]
      BY <3>1, <3>2 DEF Worth
    <3>4. [i \in {1} |-> z] = <<z>>
      OBVIOUS
    <3> QED BY <3>3, <3>4 DEF items, z
  <2> HIDE DEF v, c, w
  <2> QED BY <1>12, <1>15, <2>1, <2>2, TotalOfOne
<1> HIDE DEF v
<1>17. Told(disk, Way(comps'[f.comp]), f)
  <2>1. <<Local(c)>> \in Seq(Operand) /\ Timeless(<<Local(c)>>)
    <3>1. Local(c) \in Operand /\ Local(c).op = "cell"
      BY <1>1 DEF Local, Operand, Atom
    <3> HIDE DEF c
    <3> QED BY <3>1 DEF Timeless
  <2>2. "entry" # "cell"
    OBVIOUS
  <2> HIDE DEF c
  <2> QED BY <1>3, <2>1, <2>2, NewTold
<1>18. Awaits(disk, Way(comps'[Under.comp]), Under, Way(comps'[f.comp]), f)
  BY <1>9, <1>10, <1>12, <1>13, <1>16 DEF Awaits
<1>19. (\A i \in 1..Len(Below) : Before(Below[i], f)) /\ Before(f, f)
  <2>1. (\A i \in 1..Len(stack) : Before(stack[i], f)) /\ Before(f, f)
    BY <1>4, <1>12, EntryBefore
  <2>2. \A i \in 1..Len(Below) : i \in 1..Len(stack)
    BY <1>5, <1>9
  <2> QED BY <1>9, <2>1, <2>2
<1> HIDE DEF c, w
<1>20. Faithful(disk, comps', stack')
  BY <1>3, <1>9, <1>17, <1>18, <1>19, PushFaithful
<1>21. ServedArgs(disk, request, comps', stack')
  BY <1>1, <1>4, <1>9, ServedStays
<1>22. Memo(disk, comps', stack')
  <2>1. Memo(disk, comps, stack) /\ \A b \in Cells : x.phase[b] = "unvisited"
    BY <1>2, <1>4, TopKnown DEF IsChild
  <2>2. ASSUME NEW k \in 1..Len(comps), NEW b \in Cells, IsVisited(stack, k, b)
        PROVE  IsVisited(stack', k, b)
    <3>1. PICK i \in 1..Len(stack) : stack[i].role = "cell" /\ stack[i].comp = k /\ stack[i].of = b
      BY <2>2 DEF IsVisited
    <3>2. i # Len(stack)
      BY <1>1, <1>5, <3>1 DEF Called
    <3>3. i \in 1..Len(Below) /\ Below[i] = stack[i]
      BY <1>5, <1>9, <3>2
    <3>4. IsVisited(Below, k, b)
      BY <3>1, <3>3 DEF IsVisited
    <3> QED BY <1>3, <1>9, <3>4, VisitedPushed
  <2> QED BY <1>2, <1>5, <2>1, <2>2, MemoEntered
<1> QED BY <1>20, <1>21, <1>22 DEF Stays, Known, Sound

LEMMA NoOutputSound ==
  ASSUME Known, NoOutput
  PROVE  Stays
<1> DEFINE w == Way(Comp)
<1>1. /\ Called /\ Len(stack) > 1 /\ comps' = comps
      /\ ~\E c \in Cells : OutputCells(Top.of) = {c}
      /\ IsBelow(Below, stack) /\ IsGiven(stack', Below, Error("#REF!")) /\ SameFirst(stack', stack)
  BY NoOutputShape DEF Known
<1>2. Len(stack) > 0 /\ Top.role = "call"
  BY <1>1, CalledTyped DEF Known
<1>3. stack \in Seq(FrameType) /\ Top = stack[Len(stack)] /\ Memo(disk, comps, stack)
  BY <1>2, TopTyped, TopKnown DEF Known
<1>4. SameWays(comps', comps, Under.comp)
  BY <1>1 DEF SameWays
<1>5. /\ Way(comps[Under.comp]) = w
      /\ NextOf(Under).op = "sheet"
      /\ Resolve[w.path][NextOf(Under).file] = Top.of
      /\ Top.of # None /\ Top.of \notin w.visiting
      /\ OutputCells(Top.of) = OutputsOf(disk, Top.of)
  BY <1>1, <1>4, CallKnown DEF OutputsOf
<1> HIDE DEF w
<1>6. Error("#REF!") = OperandMeaning(disk, Meaning(disk), Way(comps[Under.comp]), NextOf(Under))
  <2> DEFINE y == NextOf(Under)
             m == Meaning(disk)
  <2>1. ~\E c \in Cells : OutputsOf(disk, Top.of) = {c}
    BY <1>1, <1>5
  <2>2. CallsFile(w, y, Top.of)
    BY <1>5 DEF CallsFile
  <2> HIDE DEF y, m
  <2>3. OperandMeaning(disk, m, w, y) = Error("#REF!")
    BY <2>1, <2>2, NoSheetMeaning, Zenon
  <2> QED BY <1>5, <2>3 DEF m, y
<1>7. Memo(disk, comps', stack')
  <2>1. \A k, c : IsVisited(stack, k, c) => IsVisited(stack', k, c)
    BY <1>1, <1>2, <1>3, ErrorValues, VisitedBelow
  <2> QED BY <1>1, <1>3, <2>1 DEF Memo
<1> QED BY <1>1, <1>4, <1>6, <1>7, ErrorValues, PopSound

LEMMA SingleFaithful ==
  ASSUME NEW d, NEW cs, NEW f \in FrameType, Told(d, Way(cs[f.comp]), f), Before(f, f)
  PROVE  Faithful(d, cs, <<f>>)
<1> DEFINE t == <<f>>
<1>1. Len(t) = 1 /\ t[1] = f
  OBVIOUS
<1>2. 1..1 = {1} /\ 2..1 = {}
  OBVIOUS
<1> HIDE DEF t
<1> QED BY <1>1, <1>2 DEF Faithful, t

LEMMA WholeTyped == WholeFile \in Seq(Operand) /\ Timeless(WholeFile)
<1>1. Order \in Seq(Cells)
  BY OrderAssumption
<1> QED BY <1>1, LocalsTyped, LocalsTimeless DEF WholeFile

\* The first frame of a file that is read whole.
LEMMA WholeSound ==
  ASSUME NEW d, NEW cs, NEW k, NEW f, IsNew(f, "entry", None, k, WholeFile)
  PROVE  Faithful(d, cs, <<f>>)
<1>1. f \in FrameType /\ f.role = "entry"
  BY DEF IsNew
<1>2. Told(d, Way(cs[f.comp]), f)
  <2>1. "entry" # "cell"
    OBVIOUS
  <2> QED BY <2>1, WholeTyped, NewTold
<1>3. Before(f, f)
  BY <1>1 DEF Before
<1> QED BY <1>1, <1>2, <1>3, SingleFaithful

LEMMA EnterGridSound ==
  ASSUME Known, EnterGrid
  PROVE  Stays
<1> DEFINE c == request.cell
           args == SheetOf(disk, c).args
<1>1. /\ Called /\ Len(stack) = 1 /\ Len(comps) = 1 /\ request.name = "nested"
      /\ Top.of = Target(disk, c) /\ Shows(disk, c) /\ Top.items = args
      /\ Way(Comp) = RootWay /\ Top = stack[1]
  BY EnterGridShape DEF Known
<1>2. PICK x : IsChild(x, Top.of, Top.got) /\ IsEntered(comps', comps, x)
  BY EnterGridShape DEF Known
<1>3. PICK f : stack' = <<f>> /\ IsNew(f, "entry", None, 2, WholeFile)
  BY EnterGridShape DEF Known
<1>4. Len(stack) > 0 /\ Top.role = "call" /\ ~Asking
  BY <1>1, CalledTyped DEF Known
<1>5. comps \in Seq(ComputerType) /\ disk \in Disks
  BY <1>4, TopTyped DEF Known
<1>6. Faithful(disk, comps', stack')
  BY <1>3, WholeSound
<1>7. comps'[2].args = Inputs(disk, c)
  <2>1. args \in Seq(Atom)
    BY <1>1, <1>5, SheetShape DEF Shows
  <2>2. Top.got = Worth(disk, RootWay, args)
    BY <1>1, <1>4, DoneKnown
  <2>3. Worth(disk, RootWay, args) = AtomMeanings(Meaning(disk), RootWay, args)
    BY <2>1, AtomsWorth
  <2>4. Top.got = Inputs(disk, c)
    BY <2>2, <2>3 DEF Inputs
  <2>5. comps'[2] = x
    BY <1>1, <1>2 DEF IsEntered
  <2>6. x.args = Top.got
    BY <1>2 DEF IsChild, Way, EnteredAs
  <2> QED BY <2>4, <2>5, <2>6
<1>8. ServedArgs(disk, request, comps', stack')
  BY <1>7 DEF ServedArgs
<1>9. Memo(disk, comps', stack')
  <2>1. Memo(disk, comps, stack) /\ \A b \in Cells : x.phase[b] = "unvisited"
    BY <1>2, <1>4, TopKnown DEF IsChild
  <2>2. \A k, b : ~IsVisited(stack, k, b)
    BY <1>1, <1>4 DEF IsVisited
  <2> QED BY <1>2, <1>5, <2>1, <2>2, MemoEntered
<1> QED BY <1>6, <1>8, <1>9 DEF Stays, Known, Sound

\* What is read from a whole file is what its cells mean.
LEMMA ReturnKnown ==
  ASSUME Known, Return
  PROVE  \A c \in Cells : Top.got[Pos(c)] = Meaning(disk)[<<Way(Comp), c>>]
<1> SUFFICES ASSUME NEW c \in Cells PROVE Top.got[Pos(c)] = Meaning(disk)[<<Way(Comp), c>>]
  OBVIOUS
<1>1. Len(stack) = 1 /\ Top.items = WholeFile /\ Pos(c) \in 1..Len(Top.got)
  BY ReturnShape DEF Known
<1>2. Told(disk, Way(Comp), Top)
  BY <1>1, TopKnown
<1>3. Top.got[Pos(c)] = OperandMeaning(disk, Meaning(disk), Way(Comp), Top.items[Pos(c)])
  BY <1>1, <1>2 DEF Told
<1>4. WholeFile[Pos(c)] = Local(c)
  BY PosOf DEF WholeFile
<1> QED BY <1>1, <1>3, <1>4, LocalMeaning

LEMMA NothingSound ==
  ASSUME NEW d
  PROVE  Faithful(d, <<>>, <<>>) /\ Memo(d, <<>>, <<>>)
<1>1. Len(<<>>) = 0 /\ 1..0 = {} /\ 2..0 = {}
  OBVIOUS
<1> QED BY <1>1 DEF Faithful, Memo

LEMMA ReturnSound ==
  ASSUME Known, Return
  PROVE  Sound(disk, request, comps', stack', grid', nested')
<1> DEFINE values == [c \in Cells |-> Top.got[Pos(c)]]
           w == Way(Comp)
<1>1. comps' = <<>> /\ stack' = <<>> /\ Len(stack) = 1 /\ Top = stack[1] /\ Top.role = "entry"
  BY ReturnShape DEF Known
<1>2. Faithful(disk, comps', stack') /\ Memo(disk, comps', stack')
  BY <1>1, NothingSound
<1>3. ServedArgs(disk, request, comps', stack')
  <2>1. Len(stack') = 0
    BY <1>1
  <2> QED BY <2>1 DEF ServedArgs
<1>4. \A c \in Cells : values[c] = Meaning(disk)[<<w, c>>]
  BY ReturnKnown
<1>5. Answered(disk, grid, nested)
  BY DEF Known, Sound
<1>6. \/ request.name = "compute" /\ nested' = nested /\ w = RootWay /\ grid' = values
      \/ /\ request.name = "nested" /\ grid' = grid /\ Shows(disk, request.cell)
         /\ Top.comp = 2 /\ Comp.path = Target(disk, request.cell)
         /\ Comp.visiting = {Root} \cup {Target(disk, request.cell)}
         /\ nested' = [cell |-> request.cell, path |-> Comp.path, grid |-> values]
  BY ReturnShape DEF Known
<1> HIDE DEF values
<1>7. CASE request.name = "compute" /\ nested' = nested /\ w = RootWay /\ grid' = values
  <2>1. Answered(disk, grid', nested')
    BY <1>4, <1>5, <1>7 DEF Answered
  <2> QED BY <1>2, <1>3, <2>1 DEF Sound
<1>8. CASE /\ request.name = "nested" /\ grid' = grid /\ Shows(disk, request.cell)
           /\ Top.comp = 2 /\ Comp.path = Target(disk, request.cell)
           /\ Comp.visiting = {Root} \cup {Target(disk, request.cell)}
           /\ nested' = [cell |-> request.cell, path |-> Comp.path, grid |-> values]
  <2>1. Comp = comps[2]
    BY <1>8 DEF Comp
  <2>2. Comp.args = Inputs(disk, request.cell)
    BY <1>1, <1>8, <2>1 DEF Known, Sound, ServedArgs
  <2>3. w = NestedWay(disk, request.cell)
    BY <1>8, <2>2 DEF NestedWay, Way
  <2> HIDE DEF w
  <2>4. nested'.cell = request.cell /\ nested'.path = Target(disk, request.cell) /\ nested'.grid = values
    BY <1>8
  <2>5. Answered(disk, grid', nested')
    BY <1>4, <1>5, <1>8, <2>3, <2>4 DEF Answered
  <2> QED BY <1>2, <1>3, <2>5 DEF Sound
<1> QED BY <1>6, <1>7, <1>8

LEMMA StartMemo ==
  ASSUME NEW d, NEW cs, NEW st, Len(cs) = 1, cs[1].phase = [c \in Cells |-> "unvisited"]
  PROVE  Memo(d, cs, st)
<1>1. \A k \in 1..Len(cs) : \A c \in Cells : cs[k].phase[c] = "unvisited"
  OBVIOUS
<1> QED BY <1>1 DEF Memo

LEMMA ComputeSound ==
  ASSUME Typed, Answered(disk, grid, nested), Compute
  PROVE  disk' = disk /\ Sound(disk, request', comps', stack', grid', nested')
<1>1. PICK f : /\ IsStart(tick + 1, f) /\ IsNew(f, "entry", None, 1, WholeFile)
               /\ disk' = disk /\ tick' = tick + 1 /\ request'.name = "compute"
               /\ request' = [name |-> "compute", cell |-> None]
               /\ grid' = None /\ nested' = nested
  BY ComputeShape
<1>2. f \in FrameType /\ stack' = <<f>>
  BY <1>1 DEF IsNew, IsStart
<1>3. Len(comps') = 1 /\ comps'[1].phase = [c \in Cells |-> "unvisited"]
  BY <1>1, <1>2, StartShape
<1>4. Faithful(disk, comps', stack') /\ Memo(disk, comps', stack')
  BY <1>1, <1>2, <1>3, WholeSound, StartMemo
<1>5. ServedArgs(disk, request', comps', stack')
  BY <1>1 DEF ServedArgs
<1>6. Answered(disk, grid', nested')
  BY <1>1 DEF Answered
<1> QED BY <1>1, <1>4, <1>5, <1>6 DEF Sound

LEMMA EmbeddedGridSound ==
  ASSUME Typed, Grounded(disk), Answered(disk, grid, nested), NEW c \in Cells, EmbeddedGrid(c)
  PROVE  disk' = disk /\ Sound(disk, request', comps', stack', grid', nested')
<1> DEFINE args == SheetOf(disk, c).args
<1>1. PICK f : /\ IsStart(0, f) /\ IsNew(f, "call", Target(disk, c), 1, args)
               /\ Shows(disk, c)
               /\ disk' = disk /\ tick' = tick /\ request'.name = "nested" /\ request'.cell = c
               /\ request' = [name |-> "nested", cell |-> c]
               /\ grid' = grid /\ nested' = None
  BY EmbeddedGridShape
<1>2. f \in FrameType /\ stack' = <<f>> /\ f.role = "call" /\ f.items = args
  BY <1>1 DEF IsNew, IsStart
<1>3. Len(comps') = 1 /\ comps'[1].phase = [b \in Cells |-> "unvisited"] /\ stack'[1] = f
  BY <1>1, <1>2, StartShape
<1>4. disk \in Disks
  BY DEF Typed, TypeOK
<1>5. args \in Seq(Operand) /\ Timeless(args)
  <2> DEFINE x == SheetOf(disk, c)
  <2>1. x.op = "sheet" /\ x \in Operand /\ args \in Seq(Operand)
        /\ disk[Root][c].args \in Seq(Operand) /\ Len(disk[Root][c].args) = 1
    BY <1>1, <1>4, SheetShape DEF Shows
  <2>2. 1 \in DOMAIN disk[Root][c].args /\ x = disk[Root][c].args[1]
    BY <2>1 DEF SheetOf
  <2>3. OperandAfter(c, x)
    BY <1>4, <2>2, PathsAssumption, GroundedAfter
  <2> HIDE DEF x
  <2>4. \A i \in DOMAIN x.args : OperandAfter(c, x.args[i])
    BY <2>1, <2>3, ArgAfter
  <2>5. Timeless(x.args)
    BY <2>4, AfterTimeless
  <2> QED BY <2>1, <2>5 DEF x
<1>6. Told(disk, Way(comps'[f.comp]), f) /\ Before(f, f)
  <2>1. "call" # "cell"
    OBVIOUS
  <2>2. Before(f, f)
    BY <1>2 DEF Before
  <2> HIDE DEF args
  <2>3. Told(disk, Way(comps'[f.comp]), f)
    BY <1>1, <1>5, <2>1, NewTold
  <2> QED BY <2>2, <2>3
<1>7. Faithful(disk, comps', stack') /\ Memo(disk, comps', stack')
  BY <1>2, <1>3, <1>6, SingleFaithful, StartMemo
<1>8. ServedArgs(disk, request', comps', stack')
  BY <1>2, <1>3 DEF ServedArgs
<1>9. Answered(disk, grid', nested')
  BY <1>1 DEF Answered
<1> QED BY <1>1, <1>7, <1>8, <1>9 DEF Sound

LEMMA InitSound == Init => SInv
<1> SUFFICES ASSUME Init PROVE Sound(disk, request, comps, stack, grid, nested)
  BY DEF SInv
<1>1. Faithful(disk, comps, stack) /\ Memo(disk, comps, stack)
  BY NothingSound DEF Init
<1>2. ServedArgs(disk, request, comps, stack) /\ Answered(disk, grid, nested)
  BY DEF Init, ServedArgs, Answered
<1> QED BY <1>1, <1>2 DEF Sound

LEMMA StaysSound ==
  ASSUME Stays, UNCHANGED Aside
  PROVE  SInv'
<1>1. disk' = disk /\ request' = request /\ grid' = grid /\ nested' = nested
  BY DEF Aside
<1> QED BY <1>1 DEF Stays, SInv

LEMMA StepSound ==
  ASSUME IsFiniteSet(Paths)
  PROVE  IInv /\ Typed /\ SInv /\ [Next]_vars => SInv'
<1> SUFFICES ASSUME IInv, Typed, SInv, [Next]_vars
             PROVE  SInv'
  OBVIOUS
<1>1. CASE UNCHANGED vars
  BY <1>1 DEF vars, SInv
<1>2. CASE Next
  <2>1. disk' = disk
    BY <1>2 DEF Next, Step, Compute, EmbeddedGrid, TakeValue, TakeTick, TakeInput, LoadFails, LoadCycle,
               ReadDone, ReadVisiting, ReadUnvisited, FinishCell, OpenForeign, CallSheet,
               EnterSheet, NoOutput, EnterGrid, Leave, Return, Answer
  <2> SUFFICES ASSUME Grounded(disk) PROVE SInv'
    BY <2>1 DEF SInv
  <2>2. Known /\ Answered(disk, grid, nested)
    BY DEF Known, SInv, Sound
  <2>3. CASE \/ TakeValue \/ TakeTick \/ TakeInput \/ LoadFails \/ LoadCycle
             \/ \E c \in Cells : ReadDone(c) \/ ReadVisiting(c)
    <3>1. Stays
      BY <2>2, <2>3, AnswersSound
    <3>2. UNCHANGED Aside
      BY <2>3 DEF Answer, Aside, TakeValue, TakeTick, TakeInput, LoadFails, LoadCycle, ReadDone, ReadVisiting
    <3> QED BY <3>1, <3>2, StaysSound
  <2>4. ASSUME NEW c \in Cells, ReadUnvisited(c) PROVE SInv'
    <3>1. UNCHANGED Aside
      BY <2>4 DEF ReadUnvisited, Aside
    <3> QED BY <2>2, <2>4, <3>1, ReadUnvisitedSound, StaysSound
  <2>5. CASE FinishCell
    <3>1. UNCHANGED Aside
      BY <2>5 DEF FinishCell, Aside
    <3> QED BY <2>2, <2>5, <3>1, FinishCellSound, StaysSound
  <2>6. CASE OpenForeign \/ CallSheet
    <3>1. UNCHANGED Aside
      BY <2>6 DEF OpenForeign, CallSheet, Aside
    <3> QED BY <2>2, <2>6, <3>1, OpenForeignSound, CallSheetSound, StaysSound
  <2>7. CASE EnterSheet \/ NoOutput \/ EnterGrid
    <3>1. UNCHANGED Aside
      BY <2>7 DEF EnterSheet, NoOutput, EnterGrid, Aside
    <3> QED BY <2>2, <2>7, <3>1, EnterSheetSound, NoOutputSound, EnterGridSound, StaysSound
  <2>8. CASE Leave
    <3>1. UNCHANGED Aside
      BY <2>8 DEF Leave, Aside
    <3> QED BY <2>2, <2>8, <3>1, LeaveSound, StaysSound
  <2>9. CASE Return
    <3>1. disk' = disk /\ request' = request
      BY <2>9 DEF Return
    <3> QED BY <2>2, <2>9, <3>1, ReturnSound DEF SInv
  <2>10. CASE Compute
    BY <2>1, <2>2, <2>10, ComputeSound DEF SInv
  <2>11. ASSUME NEW c \in Cells, EmbeddedGrid(c) PROVE SInv'
    BY <2>1, <2>2, <2>11, EmbeddedGridSound DEF SInv
  <2> QED BY <1>2, <2>3, <2>4, <2>5, <2>6, <2>7, <2>8, <2>9, <2>10, <2>11 DEF Next, Step
<1> QED BY <1>1, <1>2

\* What the evaluations, the memos and the grids hold is what the files mean.
THEOREM EmbedSoundness ==
  ASSUME IsFiniteSet(Paths)
  PROVE  Spec => [](IInv /\ Typed /\ SInv)
<1>1. Init => IInv /\ Typed /\ SInv
  BY InitIInv, InitTyped, InitSound
<1>2. (IInv /\ Typed /\ SInv) /\ [Next]_vars => (IInv /\ Typed /\ SInv)'
  BY StepIInv, StepTypes, StepSound
<1> QED BY <1>1, <1>2, PTL DEF Spec

\* A value in the memo of a computer is the meaning of its cell in its file as it was
\* entered, whatever else the pass has read and wherever it is interrupted.
THEOREM EmbedCacheIsMeaning ==
  ASSUME IsFiniteSet(Paths)
  PROVE  Spec => []CacheIsMeaning
<1>1. IInv /\ Typed /\ SInv => CacheIsMeaning
  <2> SUFFICES ASSUME IInv, Typed, SInv, Grounded(disk), NEW k \in DOMAIN comps, NEW c \in Cells,
                      comps[k].phase[c] = "done"
               PROVE  comps[k].cache[c]
                        = Meaning(disk)[<<EnteredAs(comps[k].path, {comps[j].path : j \in 1..k},
                                                    comps[k].args), c>>]
    BY DEF CacheIsMeaning
  <2>1. k \in 1..Len(comps)
    BY DEF Typed, TypeOK
  <2>2. Memo(disk, comps, stack)
    BY DEF SInv, Sound
  <2>3. comps[k].cache[c] = Meaning(disk)[<<Way(comps[k]), c>>]
    BY <2>1, <2>2 DEF Memo
  <2>4. comps[k].visiting = {comps[j].path : j \in 1..k}
    BY <2>1 DEF IInv, Nested
  <2> QED BY <2>3, <2>4 DEF Way
<1> QED BY <1>1, EmbedSoundness, PTL

\* The value of a cell that is a SHEET call is the one the grid shown inside it has
\* in its only OUTPUT cell, though the two are computed in different passes.
THEOREM EmbedNestedGridAgrees ==
  ASSUME IsFiniteSet(Paths)
  PROVE  Spec => []NestedGridAgrees
<1>1. IInv /\ Typed /\ SInv => NestedGridAgrees
  <2> DEFINE outputs == {c \in Cells : disk[nested.path][c].call = "output"}
             b == nested.cell
             q == nested.path
             x == SheetOf(disk, b)
             m == Meaning(disk)
  <2> SUFFICES ASSUME IInv, Typed, SInv, Grounded(disk), grid # None, nested # None
               PROVE  grid[b] = IF \E c \in Cells : outputs = {c}
                                THEN nested.grid[CHOOSE c \in outputs : TRUE] ELSE Error("#REF!")
    BY DEF NestedGridAgrees
  <2>1. /\ \A c \in Cells : grid[c] = m[<<RootWay, c>>]
        /\ Shows(disk, b) /\ q = Target(disk, b)
        /\ \A c \in Cells : nested.grid[c] = m[<<NestedWay(disk, b), c>>]
    BY DEF SInv, Sound, Answered
  <2>2. disk \in Disks /\ b \in Cells /\ q \in Paths /\ \A c \in Cells : nested.grid[c] \in Value
    BY DEF Typed, TypeOK
  <2>3. x.op = "sheet" /\ disk[Root][b].args \in Seq(Operand) /\ Len(disk[Root][b].args) = 1
    BY <2>1, <2>2, SheetShape DEF Shows
  <2>4. disk[Root][b].args = <<x>>
    BY <2>3 DEF SheetOf
  <2>5. RootWay \in Entered /\ RootWay.path = Root /\ RootWay.visiting = {Root}
    <3>1. Root \in Paths /\ {Root} \in SUBSET Paths /\ <<>> \in Seq(Value)
      BY PathsAssumption
    <3> QED BY <3>1 DEF RootWay, EnteredAs, Entered
  <2>6. CallsFile(RootWay, x, q) /\ outputs = OutputsOf(disk, q)
    <3>1. q # Root /\ q # None /\ Resolve[Root][x.file] = q
      BY <2>1, <2>2, PathsAssumption DEF Shows, Target
    <3> QED BY <2>3, <2>5, <3>1 DEF CallsFile, OutputsOf
  <2>7. \A c \in Cells : SheetPlace(m, RootWay, x, q, c) = <<NestedWay(disk, b), c>>
    BY <2>1, <2>5 DEF SheetPlace, NestedWay, Inputs
  <2>8. grid[b] = Total(Worth(disk, RootWay, <<x>>))
    <3> HIDE DEF x, q, b, outputs
    <3>1. grid[b] = Meaning(disk)[<<RootWay, b>>]
      BY <2>1, <2>2 DEF m
    <3>2. Meaning(disk)[<<RootWay, b>>] = Total(Worth(disk, RootWay, disk[RootWay.path][b].args))
      BY <2>2, <2>5, CellMeaning
    <3>3. disk[RootWay.path][b].args = <<x>>
      BY <2>4, <2>5
    <3> QED BY <3>1, <3>2, <3>3
  <2> DEFINE z == OperandMeaning(disk, m, RootWay, x)
  <2>9. Worth(disk, RootWay, <<x>>) = <<z>>
    <3> DEFINE items == <<x>>
    <3>1. DOMAIN items = {1} /\ items[1] = x
      OBVIOUS
    <3> HIDE DEF items, x
    <3>2. Worth(disk, RootWay, items) = [i \in {1} |-> z]
      BY <3>1 DEF Worth
    <3> HIDE DEF z
    <3>3. [i \in {1} |-> z] = <<z>>
      OBVIOUS
    <3> QED BY <3>2, <3>3 DEF items
  <2> HIDE DEF outputs, x, m, q, b
  <2>10. ASSUME NEW c \in Cells, outputs = {c}
         PROVE  z = nested.grid[c] /\ (CHOOSE a \in outputs : TRUE) = c
    <3>1. OperandMeaning(disk, m, RootWay, x) = m[SheetPlace(m, RootWay, x, q, c)]
      <4>1. OutputsOf(disk, q) = {c} /\ CallsFile(RootWay, x, q)
        BY <2>6, <2>10
      <4> QED BY <4>1, SheetMeaning
    <3> QED BY <2>1, <2>7, <2>10, <3>1
  <2>11. CASE \E c \in Cells : outputs = {c}
    <3>1. PICK c \in Cells : outputs = {c}
      BY <2>11
    <3>2. z = nested.grid[c] /\ (CHOOSE a \in outputs : TRUE) = c /\ z \in Value
      BY <2>2, <2>10, <3>1
    <3> HIDE DEF z
    <3>3. grid[b] = z
      BY <2>8, <2>9, <3>2, TotalOfOne
    <3> QED BY <2>11, <3>2, <3>3
  <2>12. CASE ~\E c \in Cells : outputs = {c}
    <3>1. z = Error("#REF!")
      BY <2>6, <2>12, NoSheetMeaning
    <3> HIDE DEF z
    <3>2. grid[b] = z
      BY <2>8, <2>9, <3>1, ErrorValues, TotalOfOne
    <3> QED BY <2>12, <3>1, <3>2
  <2> QED BY <2>11, <2>12
<1> QED BY <1>1, EmbedSoundness, PTL

-----------------------------------------------------------------------------
(***************************************************************************)
(* Whatever the sheet and its arrays, rendering never writes outside the   *)
(* output and never writes over the content of a cell, and where arrays    *)
(* overlap the last one is seen.                                           *)
(***************************************************************************)

\* What SheetsAssumption says of a sheet.
IsSheet(s) ==
  /\ Len(s) \in Nat /\ DOMAIN s = 1..Len(s)
  /\ \A r \in DOMAIN s : /\ Len(s[r]) \in Nat /\ DOMAIN s[r] = 1..Len(s[r])
                         /\ \A c \in DOMAIN s[r] : IsCell(s[r][c])

\* The addresses of a sheet are those of its cells.
LEMMA AddressOfCell ==
  ASSUME NEW s, IsSheet(s), NEW at \in Addresses(s)
  PROVE  /\ at.row \in Nat /\ at.col \in Nat
         /\ at = At(at.row, at.col)
         /\ InSheet(s, at) /\ IsCell(CellAt(s, at))
<1>1. PICK r \in DOMAIN s : at \in {At(r - 1, c - 1) : c \in DOMAIN s[r]}
  BY DEF Addresses
<1>2. PICK c \in DOMAIN s[r] : at = At(r - 1, c - 1)
  BY <1>1
<1>3. r \in Nat /\ r >= 1 /\ c \in Nat /\ c >= 1
  BY <1>1, <1>2 DEF IsSheet
<1>4. at.row = r - 1 /\ at.col = c - 1
  BY <1>2 DEF At
<1>5. at.row + 1 = r /\ at.col + 1 = c /\ at.row \in Nat /\ at.col \in Nat
  BY <1>3, <1>4
<1>6. IsCell(s[r][c])
  BY <1>1, <1>2 DEF IsSheet
<1> QED BY <1>1, <1>2, <1>4, <1>5, <1>6 DEF InSheet, CellAt

LEMMA AnchorHasArray ==
  ASSUME NEW s, IsSheet(s), NEW at \in Anchors(s)
  PROVE  /\ at \in Addresses(s)
         /\ IsArray(CellAt(s, at))
<1>1. at \in Addresses(s) /\ CellAt(s, at).kind = "array"
  BY DEF Anchors
<1>2. IsCell(CellAt(s, at))
  BY <1>1, AddressOfCell
<1> QED BY <1>1, <1>2 DEF IsCell

-----------------------------------------------------------------------------
(***************************************************************************)
(* The extent of the output.                                               *)
(***************************************************************************)

LEMMA AddressesFinite ==
  ASSUME NEW s, IsSheet(s)
  PROVE  IsFiniteSet(Addresses(s)) /\ IsFiniteSet(Anchors(s))
<1> DEFINE RowOf(r) == {At(r - 1, c - 1) : c \in DOMAIN s[r]}
<1>1. ASSUME NEW r \in DOMAIN s  PROVE IsFiniteSet(RowOf(r))
  <2>1. DOMAIN s[r] = 1..Len(s[r]) /\ Len(s[r]) \in Nat
    BY DEF IsSheet
  <2> DEFINE f == [c \in 1..Len(s[r]) |-> At(r - 1, c - 1)]
  <2>2. IsFiniteSet(1..Len(s[r]))
    BY <2>1, FS_Interval
  <2>3. f \in Surjection(1..Len(s[r]), RowOf(r))
    BY <2>1 DEF Surjection
  <2> QED BY <2>2, <2>3, FS_Surjection
<1> DEFINE R == {RowOf(r) : r \in DOMAIN s}
<1>2. IsFiniteSet(R)
  <2>1. DOMAIN s = 1..Len(s) /\ Len(s) \in Nat
    BY DEF IsSheet
  <2> DEFINE f == [r \in 1..Len(s) |-> RowOf(r)]
  <2>2. IsFiniteSet(1..Len(s))
    BY <2>1, FS_Interval
  <2>3. f \in Surjection(1..Len(s), R)
    BY <2>1 DEF Surjection
  <2> QED BY <2>2, <2>3, FS_Surjection
<1>3. Addresses(s) = UNION R
  BY DEF Addresses
<1>4. IsFiniteSet(UNION R)
  BY <1>1, <1>2, FS_UNION
<1>5. Anchors(s) \subseteq Addresses(s)
  BY DEF Anchors
<1> QED BY <1>3, <1>4, <1>5, FS_Subset

\* A finite non-empty set of numbers has a greatest member, and Max names it.
LEMMA MaxIsGreatest ==
  ASSUME NEW S \in SUBSET Nat, IsFiniteSet(S), S # {}
  PROVE  Max(S) \in S /\ \A j \in S : j <= Max(S)
<1> DEFINE Above(i) == {j \in S : j > i}
           T == {Above(i) : i \in S}
<1>1. IsWellFoundedOn(StrictSubsetOrdering(S), FiniteSubsetsOf(S))
  BY FS_StrictSubsetOrderingWellFounded
<1>2. T \subseteq FiniteSubsetsOf(S) /\ T # {}
  <2>1. \A i : Above(i) \in SUBSET S
    OBVIOUS
  <2>2. \A i : Above(i) \in FiniteSubsetsOf(S)
    BY <2>1, FS_Subset DEF FiniteSubsetsOf
  <2> HIDE DEF Above
  <2> QED BY <2>2
<1>3. PICK X \in T : \A Y \in T : <<Y, X>> \notin StrictSubsetOrdering(S)
  <2> HIDE DEF T
  <2> QED BY <1>1, <1>2, WFMin
<1>4. PICK i \in S : X = Above(i)
  BY <1>3
<1>5. ASSUME NEW k \in S, k > i  PROVE FALSE
  <2>1. k \in Above(i) /\ k \notin Above(k) /\ Above(k) \subseteq Above(i) /\ Above(i) \subseteq S
    <3>1. \A j \in S : j \in Nat
      OBVIOUS
    <3>2. ~(k > k) /\ \A j \in S : j > k => j > i
      BY <1>5, <3>1
    <3> QED BY <1>5, <3>2
  <2>2. <<Above(k), Above(i)>> \in StrictSubsetOrdering(S)
    BY <2>1 DEF StrictSubsetOrdering
  <2> QED BY <1>3, <1>4, <2>2
<1> HIDE DEF Above, T
<1>6. \A k \in S : i >= k
  BY <1>5
<1> QED BY <1>6 DEF Max

\* The image of a finite set of addresses, when it is made of numbers, is bounded by Max.
LEMMA ExtentProperties ==
  ASSUME NEW s, IsSheet(s)
  PROVE  /\ Rows(s) \in Nat /\ Cols(s) \in Nat
         /\ Len(s) <= Rows(s)
         /\ \A r \in DOMAIN s : Len(s[r]) <= Cols(s)
         /\ \A at \in Anchors(s) : /\ at.row + CellAt(s, at).height <= Rows(s)
                                   /\ at.col + CellAt(s, at).width <= Cols(s)
<1> DEFINE A == Anchors(s)
           H == {at.row + CellAt(s, at).height : at \in A}
           W == {at.col + CellAt(s, at).width : at \in A}
           L == {Len(s[r]) : r \in DOMAIN s}
<1>1. ASSUME NEW at \in A
      PROVE  at.row + CellAt(s, at).height \in Nat /\ at.col + CellAt(s, at).width \in Nat
  BY AnchorHasArray, AddressOfCell DEF IsArray
<1>2. IsFiniteSet(A)
  BY AddressesFinite
<1>3. IsFiniteSet(H)
  <2> DEFINE f == [at \in A |-> at.row + CellAt(s, at).height]
  <2>1. f \in Surjection(A, H)
    BY DEF Surjection
  <2> QED BY <1>2, <2>1, FS_Surjection
<1>4. IsFiniteSet(W)
  <2> DEFINE f == [at \in A |-> at.col + CellAt(s, at).width]
  <2>1. f \in Surjection(A, W)
    BY DEF Surjection
  <2> QED BY <1>2, <2>1, FS_Surjection
<1>5. DOMAIN s = 1..Len(s) /\ Len(s) \in Nat /\ \A r \in DOMAIN s : Len(s[r]) \in Nat
  BY DEF IsSheet
<1>6. IsFiniteSet(L)
  <2> DEFINE f == [r \in 1..Len(s) |-> Len(s[r])]
  <2>1. f \in Surjection(1..Len(s), L)
    BY <1>5 DEF Surjection
  <2>2. IsFiniteSet(1..Len(s))
    BY <1>5, FS_Interval
  <2> QED BY <2>1, <2>2, FS_Surjection
<1>7. /\ IsFiniteSet({Len(s)} \cup H) /\ {Len(s)} \cup H # {}
      /\ ({Len(s)} \cup H) \in SUBSET Nat
  <2>1. IsFiniteSet({Len(s)} \cup H)
    BY <1>3, FS_Singleton, FS_Union
  <2>2. H \subseteq Nat
    BY <1>1
  <2> QED BY <1>5, <2>1, <2>2
<1>8. /\ IsFiniteSet({0} \cup L \cup W) /\ {0} \cup L \cup W # {}
      /\ ({0} \cup L \cup W) \in SUBSET Nat
  <2>1. IsFiniteSet({0} \cup L)
    BY <1>6, FS_Singleton, FS_Union
  <2>2. IsFiniteSet({0} \cup L \cup W)
    BY <1>4, <2>1, FS_Union
  <2>3. L \subseteq Nat /\ W \subseteq Nat
    BY <1>1, <1>5
  <2> QED BY <2>2, <2>3
<1>9. Rows(s) = Max({Len(s)} \cup H) /\ Cols(s) = Max({0} \cup L \cup W)
  BY DEF Rows, Cols
<1>10. Rows(s) \in {Len(s)} \cup H /\ \A j \in {Len(s)} \cup H : j <= Rows(s)
  BY <1>7, <1>9, MaxIsGreatest
<1>11. Cols(s) \in {0} \cup L \cup W /\ \A j \in {0} \cup L \cup W : j <= Cols(s)
  BY <1>8, <1>9, MaxIsGreatest
<1> QED BY <1>7, <1>8, <1>10, <1>11
-----------------------------------------------------------------------------
(***************************************************************************)
(* The invariant.                                                          *)
(***************************************************************************)

\* A cell with a text or a formula shows what is its own.
ShowsOwn(s, at, text) ==
  \/ CellAt(s, at).kind = "literal" /\ CellAt(s, at).text = Blank
  \/ text = ScalarText(s, at)
  \/ at \in Anchors(s) /\ SpillBlocked(s, at) /\ text = SpillError

Output(s) == [0..(Rows(s) - 1) -> [0..(Cols(s) - 1) -> Text]]

RenderInv == /\ sheet \in Sheets
             /\ RenderTypeOK
             /\ \A at \in Addresses(sheet) : ShowsOwn(sheet, at, out[at.row][at.col])

\* The cells of a sheet are cells of its output.
LEMMA AddressInOutput ==
  ASSUME NEW s, IsSheet(s), NEW at \in Addresses(s)
  PROVE  at.row \in 0..(Rows(s) - 1) /\ at.col \in 0..(Cols(s) - 1)
<1>1. at.row \in Nat /\ at.col \in Nat /\ at.row + 1 \in DOMAIN s /\ at.col + 1 \in DOMAIN s[at.row + 1]
  BY AddressOfCell DEF InSheet
<1>2. at.row + 1 <= Len(s) /\ at.col + 1 <= Len(s[at.row + 1])
  BY <1>1 DEF IsSheet
<1>3. /\ Len(s) \in Nat /\ Len(s) <= Rows(s) /\ Rows(s) \in Nat
      /\ Len(s[at.row + 1]) \in Nat /\ Len(s[at.row + 1]) <= Cols(s) /\ Cols(s) \in Nat
  BY <1>1, ExtentProperties DEF IsSheet
<1> QED BY <1>1, <1>2, <1>3

\* So are those an array is to be written to, and it has a text for each of them.
LEMMA TargetInOutput ==
  ASSUME NEW s, IsSheet(s), NEW at \in Anchors(s), NEW t \in Area(s, at)
  PROVE  /\ t.row \in 0..(Rows(s) - 1) /\ t.col \in 0..(Cols(s) - 1)
         /\ Element(s, at, t) \in Text
<1>1. at.row \in Nat /\ at.col \in Nat /\ IsArray(CellAt(s, at))
  BY AnchorHasArray, AddressOfCell
<1>2. /\ t.row \in at.row..(at.row + CellAt(s, at).height - 1)
      /\ t.col \in at.col..(at.col + CellAt(s, at).width - 1)
  BY DEF Area
<1>3. /\ at.row + CellAt(s, at).height <= Rows(s) /\ Rows(s) \in Nat
      /\ at.col + CellAt(s, at).width <= Cols(s) /\ Cols(s) \in Nat
  BY ExtentProperties
<1>4. CellAt(s, at).height \in Nat /\ CellAt(s, at).width \in Nat
  BY <1>1 DEF IsArray
<1>5. t.row - at.row \in 0..(CellAt(s, at).height - 1) /\ t.col - at.col \in 0..(CellAt(s, at).width - 1)
  BY <1>1, <1>2, <1>4
<1>6. Element(s, at, t) \in Text
  BY <1>1, <1>5 DEF Element, IsArray
<1> QED BY <1>1, <1>2, <1>3, <1>4, <1>6

\* An array's own anchor is the first cell of its target.
LEMMA AnchorInTarget ==
  ASSUME NEW s, IsSheet(s), NEW at \in Anchors(s)
  PROVE  at \in Area(s, at)
<1>1. at.row \in Nat /\ at.col \in Nat /\ at = At(at.row, at.col) /\ IsArray(CellAt(s, at))
  BY AnchorHasArray, AddressOfCell
<1>2. at.row \in at.row..(at.row + CellAt(s, at).height - 1) /\ at.col \in at.col..(at.col + CellAt(s, at).width - 1)
  BY <1>1 DEF IsArray
<1>3. At(at.row, at.col) \in Area(s, at)
  BY <1>2 DEF Area, At
<1> QED BY <1>1, <1>3

LEMMA ScalarTextType ==
  ASSUME NEW s, IsSheet(s), NEW at, at.row \in Nat, at.col \in Nat, at = At(at.row, at.col)
  PROVE  ScalarText(s, at) \in Text
<1>1. CASE ~InSheet(s, at)
  BY <1>1, TextAssumption DEF ScalarText
<1>2. CASE InSheet(s, at)
  <2>1. IsCell(CellAt(s, at))
    BY <1>2 DEF IsSheet, InSheet, CellAt
  <2>2. at \in Addresses(s)
    <3>1. at = At((at.row + 1) - 1, (at.col + 1) - 1)
      OBVIOUS
    <3> QED BY <1>2, <3>1 DEF Addresses, InSheet
  <2>3. CASE CellAt(s, at).kind = "array"
    <3>1. at \in Anchors(s)
      BY <2>2, <2>3 DEF Anchors
    <3>2. Element(s, at, at) \in Text
      BY <3>1, AnchorInTarget, TargetInOutput
    <3> QED BY <1>2, <2>3, <3>2 DEF ScalarText
  <2>4. CASE CellAt(s, at).kind # "array"
    <3>1. CellAt(s, at).text \in Text
      BY <2>1, <2>4 DEF IsCell, IsArray
    <3> QED BY <1>2, <2>4, <3>1 DEF ScalarText
  <2> QED BY <2>3, <2>4
<1> QED BY <1>1, <1>2

-----------------------------------------------------------------------------
(***************************************************************************)
(* One array is dealt with.                                                *)
(***************************************************************************)

LEMMA SpilledType ==
  ASSUME NEW s, IsSheet(s), NEW at \in Anchors(s), NEW texts \in Output(s)
  PROVE  Spilled(s, at, texts) \in Output(s)
<1>1. CASE SpillBlocked(s, at)
  <2>1. [texts EXCEPT ![at.row][at.col] = SpillError] \in Output(s)
    BY TextAssumption DEF Output
  <2> QED BY <1>1, <2>1 DEF Spilled
<1>2. CASE ~SpillBlocked(s, at)
  <2> DEFINE now == [r \in DOMAIN texts |-> [c \in DOMAIN texts[r] |->
                       IF At(r, c) \in Area(s, at) THEN Element(s, at, At(r, c)) ELSE texts[r][c]]]
  <2>1. \A t \in Area(s, at) : Element(s, at, t) \in Text
    BY TargetInOutput
  <2>2. now \in Output(s)
    BY <2>1 DEF Output
  <2> QED BY <1>2, <2>2 DEF Spilled
<1> QED BY <1>1, <1>2

LEMMA SpilledShowsOwn ==
  ASSUME NEW s, IsSheet(s), NEW at \in Anchors(s), NEW texts \in Output(s),
         NEW b \in Addresses(s), ShowsOwn(s, b, texts[b.row][b.col])
  PROVE  ShowsOwn(s, b, Spilled(s, at, texts)[b.row][b.col])
<1>1. b.row \in 0..(Rows(s) - 1) /\ b.col \in 0..(Cols(s) - 1) /\ b = At(b.row, b.col)
  BY AddressInOutput, AddressOfCell
<1>2. /\ at.row \in 0..(Rows(s) - 1) /\ at.col \in 0..(Cols(s) - 1) /\ at = At(at.row, at.col)
      /\ at \in Addresses(s)
  BY AddressInOutput, AddressOfCell, AnchorHasArray
<1>3. /\ DOMAIN texts = 0..(Rows(s) - 1)
      /\ \A r \in DOMAIN texts : DOMAIN texts[r] = 0..(Cols(s) - 1)
  BY DEF Output
<1>4. CASE SpillBlocked(s, at)
  <2>1. Spilled(s, at, texts) = [texts EXCEPT ![at.row][at.col] = SpillError]
    BY <1>4 DEF Spilled
  <2>2. CASE b = at
    <3>1. at.row \in DOMAIN texts /\ at.col \in DOMAIN texts[at.row]
      BY <1>2, <1>3
    <3>2. Spilled(s, at, texts)[at.row][at.col] = SpillError
      BY <2>1, <3>1
    <3> QED BY <1>4, <2>2, <3>2 DEF ShowsOwn
  <2>3. CASE b # at
    <3>1. b.row # at.row \/ b.col # at.col
      BY <1>1, <1>2, <2>3
    <3>2. Spilled(s, at, texts)[b.row][b.col] = texts[b.row][b.col]
      BY <1>1, <1>3, <2>1, <3>1
    <3> QED BY <3>2
  <2> QED BY <2>2, <2>3
<1>5. CASE ~SpillBlocked(s, at)
  <2>1. Spilled(s, at, texts)[b.row][b.col] =
          IF b \in Area(s, at) THEN Element(s, at, b) ELSE texts[b.row][b.col]
    BY <1>1, <1>3, <1>5 DEF Spilled
  <2>2. CASE b \notin Area(s, at)
    BY <2>1, <2>2
  <2>3. CASE b = at
    <3>1. Element(s, at, b) = ScalarText(s, b)
      BY <1>2, <2>3, AddressOfCell DEF ScalarText, Anchors
    <3>2. b \in Area(s, at)
      BY <2>3, AnchorInTarget
    <3> QED BY <2>1, <3>1, <3>2 DEF ShowsOwn
  <2>4. CASE b \in Area(s, at) /\ b # at
    <3>1. IsEmptyCell(s, b) /\ InSheet(s, b)
      BY <1>5, <2>4, AddressOfCell DEF SpillBlocked
    <3> QED BY <3>1 DEF IsEmptyCell, ShowsOwn
  <2> QED BY <2>2, <2>3, <2>4
<1> QED BY <1>4, <1>5

-----------------------------------------------------------------------------

LEMMA SheetIsSheet == \A s \in Sheets : IsSheet(s)
BY SheetsAssumption DEF IsSheet

\* Every step of the rendering keeps the output a rectangle of texts, and every
\* cell with content in sight.
THEOREM SpillInvariance == RenderSpec => []RenderInv
<1>1. RenderInit => RenderInv
  <2> SUFFICES ASSUME RenderInit  PROVE RenderInv
    OBVIOUS
  <2>1. sheet \in Sheets /\ IsSheet(sheet) /\ out = FillScalars(sheet) /\ spilled = {}
    BY SheetIsSheet DEF RenderInit
  <2>2. \A r \in 0..(Rows(sheet) - 1), c \in 0..(Cols(sheet) - 1) : ScalarText(sheet, At(r, c)) \in Text
    <3>1. TAKE r \in 0..(Rows(sheet) - 1), c \in 0..(Cols(sheet) - 1)
    <3>2. r \in Nat /\ c \in Nat
      BY <2>1, ExtentProperties
    <3>3. At(r, c).row = r /\ At(r, c).col = c
      BY DEF At
    <3> QED BY <2>1, <3>2, <3>3, ScalarTextType
  <2>3. out \in Output(sheet)
    BY <2>1, <2>2 DEF FillScalars, Output
  <2>4. ASSUME NEW at \in Addresses(sheet)
        PROVE  ShowsOwn(sheet, at, out[at.row][at.col])
    <3>1. /\ at.row \in 0..(Rows(sheet) - 1) /\ at.col \in 0..(Cols(sheet) - 1)
          /\ at = At(at.row, at.col)
      BY <2>1, AddressInOutput, AddressOfCell
    <3>2. out[at.row][at.col] = ScalarText(sheet, at)
      BY <2>1, <3>1 DEF FillScalars
    <3> QED BY <3>2 DEF ShowsOwn
  <2> QED BY <2>1, <2>3, <2>4 DEF RenderInv, RenderTypeOK, Output
<1>2. RenderInv /\ [RenderNext]_renderVars => RenderInv'
  <2> SUFFICES ASSUME RenderInv, [RenderNext]_renderVars  PROVE RenderInv'
    OBVIOUS
  <2>1. sheet \in Sheets /\ IsSheet(sheet) /\ out \in Output(sheet)
    BY SheetIsSheet DEF RenderInv, RenderTypeOK, Output
  <2>2. CASE RenderNext
    <3>1. PICK at \in Anchors(sheet) : SpillNext(at)
      BY <2>2 DEF RenderNext
    <3>2. /\ sheet' = sheet /\ out' = Spilled(sheet, at, out)
          /\ spilled' = spilled \cup {at}
      BY <3>1 DEF SpillNext
    <3>3. out' \in Output(sheet)
      BY <2>1, <3>2, SpilledType
    <3>4. ASSUME NEW b \in Addresses(sheet)
          PROVE  ShowsOwn(sheet, b, out'[b.row][b.col])
      <4>1. ShowsOwn(sheet, b, out[b.row][b.col])
        BY DEF RenderInv
      <4> QED BY <2>1, <3>2, <4>1, SpilledShowsOwn
    <3>5. spilled' \subseteq Anchors(sheet)
      BY <3>2 DEF RenderInv, RenderTypeOK
    <3> QED BY <2>1, <3>2, <3>3, <3>4, <3>5 DEF RenderInv, RenderTypeOK, Output
  <2>3. CASE UNCHANGED renderVars
    BY <2>3 DEF RenderInv, RenderTypeOK, renderVars
  <2> QED BY <2>2, <2>3
<1> QED BY <1>1, <1>2, PTL DEF RenderSpec

\* Whatever the arrays and wherever they are anchored, spill never indexes past
\* the output outputExtent sized.
THEOREM NoWriteOutOfRange == RenderSpec => []TargetsInRange
<1>1. RenderInv => TargetsInRange
  <2> SUFFICES ASSUME RenderInv, NEW at \in Anchors(sheet), NEW t \in Area(sheet, at)
               PROVE  t.row \in DOMAIN out /\ t.col \in DOMAIN out[t.row]
    BY DEF TargetsInRange
  <2>1. IsSheet(sheet) /\ out \in Output(sheet)
    BY SheetIsSheet DEF RenderInv, RenderTypeOK, Output
  <2>2. t.row \in 0..(Rows(sheet) - 1) /\ t.col \in 0..(Cols(sheet) - 1)
    BY <2>1, TargetInOutput
  <2> QED BY <2>1, <2>2 DEF Output
<1> QED BY <1>1, SpillInvariance, PTL

\* No spill ever hides a literal or the value of a formula, at any step of the
\* rendering of any sheet.
THEOREM NothingWrittenOver == RenderSpec => []ContentSurvives
<1>1. RenderInv => ContentSurvives
  BY DEF RenderInv, ContentSurvives, ShowsOwn, Shown
<1> QED BY <1>1, SpillInvariance, PTL

-----------------------------------------------------------------------------
(***************************************************************************)
(* What is seen where arrays meet.                                         *)
(***************************************************************************)

\* The text the arrays dealt with so far leave in the cell t.
ShowsLast(t, text) ==
  IF t \in spilled /\ SpillBlocked(sheet, t) THEN text = SpillError
  ELSE IF Painters(t) = {} THEN text = ScalarText(sheet, t)
  ELSE \E at \in Painters(t) : /\ \A b \in Painters(t) : b = at \/ Precedes(b, at)
                               /\ text = Element(sheet, at, t)

\* Arrays are dealt with in row-major order: none that waits is before one that is done.
InOrder == \A a \in spilled : \A b \in Anchors(sheet) \ spilled : Precedes(a, b)

PaintInv == /\ InOrder
            /\ \A r \in DOMAIN out : \A c \in DOMAIN out[r] : ShowsLast(At(r, c), out[r][c])

\* Dealing with one array leaves it in front wherever it writes, the error where it
\* cannot, and what was there everywhere else.
LEMMA PaintStep ==
  ASSUME RenderInv, InOrder, NEW at \in Anchors(sheet) \ spilled,
         out' = Spilled(sheet, at, out), spilled' = spilled \cup {at}, sheet' = sheet,
         NEW r \in DOMAIN out, NEW c \in DOMAIN out[r], ShowsLast(At(r, c), out[r][c])
  PROVE  ShowsLast(At(r, c), out[r][c])'
<1>. DEFINE t == At(r, c)
<1>1. /\ IsSheet(sheet) /\ DOMAIN out = 0..(Rows(sheet) - 1)
      /\ \A k \in DOMAIN out : DOMAIN out[k] = 0..(Cols(sheet) - 1)
      /\ spilled \subseteq Anchors(sheet)
  BY SheetIsSheet DEF RenderInv, RenderTypeOK
<1>2. t.row = r /\ t.col = c
  BY DEF At
<1>3. /\ at \in Addresses(sheet) /\ at = At(at.row, at.col)
      /\ at.row \in DOMAIN out /\ at.col \in DOMAIN out[at.row]
      /\ at \in Area(sheet, at)
  BY <1>1, AnchorHasArray, AddressOfCell, AddressInOutput, AnchorInTarget
<1>4. CASE SpillBlocked(sheet, at)
  <2>1. out' = [out EXCEPT ![at.row][at.col] = SpillError]
    BY <1>4 DEF Spilled
  <2>2. Painters(t)' = Painters(t)
    BY <1>4 DEF Painters
  <2>3. CASE t = at
    <3>1. out'[r][c] = SpillError
      BY <1>2, <1>3, <2>1, <2>3
    <3>2. t \in spilled'
      BY <2>3
    <3>. QED  BY <1>4, <2>3, <3>1, <3>2 DEF ShowsLast
  <2>4. CASE t # at
    <3>1. r # at.row \/ c # at.col
      BY <1>3, <2>4
    <3>2. out'[r][c] = out[r][c]
      BY <1>1, <2>1, <3>1
    <3>3. t \in spilled' <=> t \in spilled
      BY <2>4
    <3>. HIDE DEF t
    <3>. QED  BY <2>2, <3>2, <3>3 DEF ShowsLast, t
  <2>. QED  BY <2>3, <2>4
<1>5. CASE ~SpillBlocked(sheet, at)
  <2>1. out'[r][c] = IF t \in Area(sheet, at) THEN Element(sheet, at, t) ELSE out[r][c]
    BY <1>5 DEF Spilled
  <2>2. CASE t \in Area(sheet, at)
    <3>1. Painters(t)' = Painters(t) \cup {at}
      BY <1>5, <2>2 DEF Painters
    <3>2. ~(t \in spilled' /\ SpillBlocked(sheet, t))
      <4>1. SUFFICES ASSUME t \in spilled, t # at PROVE FALSE
        BY <1>5
      <4>2. t \in Anchors(sheet)
        BY <1>1, <4>1
      <4>3. InSheet(sheet, t) /\ CellAt(sheet, t).kind = "array"
        BY <1>1, <4>2, AnchorHasArray, AddressOfCell DEF Anchors
      <4>4. IsEmptyCell(sheet, t)
        BY <1>5, <2>2, <4>1 DEF SpillBlocked
      <4>. QED  BY <4>3, <4>4 DEF IsEmptyCell
    <3>3. \A b \in Painters(t) : Precedes(b, at)
      BY DEF Painters, InOrder
    <3>4. out'[r][c] = Element(sheet, at, t)
      BY <2>1, <2>2
    <3>. HIDE DEF t
    <3>5. /\ at \in Painters(t)' /\ Painters(t)' # {}
          /\ \A b \in Painters(t)' : b = at \/ Precedes(b, at)
      BY <3>1, <3>3
    <3>. QED  BY <3>2, <3>4, <3>5 DEF ShowsLast, t
  <2>3. CASE t \notin Area(sheet, at)
    <3>1. Painters(t)' = Painters(t)
      BY <2>3 DEF Painters
    <3>2. t \in spilled' <=> t \in spilled
      BY <1>3, <2>3
    <3>3. out'[r][c] = out[r][c]
      BY <2>1, <2>3
    <3>. HIDE DEF t
    <3>. QED  BY <3>1, <3>2, <3>3 DEF ShowsLast, t
  <2>. QED  BY <2>2, <2>3
<1>. QED
  BY <1>4, <1>5

\* At every step of the rendering of any sheet, a cell that arrays have written shows
\* the last of them in row-major order, an array that is blocked shows the error, and
\* every other cell its own text; and no array is cut off at the edge of the output.
THEOREM LastArrayIsSeen == RenderSpec => []LastArrayWins
<1>1. RenderInit => PaintInv
  <2>. SUFFICES ASSUME RenderInit PROVE PaintInv
    OBVIOUS
  <2>1. spilled = {} /\ out = FillScalars(sheet)
    BY DEF RenderInit
  <2>2. ASSUME NEW r \in DOMAIN out, NEW c \in DOMAIN out[r]
        PROVE  ShowsLast(At(r, c), out[r][c])
    <3>1. out[r][c] = ScalarText(sheet, At(r, c))
      BY <2>1 DEF FillScalars
    <3>2. Painters(At(r, c)) = {} /\ At(r, c) \notin spilled
      BY <2>1 DEF Painters
    <3>. QED  BY <3>1, <3>2 DEF ShowsLast
  <2>. QED  BY <2>1, <2>2 DEF PaintInv, InOrder
<1>2. RenderInv /\ PaintInv /\ [RenderNext]_renderVars => PaintInv'
  <2>. SUFFICES ASSUME RenderInv, PaintInv, [RenderNext]_renderVars PROVE PaintInv'
    OBVIOUS
  <2>1. CASE RenderNext
    <3>1. PICK at \in Anchors(sheet) : SpillNext(at)
      BY <2>1 DEF RenderNext
    <3>2. /\ at \in Anchors(sheet) \ spilled
          /\ \A b \in Anchors(sheet) \ spilled : b = at \/ Precedes(at, b)
          /\ sheet' = sheet /\ out' = Spilled(sheet, at, out) /\ spilled' = spilled \cup {at}
      BY <3>1 DEF SpillNext
    <3>3. InOrder'
      BY <3>2 DEF PaintInv, InOrder
    <3>4. DOMAIN out' = DOMAIN out /\ \A r \in DOMAIN out : DOMAIN out'[r] = DOMAIN out[r]
      <4>1. IsSheet(sheet) /\ out \in Output(sheet)
        BY SheetIsSheet DEF RenderInv, RenderTypeOK, Output
      <4>2. out' \in Output(sheet)
        BY <3>2, <4>1, SpilledType
      <4>. QED  BY <4>1, <4>2 DEF Output
    <3>5. ASSUME NEW r \in DOMAIN out', NEW c \in DOMAIN out'[r]
          PROVE  ShowsLast(At(r, c), out[r][c])'
      <4>1. r \in DOMAIN out /\ c \in DOMAIN out[r]
        BY <3>4
      <4>2. ShowsLast(At(r, c), out[r][c])
        BY <4>1 DEF PaintInv
      <4>. QED  BY <3>2, <4>1, <4>2, PaintStep DEF PaintInv
    <3>. QED  BY <3>3, <3>5 DEF PaintInv
  <2>2. CASE UNCHANGED renderVars
    BY <2>2 DEF renderVars, PaintInv, InOrder, ShowsLast, Painters
  <2>. QED  BY <2>1, <2>2
<1>3. TargetsInRange /\ PaintInv => LastArrayWins
  BY DEF PaintInv, ShowsLast, LastArrayWins
<1>. QED
  BY <1>1, <1>2, <1>3, SpillInvariance, NoWriteOutOfRange, PTL DEF RenderSpec
=============================================================================
