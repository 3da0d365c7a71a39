--------------------------- MODULE EvaluatorProofs ---------------------------
(***************************************************************************)
(* Proofs about Evaluator, for every grid and every set of sheets.         *)
(*                                                                         *)
(* The invariants are not inductive alone.  That a memoized value is the   *)
(* meaning of its formula (Coherent) rests on how it was obtained: each    *)
(* frame must have faithful values so far, which holds because a cell that *)
(* answers #CIRC! lies below the asking frame on the stack, and the stack  *)
(* is a path of references, so the asking cell depends on itself.  The     *)
(* second part is what that comes to in the results of calls: the errors   *)
(* of a cycle, the refinement of Recalc, what Compute and Explain report,  *)
(* and what an edit changes.                                               *)
(***************************************************************************)
EXTENDS EvaluatorRefinement, EditImpact, FiniteSetTheorems, SequenceTheorems,
        WellFoundedInduction, TLAPS

(***************************************************************************)
(* Formulas.  The dialogue of Formula stays inside the formula, ends in a  *)
(* value, and computes what the formula means.                             *)
(***************************************************************************)

\* The values got are an initial part of an evaluation of f.
Dialogue(f, got) == \A k \in 1..Len(got) : WantsNth(f, got, k)

\* A formula (or the list of atoms of an API call, whose name is no operator)
\* wants its atoms from within itself.
LEMMA WantedInArgs ==
  ASSUME NEW f, NEW got \in Seq(Value),
         IsFormula(f) \/ (f.args \in Seq(Atom) /\ f.op \notin Op),
         Wants(f, got)
  PROVE  /\ Position(f, got, Len(got) + 1) \in DOMAIN f.args
         /\ Wanted(f, got) \in Atom
<1>1. f.args \in Seq(Atom)
  BY DEF IsFormula
<1>2. Len(got) \in Nat
  OBVIOUS
<1>3. Len(got) + 1 \in 1..Len(f.args)
  BY <1>1, <1>2 DEF Wants, WantsNth
<1>4. f.op = "if" => Len(f.args) = 3
  BY DEF IsFormula, Arity, Op
<1>5. Position(f, got, Len(got) + 1) \in 1..Len(f.args)
  BY <1>1, <1>2, <1>3, <1>4 DEF Position
<1>. QED
  BY <1>1, <1>5 DEF Wanted

\* One more value, when one is wanted, continues the dialogue.
LEMMA DialogueAppend ==
  ASSUME NEW f, NEW got \in Seq(Value), NEW v \in Value,
         Dialogue(f, got), Wants(f, got)
  PROVE  Dialogue(f, Append(got, v))
BY DEF Dialogue, Wants, WantsNth

\* Every non-empty set of natural numbers has a least element.
LEMMA LeastElement ==
  ASSUME NEW T \in SUBSET Nat, T # {}
  PROVE  \E m \in T : \A k \in T : m <= k
<1>. DEFINE Less == {p \in Nat \X Nat : p[1] < p[2]}
<1>1. IsWellFoundedOn(Less, Nat)
  BY NatLessThanWellFounded, Zenon DEF OpToRel
<1>2. \A i, j \in Nat : j < i => <<j, i>> \in Less
  OBVIOUS
<1>. HIDE DEF Less
<1>3. PICK m \in T : \A k \in T : <<k, m>> \notin Less
  BY <1>1, WFMin
<1>4. \A k \in T : k \in Nat /\ m \in Nat /\ ~(k < m)
  BY <1>2, <1>3
<1>5. \A k \in T : m <= k
  BY <1>4
<1>. QED
  BY <1>5

\* Among the values of an eager call that holds an error there is a first one.
LEMMA FirstErrorIsError ==
  ASSUME NEW got \in Seq(Value), HasError(got)
  PROVE  FirstError(got) \in Value /\ IsError(FirstError(got))
<1>. DEFINE T == {i \in DOMAIN got : IsError(got[i])}
<1>1. T \in SUBSET Nat /\ T # {}
  BY DEF HasError
<1>2. PICK i \in T : \A k \in T : i <= k
  <2>. HIDE DEF T
  <2>. QED  BY <1>1, LeastElement
<1>3. \A j \in DOMAIN got : j < i => ~IsError(got[j])
  BY <1>1, <1>2
<1>. QED
  BY <1>2, <1>3 DEF FirstError

\* An evaluation that wants no more atoms yields a value.
LEMMA ResultType ==
  ASSUME NEW f, IsFormula(f), NEW got \in Seq(Value), ~Wants(f, got)
  PROVE  Result(f, got) \in Value
<1>1. Len(got) \in Nat /\ \A i \in 1..Len(got) : got[i] \in Value
  OBVIOUS
<1>2. Len(got) >= 1
  BY <1>1 DEF Wants, WantsNth, IsFormula, Arity, Op
<1>3. \A e \in ErrorCode : Error(e) \in Value
  BY DEF Error, Value
<1>4. \A b : Bool(b) \in Value
  BY DEF Bool, Value
<1>5. CASE f.op = "and"
  BY <1>1, <1>4, <1>5, FirstErrorIsError DEF Result, AllTruthy
<1>6. CASE f.op = "add"
  <2>1. CASE HasError(got)
    BY <1>6, <2>1, FirstErrorIsError DEF Result
  <2>2. CASE ~HasError(got)
    <3>1. got[1] \in Value /\ ~IsError(got[1])
      BY <1>1, <1>2, <2>2 DEF HasError
    <3>0. Len(f.args) = 2
      BY <1>6 DEF IsFormula, Arity
    <3>2. Len(got) >= 2
      BY <1>1, <1>2, <1>6, <3>0, <3>1 DEF Wants, WantsNth
    <3>3. got[2] \in Value /\ ~IsError(got[2])
      BY <1>1, <2>2, <3>2 DEF HasError
    <3>4. \A v \in Value : AsNumber(v) \in Int
      BY DEF AsNumber, Value, IsNumeric, Empty, Text
    <3>5. \A n \in Int : Number(n) \in Value
      BY DEF Number, Value
    <3>6. AsNumber(got[1]) + AsNumber(got[2]) \in Int
      BY <3>1, <3>3, <3>4
    <3>7. Plus(got[1], got[2]) \in Value
      BY <1>3, <3>5, <3>6 DEF Plus, ErrorCode
    <3>. QED  BY <1>6, <2>2, <3>7 DEF Result
  <2>. QED  BY <2>1, <2>2
<1>7. CASE f.op = "ref"
  BY <1>1, <1>2, <1>3, <1>7 DEF Result, ErrorCode
<1>8. CASE f.op \notin {"and", "add", "ref"}
  BY <1>1, <1>2, <1>4, <1>8 DEF Result
<1>. QED
  BY <1>5, <1>6, <1>7, <1>8

\* The order and the laziness of evaluation are invisible in its result: an
\* evaluation whose every answer is the value env gives the atom asked for ends
\* in the meaning of the formula over env.
LEMMA ResultIsDenotation ==
  ASSUME NEW f, IsFormula(f), NEW got \in Seq(Value), NEW env,
         Dialogue(f, got), ~Wants(f, got),
         \A k \in 1..Len(got) : got[k] = AtomValue(f.args[Position(f, got, k)], env)
  PROVE  Result(f, got) = Denote(f, env)
<1>. DEFINE x == [i \in DOMAIN f.args |-> AtomValue(f.args[i], env)]
<1>1. /\ Len(f.args) \in Nat /\ DOMAIN f.args = 1..Len(f.args)
      /\ Len(got) \in Nat /\ DOMAIN got = 1..Len(got)
  BY DEF IsFormula
<1>2. Len(got) >= 1
  BY <1>1 DEF Wants, WantsNth, IsFormula, Arity, Op
<1>3. got[1] = x[1]
  BY <1>1, <1>2 DEF Position, IsFormula, Arity, Op
<1>4. CASE f.op \in {"literal", "ref", "iserror"}
  <2>1. CASE f.op = "iserror"
    <3>1. Result(f, got) = Bool(IsError(got[1])) /\ Denote(f, env) = Bool(IsError(x[1]))
      BY <2>1, Zenon DEF Result, Denote
    <3>. QED  BY <1>3, <3>1
  <2>2. CASE f.op \in {"literal", "ref"} /\ Len(f.args) <= 1
    <3>1. WantsNth(f, got, Len(got))
      BY <1>1, <1>2 DEF Dialogue
    <3>2. Len(got) <= 1
      BY <1>1, <2>2, <3>1 DEF WantsNth
    <3>3. got[Len(got)] = got[1]
      BY <1>1, <1>2, <3>2
    <3>4. Result(f, got) = got[1]
      BY <1>1, <2>2, <3>3 DEF Result
    <3>5. Denote(f, env) = x[1]
      BY <1>1, <2>2 DEF Denote
    <3>. QED  BY <1>3, <3>4, <3>5
  <2>3. CASE f.op = "ref" /\ Len(f.args) > 1
    BY <2>3 DEF Result, Denote
  <2>4. f.op = "literal" => Len(f.args) <= 1
    <3>1. \A n \in Nat : Arity("literal", n) => n <= 1
      BY DEF Arity
    <3>. QED  BY <1>1, <3>1 DEF IsFormula
  <2>. QED  BY <1>1, <1>4, <2>1, <2>2, <2>3, <2>4
<1>5. CASE f.op = "and"
  <2>1. Len(got) = Len(f.args)
    <3>1. Len(got) >= Len(f.args)
      BY <1>1, <1>5 DEF Wants, WantsNth
    <3>2. WantsNth(f, got, Len(got))
      BY <1>1, <1>2 DEF Dialogue
    <3>. QED  BY <1>1, <1>5, <3>1, <3>2 DEF WantsNth
  <2>2. got = x
    <3>1. \A k \in 1..Len(got) : got[k] = x[k]
      BY <1>1, <1>5, <2>1 DEF Position
    <3>2. got = [k \in 1..Len(got) |-> got[k]]
      OBVIOUS
    <3>. QED  BY <1>1, <2>1, <3>1, <3>2
  <2>. QED  BY <1>5, <2>2 DEF Result, Denote
<1>6. CASE f.op = "add"
  <2>0. Len(f.args) = 2
    BY <1>6 DEF IsFormula, Arity
  <2>1. CASE IsError(got[1])
    <3>1. Len(got) = 1
      BY <1>1, <1>2, <1>6, <2>1 DEF Dialogue, WantsNth
    <3>2. HasError(got) /\ FirstError(got) = got[1]
      BY <1>1, <2>1, <3>1 DEF HasError, FirstError
    <3>. QED  BY <1>3, <1>6, <2>1, <3>2 DEF Result, Denote
  <2>2. CASE ~IsError(got[1])
    <3>1. Len(got) = 2
      BY <1>1, <1>2, <1>6, <2>2, <2>0 DEF Dialogue, Wants, WantsNth
    <3>2. got[2] = x[2]
      BY <1>1, <1>6, <2>0, <3>1 DEF Position
    <3>3. CASE IsError(got[2])
      <4>1. HasError(got) /\ FirstError(got) = got[2]
        BY <1>1, <2>2, <3>1, <3>3 DEF HasError, FirstError
      <4>. QED  BY <1>3, <1>6, <2>2, <3>2, <3>3, <4>1 DEF Result, Denote
    <3>4. CASE ~IsError(got[2])
      <4>1. ~HasError(got)
        BY <1>1, <2>2, <3>1, <3>4 DEF HasError
      <4>. QED  BY <1>3, <1>6, <2>2, <3>2, <3>4, <4>1 DEF Result, Denote
    <3>. QED  BY <3>3, <3>4
  <2>. QED  BY <2>1, <2>2
<1>7. CASE f.op = "if"
  <2>0. Len(f.args) = 3
    BY <1>7 DEF IsFormula, Arity
  <2>1. CASE IsError(got[1])
    <3>1. Len(got) = 1
      BY <1>1, <1>2, <1>7, <2>1 DEF Dialogue, WantsNth
    <3>. QED  BY <1>3, <1>7, <2>1, <3>1 DEF Result, Denote
  <2>2. CASE ~IsError(got[1])
    <3>1. Len(got) = 2
      BY <1>1, <1>2, <1>7, <2>2, <2>0 DEF Dialogue, Wants, WantsNth
    <3>2. got[2] = IF Truthy(got[1]) THEN x[2] ELSE x[3]
      BY <1>1, <1>7, <2>0, <3>1 DEF Position
    <3>. QED  BY <1>3, <1>7, <2>2, <3>1, <3>2 DEF Result, Denote
  <2>. QED  BY <2>1, <2>2
<1>8. CASE f.op \in {"iferror", "ifna"}
  <2>0. Len(f.args) = 2
    BY <1>8 DEF IsFormula, Arity
  <2>1. CASE Caught(f.op, got[1])
    <3>1. Len(got) = 2
      BY <1>1, <1>2, <1>8, <2>1, <2>0 DEF Dialogue, Wants, WantsNth
    <3>2. got[2] = x[2]
      BY <1>1, <1>8, <2>0, <3>1 DEF Position
    <3>. QED  BY <1>3, <1>8, <2>1, <3>1, <3>2 DEF Result, Denote
  <2>2. CASE ~Caught(f.op, got[1])
    <3>1. Len(got) = 1
      BY <1>1, <1>2, <1>8, <2>2 DEF Dialogue, WantsNth
    <3>. QED  BY <1>3, <1>8, <2>2, <3>1 DEF Result, Denote
  <2>. QED  BY <2>1, <2>2
<1>. QED
  BY <1>4, <1>5, <1>6, <1>7, <1>8 DEF IsFormula, Op

-----------------------------------------------------------------------------
(***************************************************************************)
(* The invariant.                                                          *)
(***************************************************************************)

\* An atom whose value can no longer change during the call.
Settled(a) == (a.atom # "const" /\ a.cell \in Cells) => phase[a.cell] = "done"

\* Every value in got is settled and is the value of the atom it answers.
Faithful(f, got) ==
  \A k \in 1..Len(got) :
    /\ Settled(f.args[Position(f, got, k)])
    /\ got[k] = AtomValue(f.args[Position(f, got, k)], cache)

\* The state keeps its types on any sheet of formulas (TypeOK wants one of Sheets,
\* which a sheet that has been edited need not be).
Typed == /\ DOMAIN sheet = Cells /\ \A c \in Cells : IsFormula(sheet[c])
         /\ request \in [op : {"compute", "explain"}, at : Cells \cup {None}, args : Seq(Atom)]
         /\ phase \in [Cells -> Phase]
         /\ cache \in [Cells -> Value]
         /\ stack \in Seq(FrameType)
         /\ grid = None \/ grid \in [Cells -> Value]
         /\ \/ trace = None
            \/ trace \in [cell : Cells, value : Value, inputs : Seq(Value)]

RequestOK ==
  stack # <<>> =>
    /\ request.op = "compute" => Len(request.args) = Len(RowMajor)
    /\ request.op = "explain" => request.at \in Cells /\ request.args # <<>>

Dialogues == \A i \in DOMAIN stack : Dialogue(FormulaOf(stack[i].cell), stack[i].got)

\* The stack above the caller is a path in the reference graph.
StackReaches ==
  \A i, j \in DOMAIN stack : (1 < i /\ i < j) => Reaches(stack[i].cell, stack[j].cell)

FramesFaithful ==
  \A i \in DOMAIN stack :
    (1 < i /\ ~Cyclic(stack[i].cell)) => Faithful(sheet[stack[i].cell], stack[i].got)

\* A done cell carries the evaluation that produced it.
DoneFaithful ==
  \A c \in Cells :
    (phase[c] = "done" /\ ~Cyclic(c)) =>
      \E got \in Seq(Value) : /\ Dialogue(sheet[c], got)
                              /\ ~Wants(sheet[c], got)
                              /\ Faithful(sheet[c], got)
                              /\ cache[c] = Result(sheet[c], got)

IInv == /\ Typed
        /\ RequestOK
        /\ CallChain
        /\ Dialogues
        /\ StackReaches
        /\ FramesFaithful
        /\ DoneFaithful

-----------------------------------------------------------------------------
(***************************************************************************)
(* The reference graph.                                                    *)
(***************************************************************************)

\* A cell reaches what it mentions.
LEMMA ReachesRef ==
  ASSUME NEW c \in Cells, NEW d \in Refs(sheet[c]) \cap Cells
  PROVE  Reaches(c, d)
BY DEF Reaches

\* Reaching is transitive, along one reference at either end.
LEMMA ReachesStep ==
  ASSUME NEW a \in Cells, NEW b \in Cells, NEW d \in Cells
  PROVE  /\ Reaches(a, b) /\ d \in Refs(sheet[b]) => Reaches(a, d)
         /\ d \in Refs(sheet[a]) /\ Reaches(d, b) => Reaches(a, b)
BY DEF Reaches, Closed

\* The reference graph is a function of the sheet.
LEMMA ReachesStable ==
  ASSUME sheet' = sheet, NEW a, NEW b
  PROVE  Reaches(a, b)' <=> Reaches(a, b)
BY DEF Reaches, Closed

-----------------------------------------------------------------------------
(***************************************************************************)
(* What a frame asks for.                                                  *)
(***************************************************************************)

LEMMA CellsFacts == Cells \subseteq Address /\ Caller \notin Cells
BY RowMajorAssumption, CallerAssumption DEF Cells

\* Every frame evaluates a formula, or the atoms of the request.
LEMMA FrameFormula ==
  ASSUME Typed, NEW c \in Cells \cup {Caller}
  PROVE  /\ IsFormula(FormulaOf(c)) \/ (FormulaOf(c).args \in Seq(Atom) /\ FormulaOf(c).op \notin Op)
         /\ c \in Cells => FormulaOf(c) = sheet[c] /\ IsFormula(sheet[c])
         /\ c = Caller => FormulaOf(c) = request /\ request.op \notin Op
<1>1. CASE c = Caller
  BY <1>1, CellsFacts DEF Typed, FormulaOf, Op
<1>2. CASE c \in Cells
  BY <1>2, CellsFacts, SheetsAssumption DEF Typed, FormulaOf
<1>. QED
  BY <1>1, <1>2

\* The atom asked for is an atom, and when a cell asks, one of its references.
LEMMA TargetFacts ==
  ASSUME Typed, Asking
  PROVE  /\ Len(stack) \in Nat /\ Len(stack) >= 1
         /\ Top \in FrameType
         /\ Target \in Atom
         /\ Top.cell \in Cells /\ Target.atom = "cell" => Target.cell \in Refs(sheet[Top.cell])
<1>1. Len(stack) \in Nat /\ Len(stack) >= 1 /\ stack[Len(stack)] \in FrameType
  BY DEF Typed, Asking
<1>2. Top.cell \in Cells \cup {Caller} /\ Top.got \in Seq(Value)
  BY <1>1 DEF Top, FrameType
<1>3. /\ Position(FormulaOf(Top.cell), Top.got, Len(Top.got) + 1) \in DOMAIN FormulaOf(Top.cell).args
      /\ Target \in Atom
  <2>. DEFINE f == FormulaOf(Top.cell)
  <2>1. IsFormula(f) \/ (f.args \in Seq(Atom) /\ f.op \notin Op)
    BY <1>2, FrameFormula
  <2>2. Wants(f, Top.got)
    BY DEF Asking
  <2>. HIDE DEF f
  <2>3. /\ Position(f, Top.got, Len(Top.got) + 1) \in DOMAIN f.args
        /\ Wanted(f, Top.got) \in Atom
    BY <1>2, <2>1, <2>2, WantedInArgs
  <2>. QED  BY <2>3 DEF Target, f
<1>4. Top.cell \in Cells => FormulaOf(Top.cell) = sheet[Top.cell]
  BY FrameFormula
<1>. QED
  BY <1>1, <1>3, <1>4 DEF Top, Refs, Target, Wanted

-----------------------------------------------------------------------------
(***************************************************************************)
(* Preservation.  The lemmas below take the invariant apart by the kinds   *)
(* of step: an answer to the top frame, a new frame, a frame that          *)
(* finishes, and the beginning and the end of a call.                      *)
(***************************************************************************)

\* Memoized values stay, so what was faithful stays faithful.
LEMMA FaithfulStable ==
  ASSUME NEW f, NEW got,
         \A c \in Cells : phase[c] = "done" => phase'[c] = "done" /\ cache'[c] = cache[c],
         DOMAIN cache = Cells, DOMAIN cache' = Cells,
         Faithful(f, got)
  PROVE  Faithful(f, got)'
<1>1. ASSUME NEW a, Settled(a)
      PROVE  Settled(a)' /\ AtomValue(a, cache)' = AtomValue(a, cache)
  <2>1. Settled(a)'
    BY <1>1 DEF Settled
  <2>2. CASE a.atom = "const"
    BY <2>1, <2>2 DEF AtomValue
  <2>3. CASE a.atom # "const" /\ a.cell \in Cells
    BY <1>1, <2>1, <2>3 DEF Settled, AtomValue
  <2>4. CASE a.atom # "const" /\ a.cell \notin Cells
    BY <2>1, <2>4 DEF AtomValue
  <2>. QED  BY <2>2, <2>3, <2>4
<1>. QED
  BY <1>1, Zenon DEF Faithful

\* One more faithful value keeps the values of a frame faithful.
LEMMA FaithfulAppend ==
  ASSUME NEW f, NEW got \in Seq(Value), NEW v \in Value, Faithful(f, got),
         Settled(f.args[Position(f, got, Len(got) + 1)]),
         v = AtomValue(f.args[Position(f, got, Len(got) + 1)], cache)
  PROVE  Faithful(f, Append(got, v))
<1>1. \A k \in 1..Len(got) : /\ Append(got, v)[k] = got[k]
                             /\ Position(f, Append(got, v), k) = Position(f, got, k)
  BY DEF Position
<1>2. /\ Append(got, v)[Len(got) + 1] = v
      /\ Position(f, Append(got, v), Len(got) + 1) = Position(f, got, Len(got) + 1)
  BY DEF Position
<1>3. 1..Len(Append(got, v)) = 1..Len(got) \cup {Len(got) + 1}
  OBVIOUS
<1>. QED
  BY <1>1, <1>2, <1>3 DEF Faithful

\* The same in the next state, for a value that has just become settled.
LEMMA FaithfulAppendNext ==
  ASSUME NEW f, NEW got \in Seq(Value), NEW v \in Value, NEW a,
         a = f.args[Position(f, got, Len(got) + 1)],
         Faithful(f, got)', Settled(a)', v = AtomValue(a, cache')
  PROVE  Faithful(f, Append(got, v))'
<1>1. \A k \in 1..Len(got) : /\ Append(got, v)[k] = got[k]
                             /\ Position(f, Append(got, v), k) = Position(f, got, k)
  BY DEF Position
<1>2. /\ Append(got, v)[Len(got) + 1] = v
      /\ Position(f, Append(got, v), Len(got) + 1) = Position(f, got, Len(got) + 1)
  BY DEF Position
<1>3. 1..Len(Append(got, v)) = 1..Len(got) \cup {Len(got) + 1}
  OBVIOUS
<1>. QED
  BY <1>1, <1>2, <1>3 DEF Faithful, Settled

\* An answer appends one value to the top frame and leaves the rest of the stack.
LEMMA AnswerShape ==
  ASSUME Typed, Asking, NEW v \in Value, Answer(v)
  PROVE  /\ stack' \in Seq(FrameType) /\ Len(stack') = Len(stack)
         /\ \A i \in 1..Len(stack) : stack'[i].cell = stack[i].cell
         /\ \A i \in 1..Len(stack) : i # Len(stack) => stack'[i] = stack[i]
         /\ stack'[Len(stack)].got = Append(Top.got, v)
<1>. DEFINE n == Len(stack)
<1>1. n \in Nat /\ n >= 1 /\ stack \in Seq(FrameType) /\ stack[n] \in FrameType
  BY TargetFacts DEF Typed, Top
<1>3. Append(stack[n].got, v) \in Seq(Value)
  BY <1>1 DEF FrameType
<1>. DEFINE top == [cell |-> stack[n].cell, got |-> Append(stack[n].got, v)]
<1>4. top \in FrameType
  BY <1>1, <1>3 DEF FrameType
<1>5. stack' = [stack EXCEPT ![n] = top]
  BY DEF Answer, Top
<1>. HIDE DEF top
<1>6. stack' \in Seq(FrameType) /\ Len(stack') = n
  BY <1>1, <1>4, <1>5
<1>7. (\A i \in 1..n : i # n => stack'[i] = stack[i]) /\ stack'[n] = top
  BY <1>1, <1>5
<1>. QED
  BY <1>6, <1>7 DEF Top, top

\* An answer preserves the invariant, provided that it is faithful whenever the
\* asking cell does not depend on itself.
LEMMA AnswerStep ==
  ASSUME IInv, Asking, NEW v \in Value, Answer(v),
         Top.cell \in Cells /\ ~Cyclic(Top.cell)
           => Settled(Target) /\ v = AtomValue(Target, cache)
  PROVE  IInv'
<1>. DEFINE n == Len(stack)
<1>. USE DEF IInv
<1>1. /\ n \in Nat /\ n >= 1 /\ stack \in Seq(FrameType)
      /\ Top \in FrameType /\ Top.got \in Seq(Value)
  BY TargetFacts DEF Typed, FrameType
<1>2. /\ stack' \in Seq(FrameType) /\ Len(stack') = n
      /\ \A i \in 1..n : stack'[i].cell = stack[i].cell
      /\ \A i \in 1..n : i # n => stack'[i] = stack[i]
      /\ stack'[n].got = Append(Top.got, v)
  BY AnswerShape
<1>3. DOMAIN stack = 1..n /\ DOMAIN stack' = 1..n
  BY <1>1, <1>2
<1>4. UNCHANGED <<sheet, request, phase, cache, grid, trace>>
  BY DEF Answer
<1>5. Top.cell \in Cells \cup {Caller}
  BY <1>1 DEF FrameType
<1>6. \A a, b : Reaches(a, b)' <=> Reaches(a, b)
  BY <1>4, ReachesStable
<1>7. Typed'
  BY <1>2, <1>4 DEF Typed
<1>8. RequestOK'
  BY <1>1, <1>3, <1>4 DEF RequestOK
<1>9. CallChain'
  <2>1. \A i, j \in DOMAIN stack' : stack'[i].cell = stack'[j].cell => i = j
    BY <1>2, <1>3 DEF CallChain
  <2>2. \A i \in DOMAIN stack' : stack'[i].cell = Caller <=> i = 1
    BY <1>2, <1>3 DEF CallChain
  <2>3. \A c \in Cells : phase'[c] = "visiting" <=> \E i \in DOMAIN stack' : stack'[i].cell = c
    <3>1. \A c : (\E i \in DOMAIN stack' : stack'[i].cell = c) <=> \E i \in DOMAIN stack : stack[i].cell = c
      BY <1>2, <1>3
    <3>. QED  BY <1>4, <3>1 DEF CallChain
  <2>4. ASSUME NEW i \in DOMAIN stack', i > 1
        PROVE  /\ Wants(FormulaOf(stack'[i-1].cell), stack'[i-1].got)
               /\ Wanted(FormulaOf(stack'[i-1].cell), stack'[i-1].got) = Ref(stack'[i].cell)
    <3>1. i-1 \in 1..n /\ i-1 # n
      BY <1>1, <1>3, <2>4
    <3>2. stack'[i-1] = stack[i-1] /\ stack'[i].cell = stack[i].cell
      BY <1>2, <1>3, <3>1
    <3>. QED  BY <1>3, <2>4, <3>2 DEF CallChain
  <2>. QED  BY <1>4, <2>1, <2>2, <2>3, <2>4 DEF CallChain, FormulaOf
<1>10. Dialogues'
  <2>1. ASSUME NEW i \in 1..n
        PROVE  Dialogue(FormulaOf(stack[i].cell), stack'[i].got)
    <3>1. CASE i # n
      BY <1>2, <1>3, <3>1 DEF Dialogues
    <3>2. CASE i = n
      <4>1. Dialogue(FormulaOf(Top.cell), Top.got) /\ Wants(FormulaOf(Top.cell), Top.got)
        BY <1>1, <1>3 DEF Dialogues, Top, Asking
      <4>2. Dialogue(FormulaOf(Top.cell), Append(Top.got, v))
        BY <1>1, <4>1, DialogueAppend
      <4>. QED  BY <1>2, <3>2, <4>2 DEF Top
    <3>. QED  BY <3>1, <3>2
  <2>. QED  BY <1>2, <1>3, <1>4, <2>1 DEF Dialogues, FormulaOf
<1>11. StackReaches'
  BY <1>2, <1>3, <1>6 DEF StackReaches
<1>12. \A f, got : Faithful(f, got)' <=> Faithful(f, got)
  BY <1>4 DEF Faithful, Settled
<1>13. FramesFaithful'
  <2>1. ASSUME NEW i \in 1..n, 1 < i, ~Cyclic(stack[i].cell)
        PROVE  Faithful(sheet[stack[i].cell], stack'[i].got)
    <3>1. CASE i # n
      BY <1>2, <1>3, <2>1, <3>1 DEF FramesFaithful
    <3>2. CASE i = n
      <4>. DEFINE f == sheet[Top.cell]
      <4>1. Top.cell \in Cells
        BY <1>1, <1>3, <2>1, <3>2, SMTT(30) DEF FrameType, CallChain, Top
      <4>2. Settled(Target) /\ v = AtomValue(Target, cache)
        BY <2>1, <3>2, <4>1 DEF Top
      <4>3. Target = f.args[Position(f, Top.got, Len(Top.got) + 1)]
        BY <4>1, FrameFormula DEF Target, Wanted
      <4>4. Faithful(f, Top.got)
        BY <1>3, <2>1, <3>2 DEF FramesFaithful, Top
      <4>5. Faithful(f, Append(Top.got, v))
        <5>. HIDE DEF f
        <5>. QED  BY <1>1, <4>2, <4>3, <4>4, FaithfulAppend
      <4>. QED  BY <1>2, <3>2, <4>5 DEF Top
    <3>. QED  BY <3>1, <3>2
  <2>2. \A c : Cyclic(c)' <=> Cyclic(c)
    BY <1>6 DEF Cyclic
  <2>. QED  BY <1>2, <1>3, <1>4, <1>12, <2>1, <2>2 DEF FramesFaithful
<1>14. DoneFaithful'
  <2>1. \A c : Cyclic(c)' <=> Cyclic(c)
    BY <1>6 DEF Cyclic
  <2>. QED  BY <1>4, <1>12, <2>1 DEF DoneFaithful
<1>. QED
  BY <1>7, <1>8, <1>9, <1>10, <1>11, <1>13, <1>14

\* A fresh frame for an unvisited cell extends the path of references.
LEMMA PushStep ==
  ASSUME IInv, NEW c \in Cells, ReadUnvisited(c)
  PROVE  IInv'
<1>. DEFINE n == Len(stack)
<1>. USE DEF IInv
<1>0. Asking /\ Target.atom = "cell" /\ Target.cell = c
  BY DEF ReadUnvisited, Reading
<1>1. /\ n \in Nat /\ n >= 1 /\ stack \in Seq(FrameType)
      /\ Top \in FrameType /\ Top = stack[n] /\ Target \in Atom
      /\ Top.cell \in Cells => c \in Refs(sheet[Top.cell])
  BY <1>0, TargetFacts DEF Typed, Top
<1>2. Frame(c) \in FrameType /\ Frame(c).cell = c /\ Frame(c).got = <<>>
  BY DEF Frame, FrameType
<1>3. /\ stack' \in Seq(FrameType) /\ Len(stack') = n + 1
      /\ \A i \in 1..n : stack'[i] = stack[i]
      /\ stack'[n+1] = Frame(c)
  <2>1. stack' = Append(stack, Frame(c))
    BY DEF ReadUnvisited
  <2>. HIDE DEF Frame
  <2>. QED  BY <1>1, <1>2, <2>1
<1>4. DOMAIN stack = 1..n /\ DOMAIN stack' = 1..(n+1)
  BY <1>1, <1>3
<1>5. UNCHANGED <<sheet, request, cache, grid, trace>> /\ phase' = [phase EXCEPT ![c] = "visiting"]
  BY DEF ReadUnvisited
<1>6. \A a, b : Reaches(a, b)' <=> Reaches(a, b)
  BY <1>5, ReachesStable
<1>7. phase[c] = "unvisited" /\ phase \in [Cells -> Phase] /\ DOMAIN cache = Cells
  BY DEF ReadUnvisited, Typed
<1>8. c # Caller /\ \A i \in 1..n : stack[i].cell # c
  BY <1>4, <1>7, CellsFacts DEF CallChain
<1>9. \A d \in Cells : phase[d] = "done" => phase'[d] = "done" /\ cache'[d] = cache[d]
  BY <1>5, <1>7
<1>10. \A f, got : Faithful(f, got) => Faithful(f, got)'
  BY <1>5, <1>7, <1>9, FaithfulStable
<1>11. \A d : Cyclic(d)' <=> Cyclic(d)
  BY <1>6 DEF Cyclic
<1>12. Typed'
  <2>1. phase' \in [Cells -> Phase]
    BY <1>5, <1>7 DEF Phase
  <2>. QED  BY <1>3, <1>5, <2>1 DEF Typed
<1>13. RequestOK'
  BY <1>1, <1>3, <1>4, <1>5 DEF RequestOK
<1>14. CallChain'
  <2>1. \A i, j \in DOMAIN stack' : stack'[i].cell = stack'[j].cell => i = j
    BY <1>1, <1>2, <1>3, <1>4, <1>8 DEF CallChain
  <2>2. \A i \in DOMAIN stack' : stack'[i].cell = Caller <=> i = 1
    BY <1>1, <1>2, <1>3, <1>4, <1>8 DEF CallChain
  <2>3. \A d \in Cells : phase'[d] = "visiting" <=> \E i \in DOMAIN stack' : stack'[i].cell = d
    <3>1. \A d \in Cells : phase'[d] = "visiting" <=> d = c \/ phase[d] = "visiting"
      BY <1>5, <1>7
    <3>2. \A d : (\E i \in DOMAIN stack' : stack'[i].cell = d)
                    <=> d = c \/ \E i \in DOMAIN stack : stack[i].cell = d
      BY <1>1, <1>2, <1>3, <1>4
    <3>. QED  BY <3>1, <3>2 DEF CallChain
  <2>4. ASSUME NEW i \in DOMAIN stack', i > 1
        PROVE  /\ Wants(FormulaOf(stack'[i-1].cell), stack'[i-1].got)
               /\ Wanted(FormulaOf(stack'[i-1].cell), stack'[i-1].got) = Ref(stack'[i].cell)
    <3>1. i - 1 \in 1..n /\ stack'[i-1] = stack[i-1]
      BY <1>1, <1>3, <1>4, <2>4
    <3>2. CASE i # n + 1
      <4>1. i \in DOMAIN stack /\ stack'[i] = stack[i]
        BY <1>1, <1>3, <1>4, <3>2
      <4>. QED  BY <2>4, <3>1, <4>1 DEF CallChain
    <3>3. CASE i = n + 1
      <4>1. stack[i-1] = Top /\ stack'[i].cell = c
        BY <1>1, <1>2, <1>3, <3>3
      <4>2. Target = Ref(c)
        BY <1>0, <1>1 DEF Atom, Ref
      <4>. QED  BY <1>0, <3>1, <4>1, <4>2 DEF Asking, Target
    <3>. QED  BY <3>2, <3>3
  <2>. QED  BY <1>5, <2>1, <2>2, <2>3, <2>4 DEF CallChain, FormulaOf
<1>15. Dialogues'
  <2>1. \A i \in 1..(n+1) : Dialogue(FormulaOf(stack'[i].cell), stack'[i].got)
    <3>1. \A f : Dialogue(f, <<>>)
      BY DEF Dialogue
    <3>. QED  BY <1>1, <1>2, <1>3, <1>4, <3>1 DEF Dialogues
  <2>. QED  BY <1>4, <1>5, <2>1 DEF Dialogues, FormulaOf
<1>16. StackReaches'
  <2>1. ASSUME NEW i \in 1..(n+1), NEW j \in 1..(n+1), 1 < i, i < j
        PROVE  Reaches(stack'[i].cell, stack'[j].cell)
    <3>1. CASE j # n + 1
      BY <1>1, <1>3, <1>4, <2>1, <3>1 DEF StackReaches
    <3>2. CASE j = n + 1
      <4>1. i \in 1..n /\ n \in DOMAIN stack /\ 1 < n /\ stack'[i] = stack[i] /\ stack'[j].cell = c
        BY <1>1, <1>2, <1>3, <1>4, <2>1, <3>2
      <4>2. Top.cell \in Cells /\ stack[i].cell \in Cells
        <5>1. Top.cell # Caller /\ stack[i].cell # Caller
          BY <1>1, <1>4, <2>1, <4>1 DEF CallChain
        <5>2. stack[i] \in FrameType
          BY <1>1, <4>1
        <5>. QED  BY <1>1, <5>1, <5>2 DEF FrameType
      <4>3. CASE i = n
        BY <1>1, <4>1, <4>2, <4>3, ReachesRef
      <4>4. CASE i < n
        <5>1. Reaches(stack[i].cell, Top.cell)
          BY <1>1, <1>4, <2>1, <4>1, <4>4 DEF StackReaches
        <5>. QED  BY <1>1, <4>1, <4>2, <5>1, ReachesStep
      <4>. QED  BY <1>1, <4>1, <4>3, <4>4
    <3>. QED  BY <3>1, <3>2
  <2>. QED  BY <1>4, <1>6, <2>1 DEF StackReaches
<1>17. FramesFaithful'
  <2>1. \A f : Faithful(f, <<>>)'
    BY DEF Faithful
  <2>2. ASSUME NEW i \in 1..(n+1), 1 < i, ~Cyclic(stack'[i].cell),
               NEW f, NEW got, f = sheet[stack'[i].cell], got = stack'[i].got
        PROVE  Faithful(f, got)'
    <3>1. CASE i = n + 1
      BY <1>2, <1>3, <2>1, <2>2, <3>1
    <3>2. CASE i # n + 1
      <4>1. i \in 1..n /\ stack'[i] = stack[i]
        BY <1>1, <1>3, <3>2
      <4>2. Faithful(f, got)
        BY <1>4, <2>2, <4>1 DEF FramesFaithful
      <4>. QED  BY <1>10, <4>2
    <3>. QED  BY <3>1, <3>2
  <2>3. \A i \in DOMAIN stack' : \A f, got :
           (1 < i /\ ~Cyclic(stack'[i].cell) /\ f = sheet'[stack'[i].cell] /\ got = stack'[i].got)
             => Faithful(f, got)'
    BY <1>4, <1>5, <2>2
  <2>. QED  BY <1>11, <2>3, SMTT(30) DEF FramesFaithful, Faithful, Settled
<1>18. DoneFaithful'
  <2>1. \A d \in Cells : phase'[d] = "done" => phase[d] = "done"
    BY <1>5, <1>7
  <2>. QED  BY <1>5, <1>10, <1>11, <2>1 DEF DoneFaithful
<1>. QED
  BY <1>12, <1>13, <1>14, <1>15, <1>16, <1>17, <1>18

\* Finish takes the top frame away and hands its value to the frame below.
LEMMA FinishShape ==
  ASSUME IInv, Finish
  PROVE  \E m \in Nat, c \in Cells, v \in Value :
         /\ m >= 1 /\ DOMAIN stack = 1..(m+1) /\ Len(stack) = m + 1 /\ stack \in Seq(FrameType)
         /\ stack[m] \in FrameType /\ stack[m+1] \in FrameType
         /\ c = stack[m+1].cell /\ IsFormula(sheet[c]) /\ ~Wants(sheet[c], stack[m+1].got)
         /\ v = Result(sheet[c], stack[m+1].got)
         /\ cache' = [cache EXCEPT ![c] = v] /\ phase' = [phase EXCEPT ![c] = "done"]
         /\ stack' \in Seq(FrameType) /\ DOMAIN stack' = 1..m /\ Len(stack') = m
         /\ \A i \in 1..m : i # m => stack'[i] = stack[i]
         /\ stack'[m].cell = stack[m].cell /\ stack'[m].got = Append(stack[m].got, v)
         /\ UNCHANGED <<sheet, request, grid, trace>>
<1>1. PICK m \in Nat : m >= 1 /\ Len(stack) = m + 1
  <2>1. Len(stack) \in Nat /\ Len(stack) > 1
    BY DEF IInv, Typed, Finish
  <2>2. Len(stack) - 1 \in Nat /\ Len(stack) - 1 >= 1 /\ Len(stack) = (Len(stack) - 1) + 1
    BY <2>1
  <2>. QED  BY <2>2
<1>. DEFINE top == stack[m+1] below == stack[m] c == top.cell
            v == Result(sheet[c], top.got)
            low == [cell |-> below.cell, got |-> Append(below.got, v)]
            rest == SubSeq(stack, 1, m - 1)
<1>2. /\ stack \in Seq(FrameType) /\ DOMAIN stack = 1..(m+1) /\ top \in FrameType /\ below \in FrameType
      /\ Top = top
  BY <1>1 DEF IInv, Typed, Top
<1>3. c \in Cells /\ top.got \in Seq(Value) /\ below.got \in Seq(Value)
  <2>1. c # Caller
    BY <1>1, <1>2 DEF IInv, CallChain
  <2>. QED  BY <1>2, <2>1 DEF FrameType
<1>4. IsFormula(sheet[c]) /\ ~Wants(sheet[c], top.got)
  <2>1. IsFormula(sheet[c]) /\ FormulaOf(c) = sheet[c]
    BY <1>3, FrameFormula DEF IInv
  <2>2. ~Asking /\ stack # <<>>
    BY <1>1, <1>2 DEF Finish
  <2>. QED  BY <1>2, <2>1, <2>2 DEF Asking
<1>5. v \in Value
  BY <1>3, <1>4, ResultType
<1>6. low \in FrameType
  BY <1>2, <1>3, <1>5 DEF FrameType
<1>7. /\ cache' = [cache EXCEPT ![c] = v] /\ phase' = [phase EXCEPT ![c] = "done"]
      /\ stack' = Append(rest, low)
      /\ UNCHANGED <<sheet, request, grid, trace>>
  <2>1. Len(stack) - 1 = m /\ Len(stack) - 2 = m - 1
    BY <1>1
  <2>. QED  BY <1>2, <2>1 DEF Finish
<1>8. rest \in Seq(FrameType) /\ Len(rest) = m - 1 /\ \A i \in 1..(m-1) : rest[i] = stack[i]
  <2>1. m - 1 \in 0..Len(stack) /\ 1 \in 1..(Len(stack)+1)
    BY <1>1
  <2>. QED  BY <1>1, <1>2, <2>1, SubSeqProperties
<1>9. /\ stack' \in Seq(FrameType) /\ Len(stack') = m /\ DOMAIN stack' = 1..m
      /\ \A i \in 1..m : i # m => stack'[i] = stack[i]
      /\ stack'[m] = low
  <2>. HIDE DEF low, rest
  <2>1. stack' \in Seq(FrameType) /\ Len(stack') = m
    BY <1>1, <1>6, <1>7, <1>8
  <2>2. \A i \in 1..(m-1) : stack'[i] = stack[i]
    BY <1>1, <1>6, <1>7, <1>8
  <2>3. stack'[m] = low
    BY <1>1, <1>6, <1>7, <1>8
  <2>. QED  BY <1>1, <2>1, <2>2, <2>3
<1>10. stack'[m].cell = below.cell /\ stack'[m].got = Append(below.got, v)
  BY <1>9
<1>. HIDE DEF low, rest, v
<1>. QED
  BY <1>1, <1>2, <1>3, <1>4, <1>5, <1>7, <1>9, <1>10, ZenonT(60) DEF v

\* A frame that finishes memoizes a value that its own faithful values justify,
\* and the value is a faithful answer to the frame below.
LEMMA FinishStep ==
  ASSUME IInv, Finish
  PROVE  IInv'
<1>. USE DEF IInv
<1>0. PICK m \in Nat, c \in Cells, v \in Value :
         /\ m >= 1 /\ DOMAIN stack = 1..(m+1) /\ Len(stack) = m + 1 /\ stack \in Seq(FrameType)
         /\ stack[m] \in FrameType /\ stack[m+1] \in FrameType
         /\ c = stack[m+1].cell /\ IsFormula(sheet[c]) /\ ~Wants(sheet[c], stack[m+1].got)
         /\ v = Result(sheet[c], stack[m+1].got)
         /\ cache' = [cache EXCEPT ![c] = v] /\ phase' = [phase EXCEPT ![c] = "done"]
         /\ stack' \in Seq(FrameType) /\ DOMAIN stack' = 1..m /\ Len(stack') = m
         /\ \A i \in 1..m : i # m => stack'[i] = stack[i]
         /\ stack'[m].cell = stack[m].cell /\ stack'[m].got = Append(stack[m].got, v)
         /\ UNCHANGED <<sheet, request, grid, trace>>
  BY FinishShape
<1>. DEFINE top == stack[m+1] below == stack[m]
<1>1. /\ m >= 1 /\ DOMAIN stack = 1..(m+1) /\ Len(stack) = m + 1
      /\ top \in FrameType /\ top.got \in Seq(Value)
      /\ c = top.cell /\ IsFormula(sheet[c]) /\ ~Wants(sheet[c], top.got)
      /\ v = Result(sheet[c], top.got)
  BY <1>0 DEF FrameType
<1>2. /\ cache' = [cache EXCEPT ![c] = v] /\ phase' = [phase EXCEPT ![c] = "done"]
      /\ UNCHANGED <<sheet, request, grid, trace>>
  BY <1>0
<1>3. /\ stack' \in Seq(FrameType) /\ DOMAIN stack' = 1..m
      /\ \A i \in 1..m : i # m => stack'[i] = stack[i]
      /\ stack'[m].cell = below.cell /\ stack'[m].got = Append(below.got, v)
  BY <1>0
<1>4. \A i \in 1..m : stack'[i].cell = stack[i].cell
  BY <1>3
<1>5. \A a, b : Reaches(a, b)' <=> Reaches(a, b)
  BY <1>2, ReachesStable
<1>6. \A d : Cyclic(d)' <=> Cyclic(d)
  BY <1>5 DEF Cyclic
<1>7. /\ phase \in [Cells -> Phase] /\ cache \in [Cells -> Value] /\ phase[c] = "visiting"
      /\ phase' \in [Cells -> Phase] /\ cache' \in [Cells -> Value]
  <2>1. phase[c] = "visiting"
    BY <1>1 DEF CallChain
  <2>. QED  BY <1>1, <1>2, <2>1 DEF Typed, Phase
<1>8. \A d \in Cells : phase[d] = "done" => phase'[d] = "done" /\ cache'[d] = cache[d]
  BY <1>2, <1>7
<1>9. \A f, got : Faithful(f, got) => Faithful(f, got)'
  BY <1>7, <1>8, FaithfulStable
<1>10. \A i \in 1..m : stack[i].cell # c
  BY <1>1 DEF CallChain
<1>11. below \in FrameType /\ below.got \in Seq(Value)
  BY <1>0 DEF FrameType
<1>12. Wants(FormulaOf(below.cell), below.got) /\ Wanted(FormulaOf(below.cell), below.got) = Ref(c)
  <2>1. \A i \in 1..(m+1) : i > 1 =>
          /\ Wants(FormulaOf(stack[i-1].cell), stack[i-1].got)
          /\ Wanted(FormulaOf(stack[i-1].cell), stack[i-1].got) = Ref(stack[i].cell)
    BY <1>1 DEF CallChain
  <2>2. m + 1 \in 1..(m+1) /\ m + 1 > 1 /\ (m + 1) - 1 = m
    BY <1>1
  <2>. QED  BY <1>1, <2>1, <2>2
<1>13. Typed'
  BY <1>2, <1>3, <1>7 DEF Typed
<1>14. RequestOK'
  BY <1>1, <1>2 DEF RequestOK
<1>15. CallChain'
  <2>1. \A i, j \in DOMAIN stack' : stack'[i].cell = stack'[j].cell => i = j
    BY <1>1, <1>3, <1>4 DEF CallChain
  <2>2. \A i \in DOMAIN stack' : stack'[i].cell = Caller <=> i = 1
    BY <1>1, <1>3, <1>4 DEF CallChain
  <2>3. \A d \in Cells : phase'[d] = "visiting" <=> \E i \in DOMAIN stack' : stack'[i].cell = d
    <3>1. \A d \in Cells : phase'[d] = "visiting" <=> d # c /\ phase[d] = "visiting"
      BY <1>2, <1>7
    <3>2. \A d : (\E i \in DOMAIN stack' : stack'[i].cell = d)
                    <=> d # c /\ \E i \in DOMAIN stack : stack[i].cell = d
      BY <1>1, <1>3, <1>4, <1>10
    <3>. QED  BY <3>1, <3>2 DEF CallChain
  <2>4. ASSUME NEW i \in DOMAIN stack', i > 1
        PROVE  /\ Wants(FormulaOf(stack'[i-1].cell), stack'[i-1].got)
               /\ Wanted(FormulaOf(stack'[i-1].cell), stack'[i-1].got) = Ref(stack'[i].cell)
    <3>1. i - 1 \in 1..m /\ i - 1 # m /\ i \in DOMAIN stack
      BY <1>1, <1>3, <2>4
    <3>2. stack'[i-1] = stack[i-1] /\ stack'[i].cell = stack[i].cell
      BY <1>3, <1>4, <3>1
    <3>. QED  BY <2>4, <3>1, <3>2 DEF CallChain
  <2>. QED  BY <1>2, <2>1, <2>2, <2>3, <2>4 DEF CallChain, FormulaOf
<1>16. Dialogues'
  <2>1. ASSUME NEW i \in 1..m
        PROVE  Dialogue(FormulaOf(stack'[i].cell), stack'[i].got)
    <3>1. CASE i # m
      BY <1>1, <1>3, <3>1 DEF Dialogues
    <3>2. CASE i = m
      <4>1. Dialogue(FormulaOf(below.cell), below.got)
        BY <1>1 DEF Dialogues
      <4>2. Dialogue(FormulaOf(below.cell), Append(below.got, v))
        BY <1>1, <1>11, <1>12, <4>1, DialogueAppend
      <4>. QED  BY <1>3, <3>2, <4>2
    <3>. QED  BY <3>1, <3>2
  <2>. QED  BY <1>2, <1>3, <2>1 DEF Dialogues, FormulaOf
<1>17. StackReaches'
  <2>1. \A i \in 1..m : i \in DOMAIN stack
    BY <1>1
  <2>. QED  BY <1>3, <1>4, <1>5, <2>1 DEF StackReaches
<1>18. FramesFaithful'
  <2>1. ASSUME NEW i \in 1..m, 1 < i, ~Cyclic(stack'[i].cell),
               NEW f, NEW got, f = sheet[stack'[i].cell], got = stack'[i].got
        PROVE  Faithful(f, got)'
    <3>1. i \in DOMAIN stack /\ stack'[i].cell = stack[i].cell
      BY <1>1, <1>4
    <3>2. \A g : g = stack[i].got => Faithful(f, g)'
      BY <1>9, <2>1, <3>1 DEF FramesFaithful
    <3>3. CASE i # m
      BY <1>3, <2>1, <3>2, <3>3
    <3>4. CASE i = m
      <4>1. below.cell # Caller
        BY <1>1, <2>1, <3>1, <3>4 DEF CallChain
      <4>2. below.cell \in Cells /\ FormulaOf(below.cell) = sheet[below.cell]
        BY <1>11, <4>1 DEF FrameType, FormulaOf
      <4>3. f = FormulaOf(below.cell)
        BY <1>2, <2>1, <3>1, <3>4, <4>2
      <4>4. PICK g \in Seq(Value) : g = below.got
        BY <1>11
      <4>5. got = Append(g, v) /\ Faithful(f, g)'
        BY <1>3, <2>1, <3>2, <3>4, <4>4
      <4>6. PICK r : r = Ref(c)
        OBVIOUS
      <4>7. f.args[Position(f, g, Len(g) + 1)] = r
        BY <1>12, <4>3, <4>4, <4>6 DEF Wanted
      <4>8. Settled(r)' /\ v = AtomValue(r, cache')
        <5>1. r.atom = "cell" /\ r.cell = c
          BY <4>6 DEF Ref
        <5>. QED  BY <1>1, <1>2, <1>7, <5>1 DEF Settled, AtomValue
      <4>. QED  BY <4>4, <4>5, <4>7, <4>8, FaithfulAppendNext
    <3>. QED  BY <3>3, <3>4
  <2>2. \A i \in DOMAIN stack' : \A f, got :
           (1 < i /\ ~Cyclic(stack'[i].cell) /\ f = sheet'[stack'[i].cell] /\ got = stack'[i].got)
             => Faithful(f, got)'
    BY <1>2, <1>3, <2>1
  <2>. QED  BY <1>6, <2>2, SMTT(60) DEF FramesFaithful, Faithful, Settled
<1>19. DoneFaithful'
  <2>1. ASSUME NEW d \in Cells, phase'[d] = "done", ~Cyclic(d), NEW f, f = sheet[d]
        PROVE  \E got \in Seq(Value) : /\ Dialogue(f, got) /\ ~Wants(f, got)
                                       /\ Faithful(f, got)' /\ cache'[d] = Result(f, got)
    <3>1. CASE d # c
      <4>1. phase[d] = "done" /\ cache'[d] = cache[d]
        BY <1>2, <1>7, <2>1, <3>1
      <4>. QED  BY <1>9, <2>1, <4>1 DEF DoneFaithful
    <3>2. CASE d = c
      <4>1. \A g : g = top.got => Dialogue(f, g)
        BY <1>1, <2>1, <3>2, FrameFormula DEF Dialogues
      <4>2. \A g : g = top.got => Faithful(f, g)'
        BY <1>1, <1>9, <2>1, <3>2 DEF FramesFaithful
      <4>3. cache'[d] = Result(f, top.got)
        BY <1>1, <1>2, <1>7, <2>1, <3>2
      <4>4. PICK g \in Seq(Value) : g = top.got
        BY <1>1
      <4>. QED  BY <1>1, <2>1, <3>2, <4>1, <4>2, <4>3, <4>4
    <3>. QED  BY <3>1, <3>2
  <2>2. sheet' = sheet
    BY <1>2
  <2>. QED  BY <1>6, <2>1, <2>2 DEF DoneFaithful, Faithful, Settled
<1>. QED
  BY <1>13, <1>14, <1>15, <1>16, <1>17, <1>18, <1>19

\* A call begins on an idle evaluator, with nothing memoized.
LEMMA ServeStep ==
  ASSUME Typed, NEW name \in {"compute", "explain"}, NEW at \in Cells \cup {None},
         NEW args \in Seq(Atom), Serve(name, at, args),
         name = "compute" => Len(args) = Len(RowMajor),
         name = "explain" => at \in Cells /\ args # <<>>,
         grid' = None \/ grid' \in [Cells -> Value],
         trace' = None \/ trace' \in [cell : Cells, value : Value, inputs : Seq(Value)]
  PROVE  IInv'
<1>. USE DEF IInv
<1>1. /\ stack' = <<Frame(Caller)>> /\ sheet' = sheet
      /\ request' = [op |-> name, at |-> at, args |-> args]
      /\ phase' = [c \in Cells |-> "unvisited"] /\ cache' = [c \in Cells |-> Empty]
  BY DEF Serve, NewComputer
<1>2. Frame(Caller) \in FrameType /\ Frame(Caller).cell = Caller /\ Frame(Caller).got = <<>>
  BY DEF Frame, FrameType
<1>3. DOMAIN stack' = {1} /\ stack'[1] = Frame(Caller) /\ stack' \in Seq(FrameType)
  <2>. HIDE DEF Frame
  <2>. QED  BY <1>1, <1>2
<1>4. Empty \in Value
  BY DEF Value
<1>5. Typed'
  BY <1>1, <1>3, <1>4 DEF Typed, Phase
<1>6. RequestOK'
  BY <1>1 DEF RequestOK
<1>7. CallChain'
  BY <1>1, <1>2, <1>3, CellsFacts DEF CallChain
<1>8. Dialogues'
  <2>1. \A f : Dialogue(f, <<>>)
    BY DEF Dialogue
  <2>. QED  BY <1>2, <1>3, <2>1 DEF Dialogues
<1>9. StackReaches'
  BY <1>3 DEF StackReaches
<1>10. FramesFaithful'
  BY <1>3 DEF FramesFaithful
<1>11. DoneFaithful'
  BY <1>1 DEF DoneFaithful
<1>. QED
  BY <1>5, <1>6, <1>7, <1>8, <1>9, <1>10, <1>11

\* Compute asks for every cell of the grid; Explain for a cell and its inputs.
LEMMA CallStep ==
  ASSUME Typed, Compute \/ \E c \in Cells : Explain(c)
  PROVE  IInv'
<1>. USE DEF IInv
<1>1. \A c \in Cells : Ref(c) \in Atom
  BY CellsFacts DEF Ref, Atom
<1>2. CASE Compute
  <2>. DEFINE args == [i \in DOMAIN RowMajor |-> CellValue(RowMajor[i])]
  <2>1. \A c \in Cells : CellValue(c) \in Atom
    <3>1. \A c \in Cells : sheet[c].op = "literal" => sheet[c].args[1] \in Atom
      <4>1. \A f : IsFormula(f) => f.args[1] \in Atom
        BY DEF IsFormula
      <4>. QED  BY <4>1, FrameFormula
    <3>. QED  BY <1>1, <3>1 DEF CellValue
  <2>2. \A i \in DOMAIN RowMajor : RowMajor[i] \in Cells
    BY DEF Cells
  <2>3. DOMAIN RowMajor = 1..Len(RowMajor) /\ Len(RowMajor) \in Nat
    BY RowMajorAssumption
  <2>4. args \in Seq(Atom) /\ Len(args) = Len(RowMajor)
    BY <2>1, <2>2, <2>3
  <2>5. Serve("compute", None, args) /\ grid' = None /\ trace' = trace
    BY <1>2 DEF Compute
  <2>. HIDE DEF args
  <2>. QED  BY <2>4, <2>5, ServeStep DEF Typed
<1>3. ASSUME NEW c \in Cells, Explain(c)
      PROVE  IInv'
  <2>. DEFINE inputs == IF sheet[c].op = "literal" THEN <<>> ELSE sheet[c].args
              args == <<Ref(c)>> \o inputs
  <2>1. IsFormula(sheet[c])
    BY FrameFormula
  <2>2. inputs \in Seq(Atom)
    BY <2>1 DEF IsFormula
  <2>3. args \in Seq(Atom) /\ args # <<>>
    <3>. HIDE DEF inputs
    <3>. QED  BY <1>1, <2>2
  <2>4. Serve("explain", c, args) /\ trace' = None /\ grid' = grid
    BY <1>3 DEF Explain
  <2>. HIDE DEF args
  <2>. QED  BY <2>3, <2>4, ServeStep DEF Typed
<1>. QED
  BY <1>2, <1>3

\* The caller has an answer to each of its atoms when it returns.
LEMMA ReturnStep ==
  ASSUME IInv, Return
  PROVE  IInv'
<1>. USE DEF IInv
<1>1. stack \in Seq(FrameType) /\ DOMAIN stack = {1} /\ Top = stack[1] /\ Top \in FrameType /\ stack # <<>>
  <2>0. stack \in Seq(FrameType)
    BY DEF Typed
  <2>1. \A n \in Nat : Len(stack) = n => DOMAIN stack = 1..n
    BY <2>0
  <2>2. DOMAIN stack = 1..1 /\ Top = stack[1]
    BY <2>1, Zenon DEF Return, Top
  <2>. HIDE DEF FrameType
  <2>. QED  BY <2>0, <2>2
<1>2. /\ Top.cell = Caller /\ Top.got \in Seq(Value) /\ FormulaOf(Top.cell) = request
      /\ request.op \notin Op /\ request.args \in Seq(Atom)
  <2>1. Top.cell = Caller
    BY <1>1 DEF CallChain
  <2>. QED  BY <1>1, <2>1, FrameFormula DEF Typed, FrameType
<1>3. Len(Top.got) >= Len(request.args) /\ Len(Top.got) \in Nat /\ Len(request.args) \in Nat
  <2>1. ~Wants(request, Top.got)
    BY <1>1, <1>2 DEF Return, Asking
  <2>2. ~(Len(Top.got) + 1 <= Len(request.args))
    BY <1>2, <2>1 DEF Wants, WantsNth, Op
  <2>. QED  BY <1>2, <2>2
<1>4. \A i \in 1..Len(Top.got) : Top.got[i] \in Value
  BY <1>2
<1>5. UNCHANGED <<sheet, request, phase, cache>> /\ stack' = <<>>
  BY DEF Return
<1>6. grid' = None \/ grid' \in [Cells -> Value]
  <2>1. CASE request.op = "compute"
    <3>1. \A c \in Cells : (CHOOSE i \in DOMAIN RowMajor : RowMajor[i] = c) \in DOMAIN RowMajor
      BY DEF Cells
    <3>2. DOMAIN RowMajor = 1..Len(RowMajor) /\ Len(RowMajor) = Len(request.args)
      BY <1>1, <2>1, RowMajorAssumption DEF RequestOK
    <3>3. \A i \in DOMAIN RowMajor : i \in 1..Len(Top.got)
      BY <1>3, <3>2
    <3>. QED  BY <1>4, <2>1, <3>1, <3>3, ZenonT(60) DEF Return
  <2>. QED  BY <2>1 DEF Return, Typed
<1>7. trace' = None \/ trace' \in [cell : Cells, value : Value, inputs : Seq(Value)]
  <2>1. CASE request.op # "compute"
    <3>1. request.at \in Cells /\ request.args # <<>>
      BY <1>1, <2>1 DEF RequestOK, Typed
    <3>2. Len(Top.got) >= 1
      BY <1>2, <1>3, <3>1
    <3>3. Head(Top.got) \in Value /\ Tail(Top.got) \in Seq(Value)
      BY <1>2, <1>4, <3>2
    <3>4. trace' = [cell |-> request.at, value |-> Head(Top.got), inputs |-> Tail(Top.got)]
      BY <2>1 DEF Return
    <3>. QED  BY <3>1, <3>3, <3>4
  <2>. QED  BY <2>1 DEF Return, Typed
<1>8. Typed'
  BY <1>5, <1>6, <1>7 DEF Typed
<1>9. RequestOK' /\ Dialogues' /\ StackReaches' /\ FramesFaithful'
  BY <1>5 DEF RequestOK, Dialogues, StackReaches, FramesFaithful
<1>10. CallChain'
  <2>1. \A c \in Cells : phase[c] # "visiting"
    BY <1>1, <1>2, CellsFacts DEF CallChain
  <2>. QED  BY <1>5, <2>1 DEF CallChain
<1>11. DoneFaithful'
  <2>1. \A a, b : Reaches(a, b)' <=> Reaches(a, b)
    BY <1>5, ReachesStable
  <2>2. \A c : Cyclic(c)' <=> Cyclic(c)
    BY <2>1 DEF Cyclic
  <2>3. \A f, got : Faithful(f, got)' <=> Faithful(f, got)
    BY <1>5 DEF Faithful, Settled
  <2>. QED  BY <1>5, <2>2, <2>3 DEF DoneFaithful
<1>. QED
  BY <1>8, <1>9, <1>10, <1>11

\* The initial states satisfy the invariant: nothing is visited.
LEMMA InitStep == Init => IInv
<1>. SUFFICES ASSUME Init PROVE IInv
  OBVIOUS
<1>1. Empty \in Value
  BY DEF Value
<1>2. /\ sheet \in Sheets /\ stack = <<>> /\ grid = None /\ trace = None
      /\ request = [op |-> "compute", at |-> None, args |-> <<>>]
      /\ phase = [c \in Cells |-> "unvisited"] /\ cache = [c \in Cells |-> Empty]
  BY DEF Init
<1>3. Typed
  BY <1>1, <1>2, SheetsAssumption DEF Typed, Phase
<1>4. RequestOK /\ Dialogues /\ StackReaches /\ FramesFaithful
  BY <1>2 DEF RequestOK, Dialogues, StackReaches, FramesFaithful
<1>5. CallChain
  BY <1>2 DEF CallChain
<1>6. DoneFaithful
  BY <1>2 DEF DoneFaithful
<1>. QED
  BY <1>3, <1>4, <1>5, <1>6 DEF IInv

\* The answers the evaluator gives.  Those to a constant, to a position off the
\* grid and to a done cell are settled; #CIRC! is given to a cell that is below
\* on the stack, and then the asking cell depends on itself.
LEMMA AnswersStep ==
  ASSUME IInv,
         \/ TakeConst
         \/ \E a \in Address : ReadOffGrid(a)
         \/ \E c \in Cells : ReadDone(c) \/ ReadVisiting(c)
  PROVE  IInv'
<1>. USE DEF IInv
<1>1. \A e \in ErrorCode : Error(e) \in Value
  BY DEF Error, Value
<1>2. CASE TakeConst
  <2>1. Asking /\ Target.atom = "const" /\ Answer(Target.value)
    BY <1>2 DEF TakeConst
  <2>2. Target \in Atom
    BY <2>1, TargetFacts
  <2>3. Target.value \in Value
    BY <2>1, <2>2 DEF Atom
  <2>4. Settled(Target) /\ Target.value = AtomValue(Target, cache)
    BY <2>1 DEF Settled, AtomValue
  <2>. QED  BY <2>1, <2>3, <2>4, AnswerStep
<1>3. ASSUME NEW a \in Address, ReadOffGrid(a)
      PROVE  IInv'
  <2>1. /\ Asking /\ Target.atom = "cell" /\ Target.cell \notin Cells
        /\ Answer(Error("#REF!"))
    BY <1>3 DEF ReadOffGrid, Reading
  <2>2. Settled(Target) /\ Error("#REF!") = AtomValue(Target, cache)
    BY <2>1 DEF Settled, AtomValue, Typed
  <2>3. Error("#REF!") \in Value
    BY <1>1 DEF ErrorCode
  <2>. QED  BY <2>1, <2>2, <2>3, AnswerStep
<1>4. ASSUME NEW c \in Cells, ReadDone(c)
      PROVE  IInv'
  <2>1. /\ Asking /\ Target.atom = "cell" /\ Target.cell = c /\ phase[c] = "done"
        /\ Answer(cache[c])
    BY <1>4 DEF ReadDone, Reading
  <2>2. Settled(Target) /\ cache[c] = AtomValue(Target, cache)
    BY <2>1 DEF Settled, AtomValue, Typed
  <2>3. cache[c] \in Value
    BY DEF Typed
  <2>. QED  BY <2>1, <2>2, <2>3, AnswerStep
<1>5. ASSUME NEW c \in Cells, ReadVisiting(c)
      PROVE  IInv'
  <2>1. /\ Asking /\ Target.atom = "cell" /\ Target.cell = c /\ phase[c] = "visiting"
        /\ Answer(Error("#CIRC!"))
    BY <1>5 DEF ReadVisiting, Reading
  <2>2. Error("#CIRC!") \in Value
    BY <1>1 DEF ErrorCode
  <2>3. ASSUME Top.cell \in Cells
        PROVE  Cyclic(Top.cell)
    <3>1. PICK i \in DOMAIN stack : stack[i].cell = c
      BY <2>1 DEF CallChain
    <3>2. /\ Len(stack) \in Nat /\ Len(stack) >= 1 /\ DOMAIN stack = 1..Len(stack)
          /\ c \in Refs(sheet[Top.cell])
      BY <2>1, <2>3, TargetFacts DEF Typed
    <3>3. 1 < i
      BY <3>1, <3>2, CellsFacts DEF CallChain
    <3>4. CASE i = Len(stack)
      BY <2>3, <3>1, <3>2, <3>4, ReachesRef DEF Top, Cyclic
    <3>5. CASE i # Len(stack)
      <4>1. i < Len(stack) /\ Len(stack) \in DOMAIN stack
        BY <3>2, <3>5
      <4>2. Reaches(c, Top.cell)
        BY <3>1, <3>3, <4>1 DEF StackReaches, Top
      <4>. QED  BY <2>3, <3>2, <4>2, ReachesStep DEF Cyclic
    <3>. QED  BY <3>4, <3>5
  <2>. QED  BY <2>1, <2>2, <2>3, AnswerStep
<1>. QED
  BY <1>2, <1>3, <1>4, <1>5

\* A step that changes nothing preserves everything.
LEMMA StutterStep == IInv /\ UNCHANGED vars => IInv'
<1>. SUFFICES ASSUME IInv, UNCHANGED vars PROVE IInv'
  OBVIOUS
<1>1. UNCHANGED <<sheet, request, phase, cache, stack, grid, trace>>
  BY DEF vars
<1>2. Typed'
  BY <1>1 DEF IInv, Typed
<1>3. RequestOK'
  BY <1>1 DEF IInv, RequestOK
<1>4. CallChain' /\ Dialogues'
  BY <1>1 DEF IInv, CallChain, Dialogues, FormulaOf
<1>5. \A a, b : Reaches(a, b)' <=> Reaches(a, b)
  BY <1>1, ReachesStable
<1>6. \A c : Cyclic(c)' <=> Cyclic(c)
  BY <1>5 DEF Cyclic
<1>7. \A f, got : Faithful(f, got)' <=> Faithful(f, got)
  BY <1>1 DEF Faithful, Settled
<1>8. StackReaches' /\ FramesFaithful' /\ DoneFaithful'
  BY <1>1, <1>5, <1>6, <1>7 DEF IInv, StackReaches, FramesFaithful, DoneFaithful
<1>. QED
  BY <1>2, <1>3, <1>4, <1>8 DEF IInv

-----------------------------------------------------------------------------

\* The invariant is inductive: every step of the evaluator preserves it.
LEMMA InvariantStep == IInv /\ [Next]_vars => IInv'
<1>. SUFFICES ASSUME IInv, [Next]_vars PROVE IInv'
  OBVIOUS
<1>1. CASE Compute \/ \E c \in Cells : Explain(c)
  BY <1>1, CallStep DEF IInv
<1>2. CASE \/ TakeConst
           \/ \E a \in Address : ReadOffGrid(a)
           \/ \E c \in Cells : ReadDone(c) \/ ReadVisiting(c)
  BY <1>2, AnswersStep
<1>3. CASE \E c \in Cells : ReadUnvisited(c)
  BY <1>3, PushStep
<1>4. CASE Finish
  BY <1>4, FinishStep
<1>5. CASE Return
  BY <1>5, ReturnStep
<1>6. CASE UNCHANGED vars
  BY <1>6, StutterStep
<1>. QED
  BY <1>1, <1>2, <1>3, <1>4, <1>5, <1>6 DEF Next, Step

\* The inductive invariant holds of every reachable state.
THEOREM Invariance == Spec => []IInv
BY InitStep, InvariantStep, PTL DEF Spec

\* The evaluator's state keeps its types: every memoized value, every value in
\* flight and every reported result is a cell value.
THEOREM TypeCorrect == Spec => []TypeOK
<1>. DEFINE Given == sheet \in Sheets
<1>1. Init => Given
  BY DEF Init
<1>2. Given /\ [Next]_vars => Given'
  BY DEF Next, Step, vars, Compute, Explain, Serve, TakeConst, ReadOffGrid, ReadDone, ReadVisiting,
         ReadUnvisited, Answer, Finish, Return
<1>3. IInv /\ Given => TypeOK
  BY DEF IInv, Typed, TypeOK
<1>. HIDE DEF Given
<1>. QED
  BY <1>1, <1>2, <1>3, Invariance, PTL DEF Spec

\* The cells marked visiting are exactly the cells on the call stack, each once,
\* each wanted by the frame below.
THEOREM MarksAreTheStack == Spec => []CallChain
<1>1. IInv => CallChain
  BY DEF IInv
<1>. QED
  BY <1>1, Invariance, PTL

\* On every grid and every sheet, with any mixture of lazy and eager operators,
\* a memoized cell that does not depend on itself holds the meaning of its
\* formula over the memoized values.
THEOREM MemoIsMeaning == Spec => []Coherent
<1>1. IInv => Coherent
  <2>. SUFFICES ASSUME IInv, NEW c \in Cells, phase[c] = "done", ~Cyclic(c)
                PROVE  cache[c] = Denote(sheet[c], cache)
    BY DEF Coherent
  <2>1. PICK got \in Seq(Value) : /\ Dialogue(sheet[c], got)
                                  /\ ~Wants(sheet[c], got)
                                  /\ Faithful(sheet[c], got)
                                  /\ cache[c] = Result(sheet[c], got)
    BY DEF IInv, DoneFaithful
  <2>2. IsFormula(sheet[c])
    BY FrameFormula DEF IInv
  <2>3. \A k \in 1..Len(got) : got[k] = AtomValue(sheet[c].args[Position(sheet[c], got, k)], cache)
    BY <2>1 DEF Faithful
  <2>. QED
    BY <2>1, <2>2, <2>3, ResultIsDenotation
<1>. QED
  BY <1>1, Invariance, PTL

\* During a call a memoized value never changes: a cell is evaluated once.
THEOREM EvaluatedOnce == Spec => MemoStable
<1>1. IInv /\ [Next]_vars =>
        [\A c \in Cells : (phase[c] = "done" /\ stack # <<>>)
                             => phase'[c] = "done" /\ cache'[c] = cache[c]]_vars
  <2>. SUFFICES ASSUME IInv, Next, NEW c \in Cells, phase[c] = "done", stack # <<>>
                PROVE  phase'[c] = "done" /\ cache'[c] = cache[c]
    OBVIOUS
  <2>1. ~Compute /\ \A d \in Cells : ~Explain(d)
    BY DEF Compute, Explain, Serve
  <2>2. CASE TakeConst \/ (\E a \in Address : ReadOffGrid(a))
             \/ \E d \in Cells : ReadDone(d) \/ ReadVisiting(d)
    BY <2>2 DEF TakeConst, ReadOffGrid, ReadDone, ReadVisiting, Answer
  <2>3. ASSUME NEW d \in Cells, ReadUnvisited(d)
        PROVE  phase'[c] = "done" /\ cache'[c] = cache[c]
    BY <2>3 DEF ReadUnvisited, IInv, Typed
  <2>4. CASE Finish
    <3>1. PICK d \in Cells, v \in Value :
               /\ cache' = [cache EXCEPT ![d] = v] /\ phase' = [phase EXCEPT ![d] = "done"]
               /\ phase[d] = "visiting"
      <4>1. PICK m \in Nat, d \in Cells, v \in Value :
                 /\ DOMAIN stack = 1..(m+1) /\ d = stack[m+1].cell
                 /\ cache' = [cache EXCEPT ![d] = v] /\ phase' = [phase EXCEPT ![d] = "done"]
        BY <2>4, FinishShape
      <4>2. phase[d] = "visiting"
        BY <4>1 DEF IInv, CallChain
      <4>. QED  BY <4>1, <4>2
    <3>. QED  BY <3>1 DEF IInv, Typed
  <2>5. CASE Return
    BY <2>5 DEF Return
  <2>. QED
    BY <2>1, <2>2, <2>3, <2>4, <2>5 DEF Next, Step
<1>. QED
  BY <1>1, Invariance, PTL DEF Spec, MemoStable

-----------------------------------------------------------------------------
(* The results of calls. *)

\* A value an evaluation has obtained answers an atom of its formula.
LEMMA AnsweredInArgs ==
  ASSUME NEW f, IsFormula(f), NEW got \in Seq(Value), Dialogue(f, got), NEW k \in 1..Len(got)
  PROVE  Position(f, got, k) \in DOMAIN f.args /\ f.args[Position(f, got, k)] \in Atom
<1>1. f.args \in Seq(Atom) /\ Len(f.args) \in Nat /\ Len(got) \in Nat /\ k \in Nat /\ k >= 1
  BY DEF IsFormula
<1>2. k <= Len(f.args)
  BY DEF Dialogue, WantsNth
<1>3. f.op = "if" => Len(f.args) = 3
  BY DEF IsFormula, Arity, Op
<1>4. Position(f, got, k) \in 1..Len(f.args)
  <2>1. CASE f.op = "if" /\ k = 2 /\ ~Truthy(got[1])
    <3>1. Position(f, got, k) = 3 /\ Len(f.args) = 3
      BY <1>3, <2>1, Zenon DEF Position
    <3>. QED  BY <3>1
  <2>2. CASE ~(f.op = "if" /\ k = 2 /\ ~Truthy(got[1]))
    <3>1. Position(f, got, k) = k
      BY <2>2, Zenon DEF Position
    <3>. QED  BY <1>1, <1>2, <3>1
  <2>. QED  BY <2>1, <2>2
<1>. QED
  BY <1>1, <1>4

\* Only #CIRC! makes #CIRC!: an evaluation ends in it only when it was given it.
LEMMA CircIsPassedOn ==
  ASSUME NEW f, IsFormula(f), NEW got \in Seq(Value), ~Wants(f, got),
         Result(f, got) = Error("#CIRC!")
  PROVE  \E k \in 1..Len(got) : got[k] = Error("#CIRC!")
<1>1. Len(got) \in Nat /\ Len(got) >= 1 /\ DOMAIN got = 1..Len(got)
  BY DEF Wants, WantsNth, IsFormula, Arity, Op
<1>2. /\ \A b : Bool(b) # Error("#CIRC!")
      /\ \A n : Number(n) # Error("#CIRC!")
      /\ Error("#VALUE!") # Error("#CIRC!")
  BY DEF Bool, Number, Error
<1>3. \A x, y : Plus(x, y) # Error("#CIRC!")
  BY <1>2 DEF Plus
<1>4. CASE f.op \in {"and", "add"} /\ HasError(got)
  <2>1. \E i \in DOMAIN got : IsError(got[i]) /\ \A j \in DOMAIN got : j < i => ~IsError(got[j])
    <3>. DEFINE T == {i \in DOMAIN got : IsError(got[i])}
    <3>1. T \in SUBSET Nat /\ T # {}
      BY <1>1, <1>4 DEF HasError
    <3>2. PICK i \in T : \A k \in T : i <= k
      <4>. HIDE DEF T
      <4>. QED  BY <3>1, LeastElement
    <3>. QED  BY <3>1, <3>2
  <2>2. \E i \in DOMAIN got : FirstError(got) = got[i]
    BY <2>1 DEF FirstError
  <2>3. Result(f, got) = FirstError(got)
    BY <1>4 DEF Result
  <2>. QED  BY <1>1, <2>2, <2>3
<1>5. CASE f.op \notin {"and", "add", "iserror"} /\ ~(f.op = "ref" /\ Len(f.args) > 1)
  BY <1>1, <1>5 DEF Result
<1>6. CASE \/ f.op = "iserror"
           \/ f.op \in {"and", "add"} /\ ~HasError(got)
           \/ f.op = "ref" /\ Len(f.args) > 1
  BY <1>2, <1>3, <1>6 DEF Result, AllTruthy
<1>. QED
  BY <1>4, <1>5, <1>6

\* A strict formula that was answered with an error, or reads an atom whose value
\* would be one, is an error.
LEMMA StrictIsError ==
  ASSUME NEW f, IsFormula(f), f.op \in {"add", "and"}, NEW got \in Seq(Value),
         ~Wants(f, got), NEW n \in DOMAIN f.args,
         n <= Len(got) => IsError(got[n])
  PROVE  IsError(Result(f, got))
<1>1. /\ Len(got) \in Nat /\ Len(f.args) \in Nat /\ n \in 1..Len(f.args)
      /\ DOMAIN got = 1..Len(got)
  BY DEF IsFormula
<1>2. HasError(got)
  <2>1. SUFFICES ASSUME ~HasError(got) PROVE n <= Len(got)
    BY <1>1 DEF HasError
  <2>2. f.op = "add" => Len(f.args) = 2
    BY DEF IsFormula, Arity
  <2>3. \A i \in 1..Len(got) : ~IsError(got[i])
    BY <1>1, <2>1 DEF HasError
  <2>4. ~WantsNth(f, got, Len(got) + 1)
    BY DEF Wants
  <2>5. CASE f.op = "and"
    BY <1>1, <2>4, <2>5 DEF WantsNth
  <2>6. CASE f.op = "add"
    BY <1>1, <2>2, <2>3, <2>4, <2>6 DEF WantsNth
  <2>. QED  BY <2>5, <2>6
<1>. QED
  BY <1>2, FirstErrorIsError DEF Result

-----------------------------------------------------------------------------
(***************************************************************************)
(* Errors of cycles.                                                       *)
(***************************************************************************)

\* No formula has #CIRC! written in it.
CircUnwritten == \A s \in Sheets : \A c \in Cells : \A i \in DOMAIN s[c].args :
                   s[c].args[i].atom = "const" => s[c].args[i].value # Error("#CIRC!")

\* c is, or leads to, a cell that depends on itself.
LeadsToCycle(c) == \E d \in Cells : (d = c \/ Reaches(c, d)) /\ Cyclic(d)

\* Strict formulas each of which reads another of the set.
Strict(S) == \A c \in S : sheet[c].op \in {"add", "and"} /\ Refs(sheet[c]) \cap S # {}

\* Inside such a set every answer a frame has had from the set is an error.
FramesStrict ==
  \A S \in SUBSET Cells : Strict(S) =>
    \A i \in DOMAIN stack : stack[i].cell \in S =>
      \A k \in 1..Len(stack[i].got) :
        LET a == sheet[stack[i].cell].args[k] IN
        a.atom = "cell" /\ a.cell \in S => IsError(stack[i].got[k])

CycleInv == CircIsReal /\ StrictCycleIsError /\ FramesStrict

\* Leading to a cycle is passed up a reference.
LEMMA LeadsStep ==
  ASSUME NEW c \in Cells, NEW d \in Refs(sheet[c]) \cap Cells, LeadsToCycle(d)
  PROVE  LeadsToCycle(c)
<1>1. PICK e \in Cells : (e = d \/ Reaches(d, e)) /\ Cyclic(e)
  BY DEF LeadsToCycle
<1>2. Reaches(c, e)
  BY <1>1, ReachesRef, ReachesStep
<1>. QED
  BY <1>1, <1>2 DEF LeadsToCycle

\* The value of a finished cell is #CIRC! only when it leads to a cycle.
LEMMA FinishCirc ==
  ASSUME CircUnwritten, sheet \in Sheets, IInv, CircIsReal, NEW m \in Nat, m >= 1, DOMAIN stack = 1..(m+1),
         NEW c \in Cells, c = stack[m+1].cell, stack[m+1] \in FrameType,
         IsFormula(sheet[c]), ~Wants(sheet[c], stack[m+1].got),
         Result(sheet[c], stack[m+1].got) = Error("#CIRC!")
  PROVE  LeadsToCycle(c)
<1>. DEFINE f == sheet[c]
            got == stack[m+1].got
<1>1. CASE Cyclic(c)
  BY <1>1 DEF LeadsToCycle
<1>2. CASE ~Cyclic(c)
  <2>1. got \in Seq(Value) /\ sheet \in Sheets
    BY DEF FrameType, IInv, Typed
  <2>2. Dialogue(f, got) /\ Faithful(f, got)
    <3>1. FormulaOf(c) = f
      BY FrameFormula DEF IInv
    <3>2. m + 1 \in DOMAIN stack /\ 1 < m + 1
      OBVIOUS
    <3>. QED  BY <1>2, <3>1, <3>2 DEF IInv, Dialogues, FramesFaithful
  <2>3. PICK k \in 1..Len(got) : got[k] = Error("#CIRC!")
    BY <2>1, CircIsPassedOn
  <2>. DEFINE a == f.args[Position(f, got, k)]
  <2>4. Position(f, got, k) \in DOMAIN f.args /\ a \in Atom
    BY <2>1, <2>2, AnsweredInArgs
  <2>5. Settled(a) /\ AtomValue(a, cache) = Error("#CIRC!")
    BY <2>2, <2>3 DEF Faithful
  <2>6. a.atom = "cell" /\ a.cell \in Cells /\ cache[a.cell] = Error("#CIRC!")
    <3>1. a.atom = "const" => a.value # Error("#CIRC!")
      BY <2>1, <2>4 DEF CircUnwritten
    <3>2. Error("#REF!") # Error("#CIRC!")
      BY DEF Error
    <3>3. DOMAIN cache = Cells
      BY DEF IInv, Typed
    <3>4. a.atom \in {"const", "cell"}
      BY <2>4 DEF Atom
    <3>. HIDE DEF a
    <3>. QED  BY <2>5, <3>1, <3>2, <3>3, <3>4 DEF AtomValue
  <2>7. phase[a.cell] = "done"
    BY <2>5, <2>6 DEF Settled
  <2>8. LeadsToCycle(a.cell)
    BY <2>6, <2>7 DEF CircIsReal, LeadsToCycle
  <2>9. a.cell \in Refs(f) \cap Cells
    BY <2>4, <2>6 DEF Refs
  <2>. QED  BY <2>8, <2>9, LeadsStep
<1>. QED
  BY <1>1, <1>2

\* An answer keeps the errors of cycles, provided that it is an error when the cell
\* asked for is done in error or is being evaluated.
LEMMA AnswerCycles ==
  ASSUME IInv, CycleInv, Asking, NEW v \in Value, Answer(v),
         (Target.atom = "cell" /\ Target.cell \in Cells)
           => (v = cache[Target.cell] /\ phase[Target.cell] = "done") \/ IsError(v)
  PROVE  CycleInv'
<1>1. /\ stack' \in Seq(FrameType) /\ Len(stack') = Len(stack)
      /\ \A i \in 1..Len(stack) : stack'[i].cell = stack[i].cell
      /\ \A i \in 1..Len(stack) : i # Len(stack) => stack'[i] = stack[i]
      /\ stack'[Len(stack)].got = Append(Top.got, v)
  BY AnswerShape DEF IInv
<1>2. /\ Len(stack) \in Nat /\ Len(stack) >= 1
      /\ DOMAIN stack = 1..Len(stack) /\ DOMAIN stack' = 1..Len(stack)
      /\ Top.got \in Seq(Value) /\ Top = stack[Len(stack)] /\ Top.cell \in Cells \cup {Caller}
  BY <1>1, TargetFacts DEF IInv, Typed, FrameType, Top
<1>0. /\ Len(Append(Top.got, v)) = Len(Top.got) + 1 /\ Len(Top.got) \in Nat
      /\ \A k \in 1..Len(Top.got) : Append(Top.got, v)[k] = Top.got[k]
      /\ Append(Top.got, v)[Len(Top.got) + 1] = v
  BY <1>2
<1>3. UNCHANGED <<sheet, request, phase, cache, grid, trace>>
  BY DEF Answer
<1>4. CircIsReal'
  <2>1. \A a, b : Reaches(a, b)' <=> Reaches(a, b)
    BY <1>3, ReachesStable
  <2>. QED  BY <1>3, <2>1 DEF CycleInv, CircIsReal, Cyclic
<1>5. StrictCycleIsError'
  BY <1>3 DEF CycleInv, StrictCycleIsError
<1>6. ASSUME NEW S \in SUBSET Cells, Strict(S), NEW i \in 1..Len(stack), stack[i].cell \in S,
             NEW got, got = stack'[i].got, NEW k \in 1..Len(got),
             NEW a, a = sheet[stack[i].cell].args[k], a.atom = "cell", a.cell \in S
      PROVE  IsError(got[k])
  <2>0. \A j \in 1..Len(stack[i].got) : j = k => IsError(stack[i].got[j])
    BY <1>2, <1>6 DEF CycleInv, FramesStrict
  <2>1. CASE i # Len(stack)
    <3>1. got = stack[i].got
      BY <1>1, <1>6, <2>1
    <3>. QED  BY <1>6, <2>0, <3>1
  <2>2. CASE i = Len(stack)
    <3>1. got = Append(Top.got, v) /\ stack[i] = Top
      BY <1>1, <1>2, <1>6, <2>2
    <3>2. k \in 1..(Len(Top.got) + 1)
      BY <1>0, <1>6, <3>1
    <3>3. CASE k \in 1..Len(Top.got)
      BY <1>0, <2>0, <3>1, <3>3
    <3>4. CASE k = Len(Top.got) + 1
      <4>1. got[k] = v
        BY <1>0, <3>1, <3>4
      <4>2. Top.cell \in Cells /\ sheet[Top.cell].op \in {"add", "and"}
        BY <1>2, <1>6, <3>1 DEF Strict
      <4>3. FormulaOf(Top.cell) = sheet[Top.cell]
        BY <4>2, FrameFormula DEF IInv
      <4>4. Target = a
        BY <1>6, <3>1, <3>4, <4>2, <4>3 DEF Target, Wanted, Position
      <4>5. phase[a.cell] = "done" => IsError(cache[a.cell])
        BY <1>6 DEF CycleInv, StrictCycleIsError, Strict
      <4>. QED  BY <1>6, <4>1, <4>4, <4>5
    <3>. QED  BY <1>0, <3>2, <3>3, <3>4
  <2>. QED  BY <2>1, <2>2
<1>7. FramesStrict'
  <2>1. \A S : Strict(S)' <=> Strict(S)
    BY <1>3 DEF Strict
  <2>. QED  BY <1>1, <1>2, <1>3, <1>6, <2>1 DEF FramesStrict
<1>. QED
  BY <1>4, <1>5, <1>7 DEF CycleInv

\* A fresh frame has had no answer, and no cell becomes done.
LEMMA PushCycles ==
  ASSUME IInv, CycleInv, NEW c \in Cells, ReadUnvisited(c)
  PROVE  CycleInv'
<1>1. UNCHANGED <<sheet, cache>> /\ phase' = [phase EXCEPT ![c] = "visiting"]
  BY DEF ReadUnvisited
<1>2. phase \in [Cells -> Phase]
  BY DEF IInv, Typed
<1>3. \A d \in Cells : phase'[d] = "done" => phase[d] = "done"
  BY <1>1, <1>2
<1>4. \A a, b : Reaches(a, b)' <=> Reaches(a, b)
  BY <1>1, ReachesStable
<1>5. CircIsReal'
  BY <1>1, <1>3, <1>4 DEF CycleInv, CircIsReal, Cyclic
<1>6. StrictCycleIsError'
  BY <1>1, <1>3 DEF CycleInv, StrictCycleIsError
<1>7. FramesStrict'
  <2>1. /\ stack' = Append(stack, Frame(c)) /\ stack \in Seq(FrameType) /\ Len(stack) \in Nat
        /\ Frame(c).got = <<>> /\ DOMAIN stack = 1..Len(stack)
    BY DEF ReadUnvisited, IInv, Typed, Frame
  <2>2. /\ DOMAIN stack' = 1..(Len(stack) + 1)
        /\ \A i \in 1..Len(stack) : stack'[i] = stack[i]
        /\ stack'[Len(stack) + 1].got = <<>>
    <3>. HIDE DEF Frame
    <3>. QED  BY <2>1
  <2>3. \A S : Strict(S)' <=> Strict(S)
    BY <1>1 DEF Strict
  <2>. QED  BY <1>1, <2>1, <2>2, <2>3 DEF CycleInv, FramesStrict
<1>. QED
  BY <1>5, <1>6, <1>7 DEF CycleInv

\* The value of a cell that finishes is #CIRC! only if the cell leads to a cycle, and
\* an error if the cell is one of strict formulas that read each other.
LEMMA FinishCycles ==
  ASSUME CircUnwritten, sheet \in Sheets, IInv, CycleInv, Finish
  PROVE  CycleInv'
<1>0. PICK m \in Nat, c \in Cells, v \in Value :
         /\ m >= 1 /\ DOMAIN stack = 1..(m+1) /\ Len(stack) = m + 1 /\ stack \in Seq(FrameType)
         /\ stack[m] \in FrameType /\ stack[m+1] \in FrameType
         /\ c = stack[m+1].cell /\ IsFormula(sheet[c]) /\ ~Wants(sheet[c], stack[m+1].got)
         /\ v = Result(sheet[c], stack[m+1].got)
         /\ cache' = [cache EXCEPT ![c] = v] /\ phase' = [phase EXCEPT ![c] = "done"]
         /\ stack' \in Seq(FrameType) /\ DOMAIN stack' = 1..m /\ Len(stack') = m
         /\ \A i \in 1..m : i # m => stack'[i] = stack[i]
         /\ stack'[m].cell = stack[m].cell /\ stack'[m].got = Append(stack[m].got, v)
         /\ UNCHANGED <<sheet, request, grid, trace>>
  BY FinishShape
<1>. DEFINE below == stack[m] top == stack[m+1]
<1>1. /\ phase \in [Cells -> Phase] /\ cache \in [Cells -> Value]
      /\ below.got \in Seq(Value) /\ top.got \in Seq(Value) /\ below.cell \in Cells \cup {Caller}
      /\ m \in DOMAIN stack /\ m + 1 \in DOMAIN stack
  BY <1>0 DEF IInv, Typed, FrameType
<1>2. /\ \A d \in Cells : phase'[d] = "done" <=> d = c \/ phase[d] = "done"
      /\ \A d \in Cells : cache'[d] = IF d = c THEN v ELSE cache[d]
  BY <1>0, <1>1
<1>3. \A a, b : Reaches(a, b)' <=> Reaches(a, b)
  BY <1>0, ReachesStable
<1>4. \A S : Strict(S)' <=> Strict(S)
  BY <1>0 DEF Strict
<1>5. CircIsReal'
  <2>1. v = Error("#CIRC!") => LeadsToCycle(c)
    BY <1>0, FinishCirc DEF CycleInv
  <2>2. \A d \in Cells : phase'[d] = "done" /\ cache'[d] = Error("#CIRC!") => LeadsToCycle(d)
    BY <1>2, <2>1 DEF CycleInv, CircIsReal, LeadsToCycle
  <2>3. \A d : Cyclic(d)' <=> Cyclic(d)
    BY <1>3 DEF Cyclic
  <2>. QED  BY <1>3, <2>2, <2>3 DEF CircIsReal, LeadsToCycle
<1>6. ASSUME NEW S \in SUBSET Cells, Strict(S), c \in S
      PROVE  IsError(v)
  <2>1. sheet[c].op \in {"add", "and"} /\ \E d \in S : d \in Refs(sheet[c])
    BY <1>6 DEF Strict
  <2>2. PICK n \in DOMAIN sheet[c].args : sheet[c].args[n].atom = "cell" /\ sheet[c].args[n].cell \in S
    BY <2>1 DEF Refs
  <2>3. n \in Nat /\ n >= 1
    BY <1>0, <2>2 DEF IsFormula
  <2>4. n <= Len(top.got) => IsError(top.got[n])
    <3>1. n <= Len(top.got) => n \in 1..Len(top.got)
      BY <1>1, <2>3
    <3>. QED  BY <1>0, <1>1, <1>6, <2>2, <3>1 DEF CycleInv, FramesStrict
  <2>. QED  BY <1>0, <1>1, <2>1, <2>2, <2>4, StrictIsError
<1>7. StrictCycleIsError'
  <2>1. ASSUME NEW S \in SUBSET Cells, Strict(S), NEW d \in S, phase'[d] = "done"
        PROVE  IsError(cache'[d])
    BY <1>2, <1>6, <2>1 DEF CycleInv, StrictCycleIsError, Strict
  <2>2. StrictCycleIsError' <=>
          \A S \in SUBSET Cells : Strict(S)' => \A d \in S : phase'[d] = "done" => IsError(cache'[d])
    BY Zenon DEF StrictCycleIsError, Strict
  <2>. QED  BY <1>4, <2>1, <2>2
<1>8. ASSUME NEW S \in SUBSET Cells, Strict(S), NEW i \in 1..m, stack[i].cell \in S,
             NEW got, got = stack'[i].got, NEW k \in 1..Len(got),
             NEW a, a = sheet[stack[i].cell].args[k], a.atom = "cell", a.cell \in S
      PROVE  IsError(got[k])
  <2>0. \A j \in 1..Len(stack[i].got) : j = k => IsError(stack[i].got[j])
    <3>1. i \in DOMAIN stack
      BY <1>0
    <3>. QED  BY <1>8, <3>1 DEF CycleInv, FramesStrict
  <2>1. CASE i # m
    <3>1. got = stack[i].got
      BY <1>0, <1>8, <2>1
    <3>. QED  BY <1>8, <2>0, <3>1
  <2>2. CASE i = m
    <3>0. /\ Len(Append(below.got, v)) = Len(below.got) + 1 /\ Len(below.got) \in Nat
          /\ \A j \in 1..Len(below.got) : Append(below.got, v)[j] = below.got[j]
          /\ Append(below.got, v)[Len(below.got) + 1] = v
      BY <1>1
    <3>1. got = Append(below.got, v) /\ stack[i] = below
      BY <1>0, <1>8, <2>2
    <3>2. k \in 1..(Len(below.got) + 1)
      BY <1>8, <3>0, <3>1
    <3>3. CASE k \in 1..Len(below.got)
      BY <2>0, <3>0, <3>1, <3>3
    <3>4. CASE k = Len(below.got) + 1
      <4>1. got[k] = v
        BY <3>0, <3>1, <3>4
      <4>2. below.cell \in Cells /\ sheet[below.cell].op \in {"add", "and"}
        BY <1>1, <1>8, <3>1 DEF Strict
      <4>3. FormulaOf(below.cell) = sheet[below.cell]
        BY <4>2, FrameFormula DEF IInv
      <4>4. Wanted(FormulaOf(below.cell), below.got) = Ref(c)
        <5>1. (m + 1) - 1 = m /\ m + 1 > 1
          BY <1>0
        <5>. QED  BY <1>0, <1>1, <5>1 DEF IInv, CallChain
      <4>5. a = Ref(c)
        BY <1>8, <3>1, <3>4, <4>2, <4>3, <4>4 DEF Wanted, Position
      <4>6. c \in S
        BY <1>8, <4>5 DEF Ref
      <4>. QED  BY <1>6, <1>8, <4>1, <4>6
    <3>. QED  BY <3>2, <3>3, <3>4
  <2>. QED  BY <2>1, <2>2
<1>9. FramesStrict'
  <2>1. \A i \in 1..m : stack'[i].cell = stack[i].cell
    BY <1>0
  <2>2. sheet' = sheet /\ DOMAIN stack' = 1..m
    BY <1>0
  <2>3. ASSUME NEW S \in SUBSET Cells, Strict(S)', NEW i \in DOMAIN stack', stack'[i].cell \in S,
               NEW k \in 1..Len(stack'[i].got),
               sheet'[stack'[i].cell].args[k].atom = "cell",
               sheet'[stack'[i].cell].args[k].cell \in S
        PROVE  IsError(stack'[i].got[k])
    BY <1>4, <1>8, <2>1, <2>2, <2>3
  <2>. QED  BY <2>3 DEF FramesStrict
<1>. QED
  BY <1>5, <1>7, <1>9 DEF CycleInv

\* Beginning and ending a call leave no cell done that was not, and no answers.
LEMMA CallCycles ==
  ASSUME CycleInv, Compute \/ (\E c \in Cells : Explain(c)) \/ Return
  PROVE  CycleInv'
<1>1. CASE Return
  <2>1. UNCHANGED <<sheet, phase, cache>> /\ stack' = <<>>
    BY <1>1 DEF Return
  <2>2. \A a, b : Reaches(a, b)' <=> Reaches(a, b)
    BY <2>1, ReachesStable
  <2>. QED  BY <2>1, <2>2 DEF CycleInv, CircIsReal, Cyclic, StrictCycleIsError, FramesStrict
<1>2. CASE Compute \/ \E c \in Cells : Explain(c)
  <2>1. phase' = [c \in Cells |-> "unvisited"] /\ stack' = <<Frame(Caller)>>
    BY <1>2 DEF Compute, Explain, Serve, NewComputer
  <2>2. CircIsReal' /\ StrictCycleIsError'
    BY <2>1 DEF CircIsReal, StrictCycleIsError
  <2>3. DOMAIN stack' = {1} /\ stack'[1].got = <<>>
    BY <2>1 DEF Frame
  <2>4. FramesStrict'
    BY <2>3 DEF FramesStrict
  <2>. QED  BY <2>2, <2>4 DEF CycleInv
<1>. QED
  BY <1>1, <1>2

\* On every sheet in which nobody typed #CIRC!: a cell shows it only when its
\* references lead to a cell that depends on itself, and strict formulas that read
\* each other are errors, wherever the evaluation entered the cycle.
THEOREM CyclesShow ==
  ASSUME CircUnwritten
  PROVE  Spec => []CyclesAreErrors
<1>1. Init => CycleInv
  <2>. SUFFICES ASSUME Init PROVE CycleInv
    OBVIOUS
  <2>1. phase = [c \in Cells |-> "unvisited"] /\ stack = <<>>
    BY DEF Init
  <2>. QED  BY <2>1 DEF CycleInv, CircIsReal, StrictCycleIsError, FramesStrict
<1>2. TypeOK /\ IInv /\ CycleInv /\ [Next]_vars => CycleInv'
  <2>. SUFFICES ASSUME TypeOK, IInv, CycleInv, [Next]_vars PROVE CycleInv'
    OBVIOUS
  <2>1. CASE Compute \/ (\E c \in Cells : Explain(c)) \/ Return
    BY <2>1, CallCycles
  <2>2. CASE TakeConst
    <3>1. Asking /\ Target.atom = "const" /\ Answer(Target.value)
      BY <2>2 DEF TakeConst
    <3>2. Target.value \in Value
      BY <3>1, TargetFacts DEF IInv, Atom
    <3>. QED  BY <3>1, <3>2, AnswerCycles
  <2>3. CASE \E a \in Address : ReadOffGrid(a)
    <3>1. Asking /\ Target.cell \notin Cells /\ Answer(Error("#REF!"))
      BY <2>3 DEF ReadOffGrid, Reading
    <3>2. Error("#REF!") \in Value
      BY DEF Error, Value, ErrorCode
    <3>. QED  BY <3>1, <3>2, AnswerCycles
  <2>4. CASE \E c \in Cells : ReadDone(c)
    <3>1. PICK c \in Cells : ReadDone(c)
      BY <2>4
    <3>2. Asking /\ Target.cell = c /\ phase[c] = "done" /\ Answer(cache[c])
      BY <3>1 DEF ReadDone, Reading
    <3>3. cache[c] \in Value
      BY DEF IInv, Typed
    <3>. QED  BY <3>2, <3>3, AnswerCycles
  <2>5. CASE \E c \in Cells : ReadVisiting(c)
    <3>1. Asking /\ Answer(Error("#CIRC!"))
      BY <2>5 DEF ReadVisiting, Reading
    <3>2. Error("#CIRC!") \in Value /\ IsError(Error("#CIRC!"))
      BY DEF Error, Value, ErrorCode, IsError
    <3>. QED  BY <3>1, <3>2, AnswerCycles
  <2>6. CASE \E c \in Cells : ReadUnvisited(c)
    BY <2>6, PushCycles
  <2>7. CASE Finish
    BY <2>7, FinishCycles DEF TypeOK
  <2>8. CASE UNCHANGED vars
    <3>1. UNCHANGED <<sheet, phase, cache, stack>>
      BY <2>8 DEF vars
    <3>2. \A a, b : Reaches(a, b)' <=> Reaches(a, b)
      BY <3>1, ReachesStable
    <3>. QED  BY <3>1, <3>2 DEF CycleInv, CircIsReal, Cyclic, StrictCycleIsError, FramesStrict, Strict
  <2>. QED
    BY <2>1, <2>2, <2>3, <2>4, <2>5, <2>6, <2>7, <2>8 DEF Next, Step
<1>3. CycleInv => CyclesAreErrors
  BY DEF CycleInv, CyclesAreErrors
<1>. QED
  BY <1>1, <1>2, <1>3, Invariance, TypeCorrect, PTL DEF Spec

-----------------------------------------------------------------------------
(***************************************************************************)
(* The refinement of Recalc.                                               *)
(***************************************************************************)

\* An evaluation goes on after its first value when the operator wants a second.
GoesOn(f, got) == IF f.op \in {"iferror", "ifna"} THEN Caught(f.op, got[1]) ELSE ~IsError(got[1])

\* An evaluation that wants no more has read every atom of an eager call, and the
\* second of any other that goes on.
LEMMA ReadsEnough ==
  ASSUME NEW f, IsFormula(f), NEW got \in Seq(Value), ~Wants(f, got)
  PROVE  /\ Len(got) \in Nat /\ Len(got) >= 1
         /\ f.op \in {"literal", "ref", "and", "iserror"} => Len(got) >= Len(f.args)
         /\ f.op \in {"add", "if", "iferror", "ifna"} /\ GoesOn(f, got) => Len(got) >= 2
<1>1. Len(f.args) \in Nat /\ Len(got) \in Nat /\ Len(got) >= 1
  BY DEF Wants, WantsNth, IsFormula, Arity, Op
<1>2. f.op \in {"literal", "ref", "and", "iserror"} => Len(got) >= Len(f.args)
  BY <1>1 DEF Wants, WantsNth
<1>3. ASSUME f.op \in {"add", "if", "iferror", "ifna"}, GoesOn(f, got), Len(got) = 1
      PROVE  FALSE
  <2>1. f.op \in {"add", "iferror", "ifna"} => Len(f.args) = 2
    BY DEF IsFormula, Arity
  <2>2. f.op = "if" => Len(f.args) = 3
    BY DEF IsFormula, Arity
  <2>3. 2 <= Len(f.args)
    BY <1>3, <2>1, <2>2
  <2>4. WantsNth(f, got, 2)
    BY <1>3, <2>3, Zenon DEF WantsNth, GoesOn
  <2>5. Len(got) + 1 = 2
    BY <1>3
  <2>. QED  BY <2>4, <2>5 DEF Wants
<1>4. \A n \in Nat : n >= 1 /\ n # 1 => n >= 2
  OBVIOUS
<1>. QED
  BY <1>1, <1>2, <1>3, <1>4, Zenon

\* What the meaning of a formula rests on, its evaluation has read.
LEMMA NeededIsRead ==
  ASSUME NEW f, IsFormula(f), NEW got \in Seq(Value), NEW env, ~Wants(f, got),
         got[1] = AtomValue(f.args[1], env), NEW d \in Needed(f, env)
  PROVE  \E k \in 1..Len(got) : /\ f.args[Position(f, got, k)].atom = "cell"
                                /\ f.args[Position(f, got, k)].cell = d
<1>1. /\ Len(f.args) \in Nat /\ DOMAIN f.args = 1..Len(f.args)
      /\ Len(got) \in Nat /\ Len(got) >= 1
  BY ReadsEnough DEF IsFormula
<1>2. CASE f.op \in {"literal", "ref", "and", "iserror"}
  <2>1. PICK n \in 1..Len(f.args) : f.args[n].atom = "cell" /\ f.args[n].cell = d
    BY <1>1, <1>2 DEF Needed, Refs
  <2>2. n \in 1..Len(got)
    BY <1>1, <1>2, ReadsEnough
  <2>3. Position(f, got, n) = n
    BY <1>2 DEF Position
  <2>. QED  BY <2>1, <2>2, <2>3
<1>3. CASE f.op \in {"add", "if", "iferror", "ifna"}
  <2>. DEFINE second == IF f.op = "if" /\ ~Truthy(got[1]) THEN 3 ELSE 2
  <2>1. d \in CellAt(f, 1) \/ (GoesOn(f, got) /\ d \in CellAt(f, second))
    BY <1>3, Zenon DEF Needed, GoesOn
  <2>2. CASE d \in CellAt(f, 1)
    <3>1. Position(f, got, 1) = 1 /\ 1 \in 1..Len(got)
      BY <1>1 DEF Position
    <3>. QED  BY <2>2, <3>1 DEF CellAt
  <2>3. CASE GoesOn(f, got) /\ d \in CellAt(f, second)
    <3>1. 2 \in 1..Len(got)
      BY <1>3, <2>3, ReadsEnough
    <3>2. Position(f, got, 2) = second
      BY Zenon DEF Position
    <3>3. f.args[second].atom = "cell" /\ f.args[second].cell = d
      BY <2>3 DEF CellAt
    <3>. QED  BY <3>1, <3>2, <3>3
  <2>. QED  BY <2>1, <2>2, <2>3
<1>. QED
  BY <1>2, <1>3 DEF IsFormula, Op

\* The cells Recalc has settled.
SettledNow == [c \in Cells |-> IF phase[c] = "done" THEN cache[c] ELSE Unset]

\* A cell depends on itself in Recalc when it does here.
LEMMA SameCycles ==
  ASSUME NEW c
  PROVE  R!DependsOnItself(c) <=> Cyclic(c)
BY DEF R!DependsOnItself, R!Closed, Cyclic, Reaches, Closed

\* Recalc uses the meanings of formulas that Evaluator uses.
LEMMA SameMeaning ==
  ASSUME NEW f, NEW env
  PROVE  R!Denote(f, env) = Denote(f, env) /\ R!Needed(f, env) = Needed(f, env)
<1>1. R!Denote(f, env) = Denote(f, env)
  BY Zenon DEF R!Denote, R!AtomValue, R!Error, R!Bool, R!IsError, R!IsNumeric, R!HasError,
       R!FirstError, R!AllTruthy, R!Truthy, R!Caught, R!Plus, R!Number, R!AsNumber, R!Text,
       Denote, AtomValue, Error, Bool, IsError, IsNumeric, HasError,
       FirstError, AllTruthy, Truthy, Caught, Plus, Number, AsNumber, Text
<1>2. R!Needed(f, env) = Needed(f, env)
  BY Zenon DEF R!Needed, R!CellAt, R!Refs, R!AtomValue, R!Error, R!IsError, R!IsNumeric,
       R!Truthy, R!Caught, R!Text,
       Needed, CellAt, Refs, AtomValue, Error, IsError, IsNumeric, Truthy, Caught, Text
<1>. QED
  BY <1>1, <1>2

\* A cell that finishes settles: in dependency order and at its meaning, unless it
\* depends on itself.
LEMMA FinishSettles ==
  ASSUME IInv, Finish
  PROVE  \E c \in Cells : R!Settle(c)
<1>0. PICK m \in Nat, c \in Cells, v \in Value :
         /\ m >= 1 /\ DOMAIN stack = 1..(m+1) /\ Len(stack) = m + 1 /\ stack \in Seq(FrameType)
         /\ stack[m] \in FrameType /\ stack[m+1] \in FrameType
         /\ c = stack[m+1].cell /\ IsFormula(sheet[c]) /\ ~Wants(sheet[c], stack[m+1].got)
         /\ v = Result(sheet[c], stack[m+1].got)
         /\ cache' = [cache EXCEPT ![c] = v] /\ phase' = [phase EXCEPT ![c] = "done"]
         /\ stack' \in Seq(FrameType) /\ DOMAIN stack' = 1..m /\ Len(stack') = m
         /\ \A i \in 1..m : i # m => stack'[i] = stack[i]
         /\ stack'[m].cell = stack[m].cell /\ stack'[m].got = Append(stack[m].got, v)
         /\ UNCHANGED <<sheet, request, grid, trace>>
  BY FinishShape
<1>. DEFINE f == sheet[c]
            got == stack[m+1].got
<1>1. /\ phase \in [Cells -> Phase] /\ cache \in [Cells -> Value] /\ got \in Seq(Value)
      /\ m + 1 \in DOMAIN stack /\ 1 < m + 1
  BY <1>0 DEF IInv, Typed, FrameType
<1>2. phase[c] = "visiting"
  BY <1>0, <1>1 DEF IInv, CallChain
<1>3. \A w \in Value : w # Unset
  BY DEF Value, Unset, Empty, Text
<1>4. /\ SettledNow[c] = Unset /\ SettledNow'[c] # Unset /\ SettledNow'[c] = v
      /\ DOMAIN SettledNow' = Cells /\ DOMAIN SettledNow = Cells
      /\ \A d \in Cells \ {c} : SettledNow'[d] = SettledNow[d]
  BY <1>0, <1>1, <1>2, <1>3 DEF SettledNow
<1>5. ASSUME ~Cyclic(c)
      PROVE  /\ \A d \in Needed(f, SettledNow) : SettledNow[d] # Unset
             /\ v = Denote(f, SettledNow)
  <2>1. Dialogue(f, got) /\ Faithful(f, got)
    <3>1. FormulaOf(c) = f
      BY FrameFormula DEF IInv
    <3>. QED  BY <1>0, <1>1, <1>5, <3>1 DEF IInv, Dialogues, FramesFaithful
  <2>2. ASSUME NEW a, Settled(a)
        PROVE  AtomValue(a, cache) = AtomValue(a, SettledNow)
    BY <1>1, <2>2 DEF AtomValue, Settled, SettledNow
  <2>3. \A k \in 1..Len(got) : got[k] = AtomValue(f.args[Position(f, got, k)], SettledNow)
    BY <2>1, <2>2 DEF Faithful
  <2>0. IsFormula(f) /\ ~Wants(f, got) /\ got \in Seq(Value) /\ v = Result(f, got)
    BY <1>0, <1>1
  <2>4. v = Denote(f, SettledNow)
    <3>. HIDE DEF f, got, SettledNow
    <3>1. Result(f, got) = Denote(f, SettledNow)
      BY <2>0, <2>1, <2>3, ResultIsDenotation, Zenon
    <3>. QED  BY <2>0, <3>1
  <2>6. got[1] = AtomValue(f.args[1], SettledNow)
    <3>1. Len(got) \in Nat /\ Len(got) >= 1
      BY <2>0, ReadsEnough
    <3>2. Position(f, got, 1) = 1
      BY DEF Position
    <3>. QED  BY <2>3, <3>1, <3>2
  <2>5. ASSUME NEW d \in Needed(f, SettledNow)
        PROVE  SettledNow[d] # Unset
    <3>1. PICK k \in 1..Len(got) : /\ f.args[Position(f, got, k)].atom = "cell"
                                   /\ f.args[Position(f, got, k)].cell = d
      <4>. HIDE DEF f, got, SettledNow
      <4>. QED  BY <2>0, <2>5, <2>6, NeededIsRead, SMTT(30)
    <3>2. d \in Cells
      BY <1>4 DEF Needed
    <3>3. phase[d] = "done"
      BY <2>1, <3>1, <3>2 DEF Faithful, Settled
    <3>4. cache[d] # Unset
      BY <1>1, <1>3, <3>2
    <3>. QED  BY <3>2, <3>3, <3>4 DEF SettledNow
  <2>. QED  BY <2>4, <2>5
<1>6. R!Settle(c)
  <2>1. Cyclic(c) => R!DependsOnItself(c)
    BY SameCycles
  <2>2. /\ \A d \in R!Needed(f, SettledNow) : Cyclic(c) \/ SettledNow[d] # Unset
        /\ Cyclic(c) \/ SettledNow'[c] = R!Denote(f, SettledNow)
    <3>. HIDE DEF SettledNow
    <3>. QED  BY <1>4, <1>5, SameMeaning
  <2>. QED  BY <1>0, <1>4, <2>1, <2>2, Zenon DEF R!Settle, SettledNow
<1>. QED
  BY <1>6

\* The recursive evaluator implements Recalc: every step settles one cell in dependency
\* order at its meaning, begins a pass, or leaves the settled cells alone.
THEOREM Implements == Spec => ImplementsRecalc
<1>1. Init => R!Init
  <2>. SUFFICES ASSUME Init PROVE R!Init
    OBVIOUS
  <2>1. phase = [c \in Cells |-> "unvisited"]
    BY DEF Init
  <2>. QED  BY <2>1 DEF R!Init
<1>2. IInv /\ [Next]_vars => [R!Next]_<<sheet, SettledNow>>
  <2>. SUFFICES ASSUME IInv, [Next]_vars
                PROVE  R!Next \/ UNCHANGED <<sheet, SettledNow>>
    OBVIOUS
  <2>1. CASE Compute \/ \E c \in Cells : Explain(c)
    <3>1. phase' = [c \in Cells |-> "unvisited"] /\ sheet' = sheet
      BY <2>1 DEF Compute, Explain, Serve, NewComputer
    <3>. QED  BY <3>1 DEF R!Next, R!NewPass
  <2>2. CASE UNCHANGED <<sheet, phase, cache>>
    BY <2>2 DEF SettledNow
  <2>3. CASE \E c \in Cells : ReadUnvisited(c)
    <3>1. PICK c \in Cells : ReadUnvisited(c)
      BY <2>3
    <3>2. /\ phase[c] = "unvisited" /\ phase' = [phase EXCEPT ![c] = "visiting"]
          /\ UNCHANGED <<sheet, cache>> /\ phase \in [Cells -> Phase]
      BY <3>1 DEF ReadUnvisited, IInv, Typed
    <3>3. \A d \in Cells : phase'[d] = "done" <=> phase[d] = "done"
      BY <3>2
    <3>. QED  BY <3>2, <3>3 DEF SettledNow
  <2>4. CASE Finish
    BY <2>4, FinishSettles DEF R!Next
  <2>5. CASE TakeConst \/ (\E a \in Address : ReadOffGrid(a)) \/ Return
             \/ \E c \in Cells : ReadDone(c) \/ ReadVisiting(c)
    BY <2>2, <2>5 DEF TakeConst, ReadOffGrid, ReadDone, ReadVisiting, Answer, Return
  <2>6. CASE UNCHANGED vars
    BY <2>2, <2>6 DEF vars
  <2>. QED  BY <2>1, <2>3, <2>4, <2>5, <2>6 DEF Next, Step
<1>. QED
  BY <1>1, <1>2, Invariance, PTL DEF Spec, ImplementsRecalc, R!Spec, SettledNow

-----------------------------------------------------------------------------
(***************************************************************************)
(* What Compute reports.                                                   *)
(***************************************************************************)

\* The atoms a call asks for are those of the sheet it is served on.
RequestIsAsked ==
  stack # <<>> =>
    /\ request.op = "compute" => request.args = [i \in DOMAIN RowMajor |-> CellValue(RowMajor[i])]
    /\ request.op = "explain" =>
         request.args = <<Ref(request.at)>>
                          \o (IF sheet[request.at].op = "literal" THEN <<>> ELSE sheet[request.at].args)

\* What the caller has been told is what the cells it asked for hold, cycles or not:
\* its own reads never meet a cell under evaluation.
CallerFaithful == stack # <<>> => Faithful(request, stack[1].got)

\* The values in a grid are the meanings of the formulas over that same grid.
Means(env) == \A c \in Cells : ~Cyclic(c) => env[c] = Denote(sheet[c], env)

GridMeans == grid # None => Means(grid)

CallInv == RequestIsAsked /\ CallerFaithful /\ GridMeans

\* Which cells depend on themselves is a function of the sheet.
LEMMA MeansStable ==
  ASSUME sheet' = sheet
  PROVE  /\ \A c : Cyclic(c)' <=> Cyclic(c)
         /\ \A env : Means(env)' <=> Means(env)
<1>1. \A c : Cyclic(c)' <=> Cyclic(c)
  BY ReachesStable DEF Cyclic
<1>. QED
  BY <1>1 DEF Means

\* A literal mentions no cell and means its own value.
LEMMA LiteralFacts ==
  ASSUME NEW f, IsFormula(f), f.op = "literal"
  PROVE  /\ f.args[1].atom = "const" /\ Refs(f) = {}
         /\ \A env : Denote(f, env) = f.args[1].value
<1>1. Len(f.args) = 1 /\ DOMAIN f.args = {1} /\ f.args[1].atom = "const"
  BY DEF IsFormula, Arity
<1>. QED
  BY <1>1 DEF Refs, Denote, AtomValue

LEMMA LiteralNotCyclic ==
  ASSUME NEW c \in Cells, Refs(sheet[c]) = {}
  PROVE  ~Cyclic(c)
<1>1. Closed({}) /\ {} \in SUBSET Cells /\ Refs(sheet[c]) \cap Cells \subseteq {} /\ c \notin {}
  BY DEF Closed
<1>. QED
  BY <1>1 DEF Cyclic, Reaches

\* Atoms that are settled have in env the values they have in the cache, when env
\* holds what is memoized.
LEMMA SettledValue ==
  ASSUME NEW env, DOMAIN env = Cells, DOMAIN cache = Cells,
         \A d \in Cells : phase[d] = "done" => env[d] = cache[d],
         NEW a, Settled(a)
  PROVE  AtomValue(a, cache) = AtomValue(a, env)
BY DEF AtomValue, Settled

\* An evaluation with settled answers ends in the meaning over any such env.
LEMMA MeaningIn ==
  ASSUME NEW f, IsFormula(f), NEW got \in Seq(Value),
         Dialogue(f, got), ~Wants(f, got), Faithful(f, got),
         NEW env, DOMAIN env = Cells, DOMAIN cache = Cells,
         \A d \in Cells : phase[d] = "done" => env[d] = cache[d]
  PROVE  Result(f, got) = Denote(f, env)
<1>1. \A a : Settled(a) => AtomValue(a, cache) = AtomValue(a, env)
  BY SettledValue
<1>2. \A k \in 1..Len(got) : got[k] = AtomValue(f.args[Position(f, got, k)], env)
  BY <1>1, Zenon DEF Faithful
<1>. QED
  BY <1>2, ResultIsDenotation, Zenon

\* The caller's frame when a call returns.
LEMMA CallerDone ==
  ASSUME IInv, Return
  PROVE  /\ stack # <<>> /\ Top = stack[1] /\ Top.got \in Seq(Value) /\ request.op \notin Op
         /\ request.args \in Seq(Atom) /\ Len(Top.got) \in Nat
         /\ Len(request.args) <= Len(Top.got)
<1>1. stack \in Seq(FrameType) /\ Len(stack) = 1
  BY DEF IInv, Typed, Return
<1>2. Top = stack[1] /\ 1 \in DOMAIN stack /\ stack[1] \in FrameType /\ stack # <<>>
  <2>1. \A n \in Nat : Len(stack) = n => DOMAIN stack = 1..n
    BY <1>1
  <2>2. DOMAIN stack = 1..1 /\ Top = stack[1]
    BY <1>1, <2>1, Zenon DEF Top
  <2>. HIDE DEF FrameType
  <2>. QED  BY <1>1, <2>2
<1>3. Top.cell = Caller
  BY <1>2 DEF IInv, CallChain
<1>4. FormulaOf(Top.cell) = request /\ request.op \notin Op /\ request.args \in Seq(Atom)
  BY <1>3, FrameFormula DEF IInv, Typed
<1>5. Top.got \in Seq(Value)
  BY <1>2 DEF FrameType
<1>6. ~Wants(request, Top.got)
  BY <1>2, <1>4 DEF Return, Asking
<1>7. ~(Len(Top.got) + 1 <= Len(request.args))
  BY <1>4, <1>6 DEF Wants, WantsNth, Op
<1>. QED
  BY <1>2, <1>4, <1>5, <1>7

\* The grid that Compute returns.
LEMMA GridReturned ==
  ASSUME IInv, RequestIsAsked, CallerFaithful, Return, request.op = "compute"
  PROVE  Means(grid')
<1>. DEFINE nth(c) == CHOOSE i \in DOMAIN RowMajor : RowMajor[i] = c
            g == [c \in Cells |-> Top.got[nth(c)]]
<1>1. grid' = g
  BY DEF Return
<1>2. /\ stack # <<>> /\ Top = stack[1] /\ Top.got \in Seq(Value) /\ request.op \notin Op
      /\ Len(request.args) <= Len(Top.got) /\ Len(Top.got) \in Nat
  BY CallerDone
<1>3. /\ request.args = [i \in DOMAIN RowMajor |-> CellValue(RowMajor[i])]
      /\ DOMAIN RowMajor = 1..Len(RowMajor) /\ Len(RowMajor) \in Nat
      /\ Len(request.args) = Len(RowMajor)
  BY <1>2, RowMajorAssumption DEF RequestIsAsked
<1>4. ASSUME NEW c \in Cells
      PROVE  Settled(CellValue(c)) /\ g[c] = AtomValue(CellValue(c), cache)
  <2>. DEFINE i == nth(c)
  <2>1. i \in DOMAIN RowMajor /\ RowMajor[i] = c
    BY DEF Cells
  <2>. HIDE DEF nth
  <2>2. i \in 1..Len(Top.got) /\ request.args[i] = CellValue(c)
    BY <1>2, <1>3, <2>1
  <2>3. Position(request, Top.got, i) = i
    BY <1>2 DEF Position, Op
  <2>4. Settled(request.args[i]) /\ Top.got[i] = AtomValue(request.args[i], cache)
    BY <1>2, <2>2, <2>3 DEF CallerFaithful, Faithful
  <2>. QED  BY <2>2, <2>4
<1>5. DOMAIN g = Cells /\ DOMAIN cache = Cells
  BY DEF IInv, Typed
<1>6. \A c \in Cells : IsFormula(sheet[c])
  BY DEF IInv, Typed
<1>. HIDE DEF g
<1>7. ASSUME NEW c \in Cells, sheet[c].op = "literal"
      PROVE  \A env : g[c] = Denote(sheet[c], env)
  BY <1>4, <1>6, <1>7, LiteralFacts DEF CellValue, AtomValue
<1>8. ASSUME NEW c \in Cells, sheet[c].op # "literal"
      PROVE  phase[c] = "done" /\ g[c] = cache[c]
  BY <1>4, <1>5, <1>8 DEF CellValue, Ref, AtomValue, Settled
<1>9. ASSUME NEW c \in Cells, phase[c] = "done"
      PROVE  g[c] = cache[c]
  <2>1. CASE sheet[c].op = "literal"
    <3>1. ~Cyclic(c)
      BY <1>6, <2>1, LiteralFacts, LiteralNotCyclic
    <3>2. PICK got \in Seq(Value) : /\ Dialogue(sheet[c], got) /\ ~Wants(sheet[c], got)
                                    /\ Faithful(sheet[c], got) /\ cache[c] = Result(sheet[c], got)
      BY <1>9, <3>1 DEF IInv, DoneFaithful
    <3>3. cache[c] = Denote(sheet[c], cache)
      BY <1>5, <1>6, <3>2, MeaningIn
    <3>. QED  BY <1>7, <2>1, <3>3
  <2>. QED  BY <1>8, <2>1
<1>10. ASSUME NEW c \in Cells, ~Cyclic(c)
       PROVE  g[c] = Denote(sheet[c], g)
  <2>1. CASE sheet[c].op # "literal"
    <3>1. PICK got \in Seq(Value) : /\ Dialogue(sheet[c], got) /\ ~Wants(sheet[c], got)
                                    /\ Faithful(sheet[c], got) /\ cache[c] = Result(sheet[c], got)
      BY <1>8, <1>10, <2>1 DEF IInv, DoneFaithful
    <3>2. cache[c] = Denote(sheet[c], g)
      BY <1>5, <1>6, <1>9, <3>1, MeaningIn
    <3>. QED  BY <1>8, <2>1, <3>2
  <2>. QED  BY <1>7, <2>1
<1>. QED
  BY <1>1, <1>10 DEF Means

\* An answer to the caller's own read is what the cell asked for holds.
LEMMA AnswerCaller ==
  ASSUME IInv, CallerFaithful, Asking, NEW v \in Value, Answer(v),
         Len(stack) = 1 => Settled(Target) /\ v = AtomValue(Target, cache)
  PROVE  CallerFaithful'
<1>. DEFINE n == Len(stack)
<1>1. /\ n \in Nat /\ n >= 1 /\ stack \in Seq(FrameType) /\ stack # <<>>
      /\ Top \in FrameType /\ Top.got \in Seq(Value)
  BY TargetFacts DEF IInv, Typed, FrameType, Asking
<1>2. /\ Len(stack') = n /\ stack' \in Seq(FrameType)
      /\ \A i \in 1..n : i # n => stack'[i] = stack[i]
      /\ stack'[n].got = Append(Top.got, v)
  BY AnswerShape DEF IInv
<1>3. UNCHANGED <<request, phase, cache>>
  BY DEF Answer
<1>4. Faithful(request, stack'[1].got)
  <2>1. CASE n # 1
    <3>1. stack'[1] = stack[1]
      BY <1>1, <1>2, <2>1
    <3>. QED  BY <1>1, <3>1 DEF CallerFaithful
  <2>2. CASE n = 1
    <3>1. Top = stack[1] /\ stack'[1].got = Append(Top.got, v)
      BY <1>2, <2>2 DEF Top
    <3>2. 1 \in DOMAIN stack
      BY <1>1
    <3>3. FormulaOf(Top.cell) = request
      BY <3>1, <3>2, FrameFormula DEF IInv, CallChain
    <3>4. Target = request.args[Position(request, Top.got, Len(Top.got) + 1)]
      BY <3>3 DEF Target, Wanted
    <3>5. Faithful(request, Top.got)
      BY <1>1, <3>1 DEF CallerFaithful
    <3>. QED  BY <1>1, <2>2, <3>1, <3>4, <3>5, FaithfulAppend
  <2>. QED  BY <2>1, <2>2
<1>5. \A f, got : Faithful(f, got)' <=> Faithful(f, got)
  BY <1>3 DEF Faithful, Settled
<1>. QED
  BY <1>3, <1>4, <1>5, SMTT(30) DEF CallerFaithful, Faithful, Settled

\* When the caller is on top nothing is under evaluation.
LEMMA CallerAlone ==
  ASSUME IInv, stack # <<>>, Len(stack) = 1, NEW c \in Cells
  PROVE  phase[c] # "visiting"
<1>1. stack \in Seq(FrameType)
  BY DEF IInv, Typed
<1>2. DOMAIN stack = 1..1
  <2>1. \A n \in Nat : Len(stack) = n => DOMAIN stack = 1..n
    BY <1>1
  <2>. QED  BY <2>1
<1>. QED
  BY <1>2, CellsFacts DEF IInv, CallChain

\* So it is with every answer the evaluator gives.
LEMMA AnswersCaller ==
  ASSUME IInv, CallerFaithful,
         \/ TakeConst
         \/ \E a \in Address : ReadOffGrid(a)
         \/ \E c \in Cells : ReadDone(c) \/ ReadVisiting(c)
  PROVE  CallerFaithful'
<1>0. DOMAIN cache = Cells
  BY DEF IInv, Typed
<1>1. \A e \in ErrorCode : Error(e) \in Value
  BY DEF Error, Value
<1>2. CASE TakeConst
  <2>1. Asking /\ Target.atom = "const" /\ Answer(Target.value)
    BY <1>2 DEF TakeConst
  <2>2. Target.value \in Value
    BY <2>1, TargetFacts DEF IInv, Atom
  <2>3. Settled(Target) /\ Target.value = AtomValue(Target, cache)
    BY <2>1 DEF Settled, AtomValue
  <2>. QED  BY <2>1, <2>2, <2>3, AnswerCaller
<1>3. ASSUME NEW a \in Address, ReadOffGrid(a)
      PROVE  CallerFaithful'
  <2>1. /\ Asking /\ Target.atom = "cell" /\ Target.cell \notin Cells
        /\ Answer(Error("#REF!"))
    BY <1>3 DEF ReadOffGrid, Reading
  <2>2. Settled(Target) /\ Error("#REF!") = AtomValue(Target, cache)
    BY <1>0, <2>1 DEF Settled, AtomValue
  <2>3. Error("#REF!") \in Value
    BY <1>1 DEF ErrorCode
  <2>. QED  BY <2>1, <2>2, <2>3, AnswerCaller
<1>4. ASSUME NEW c \in Cells, ReadDone(c)
      PROVE  CallerFaithful'
  <2>1. /\ Asking /\ Target.atom = "cell" /\ Target.cell = c /\ phase[c] = "done"
        /\ Answer(cache[c])
    BY <1>4 DEF ReadDone, Reading
  <2>2. Settled(Target) /\ cache[c] = AtomValue(Target, cache)
    BY <1>0, <2>1 DEF Settled, AtomValue
  <2>3. cache[c] \in Value
    BY DEF IInv, Typed
  <2>. QED  BY <2>1, <2>2, <2>3, AnswerCaller
<1>5. ASSUME NEW c \in Cells, ReadVisiting(c)
      PROVE  CallerFaithful'
  <2>1. Asking /\ phase[c] = "visiting" /\ Answer(Error("#CIRC!")) /\ stack # <<>>
    BY <1>5 DEF ReadVisiting, Reading, Asking
  <2>2. Error("#CIRC!") \in Value
    BY <1>1 DEF ErrorCode
  <2>3. Len(stack) # 1
    BY <2>1, CallerAlone
  <2>. QED  BY <2>1, <2>2, <2>3, AnswerCaller
<1>. QED
  BY <1>2, <1>3, <1>4, <1>5

\* Evaluating a cell leaves the caller's answers alone until it returns to the caller.
LEMMA EvaluationCaller ==
  ASSUME IInv, CallerFaithful, (\E c \in Cells : ReadUnvisited(c)) \/ Finish
  PROVE  CallerFaithful'
<1>1. CASE \E c \in Cells : ReadUnvisited(c)
  <2>1. PICK c \in Cells : ReadUnvisited(c)
    BY <1>1
  <2>2. /\ stack' = Append(stack, Frame(c)) /\ UNCHANGED <<request, cache, sheet>>
        /\ phase[c] = "unvisited" /\ phase' = [phase EXCEPT ![c] = "visiting"]
        /\ stack # <<>>
    BY <2>1 DEF ReadUnvisited, Reading, Asking
  <2>3. stack \in Seq(FrameType) /\ phase \in [Cells -> Phase] /\ DOMAIN cache = Cells
    BY DEF IInv, Typed
  <2>4. stack'[1] = stack[1]
    <3>. HIDE DEF FrameType, Frame
    <3>. QED  BY <2>2, <2>3
  <2>5. \A d \in Cells : phase[d] = "done" => phase'[d] = "done" /\ cache'[d] = cache[d]
    BY <2>2, <2>3
  <2>6. Faithful(request, stack[1].got)
    BY <2>2 DEF CallerFaithful
  <2>7. PICK f, got : f = request /\ got = stack[1].got
    OBVIOUS
  <2>8. Faithful(f, got)'
    BY <2>2, <2>3, <2>5, <2>6, <2>7, FaithfulStable
  <2>9. f = request' /\ got = stack'[1].got
    BY <2>2, <2>4, <2>7
  <2>. QED  BY <2>8, <2>9, SMTT(30) DEF CallerFaithful, Faithful, Settled
<1>2. CASE Finish
  <2>1. PICK m \in Nat, c \in Cells, v \in Value :
           /\ m >= 1 /\ DOMAIN stack = 1..(m+1) /\ Len(stack) = m + 1 /\ stack \in Seq(FrameType)
           /\ stack[m] \in FrameType /\ stack[m+1] \in FrameType
           /\ c = stack[m+1].cell /\ IsFormula(sheet[c]) /\ ~Wants(sheet[c], stack[m+1].got)
           /\ v = Result(sheet[c], stack[m+1].got)
           /\ cache' = [cache EXCEPT ![c] = v] /\ phase' = [phase EXCEPT ![c] = "done"]
           /\ stack' \in Seq(FrameType) /\ DOMAIN stack' = 1..m /\ Len(stack') = m
           /\ \A i \in 1..m : i # m => stack'[i] = stack[i]
           /\ stack'[m].cell = stack[m].cell /\ stack'[m].got = Append(stack[m].got, v)
           /\ UNCHANGED <<sheet, request, grid, trace>>
    BY <1>2, FinishShape
  <2>2. phase \in [Cells -> Phase] /\ DOMAIN cache = Cells
    BY DEF IInv, Typed
  <2>3. phase[c] = "visiting" /\ stack # <<>>
    BY <2>1 DEF IInv, CallChain
  <2>4. \A d \in Cells : phase[d] = "done" => phase'[d] = "done" /\ cache'[d] = cache[d]
    BY <2>1, <2>2, <2>3
  <2>5. PICK f, got : f = request /\ got = stack[1].got
    OBVIOUS
  <2>6. DOMAIN cache' = Cells
    BY <2>1, <2>2
  <2>7. Faithful(f, got)'
    BY <2>2, <2>3, <2>4, <2>5, <2>6, FaithfulStable DEF CallerFaithful
  <2>8. CASE m # 1
    <3>1. f = request' /\ got = stack'[1].got
      BY <2>1, <2>5, <2>8
    <3>. QED  BY <2>7, <3>1, SMTT(30) DEF CallerFaithful, Faithful, Settled
  <2>9. CASE m = 1
    <3>1. FormulaOf(stack[1].cell) = request
      BY <2>1, FrameFormula DEF IInv, CallChain
    <3>2. Wanted(request, stack[1].got) = Ref(c)
      <4>1. \A i \in DOMAIN stack : i > 1 =>
               Wanted(FormulaOf(stack[i-1].cell), stack[i-1].got) = Ref(stack[i].cell)
        BY DEF IInv, CallChain
      <4>2. 2 \in DOMAIN stack /\ 2 - 1 = 1 /\ stack[2].cell = c
        BY <2>1, <2>9
      <4>. QED  BY <3>1, <4>1, <4>2
    <3>3. PICK r : r = Ref(c)
      OBVIOUS
    <3>4. r.atom = "cell" /\ r.cell = c
      BY <3>3 DEF Ref
    <3>5. r = f.args[Position(f, got, Len(got) + 1)]
      BY <2>5, <3>2, <3>3 DEF Wanted
    <3>6. Settled(r)' /\ v = AtomValue(r, cache')
      BY <2>1, <2>2, <3>4 DEF Settled, AtomValue
    <3>7. got \in Seq(Value)
      BY <2>1, <2>5, <2>9 DEF FrameType
    <3>8. Faithful(f, Append(got, v))'
      BY <2>7, <3>5, <3>6, <3>7, FaithfulAppendNext
    <3>9. f = request' /\ Append(got, v) = stack'[1].got
      BY <2>1, <2>5, <2>9
    <3>. QED  BY <3>8, <3>9, SMTT(30) DEF CallerFaithful, Faithful, Settled
  <2>. QED  BY <2>8, <2>9
<1>. QED
  BY <1>1, <1>2

\* A call asks for what it should, and has been told nothing yet.
LEMMA ServeCaller ==
  ASSUME GridMeans, Compute \/ \E c \in Cells : Explain(c)
  PROVE  CallInv'
<1>1. /\ stack' = <<Frame(Caller)>> /\ sheet' = sheet
      /\ grid' = None \/ grid' = grid
  BY DEF Compute, Explain, Serve
<1>2. RequestIsAsked'
  <2>1. CASE Compute
    <3>1. request'.op = "compute" /\ request'.args = [i \in DOMAIN RowMajor |-> CellValue(RowMajor[i])]
      BY <2>1 DEF Compute, Serve
    <3>. QED  BY <1>1, <3>1 DEF RequestIsAsked, CellValue
  <2>2. ASSUME NEW c \in Cells, Explain(c)
        PROVE  RequestIsAsked'
    <3>1. /\ request'.op = "explain" /\ request'.at = c
          /\ request'.args = <<Ref(c)>> \o (IF sheet[c].op = "literal" THEN <<>> ELSE sheet[c].args)
      BY <2>2 DEF Explain, Serve
    <3>. QED  BY <1>1, <3>1, Zenon DEF RequestIsAsked
  <2>. QED  BY <2>1, <2>2
<1>3. CallerFaithful'
  <2>1. stack'[1].got = <<>>
    BY <1>1 DEF Frame
  <2>2. \A f : Faithful(f, <<>>)'
    BY DEF Faithful
  <2>. QED  BY <2>1, <2>2 DEF CallerFaithful, Faithful
<1>. QED
  BY <1>1, <1>2, <1>3, MeansStable DEF CallInv, GridMeans

\* What a call asks for, what it has been told and what the last Compute returned are
\* kept right by every step.
LEMMA CallInvStep ==
  ASSUME IInv, CallInv, [Next]_vars
  PROVE  CallInv'
<1>. USE DEF CallInv
<1>1. CASE Compute \/ \E c \in Cells : Explain(c)
  BY <1>1, ServeCaller
<1>2. CASE \/ TakeConst
           \/ \E a \in Address : ReadOffGrid(a)
           \/ \E c \in Cells : ReadDone(c) \/ ReadVisiting(c)
  <2>1. UNCHANGED <<sheet, request, grid>> /\ stack # <<>>
    BY <1>2 DEF TakeConst, ReadOffGrid, ReadDone, ReadVisiting, Reading, Asking, Answer
  <2>2. RequestIsAsked'
    BY <2>1, Zenon DEF RequestIsAsked, CellValue
  <2>. QED  BY <1>2, <2>1, <2>2, AnswersCaller, MeansStable DEF GridMeans
<1>3. CASE (\E c \in Cells : ReadUnvisited(c)) \/ Finish
  <2>1. UNCHANGED <<sheet, request, grid>> /\ stack # <<>>
    <3>1. Finish => stack # <<>>
      BY DEF Finish
    <3>. QED  BY <1>3, <3>1 DEF ReadUnvisited, Reading, Asking, Finish
  <2>2. RequestIsAsked'
    BY <2>1, Zenon DEF RequestIsAsked, CellValue
  <2>. QED  BY <1>3, <2>1, <2>2, EvaluationCaller, MeansStable DEF GridMeans
<1>4. CASE Return
  <2>1. sheet' = sheet /\ stack' = <<>>
    BY <1>4 DEF Return
  <2>2. GridMeans'
    <3>1. CASE request.op = "compute"
      BY <1>4, <2>1, <3>1, GridReturned, MeansStable DEF GridMeans
    <3>2. CASE request.op # "compute"
      <4>1. grid' = grid
        BY <1>4, <3>2 DEF Return
      <4>. QED  BY <2>1, <4>1, MeansStable DEF GridMeans
    <3>. QED  BY <3>1, <3>2
  <2>. QED  BY <2>1, <2>2 DEF RequestIsAsked, CallerFaithful
<1>5. CASE UNCHANGED vars
  <2>1. UNCHANGED <<sheet, request, phase, cache, stack, grid>>
    BY <1>5 DEF vars
  <2>. QED  BY <2>1, MeansStable DEF RequestIsAsked, CellValue, CallerFaithful, Faithful, Settled, GridMeans
<1>. QED
  BY <1>1, <1>2, <1>3, <1>4, <1>5 DEF Next, Step

LEMMA CallInvInit == Init => CallInv
BY DEF Init, CallInv, RequestIsAsked, CallerFaithful, GridMeans

\* The grid that Compute returns solves its own sheet: every cell that does not
\* depend on itself shows what its formula means over the grid shown.
THEOREM GridIsMeaning == Spec => []GridMeans
<1>1. IInv /\ CallInv /\ [Next]_vars => CallInv'
  BY CallInvStep
<1>2. CallInv => GridMeans
  BY DEF CallInv
<1>. QED
  BY <1>1, <1>2, CallInvInit, Invariance, PTL DEF Spec

-----------------------------------------------------------------------------
(***************************************************************************)
(* What Explain reports.                                                   *)
(***************************************************************************)

LEMMA ReachesTrans ==
  ASSUME NEW a \in Cells, NEW b \in Cells, NEW d \in Cells, Reaches(a, b), Reaches(b, d)
  PROVE  Reaches(a, d)
BY DEF Reaches, Closed

\* A formula means the same over values that agree on the cells it mentions.
LEMMA DenoteSame ==
  ASSUME NEW f, IsFormula(f), NEW e1, NEW e2, DOMAIN e1 = DOMAIN e2,
         \A d \in Refs(f) \cap DOMAIN e1 : e1[d] = e2[d]
  PROVE  Denote(f, e1) = Denote(f, e2)
<1>1. ASSUME NEW i \in DOMAIN f.args
      PROVE  AtomValue(f.args[i], e1) = AtomValue(f.args[i], e2)
  <2>1. f.args[i] \in Atom
    BY DEF IsFormula
  <2>. QED  BY <2>1 DEF AtomValue, Refs, Atom
<1>. DEFINE x(env) == [i \in DOMAIN f.args |-> AtomValue(f.args[i], env)]
            Meaning(y) ==
              IF f.op = "literal" THEN y[1]
              ELSE IF f.op = "iserror" THEN Bool(IsError(y[1]))
              ELSE IF f.op = "ref" THEN IF Len(f.args) > 1 THEN Error("#VALUE!") ELSE y[1]
              ELSE IF f.op = "and" THEN IF HasError(y) THEN FirstError(y) ELSE AllTruthy(y)
              ELSE IF f.op \in {"iferror", "ifna"} THEN IF Caught(f.op, y[1]) THEN y[2] ELSE y[1]
              ELSE IF IsError(y[1]) THEN y[1]
              ELSE IF f.op = "if" THEN IF Truthy(y[1]) THEN y[2] ELSE y[3]
              ELSE IF IsError(y[2]) THEN y[2] ELSE Plus(y[1], y[2])
<1>2. x(e1) = x(e2)
  BY <1>1
<1>3. Denote(f, e1) = Meaning(x(e1)) /\ Denote(f, e2) = Meaning(x(e2))
  BY Zenon DEF Denote
<1>. HIDE DEF Meaning, x
<1>. QED
  BY <1>2, <1>3, Zenon

\* What a cell off the cycles mentions is off the cycles.
LEMMA OffCyclesRef ==
  ASSUME NEW c \in Cells, OffCycles(c), NEW d \in Refs(sheet[c]) \cap Cells
  PROVE  OffCycles(d)
<1>1. Reaches(c, d)
  BY ReachesRef
<1>. QED
  BY <1>1, ReachesTrans DEF OffCycles

\* A solution of the sheet: values of the cells that are, off the cycles, what the
\* formulas mean over all of them.
Solution(env) ==
  env \in [Cells -> Value] /\ \A c \in Cells : OffCycles(c) => env[c] = Denote(sheet[c], env)

\* Every solution holds the value of every memoized cell off the cycles, in whatever
\* order they were evaluated: no such cell could have got another value.
MemoInSolutions ==
  \A env : Solution(env) =>
    \A c \in Cells : phase[c] = "done" /\ OffCycles(c) => env[c] = cache[c]

\* What Explain returned of a cell off the cycles is what every solution says of it and
\* of its inputs.
TraceInSolutions ==
  (trace # None /\ OffCycles(trace.cell)) =>
    \A env : Solution(env) =>
      /\ trace.value = env[trace.cell]
      /\ \A i \in DOMAIN trace.inputs : trace.inputs[i] = AtomValue(sheet[trace.cell].args[i], env)

ExplainInv == MemoInSolutions /\ TraceInSolutions

\* The solutions of a sheet are a function of the sheet.
LEMMA SolutionsStable ==
  ASSUME sheet' = sheet
  PROVE  /\ \A c : OffCycles(c)' <=> OffCycles(c)
         /\ \A env : Solution(env)' <=> Solution(env)
<1>1. \A c : OffCycles(c)' <=> OffCycles(c)
  BY MeansStable, ReachesStable DEF OffCycles
<1>. QED
  BY <1>1 DEF Solution

\* A cell that finishes gets the value it has in every solution.
LEMMA FinishInSolutions ==
  ASSUME IInv, MemoInSolutions, Finish
  PROVE  MemoInSolutions'
<1>0. PICK m \in Nat, c \in Cells, v \in Value :
         /\ m >= 1 /\ DOMAIN stack = 1..(m+1) /\ Len(stack) = m + 1 /\ stack \in Seq(FrameType)
         /\ stack[m] \in FrameType /\ stack[m+1] \in FrameType
         /\ c = stack[m+1].cell /\ IsFormula(sheet[c]) /\ ~Wants(sheet[c], stack[m+1].got)
         /\ v = Result(sheet[c], stack[m+1].got)
         /\ cache' = [cache EXCEPT ![c] = v] /\ phase' = [phase EXCEPT ![c] = "done"]
         /\ stack' \in Seq(FrameType) /\ DOMAIN stack' = 1..m /\ Len(stack') = m
         /\ \A i \in 1..m : i # m => stack'[i] = stack[i]
         /\ stack'[m].cell = stack[m].cell /\ stack'[m].got = Append(stack[m].got, v)
         /\ UNCHANGED <<sheet, request, grid, trace>>
  BY FinishShape
<1>. DEFINE f == sheet[c]
            got == stack[m+1].got
<1>1. SUFFICES ASSUME NEW env, Solution(env),
                      NEW d \in Cells, phase'[d] = "done", OffCycles(d)
               PROVE  env[d] = cache'[d]
  BY <1>0, SolutionsStable DEF MemoInSolutions
<1>2. /\ DOMAIN phase = Cells /\ DOMAIN cache = Cells /\ DOMAIN env = Cells
      /\ got \in Seq(Value) /\ m + 1 \in DOMAIN stack /\ 1 < m + 1
  <2>1. DOMAIN phase = Cells /\ DOMAIN cache = Cells
    BY DEF IInv, Typed
  <2>2. DOMAIN env = Cells
    BY <1>1 DEF Solution
  <2>3. got \in Seq(Value)
    BY <1>0 DEF FrameType
  <2>. QED  BY <1>0, <2>1, <2>2, <2>3
<1>3. \A e \in Cells : phase[e] = "done" /\ OffCycles(e) => env[e] = cache[e]
  BY <1>1 DEF MemoInSolutions
<1>4. CASE d = c
  \* The memo completed by the solution: the two agree on what the formula mentions.
  <2>. DEFINE memo == [e \in Cells |-> IF phase[e] = "done" THEN cache[e] ELSE env[e]]
  <2>1. Dialogue(f, got) /\ Faithful(f, got)
    <3>1. FormulaOf(c) = f
      BY FrameFormula DEF IInv
    <3>. QED  BY <1>0, <1>1, <1>2, <1>4, <3>1 DEF IInv, Dialogues, FramesFaithful, OffCycles
  <2>2. DOMAIN memo = Cells /\ \A e \in Cells : phase[e] = "done" => memo[e] = cache[e]
    OBVIOUS
  <2>3. \A e \in Refs(f) \cap Cells : memo[e] = env[e]
    BY <1>1, <1>3, <1>4, OffCyclesRef
  <2>. HIDE DEF memo
  <2>4. Result(f, got) = Denote(f, memo)
    BY <1>0, <1>2, <2>1, <2>2, MeaningIn
  <2>5. Denote(f, memo) = Denote(f, env)
    BY <1>0, <1>2, <2>2, <2>3, DenoteSame
  <2>. QED  BY <1>0, <1>1, <1>2, <1>4, <2>4, <2>5 DEF Solution
<1>5. CASE d # c
  BY <1>0, <1>1, <1>2, <1>3, <1>5
<1>. QED
  BY <1>4, <1>5

\* Explain returns the value of the cell and of its inputs in every solution.
LEMMA TraceReturned ==
  ASSUME IInv, RequestIsAsked, CallerFaithful, MemoInSolutions, Return, request.op # "compute",
         OffCycles(request.at), NEW env, Solution(env)
  PROVE  /\ trace'.value = env[trace'.cell]
         /\ \A i \in DOMAIN trace'.inputs :
              trace'.inputs[i] = AtomValue(sheet[trace'.cell].args[i], env)
<1>. DEFINE at == request.at
            inputs == IF sheet[at].op = "literal" THEN <<>> ELSE sheet[at].args
            got == Top.got
<1>1. trace' = [cell |-> at, value |-> Head(got), inputs |-> Tail(got)]
  BY DEF Return
<1>2. /\ stack # <<>> /\ Top = stack[1] /\ got \in Seq(Value) /\ request.op \notin Op
      /\ request.args \in Seq(Atom)
      /\ Len(request.args) <= Len(got) /\ Len(got) \in Nat
  BY CallerDone
<1>3. request.op = "explain" /\ at \in Cells /\ request.args = <<Ref(at)>> \o inputs
  BY <1>2 DEF IInv, Typed, RequestOK, RequestIsAsked
<1>4. inputs \in Seq(Atom)
  BY <1>3 DEF IInv, Typed, IsFormula
<1>5. Len(got) <= Len(request.args)
  <2>1. Dialogue(request, got)
    <3>1. 1 \in DOMAIN stack
      BY <1>2 DEF IInv, Typed
    <3>2. FormulaOf(stack[1].cell) = request
      BY <3>1, FrameFormula DEF IInv, CallChain
    <3>. QED  BY <1>2, <3>1, <3>2 DEF IInv, Dialogues
  <2>2. \A k \in 1..Len(got) : k <= Len(request.args)
    BY <2>1 DEF Dialogue, WantsNth
  <2>3. Len(got) = 0 \/ Len(got) \in 1..Len(got)
    BY <1>2
  <2>4. Len(request.args) \in Nat
    BY <1>2
  <2>. QED  BY <2>2, <2>3, <2>4
<1>. HIDE DEF inputs
<1>6. /\ Len(request.args) = Len(inputs) + 1 /\ request.args[1] = Ref(at)
      /\ \A i \in 1..Len(inputs) : request.args[i+1] = inputs[i]
  BY <1>3, <1>4
<1>7. Len(got) = Len(inputs) + 1 /\ Len(inputs) \in Nat
  BY <1>2, <1>4, <1>5, <1>6
<1>8. ASSUME NEW k \in 1..Len(got)
      PROVE  got[k] = AtomValue(request.args[k], env)
  <2>1. Settled(request.args[k]) /\ got[k] = AtomValue(request.args[k], cache)
    <3>1. Position(request, got, k) = k
      BY <1>2 DEF Position, Op
    <3>. QED  BY <1>2, <3>1 DEF CallerFaithful, Faithful
  <2>2. DOMAIN env = Cells /\ DOMAIN cache = Cells
    BY DEF Solution, IInv, Typed
  <2>3. request.args[k].atom # "const" /\ request.args[k].cell \in Cells => OffCycles(request.args[k].cell)
    <3>1. CASE k = 1
      BY <1>3, <1>6, <3>1 DEF Ref
    <3>2. CASE k # 1
      <4>1. PICK i \in 1..Len(inputs) : k = i + 1
        <5>1. k - 1 \in 1..Len(inputs) /\ k = (k - 1) + 1
          BY <1>7, <3>2
        <5>. QED  BY <5>1
      <4>2. request.args[k] = inputs[i] /\ i \in DOMAIN inputs /\ inputs[i] \in Atom
        BY <1>4, <1>6, <4>1
      <4>3. inputs = sheet[at].args
        BY <1>7, <4>1 DEF inputs
      <4>4. inputs[i].atom # "const" => inputs[i].cell \in Refs(sheet[at])
        BY <4>2, <4>3 DEF Refs, Atom
      <4>. QED  BY <1>3, <4>2, <4>4, OffCyclesRef
    <3>. QED  BY <3>1, <3>2
  <2>4. request.args[k].atom # "const" /\ request.args[k].cell \in Cells
          => env[request.args[k].cell] = cache[request.args[k].cell]
    BY <2>1, <2>3 DEF MemoInSolutions, Settled
  <2>. QED  BY <2>1, <2>2, <2>4 DEF AtomValue
<1>9. trace'.value = env[trace'.cell]
  <2>1. Head(got) = got[1] /\ 1 \in 1..Len(got)
    BY <1>2, <1>7
  <2>2. AtomValue(Ref(at), env) = env[at]
    BY <1>3 DEF AtomValue, Ref, Solution
  <2>. QED  BY <1>1, <1>6, <1>8, <2>1, <2>2
<1>10. ASSUME NEW i \in DOMAIN trace'.inputs
       PROVE  trace'.inputs[i] = AtomValue(sheet[trace'.cell].args[i], env)
  <2>1. i \in 1..Len(inputs) /\ Tail(got)[i] = got[i+1] /\ i + 1 \in 1..Len(got)
    <3>1. DOMAIN Tail(got) = 1..(Len(got) - 1) /\ \A j \in 1..(Len(got) - 1) : Tail(got)[j] = got[j+1]
      BY <1>2, <1>7
    <3>. QED  BY <1>1, <1>7, <3>1
  <2>2. inputs[i] = sheet[at].args[i]
    BY <1>7, <2>1 DEF inputs
  <2>. QED  BY <1>1, <1>6, <1>8, <2>1, <2>2
<1>. QED
  BY <1>9, <1>10

\* Off the cycles Explain and Compute agree, whichever was called first and whatever
\* either computer evaluated on the way: the grid is a solution of the sheet, and what
\* Explain returns is in every solution.
THEOREM ExplainAgrees == Spec => []ExplainAgreesOffCycles
<1>1. Init => ExplainInv
  BY DEF Init, ExplainInv, MemoInSolutions, TraceInSolutions
<1>2. IInv /\ CallInv /\ ExplainInv /\ [Next]_vars => ExplainInv'
  <2>. SUFFICES ASSUME IInv, CallInv, ExplainInv, [Next]_vars PROVE ExplainInv'
    OBVIOUS
  <2>. USE DEF CallInv, ExplainInv
  <2>1. CASE Compute \/ \E c \in Cells : Explain(c)
    <3>1. sheet' = sheet /\ phase' = [c \in Cells |-> "unvisited"] /\ (trace' = None \/ trace' = trace)
      BY <2>1 DEF Compute, Explain, Serve, NewComputer
    <3>. QED  BY <3>1, SolutionsStable DEF MemoInSolutions, TraceInSolutions
  <2>2. CASE UNCHANGED <<sheet, cache, trace>> /\ \A c \in Cells : phase'[c] = "done" => phase[c] = "done"
    BY <2>2, SolutionsStable DEF MemoInSolutions, TraceInSolutions
  <2>3. CASE \/ TakeConst
             \/ \E a \in Address : ReadOffGrid(a)
             \/ \E c \in Cells : ReadDone(c) \/ ReadVisiting(c)
    BY <2>2, <2>3 DEF TakeConst, ReadOffGrid, ReadDone, ReadVisiting, Answer
  <2>4. CASE \E c \in Cells : ReadUnvisited(c)
    <3>1. PICK c \in Cells : ReadUnvisited(c)
      BY <2>4
    <3>2. UNCHANGED <<sheet, cache, trace>> /\ phase' = [phase EXCEPT ![c] = "visiting"]
      BY <3>1 DEF ReadUnvisited
    <3>3. \A d \in Cells : phase'[d] = "done" => phase[d] = "done"
      BY <3>2 DEF IInv, Typed
    <3>. QED  BY <2>2, <3>2, <3>3
  <2>5. CASE Finish
    <3>1. UNCHANGED <<sheet, trace>>
      BY <2>5 DEF Finish
    <3>. QED  BY <2>5, <3>1, FinishInSolutions, SolutionsStable DEF TraceInSolutions
  <2>6. CASE Return
    <3>1. UNCHANGED <<sheet, phase, cache>>
      BY <2>6 DEF Return
    <3>2. MemoInSolutions'
      BY <3>1, SolutionsStable DEF MemoInSolutions
    <3>3. CASE request.op = "compute"
      <4>1. trace' = trace
        BY <2>6, <3>3 DEF Return
      <4>. QED  BY <3>1, <3>2, <4>1, SolutionsStable DEF TraceInSolutions
    <3>4. CASE request.op # "compute"
      <4>0. trace'.cell = request.at
        BY <2>6, <3>4 DEF Return
      <4>1. ASSUME OffCycles(request.at), NEW env, Solution(env)
            PROVE  /\ trace'.value = env[trace'.cell]
                   /\ \A i \in DOMAIN trace'.inputs :
                        trace'.inputs[i] = AtomValue(sheet[trace'.cell].args[i], env)
        BY <2>6, <3>4, <4>1, TraceReturned
      <4>. QED  BY <3>1, <3>2, <4>0, <4>1, SolutionsStable DEF TraceInSolutions
    <3>. QED  BY <3>3, <3>4
  <2>7. CASE UNCHANGED vars
    BY <2>2, <2>7 DEF vars
  <2>. QED
    BY <2>1, <2>3, <2>4, <2>5, <2>6, <2>7 DEF Next, Step
<1>3. IInv /\ CallInv /\ ExplainInv => ExplainAgreesOffCycles
  <2>. SUFFICES ASSUME IInv, CallInv, ExplainInv, grid # None, trace # None,
                       OffCycles(trace.cell)
                PROVE  /\ trace.value = grid[trace.cell]
                       /\ \A i \in DOMAIN trace.inputs :
                            trace.inputs[i] = AtomValue(sheet[trace.cell].args[i], grid)
    BY DEF ExplainAgreesOffCycles
  <2>1. Solution(grid)
    BY DEF IInv, Typed, CallInv, GridMeans, Means, OffCycles, Solution
  <2>. QED  BY <2>1 DEF ExplainInv, TraceInSolutions
<1>4. IInv /\ CallInv /\ [Next]_vars => CallInv'
  BY CallInvStep
<1>. QED
  BY <1>1, <1>2, <1>3, <1>4, CallInvInit, Invariance, PTL DEF Spec

-----------------------------------------------------------------------------
(***************************************************************************)
(* What an edit changes.                                                   *)
(*                                                                         *)
(* Between an edit and the next call the memo is that of the sheet before  *)
(* the edit, so the invariant of the evaluator holds during calls only.    *)
(***************************************************************************)

\* The grid before the edit still is what the formulas of the edited sheet mean,
\* where they lead neither to the edited cell nor back to themselves.
BeforeMeans ==
  before # None =>
    /\ before.cell \in Cells
    /\ before.grid \in [Cells -> Value]
    /\ \A c \in Cells : (c # before.cell /\ ~Cyclic(c) /\ ~Reaches(c, before.cell))
                          => before.grid[c] = Denote(sheet[c], before.grid)

ImpactInv == /\ Typed
             /\ stack # <<>> => IInv /\ CallInv
             /\ GridMeans
             /\ BeforeMeans

\* A cell that depends neither on itself nor on the edited cell did not depend on
\* itself before the edit.
LEMMA EditLeavesAcyclic ==
  ASSUME DOMAIN sheet = Cells, NEW e \in Cells, NEW f, sheet' = [sheet EXCEPT ![e] = f],
         NEW c \in Cells, c # e, ~Cyclic(c)', ~Reaches(c, e)'
  PROVE  ~Cyclic(c)
<1>1. PICK S \in SUBSET Cells : Refs(sheet'[c]) \cap Cells \subseteq S /\ Closed(S)' /\ e \notin S
  BY DEF Reaches
<1>2. PICK T \in SUBSET Cells : Refs(sheet'[c]) \cap Cells \subseteq T /\ Closed(T)' /\ c \notin T
  BY DEF Reaches, Cyclic
<1>3. \A d \in Cells : d # e => sheet'[d] = sheet[d]
  OBVIOUS
<1>4. ASSUME NEW d \in S \cap T
      PROVE  Refs(sheet[d]) \cap Cells \subseteq S \cap T
  BY <1>1, <1>2, <1>3 DEF Closed
<1>5. Closed(S \cap T)
  BY <1>4 DEF Closed
<1>6. Refs(sheet[c]) \cap Cells \subseteq S \cap T /\ c \notin S \cap T
  BY <1>1, <1>2, <1>3
<1>. QED
  BY <1>5, <1>6 DEF Cyclic, Reaches

\* What the grid meant before the edit it means after it, away from the edited cell.
LEMMA SetCellStep ==
  ASSUME ImpactInv, NEW e \in Cells, NEW f \in Menu, SetCell(e, f)
  PROVE  ImpactInv'
<1>1. /\ grid # None /\ before' = [cell |-> e, grid |-> grid]
      /\ sheet' = [sheet EXCEPT ![e] = f]
      /\ grid' = None /\ trace' = None /\ stack' = <<>>
      /\ UNCHANGED <<request, phase, cache, stack>>
  BY DEF SetCell
<1>2. Typed /\ Means(grid) /\ grid \in [Cells -> Value]
  BY <1>1 DEF ImpactInv, Typed, GridMeans
<1>3. Typed'
  BY <1>1, <1>2, MenuAssumption DEF Typed
<1>4. ASSUME NEW c \in Cells, c # e, ~Cyclic(c)', ~Reaches(c, e)'
      PROVE  grid[c] = Denote(sheet'[c], grid)
  <2>1. ~Cyclic(c)
    BY <1>1, <1>2, <1>4, EditLeavesAcyclic DEF Typed
  <2>2. sheet'[c] = sheet[c]
    BY <1>1, <1>2, <1>4 DEF Typed
  <2>. QED  BY <1>2, <2>1, <2>2 DEF Means
<1>5. BeforeMeans'
  <2>1. before'.cell = e /\ before'.grid = grid
    BY <1>1
  <2>2. \A c \in Cells : (c # e /\ ~Cyclic(c)' /\ ~Reaches(c, e)') => grid[c] = Denote(sheet'[c], grid)
    BY <1>4
  <2>. QED  BY <1>2, <2>1, <2>2, Zenon DEF BeforeMeans, Reaches, Closed
<1>. QED
  BY <1>1, <1>3, <1>5 DEF ImpactInv, GridMeans

\* A step of the evaluator says nothing else of the grid before the edit.
LEMMA BeforeStable ==
  ASSUME BeforeMeans, sheet' = sheet, before' = before
  PROVE  BeforeMeans'
<1>1. \A a, b : Reaches(a, b)' <=> Reaches(a, b)
  BY ReachesStable
<1>2. \A c : Cyclic(c)' <=> Cyclic(c)
  BY MeansStable
<1>3. before # None =>
        \A c \in Cells : (c # before.cell /\ ~Cyclic(c)' /\ ~Reaches(c, before.cell)')
                          => before.grid[c] = Denote(sheet[c], before.grid)
  BY <1>1, <1>2 DEF BeforeMeans
<1>. QED
  BY <1>3, Zenon DEF BeforeMeans, Reaches, Closed

LEMMA SheetStays == Next => sheet' = sheet
BY DEF Next, Step, Compute, Explain, Serve, TakeConst, ReadOffGrid, ReadDone, ReadVisiting,
       ReadUnvisited, Answer, Finish, Return

LEMMA ImpactInvStep == ImpactInv /\ [ImpactNext]_impactVars => ImpactInv'
<1>. SUFFICES ASSUME ImpactInv, [ImpactNext]_impactVars PROVE ImpactInv'
  OBVIOUS
<1>1. CASE Next /\ before' = before
  <2>1. sheet' = sheet /\ BeforeMeans'
    BY <1>1, SheetStays, BeforeStable DEF ImpactInv
  <2>2. CASE stack # <<>>
    <3>1. IInv' /\ CallInv'
      BY <1>1, <2>2, InvariantStep, CallInvStep DEF ImpactInv
    <3>. QED  BY <2>1, <3>1 DEF ImpactInv, IInv, CallInv
  <2>3. CASE stack = <<>>
    <3>1. ~Step
      <4>1. ~Asking /\ Len(stack) = 0
        BY <2>3 DEF Asking
      <4>. QED  BY <4>1 DEF Step, TakeConst, ReadOffGrid, ReadDone, ReadVisiting, ReadUnvisited,
                  Reading, Finish, Return
    <3>2. Compute \/ \E c \in Cells : Explain(c)
      BY <1>1, <3>1 DEF Next
    <3>3. IInv' /\ CallInv'
      BY <3>2, CallStep, ServeCaller DEF ImpactInv
    <3>. QED  BY <2>1, <3>3 DEF ImpactInv, IInv, CallInv
  <2>. QED  BY <2>2, <2>3
<1>2. CASE \E c \in Cells, f \in Menu : SetCell(c, f)
  BY <1>2, SetCellStep
<1>3. CASE UNCHANGED impactVars
  <2>1. UNCHANGED vars /\ before' = before /\ sheet' = sheet /\ stack' = stack /\ grid' = grid
    BY <1>3 DEF impactVars, vars
  <2>2. stack # <<>> => IInv' /\ CallInv'
    BY <2>1, InvariantStep, CallInvStep DEF ImpactInv
  <2>3. Typed'
    BY <2>1 DEF ImpactInv, Typed, vars
  <2>. QED  BY <2>1, <2>2, <2>3, BeforeStable, MeansStable DEF ImpactInv, GridMeans
<1>. QED
  BY <1>1, <1>2, <1>3 DEF ImpactNext, Next

THEOREM ImpactInvariance == ImpactSpec => []ImpactInv
<1>1. ImpactInit => ImpactInv
  <2>. SUFFICES ASSUME ImpactInit PROVE ImpactInv
    OBVIOUS
  <2>1. Init /\ before = None
    BY DEF ImpactInit
  <2>. QED  BY <2>1, InitStep, CallInvInit DEF ImpactInv, IInv, CallInv, BeforeMeans
<1>. QED
  BY <1>1, ImpactInvStep, PTL DEF ImpactSpec

\* After any edit of any sheet, every cell off the cycles shows what its formula
\* means over the values shown: nothing stale is left.
THEOREM EditLeavesNothingStale == ImpactSpec => []NothingIsStale
<1>1. ImpactInv => NothingIsStale
  BY DEF ImpactInv, GridMeans, Means, NothingIsStale, Shown, OffCycles
<1>. QED
  BY <1>1, ImpactInvariance, PTL

-----------------------------------------------------------------------------

LEMMA CellsFinite == IsFiniteSet(Cells)
<1>1. DOMAIN RowMajor = 1..Len(RowMajor) /\ Len(RowMajor) \in Nat
  BY RowMajorAssumption
<1>2. RowMajor \in Surjection(1..Len(RowMajor), Cells)
  BY <1>1, RowMajorAssumption DEF Surjection, Cells
<1>3. IsFiniteSet(1..Len(RowMajor))
  BY <1>1, FS_Interval
<1>. QED
  BY <1>2, <1>3, FS_Surjection

\* Of the cells of a set, one of them off the cycles leads to no other that is.
LEMMA DeepestCell ==
  ASSUME NEW B \in SUBSET Cells, B # {}, \A c \in B : ~Cyclic(c)
  PROVE  \E c \in B : \A d \in B : ~Reaches(c, d)
<1>. DEFINE RS(c) == {d \in Cells : Reaches(c, d)}
            T == {Cardinality(RS(c)) : c \in B}
<1>1. \A c \in B : IsFiniteSet(RS(c)) /\ Cardinality(RS(c)) \in Nat
  BY CellsFinite, FS_Subset, FS_CardinalityType
<1>2. PICK n \in T : \A k \in T : n <= k
  <2>1. T \in SUBSET Nat /\ T # {}
    BY <1>1
  <2>. HIDE DEF T
  <2>. QED  BY <2>1, LeastElement
<1>3. PICK c \in B : n = Cardinality(RS(c))
  BY <1>2
<1>4. ASSUME NEW d \in B, Reaches(c, d)
      PROVE  FALSE
  <2>1. RS(d) \subseteq RS(c)
    BY <1>4, ReachesTrans
  <2>2. d \in RS(c) /\ d \notin RS(d)
    BY <1>4 DEF Cyclic
  <2>3. Cardinality(RS(c)) <= Cardinality(RS(d))
    BY <1>2, <1>3
  <2>. HIDE DEF RS
  <2>4. Cardinality(RS(d)) <= Cardinality(RS(c)) /\ (Cardinality(RS(c)) = Cardinality(RS(d)) => RS(c) = RS(d))
    BY <1>1, <2>1, FS_Subset
  <2>. QED  BY <1>1, <2>2, <2>3, <2>4
<1>. QED
  BY <1>3, <1>4

\* Whatever is edited, a cell off the cycles whose value changes is the edited cell
\* or leads to it.  Were there others, one of them would lead to none of the rest; the
\* cells it mentions would be unchanged, and then so would its meaning be.
THEOREM EditReachesDependents == ImpactSpec => []EditReachesDependentsOnly
<1>1. ImpactInv => EditReachesDependentsOnly
  <2>. SUFFICES ASSUME ImpactInv, Shown PROVE EditReachesDependentsOnly
    BY DEF EditReachesDependentsOnly
  <2>. DEFINE e == before.cell
              B == {c \in Cells : /\ OffCycles(c) /\ grid[c] # before.grid[c]
                                  /\ c # e /\ ~Reaches(c, e)}
  <2>1. /\ grid \in [Cells -> Value] /\ Means(grid)
        /\ e \in Cells /\ before.grid \in [Cells -> Value]
        /\ \A c \in Cells : (c # e /\ ~Cyclic(c) /\ ~Reaches(c, e))
                               => before.grid[c] = Denote(sheet[c], before.grid)
        /\ \A c \in Cells : IsFormula(sheet[c])
    BY DEF Shown, ImpactInv, Typed, GridMeans, BeforeMeans
  <2>. HIDE DEF e
  <2>2. ASSUME B # {}
        PROVE  FALSE
    <3>1. PICK c \in B : \A d \in B : ~Reaches(c, d)
      <4>1. \A c \in B : ~Cyclic(c)
        BY DEF OffCycles
      <4>. QED  BY <2>2, <4>1, DeepestCell
    <3>2. ASSUME NEW d \in Refs(sheet[c]) \cap Cells
          PROVE  grid[d] = before.grid[d]
      <4>1. Reaches(c, d)
        BY ReachesRef
      <4>2. OffCycles(d)
        BY OffCyclesRef
      <4>3. d # e /\ ~Reaches(d, e)
        BY <2>1, <4>1, ReachesTrans
      <4>. QED  BY <3>1, <4>1, <4>2, <4>3
    <3>3. Denote(sheet[c], grid) = Denote(sheet[c], before.grid)
      BY <2>1, <3>2, DenoteSame
    <3>. QED  BY <2>1, <3>3 DEF Means, OffCycles
  <2>. QED  BY <2>2 DEF EditReachesDependentsOnly, e
<1>. QED
  BY <1>1, ImpactInvariance, PTL
==============================================================================
