------------------------------- MODULE Formula -------------------------------
(***************************************************************************)
(* Cell values and formulas, as far as evaluation can tell them apart.     *)
(*                                                                         *)
(* A formula is an operator over a sequence of atoms; an atom is a         *)
(* constant or a cell reference, and a range contributes its cells in      *)
(* row-major order (hull).  Evaluating one is a dialogue: the values       *)
(* obtained so far, got, decide whether another atom is wanted (Wants),    *)
(* which one (Wanted), and the value in the end (Result).  Denote is the   *)
(* meaning of a formula over a complete assignment of values to cells,     *)
(* written without any order of evaluation.                                *)
(***************************************************************************)
EXTENDS Integers, Sequences

CONSTANT Address     \* every position a reference can name, in or off the grid

\* resolve.go and value.go: the error codes evaluation itself distinguishes.
ErrorCode == {"#REF!", "#VALUE!", "#CIRC!", "#N/A"}

Number(n) == [kind |-> "number", num |-> n]
Bool(b)   == [kind |-> "bool", num |-> IF b THEN 1 ELSE 0]
Error(e)  == [kind |-> "error", code |-> e]
Empty     == [kind |-> "empty"]
Text      == [kind |-> "string"]     \* any non-empty, non-numeric string

Value == [kind : {"number", "bool"}, num : Int]
           \cup [kind : {"error"}, code : ErrorCode]
           \cup {Empty, Text}

IsError(v) == v.kind = "error"
IsNumeric(v) == v.kind \in {"number", "bool"}

\* A value as an arithmetic operand (asNumber): empty counts as 0.
AsNumber(v) == IF IsNumeric(v) THEN v.num ELSE 0

\* Truthiness of a value that is not an error.
Truthy(v) == (IsNumeric(v) /\ v.num # 0) \/ v = Text

-----------------------------------------------------------------------------

Const(v) == [atom |-> "const", value |-> v]
Ref(a)   == [atom |-> "cell", cell |-> a]

Atom == [atom : {"const"}, value : Value] \cup [atom : {"cell"}, cell : Address]

\* How many atoms each operator takes; "ref" and "and" take a range of any size.
Arity(op, n) == /\ op \in {"literal", "iserror"} => n = 1
                /\ op \in {"add", "iferror", "ifna"} => n = 2
                /\ op = "if" => n = 3

Op == {"literal", "ref", "add", "and", "if", "iferror", "ifna", "iserror"}

IsFormula(f) == /\ f.op \in Op
                /\ f.args \in Seq(Atom) /\ f.args # <<>>
                /\ Arity(f.op, Len(f.args))
                /\ f.op = "literal" => f.args[1].atom = "const"

Literal(v) == [op |-> "literal", args |-> <<Const(v)>>]
Call(op, args) == [op |-> op, args |-> args]

\* The cells a formula mentions, whether or not evaluation reads them.
Refs(f) == {f.args[i].cell : i \in {j \in DOMAIN f.args : f.args[j].atom = "cell"}}

-----------------------------------------------------------------------------
(***************************************************************************)
(* Evaluation as a dialogue.                                               *)
(***************************************************************************)

\* caught: does the conditional op replace v by its fallback?
Caught(op, v) == IsError(v) /\ (op = "ifna" => v.code = "#N/A")

\* Does the evaluation of f read a k-th atom?  Decided by the values read before.
WantsNth(f, got, k) ==
  /\ k <= Len(f.args)
  /\ f.op \in {"iferror", "ifna"} => k = 1 \/ (k = 2 /\ Caught(f.op, got[1]))
  /\ f.op \in {"if", "add"} => k = 1 \/ (k = 2 /\ ~IsError(got[1]))

\* Mutant: a false condition still takes the then-branch.
ThenAlways(f, got, k) == k

\* Where it stands in the formula: if passes over the branch not chosen.
Position(f, got, k) == IF f.op = "if" /\ k = 2 /\ ~Truthy(got[1]) THEN 3 ELSE k

Wants(f, got) == WantsNth(f, got, Len(got) + 1)

Wanted(f, got) == f.args[Position(f, got, Len(got) + 1)]

\* The first error among the values of an eager call, left to right.
FirstError(got) ==
  got[CHOOSE i \in DOMAIN got : /\ IsError(got[i])
                                /\ \A j \in DOMAIN got : j < i => ~IsError(got[j])]

\* arithmetic: + over two operands neither of which is an error.
Plus(x, y) == IF x = Text \/ y = Text THEN Error("#VALUE!")
              ELSE Number(AsNumber(x) + AsNumber(y))

AllTruthy(got) == Bool(\A i \in DOMAIN got : Truthy(got[i]))

HasError(got) == \E i \in DOMAIN got : IsError(got[i])

\* Mutant: iferror hands back its first argument, caught or not.
FirstArgument(f, got) ==
  IF f.op = "iserror" THEN Bool(IsError(got[1]))
  ELSE IF f.op \in {"and", "add"} /\ HasError(got) THEN FirstError(got)
  ELSE IF f.op = "and" THEN AllTruthy(got)
  ELSE IF f.op = "add" THEN Plus(got[1], got[2])
  ELSE got[1]

\* The value of f once it wants no more atoms.
Result(f, got) ==
  IF f.op = "iserror" THEN Bool(IsError(got[1]))
  ELSE IF f.op = "ref" /\ Len(f.args) > 1 THEN Error("#VALUE!")
  ELSE IF f.op \in {"and", "add"} /\ HasError(got) THEN FirstError(got)
  ELSE IF f.op = "and" THEN AllTruthy(got)
  ELSE IF f.op = "add" THEN Plus(got[1], got[2])
  ELSE got[Len(got)]

-----------------------------------------------------------------------------
(***************************************************************************)
(* Meaning.  env assigns a value to every cell of the grid.                *)
(***************************************************************************)

AtomValue(a, env) == IF a.atom = "const" THEN a.value
                     ELSE IF a.cell \in DOMAIN env THEN env[a.cell]
                     ELSE Error("#REF!")

Denote(f, env) ==
  LET x == [i \in DOMAIN f.args |-> AtomValue(f.args[i], env)] IN
  IF f.op = "literal" THEN x[1]
  ELSE IF f.op = "iserror" THEN Bool(IsError(x[1]))
  ELSE IF f.op = "ref" THEN IF Len(f.args) > 1 THEN Error("#VALUE!") ELSE x[1]
  ELSE IF f.op = "and" THEN IF HasError(x) THEN FirstError(x) ELSE AllTruthy(x)
  ELSE IF f.op \in {"iferror", "ifna"} THEN IF Caught(f.op, x[1]) THEN x[2] ELSE x[1]
  ELSE IF IsError(x[1]) THEN x[1]
  ELSE IF f.op = "if" THEN IF Truthy(x[1]) THEN x[2] ELSE x[3]
  ELSE IF IsError(x[2]) THEN x[2] ELSE Plus(x[1], x[2])

CellAt(f, i) == IF f.args[i].atom = "cell" THEN {f.args[i].cell} ELSE {}

\* The cells whose values that meaning rests on: operators that choose their
\* operands rest on the chosen ones only.
Needed(f, env) ==
  LET first == AtomValue(f.args[1], env)
      second == IF f.op = "if" /\ ~Truthy(first) THEN 3 ELSE 2
      goesOn == IF f.op \in {"iferror", "ifna"} THEN Caught(f.op, first) ELSE ~IsError(first)
  IN (IF f.op \in {"add", "if", "iferror", "ifna"}
      THEN CellAt(f, 1) \cup IF goesOn THEN CellAt(f, second) ELSE {}
      ELSE Refs(f)) \cap DOMAIN env
=============================================================================
