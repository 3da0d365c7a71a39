-------------------------------- MODULE Calls --------------------------------
(***************************************************************************)
(* A call, as its arguments are written: who owns its name, what its       *)
(* arguments come to and what it is worth (internal/engine/funcs.go,       *)
(* builtins_logic.go), and what Check says of it (check.go).               *)
(*                                                                         *)
(* An argument is a scalar, a range or an expression that is an array; of  *)
(* a range and an array the cells count, row by row. What the other        *)
(* dispatchers do with a call is in modules of their own.                  *)
(***************************************************************************)
EXTENDS Aggregates

CONSTANTS Operands,   \* the arguments a user writes
          MaxArgs     \* bound: arguments of a call

\* What the arguments are taken for: each has a cell.
OperandsAreCells ==
  \A op \in Operands :
    /\ op \in [form : {"scalar", "range", "array"}, cells : Seq([kind : Kinds, num : Int, text : Nat])]
    /\ op.cells # <<>>

VARIABLES name, args, val

vars == <<name, args, val>>

Operand(form, cells) == [form |-> form, cells |-> cells]
Array(cells) == [kind |-> "array", arr |-> cells]

-----------------------------------------------------------------------------
(* Dispatch *)

Conditionals == {"if", "ifs", "iferror", "ifna", "switch"}
Inspectors == {"isblank", "iserror", "iserr", "isna", "isnumber", "istext", "isnontext",
               "islogical", "iseven", "isodd", "n", "type"}

\* The names of the dispatchers of the other modules, as one of each.
Elsewhere == {"now", "volatile", "rand", "vlookup", "countif", "sort", "ema", "digest", "rept",
              "sheet", "importcell"}

\* Parameter slots: the lead modes bind the first arguments, the tail modes the last.
ScalarsOnly == [lead |-> <<>>, rest |-> "scalar", tail |-> <<>>]
CellsRest == [ScalarsOnly EXCEPT !.rest = "cells"]
CellsThenK == [CellsRest EXCEPT !.tail = <<"scalar">>]
ScalarThenCells == [CellsRest EXCEPT !.lead = <<"scalar">>]

Function(spec, min, max) == [spec |-> spec, min |-> min, max |-> max]

\* The eager registry, as far as Aggregates has its functions; -1 is unbounded.
OverCells == {"sum", "min", "max", "count", "counta", "countblank", "avg", "median", "mode",
              "and", "or", "xor"}
Functions ==
  [f \in OverCells \cup {"large", "small", "npv", "choose", "mod", "not", "na"} |->
     CASE f \in OverCells -> Function(CellsRest, 1, -1)
       [] f \in {"large", "small"} -> Function(CellsThenK, 2, -1)
       [] f = "npv" -> Function(ScalarThenCells, 2, -1)
       [] f = "choose" -> Function(ScalarsOnly, 2, -1)
       [] f = "mod" -> Function(ScalarsOnly, 2, 2)
       [] f = "not" -> Function(ScalarsOnly, 1, 1)
       [] f = "na" -> Function(ScalarsOnly, 0, 0)]

Unknown == "lookup"
Names == Conditionals \cup Inspectors \cup Elsewhere \cup DOMAIN Functions \cup {Unknown}

Accepts(fn, n) == n >= fn.min /\ (fn.max < 0 \/ n <= fn.max)

\* Mutant: the tail modes bind as if the cells of the operands were arguments.
ModeByLead(spec, i, n) == IF i <= Len(spec.lead) + Len(spec.tail) THEN "scalar" ELSE spec.rest

Mode(spec, i, n) == IF i <= Len(spec.lead) THEN spec.lead[i]
                    ELSE IF i > n - Len(spec.tail) THEN spec.tail[i - n + Len(spec.tail)]
                    ELSE spec.rest

-----------------------------------------------------------------------------
(* Arguments *)

\* A range of many cells is no scalar; an array is itself.
Eval(op) == IF op.form = "array" THEN Array(op.cells)
            ELSE IF Len(op.cells) = 1 THEN op.cells[1] ELSE Error(VALUE)

\* An array that a scalar is wanted of is its first cell.
Reduced(v) == IF v.kind = "array" THEN v.arr[1] ELSE v

ArgScalar(op) == Reduced(Eval(op))
ArgCells(op) == op.cells

ArgValues(ops, spec) ==
  FlattenSeq([i \in DOMAIN ops |-> IF Mode(spec, i, Len(ops)) = "cells" THEN ArgCells(ops[i])
                                   ELSE <<ArgScalar(ops[i])>>])

Apply(f, values) ==
  CASE f = "sum" -> FnSum(values)       [] f = "min" -> FnMin(values)
    [] f = "max" -> FnMax(values)       [] f = "count" -> FnCountNumbers(values)
    [] f = "counta" -> FnCount(values)  [] f = "countblank" -> FnCountblank(values)
    [] f = "avg" -> FnAvg(values)       [] f = "median" -> FnMedian(values)
    [] f = "mode" -> FnMode(values)     [] f = "and" -> FnAnd(values)
    [] f = "or" -> FnOr(values)         [] f = "xor" -> FnXor(values)
    [] f = "large" -> FnLarge(values)   [] f = "small" -> FnSmall(values)
    [] f = "npv" -> FnNpv(values)       [] f = "choose" -> FnChoose(values)
    [] f = "mod" -> FnMod(values)       [] f = "not" -> FnNot(values)
    [] OTHER -> Error(NA)

\* The first error among the values is the value of the call.
EvalEager(f, ops) ==
  LET values == ArgValues(ops, Functions[f].spec)
      bad == SelectInSeq(values, IsError)
  IN  IF ~Accepts(Functions[f], Len(ops)) THEN Error(VALUE)
      ELSE IF bad # 0 THEN values[bad] ELSE Apply(f, values)

-----------------------------------------------------------------------------
(* The conditionals evaluate the arguments they need *)

EvalIf(ops) ==
  LET cond == Reduced(Eval(ops[1])) IN
  IF Len(ops) # 3 THEN Error(VALUE) ELSE IF IsError(cond) THEN cond
  ELSE Eval(ops[IF Truthy(cond) THEN 2 ELSE 3])

EvalIfs(ops) ==
  LET Cond(i) == Reduced(Eval(ops[2 * i - 1]))
      stops == {i \in 1..(Len(ops) \div 2) : IsError(Cond(i)) \/ Truthy(Cond(i))}
      i == CHOOSE i \in stops : \A j \in stops : i <= j
  IN  IF Len(ops) < 2 \/ Len(ops) % 2 # 0 THEN Error(VALUE) ELSE IF stops = {} THEN Error(NA)
      ELSE IF IsError(Cond(i)) THEN Cond(i) ELSE Eval(ops[2 * i])

\* Is v the kind of error that IFERROR, or IFNA, replaces?
Caught(v, isNAOnly) == IsError(v) /\ (isNAOnly => v.num = NA)

EvalIferror(ops, isNAOnly) ==
  IF Len(ops) # 2 THEN Error(VALUE)
  ELSE Eval(ops[IF Caught(Eval(ops[1]), isNAOnly) THEN 2 ELSE 1])

\* Mutant: a case that is an error ends the search.
SwitchStopsAtError(ops) ==
  LET Stops(i) == EqualValues(Eval(ops[1]), Eval(ops[2 * i])) \/ IsError(Eval(ops[2 * i]))
      hits == {i \in 1..((Len(ops) - 1) \div 2) : Stops(i)}
      i == CHOOSE i \in hits : \A j \in hits : i <= j
  IN  IF Len(ops) < 3 THEN Error(VALUE) ELSE IF IsError(Eval(ops[1])) THEN Eval(ops[1])
      ELSE IF hits # {}
      THEN IF IsError(Eval(ops[2 * i])) THEN Eval(ops[2 * i]) ELSE Eval(ops[2 * i + 1])
      ELSE IF Len(ops) % 2 = 0 THEN Eval(Last(ops)) ELSE Error(NA)

\* The first case that equals the subject, else the default, if there is one.
EvalSwitch(ops) ==
  LET hits == {i \in 1..((Len(ops) - 1) \div 2) : EqualValues(Eval(ops[1]), Eval(ops[2 * i]))}
      i == CHOOSE i \in hits : \A j \in hits : i <= j
  IN  IF Len(ops) < 3 THEN Error(VALUE) ELSE IF IsError(Eval(ops[1])) THEN Eval(ops[1])
      ELSE IF hits # {} THEN Eval(ops[2 * i + 1])
      ELSE IF Len(ops) % 2 = 0 THEN Eval(Last(ops)) ELSE Error(NA)

EvalConditional(f, ops) ==
  CASE f = "if" -> EvalIf(ops)
    [] f = "ifs" -> EvalIfs(ops)
    [] f = "switch" -> EvalSwitch(ops)
    [] OTHER -> EvalIferror(ops, f = "ifna")

EvalInspector(f, ops) ==
  LET v == Eval(ops[1]) IN
  IF Len(ops) # 1 THEN Error(VALUE)
  ELSE CASE f = "isblank" -> BoolValue(v.kind = "empty")
         [] f = "iserror" -> BoolValue(IsError(v))
         [] f = "iserr" -> BoolValue(IsError(v) /\ v.num # NA)
         [] f = "isna" -> BoolValue(IsError(v) /\ v.num = NA)
         [] f = "isnumber" -> BoolValue(v.kind = "number")
         [] f = "istext" -> BoolValue(v.kind = "string")
         [] f = "isnontext" -> BoolValue(v.kind # "string")
         [] f = "islogical" -> BoolValue(v.kind = "bool")
         [] f = "n" -> InspectN(v)
         [] f = "type" -> TypeCode(v)
         [] OTHER -> ParityIs(Reduced(v), f = "isodd")

-----------------------------------------------------------------------------

\* What another dispatcher answers is not looked at here.
Owned == [kind |-> "owned"]

EvalCall(f, ops) ==
  IF f \in Conditionals THEN EvalConditional(f, ops)
  ELSE IF f \in Elsewhere THEN Owned
  ELSE IF f \in Inspectors THEN EvalInspector(f, ops)
  ELSE IF f \in DOMAIN Functions THEN EvalEager(f, ops)
  ELSE Error(NAME)

Becomes(ops) == args' = ops /\ val' = EvalCall(name, ops) /\ UNCHANGED name

Init == name \in Names /\ args = <<>> /\ val = EvalCall(name, <<>>)

AddArgument(op) == Len(args) < MaxArgs /\ Becomes(Append(args, op))

\* A range is written as two ranges, or an array as two: the same cells in the same order.
Split(i, p) ==
  LET op == args[i] IN
  /\ Len(args) < MaxArgs /\ p < Len(op.cells)
  /\ Becomes(SubSeq(args, 1, i - 1)
               \o <<Operand(op.form, SubSeq(op.cells, 1, p)),
                    Operand(op.form, SubSeq(op.cells, p + 1, Len(op.cells)))>>
               \o SubSeq(args, i + 1, Len(args)))

Next == \/ \E op \in Operands : AddArgument(op)
        \/ \E i \in DOMAIN args : \E p \in 1..Len(args[i].cells) : Split(i, p)

Spec == Init /\ [][Next]_vars

-----------------------------------------------------------------------------

\* Is the i-th operand one of those the function goes over, not its k or its rate?
IsAggregated(i) ==
  /\ name \notin {"choose", "mod", "not", "na"}
  /\ name \in {"large", "small"} => i < Len(args)
  /\ name = "npv" => i > 1
  /\ Accepts(Functions[name], Len(args))

\* An operand of many cells never moves the arguments beside it to other slots: however
\* the cells of an aggregate's operands are divided into ranges, the call is worth the
\* same, the k of LARGE and the rate of NPV included ("a multi-cell operand can never
\* shift the arguments that follow it", argValues).
SlotsNeverShift ==
  [][(name \in DOMAIN Functions) =>
       \A i \in DOMAIN args : \A p \in 1..Len(args[i].cells) :
         (IsAggregated(i) /\ Split(i, p)) => val' = val]_vars

AsOperand(v) == IF v.kind = "array" THEN Operand("array", v.arr) ELSE Operand("scalar", <<v>>)

Without(ops, n) == SubSeq(ops, n + 1, Len(ops))

\* Every conditional is the nest of IFs it abbreviates, with the errors of each answer
\* and each case where the IFs would show them: IFS(c, v, ...) is IF(c, v, IFS(...)),
\* SWITCH(s, c, v, ...) is IF(s = c, v, SWITCH(s, ...)), a case that does not compare
\* being none, and IFERROR(v, f) is IF(ISERROR(v), f, v) (builtins_logic.go).
ConditionalsAreNestedIfs ==
  LET If(c, v, w) == EvalIf(<<c, v, AsOperand(w)>>)
      Is(c) == AsOperand(EvalInspector(c, SubSeq(args, 1, 1)))
      isCase == AsOperand(BoolValue(EqualValues(Eval(args[1]), Eval(args[2]))))
      rest == IF Len(args) = 3 THEN Error(NA) ELSE IF Len(args) = 4 THEN Eval(args[4])
              ELSE EvalSwitch(<<args[1]>> \o Without(args, 3))
  IN  /\ name = "ifs" /\ Len(args) > 0 /\ Len(args) % 2 = 0 =>
           val = If(args[1], args[2], IF Len(args) = 2 THEN Error(NA) ELSE EvalIfs(Without(args, 2)))
      /\ name = "switch" /\ Len(args) >= 3 /\ ~IsError(Eval(args[1])) =>
           val = If(isCase, args[3], rest)
      /\ name = "iferror" /\ Len(args) = 2 => val = If(Is("iserror"), args[2], Eval(args[1]))
      /\ name = "ifna" /\ Len(args) = 2 => val = If(Is("isna"), args[2], Eval(args[1]))
=============================================================================
