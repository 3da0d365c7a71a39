------------------------------ MODULE Rendering ------------------------------
(***************************************************************************)
(* internal/engine/render.go: the source form of a formula tree, which     *)
(* Explain shows and a structural edit writes back into the document.      *)
(* Blanks around operators are left out of the texts, here as in Grammar.  *)
(***************************************************************************)
EXTENDS Expressions

\* The binding ranks, loosest first.
Precedence == [pipe |-> 1, compare |-> 2, cat |-> 3, add |-> 4, mul |-> 5, unary |-> 6,
               pow |-> 7, percent |-> 8, atom |-> 9]

BinaryPrec(op) ==
  IF op = "^" THEN Precedence.pow
  ELSE IF op \in {"*", "/"} THEN Precedence.mul
  ELSE IF op \in {"+", "-"} THEN Precedence.add
  ELSE IF op = "&" THEN Precedence.cat
  ELSE Precedence.compare

\* Mutant: a call is an atom in its pipe spelling too.
AtomCallPrec(call) == Precedence.atom

CallPrec(call) == IF call.isPiped THEN Precedence.pipe ELSE Precedence.atom

ExprPrec(expr) ==
  IF expr.kind = "Binary" THEN BinaryPrec(expr.op)
  ELSE IF expr.kind = "Unary" THEN Precedence.unary
  ELSE IF expr.kind = "Percent" THEN Precedence.percent
  ELSE IF expr.kind = "Call" THEN CallPrec(expr)
  ELSE Precedence.atom

Parenthesized(text) == <<Symbol("(")>> \o text \o <<Symbol(")")>>

\* Mutant: an operand of equal rank is never parenthesised.
LooserOnly(operand, op, isRight) == ExprPrec(operand) < BinaryPrec(op)

\* Mutant: an operand of equal rank is always parenthesised.
EqualToo(operand, op, isRight) == ExprPrec(operand) <= BinaryPrec(op)

\* Would the parser regroup an operand left bare?  At equal rank ^ takes its left
\* operand in parentheses, every other operator its right one.
TooLoose(operand, op, isRight) ==
  \/ ExprPrec(operand) < BinaryPrec(op)
  \/ ExprPrec(operand) = BinaryPrec(op) /\ isRight # (op = "^")

RenderCell(cell) == <<Letters(cell.col), Digits(cell.row)>>

RenderQualifier(file) == IF file = <<>> THEN <<>> ELSE <<Quoted(file[1]), Symbol("!")>>

RenderReference(ref) ==
  RenderQualifier(ref.file) \o RenderCell(ref.from)
    \o IF ref.to = <<>> THEN <<>> ELSE <<Symbol(":")>> \o RenderCell(ref.to[1])

RenderBool(isTrue) == Letters(IF isTrue THEN "TRUE" ELSE "FALSE")

RenderName(name) == <<Letters(name.word)>> \o name.digits

RECURSIVE RenderExpr(_), JoinArgs(_)

OperandParens(operand, rank) ==
  LET s == RenderExpr(operand) IN IF ExprPrec(operand) < rank THEN Parenthesized(s) ELSE s

BinaryOperand(operand, op, isRight) ==
  LET s == RenderExpr(operand) IN IF TooLoose(operand, op, isRight) THEN Parenthesized(s) ELSE s

RenderBinary(expr) ==
  BinaryOperand(expr.left, expr.op, FALSE) \o <<Symbol(expr.op)>>
    \o BinaryOperand(expr.right, expr.op, TRUE)

JoinArgs(args) ==
  IF args = <<>> THEN <<>>
  ELSE RenderExpr(Head(args))
         \o IF Tail(args) = <<>> THEN <<>> ELSE <<Symbol(",")>> \o JoinArgs(Tail(args))

\* A call without explicit arguments is written without parentheses.
CallTail(name, args) ==
  RenderName(name) \o IF args = <<>> THEN <<>> ELSE Parenthesized(JoinArgs(args))

RenderCall(call) ==
  IF call.isPiped
  THEN RenderExpr(call.args[1]) \o <<Symbol("|")>> \o CallTail(call.name, Tail(call.args))
  ELSE CallTail(call.name, call.args)

RenderExpr(expr) ==
  IF expr.kind = "Number" THEN <<expr.text>>
  ELSE IF expr.kind = "StringLit" THEN <<Quoted(expr.value)>>
  ELSE IF expr.kind = "BoolLit" THEN <<RenderBool(expr.isTrue)>>
  ELSE IF expr.kind = "ErrorLit" THEN <<ErrorText(expr.code)>>
  ELSE IF expr.kind = "RefOperand" THEN RenderReference(expr)
  ELSE IF expr.kind = "Unary" THEN <<Symbol(expr.sign)>> \o OperandParens(expr.x, Precedence.unary)
  ELSE IF expr.kind = "Percent" THEN OperandParens(expr.x, Precedence.percent) \o <<Symbol("%")>>
  ELSE IF expr.kind = "Binary" THEN RenderBinary(expr)
  ELSE RenderCall(expr)
=============================================================================
