----------------------------- MODULE Expressions -----------------------------
(***************************************************************************)
(* The typed formula tree of internal/tsvt, and how it is built from the   *)
(* parse tree: parentheses vanish, a pipe becomes the call it stands for,  *)
(* and the digits of a function's name are folded back into it.            *)
(***************************************************************************)
EXTENDS Grammar

\* A function name is its letters and the digit group that ends it, if any.
Name(word, digits) == [word |-> word, digits |-> digits]

Number(text)      == [kind |-> "Number", text |-> text]
StringLit(value)  == [kind |-> "StringLit", value |-> value]
BoolLit(isTrue)   == [kind |-> "BoolLit", isTrue |-> isTrue]
ErrorLit(code)    == [kind |-> "ErrorLit", code |-> code]
Unary(sign, x)    == [kind |-> "Unary", sign |-> sign, x |-> x]
Percent(x)        == [kind |-> "Percent", x |-> x]
Binary(op, left, right) == [kind |-> "Binary", op |-> op, left |-> left, right |-> right]
Call(name, args, isPiped) ==
  [kind |-> "Call", name |-> name, args |-> args, isPiped |-> isPiped]

\* to holds the second corner of a range, file the sheet a reference is qualified
\* with; each is a sequence of at most one.
CellOf(col, row) == [col |-> col, row |-> row]
RangeRef(file, from, to) == [kind |-> "RefOperand", file |-> file, from |-> from, to |-> to]

Built(expr) == [ok |-> TRUE, expr |-> expr]

-----------------------------------------------------------------------------

\* A row is a whole number: a decimal one is a syntax error.
CellIsWhole(node) == node.row.spelling = ""

BuildCellRef(node) == CellOf(node.token.spelling, node.row.digits)

BuildReference(node) ==
  LET cells == node.cells
      file == [i \in DOMAIN node.sheet |-> node.sheet[i].token.spelling]
  IN IF \E i \in DOMAIN cells : ~CellIsWhole(cells[i]) THEN SyntaxError
     ELSE Built(RangeRef(file, BuildCellRef(cells[1]),
                         [i \in 1..(Len(cells) - 1) |-> BuildCellRef(cells[i + 1])]))

CallName(node) == Name(node.token.spelling, [i \in DOMAIN node.number |-> node.number[i]])

\* A context with no sub-expression of its own.
BuildLeaf(node) ==
  IF node.ctx = "NumberExpr" THEN Number(node.token)
  ELSE IF node.ctx = "StringExpr" THEN StringLit(node.token.spelling)
  ELSE IF node.ctx = "BoolExpr" THEN BoolLit(node.token.spelling = "TRUE")
  ELSE ErrorLit(node.token.spelling)

RECURSIVE BuildExpr(_), BuildArgs(_)

BuildBinary(op, exprs) ==
  LET left == BuildExpr(exprs[1])
      right == BuildExpr(exprs[2])
  IN IF left.ok /\ right.ok THEN Built(Binary(op, left.expr, right.expr)) ELSE SyntaxError

BuildUnary(node) ==
  LET x == BuildExpr(node.exprs[1]) IN
  IF x.ok THEN Built(Unary(node.token.spelling, x.expr)) ELSE SyntaxError

BuildPercent(node) ==
  LET x == BuildExpr(node.exprs[1]) IN IF x.ok THEN Built(Percent(x.expr)) ELSE SyntaxError

\* The arguments of a call in parentheses, none when it is bare or they are empty.
BuildArgs(call) ==
  LET exprs == IF call.args = <<>> THEN <<>> ELSE call.args[1].exprs
      built == [i \in DOMAIN exprs |-> BuildExpr(exprs[i])]
  IN IF \A i \in DOMAIN built : built[i].ok
     THEN [ok |-> TRUE, exprs |-> [i \in DOMAIN built |-> built[i].expr]]
     ELSE SyntaxError

\* The piped value becomes the first argument.
BuildPipe(node) ==
  LET piped == BuildExpr(node.exprs[1])
      args == BuildArgs(node.call)
  IN IF piped.ok /\ args.ok
     THEN Built(Call(CallName(node.call), <<piped.expr>> \o args.exprs, TRUE)) ELSE SyntaxError

BuildCall(node) ==
  LET args == BuildArgs(node.call) IN
  IF args.ok THEN Built(Call(CallName(node.call), args.exprs, FALSE)) ELSE SyntaxError

BuildExpr(node) ==
  IF node.ctx = "ParenExpr" THEN BuildExpr(node.exprs[1])
  ELSE IF node.ctx = "PercentExpr" THEN BuildPercent(node)
  ELSE IF node.ctx = "UnaryExpr" THEN BuildUnary(node)
  ELSE IF node.ctx \in {"PowExpr", "MulExpr", "AddExpr", "ConcatExpr", "CompareExpr"}
  THEN BuildBinary(node.token.spelling, node.exprs)
  ELSE IF node.ctx = "PipeExpr" THEN BuildPipe(node)
  ELSE IF node.ctx = "CallExpr" THEN BuildCall(node)
  ELSE IF node.ctx = "RefExpr" THEN BuildReference(node.ref)
  ELSE Built(BuildLeaf(node))

\* Input left over after the expression is a syntax error.
BuildWhole(text, tree) ==
  IF tree.ok /\ tree.next = Len(text) + 1 THEN BuildExpr(tree.tree) ELSE SyntaxError

ParseFormula(text) == BuildWhole(text, Expression(text, 1, 0))
=============================================================================
