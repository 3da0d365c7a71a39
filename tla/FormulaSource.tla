---------------------------- MODULE FormulaSource ----------------------------
(***************************************************************************)
(* One formula cell over its life: typed by a user, parsed, and rewritten  *)
(* by structural edits, which shift the references of the tree and put the *)
(* rendered tree in place of the text.  The text is what is saved, so the  *)
(* next reader of the document parses it again.                            *)
(***************************************************************************)
EXTENDS Rendering

CONSTANTS
  Columns,     \* a window of consecutive column labels
  Atoms,       \* the texts typed as operands
  Names,       \* the function names typed, as lexemes
  Operators,   \* the infix operators typed first, second, and so on
  Lines,       \* where lines are inserted and deleted, from the window's first
  MaxEdited,   \* bound: operators and calls of a formula that structural edits rewrite
  MaxEdits     \* bound: structural edits of the document

VARIABLES
  source,    \* the text of the cell after its =
  formula,   \* the tree the sheet holds
  typed,     \* how much was typed
  edits      \* how many structural edits were made

vars == <<source, formula, typed, edits>>

S == INSTANCE Structural WITH CellText <- {""}, Blank <- ""

-----------------------------------------------------------------------------
(***************************************************************************)
(* Typing: the user puts something around, before or after the text.       *)
(***************************************************************************)

Parens(text) == <<Symbol("(")>> \o text \o <<Symbol(")")>>

Beside(text) == UNION {{text \o <<Symbol(op)>> \o atom, atom \o <<Symbol(op)>> \o text} :
                         op \in Operators[typed + 1], atom \in Atoms}

\* The ways to write the arguments of a call after its name.
ArgTexts == {<<>>, Parens(<<>>)} \cup {Parens(atom) : atom \in Atoms}

Piped(text) == {text \o <<Symbol("|")>> \o name \o args : name \in Names, args \in ArgTexts}

Extended(text) == {text \o <<Symbol("%")>>, <<Symbol("-")>> \o text}
                    \cup Beside(text) \cup Piped(text)

\* The text as it stands or in parentheses, with something added.
Retyped(text) == Extended(text) \cup Extended(Parens(text))
                   \cup {name \o Parens(text) : name \in Names}

\* Setting a cell parses its text, and refuses one that does not parse.
Type(text) ==
  LET parsed == ParseFormula(text) IN
  /\ parsed.ok
  /\ source' = text /\ formula' = parsed.expr

-----------------------------------------------------------------------------

IndexOf(col) == CHOOSE i \in DOMAIN Columns : Columns[i] = col

PositionOf(cell) == S!At(cell.row - 1, IndexOf(cell.col) - 1)

CellAt(p) == CellOf(Columns[p["col"] + 1], p["row"] + 1)

\* The reference as the structural edits see it.
Operand(ref) ==
  IF ref.to = <<>> /\ ref.file = <<>> THEN [kind |-> "cell", from |-> PositionOf(ref.from)]
  ELSE [kind |-> IF ref.file = <<>> THEN "range" ELSE "foreign", from |-> PositionOf(ref.from),
        to |-> PositionOf(IF ref.to = <<>> THEN ref.from ELSE ref.to[1])]

Moved(ref, e) ==
  LET shifted == S!ShiftReference(Operand(ref), e) IN
  IF shifted.kind = "foreign" THEN ref
  ELSE IF shifted.kind = "#REF!" THEN ErrorLit("#REF!")
  ELSE RangeRef(<<>>, CellAt(shifted.from),
                IF shifted.kind = "range" THEN <<CellAt(shifted.to)>> ELSE <<>>)

RECURSIVE MapRefs(_, _)
MapRefs(expr, e) ==
  IF expr.kind = "RefOperand" THEN Moved(expr, e)
  ELSE IF expr.kind = "Unary" THEN Unary(expr.sign, MapRefs(expr.x, e))
  ELSE IF expr.kind = "Percent" THEN Percent(MapRefs(expr.x, e))
  ELSE IF expr.kind = "Binary"
  THEN Binary(expr.op, MapRefs(expr.left, e), MapRefs(expr.right, e))
  ELSE IF expr.kind = "Call"
  THEN Call(expr.name, [i \in DOMAIN expr.args |-> MapRefs(expr.args[i], e)], expr.isPiped)
  ELSE expr

\* A formula none of whose references moved keeps its own spelling.
Rewrite(e) ==
  LET shifted == MapRefs(formula, e) IN
  IF shifted = formula THEN UNCHANGED <<source, formula>>
  ELSE formula' = shifted /\ source' = RenderExpr(shifted)

\* Bound: the last label of the window stays free, so that a shift stays inside.
RECURSIVE Leaves(_)
Leaves(expr) ==
  IF expr.kind \in {"Unary", "Percent"} THEN Leaves(expr.x)
  ELSE IF expr.kind = "Binary" THEN Leaves(expr.left) \cup Leaves(expr.right)
  ELSE IF expr.kind = "Call" THEN UNION {Leaves(expr.args[i]) : i \in DOMAIN expr.args}
  ELSE {expr}

RefsOf(expr) == {leaf \in Leaves(expr) : leaf.kind = "RefOperand"}

Labels(ref) == {ref.from.col} \cup {ref.to[i].col : i \in DOMAIN ref.to}

InWindow(ref) == Columns[Len(Columns)] \notin Labels(ref)

-----------------------------------------------------------------------------

Init ==
  /\ source \in Atoms
  /\ formula = ParseFormula(source).expr
  /\ typed = 0 /\ edits = 0

TypeMore ==
  /\ typed < Len(Operators) /\ edits = 0     \* bound
  /\ \E text \in Retyped(source) : Type(text)
  /\ typed' = typed + 1 /\ UNCHANGED edits

EditLines ==
  /\ edits < MaxEdits /\ typed <= MaxEdited
  /\ \A ref \in RefsOf(formula) : InWindow(ref)
  /\ \E op \in {"insert", "delete"}, axis \in S!Axis, at \in Lines :
       Rewrite([op |-> op, axis |-> axis, at |-> at])
  /\ edits' = edits + 1 /\ UNCHANGED typed

Next == TypeMore \/ EditLines

Spec == Init /\ [][Next]_vars

-----------------------------------------------------------------------------
(***************************************************************************)
(* Properties.                                                             *)
(***************************************************************************)

RECURSIVE Calls(_)
Calls(expr) ==
  IF expr.kind \in {"Unary", "Percent"} THEN Calls(expr.x)
  ELSE IF expr.kind = "Binary" THEN Calls(expr.left) \cup Calls(expr.right)
  ELSE IF expr.kind = "Call" THEN {expr} \cup UNION {Calls(expr.args[i]) : i \in DOMAIN expr.args}
  ELSE {}

Explicit(call) == IF call.isPiped THEN Tail(call.args) ELSE call.args

\* A name that ends in digits needs its parentheses, which rendering drops when they
\* are empty; and the columns TRUE and FALSE have the name of a constant.
Spellable(expr) ==
  /\ \A call \in Calls(expr) : call.name.digits # <<>> => Explicit(call) # <<>>
  /\ \A ref \in RefsOf(expr) : Labels(ref) \cap {"TRUE", "FALSE"} = {}

\* What the document saves, and what Explain shows, parses back to the very formula
\* the sheet computes with: renderExpr against the precedences of the parser.
TextMeansFormula ==
  Spellable(formula) => /\ ParseFormula(source) = Built(formula)
                        /\ ParseFormula(RenderExpr(formula)) = Built(formula)

\* The text a structural edit writes still parses (adversarial_fixes_test.go:73).
RewrittenTextParses == ParseFormula(source).ok

\* The texts that are the text s with one pair of parentheses left out.
Matches(s, i, j) ==
  LET depth(k) == Len(SelectSeq(SubSeq(s, i, k), LAMBDA x : x = Symbol("(")))
                    - Len(SelectSeq(SubSeq(s, i, k), LAMBDA x : x = Symbol(")")))
  IN /\ s[i] = Symbol("(") /\ s[j] = Symbol(")") /\ i < j
     /\ depth(j) = 0 /\ \A k \in i..(j - 1) : depth(k) > 0

Pairs(s) == {p \in (DOMAIN s) \X (DOMAIN s) : Matches(s, p[1], p[2])}

\* The parentheses of an argument list belong to its call.
IsGrouping(s, p) ==
  p[1] = 1 \/ s[p[1] - 1].type \notin {"TRUE", "FALSE", "COL", "NAME", "NUMBER"}

Without(s, p) ==
  SubSeq(s, 1, p[1] - 1) \o SubSeq(s, p[1] + 1, p[2] - 1) \o SubSeq(s, p[2] + 1, Len(s))

\* Two groupings the parser would not undo: a sign to the right of ^, and a pipe to
\* the left of an operator.
IsCautious(s, p) ==
  \/ p[1] > 1 /\ s[p[1] - 1] = Symbol("^") /\ s[p[1] + 1] \in {Symbol("-"), Symbol("+")}
  \/ /\ p[1] = 1 \/ s[p[1] - 1] \in {Symbol("("), Symbol(",")}
     /\ \E i \in p[1]..p[2] : s[i] = Symbol("|")

\* renderBinary and operandParens put no parentheses that the parser would not need
\* (but for the cautious ones): without them the text means another formula, or none.
ParensAreNeeded ==
  LET s == RenderExpr(formula) IN
  Spellable(formula) =>
    \A p \in Pairs(s) : IsGrouping(s, p) /\ ~IsCautious(s, p)
                          => ParseFormula(Without(s, p)) # Built(formula)
=============================================================================
