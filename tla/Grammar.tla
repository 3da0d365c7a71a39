------------------------------- MODULE Grammar -------------------------------
(***************************************************************************)
(* The formula grammar: the lexer and the parser of internal/grammar.      *)
(*                                                                         *)
(* A text is a sequence of lexemes: a run of letters, a run of digits      *)
(* (with or without a decimal part), a quoted string, an error constant or *)
(* a symbol.  Blanks between them are skipped by the lexer and left out.   *)
(* A parse tree is a context per rule alternative.  Where the generated    *)
(* parser predicts an alternative from its table, the operator here says   *)
(* which lookahead chooses it.                                             *)
(***************************************************************************)
EXTENDS Integers, Sequences, TLC

CONSTANT Capitals     \* the words written in capital letters only

SymbolType ==
  (">=" :> "GE") @@ ("<=" :> "LE") @@ ("<>" :> "NE") @@ (">" :> "GT") @@ ("<" :> "LT") @@
  ("=" :> "EQ") @@ ("(" :> "LPAREN") @@ (")" :> "RPAREN") @@ (":" :> "COLON") @@
  ("," :> "COMMA") @@ ("$" :> "DOLLAR") @@ ("*" :> "STAR") @@ ("+" :> "PLUS") @@
  ("-" :> "DASH") @@ ("/" :> "SLASH") @@ ("%" :> "PERCENT") @@ ("^" :> "CARET") @@
  ("&" :> "AMP") @@ ("!" :> "BANG") @@ ("|" :> "PIPE")

\* Of the rules that match a run of letters the first one listed wins.
WordType(w) == IF w \in {"TRUE", "FALSE"} THEN w ELSE IF w \in Capitals THEN "COL" ELSE "NAME"

\* A lexeme and the type of its token.
Lexeme(type, spelling, digits) == [type |-> type, spelling |-> spelling, digits |-> digits]

Letters(w)   == Lexeme(WordType(w), w, 0)
Digits(n)    == Lexeme("NUMBER", "", n)
Decimal(n)   == Lexeme("NUMBER", ".", n)     \* n, a point, more digits
Quoted(s)    == Lexeme("STRING", s, 0)
ErrorText(c) == Lexeme("ERRORCONST", c, 0)

\* A symbol of no rule is a lexer error: no alternative of the parser takes it.
Symbol(s)    == Lexeme(IF s \in DOMAIN SymbolType THEN SymbolType[s] ELSE "UNRECOGNISED", s, 0)

-----------------------------------------------------------------------------
(***************************************************************************)
(* The contexts of the tree, one per labelled alternative.                 *)
(***************************************************************************)

ParenExpr(x)            == [ctx |-> "ParenExpr", exprs |-> <<x>>]
UnaryExpr(sign, x)      == [ctx |-> "UnaryExpr", token |-> sign, exprs |-> <<x>>]
CallExpr(call)          == [ctx |-> "CallExpr", call |-> call]
RefExpr(ref)            == [ctx |-> "RefExpr", ref |-> ref]
NumberExpr(token)       == [ctx |-> "NumberExpr", token |-> token]
StringExpr(token)       == [ctx |-> "StringExpr", token |-> token]
BoolExpr(token)         == [ctx |-> "BoolExpr", token |-> token]
ErrorExpr(token)        == [ctx |-> "ErrorExpr", token |-> token]
PowExpr(op, x, y)       == [ctx |-> "PowExpr", token |-> op, exprs |-> <<x, y>>]
MulExpr(op, x, y)       == [ctx |-> "MulExpr", token |-> op, exprs |-> <<x, y>>]
AddExpr(op, x, y)       == [ctx |-> "AddExpr", token |-> op, exprs |-> <<x, y>>]
ConcatExpr(op, x, y)    == [ctx |-> "ConcatExpr", token |-> op, exprs |-> <<x, y>>]
CompareExpr(op, x, y)   == [ctx |-> "CompareExpr", token |-> op, exprs |-> <<x, y>>]
PercentExpr(x)          == [ctx |-> "PercentExpr", exprs |-> <<x>>]
PipeExpr(x, call)       == [ctx |-> "PipeExpr", exprs |-> <<x>>, call |-> call]

\* number and args are sequences of at most one: the digits of a name, the argument list.
FunctionCallNode(word, number, args) ==
  [ctx |-> "FunctionCall", token |-> word, number |-> number, args |-> args]
ArgListNode(exprs)        == [ctx |-> "ArgList", exprs |-> exprs]
ReferenceNode(sheet, cells) == [ctx |-> "Reference", sheet |-> sheet, cells |-> cells]
SheetQualifierNode(token) == [ctx |-> "SheetQualifier", token |-> token]
CellRefNode(col, row)     == [ctx |-> "CellRef", token |-> col, row |-> row]

-----------------------------------------------------------------------------
(***************************************************************************)
(* The rules.  Each takes the text and the place to read from, and gives   *)
(* the tree it matched and the place after it, or a syntax error.  The     *)
(* parser's recovery goes on after an error, but the caller drops the tree *)
(* of a text that had one.                                                 *)
(***************************************************************************)

SyntaxError == [ok |-> FALSE]
Matched(tree, next) == [ok |-> TRUE, tree |-> tree, next |-> next]

\* The type of the i-th token, LA in the parser; EOF past the end.
LA(text, i) == IF i \in DOMAIN text THEN text[i].type ELSE "EOF"

\* The operators' binding strengths: an infix operator is taken at level n only
\* if its strength is at least n, and its right operand is read at OperandLevel.
Strength == [CARET |-> 13, STAR |-> 11, SLASH |-> 11, PLUS |-> 10, DASH |-> 10, AMP |-> 9,
             EQ |-> 8, NE |-> 8, LT |-> 8, LE |-> 8, GT |-> 8, GE |-> 8,
             PERCENT |-> 14, PIPE |-> 7]

\* Mutant: every infix operator groups to the left, ^ too.
AlwaysLeft(type) == Strength[type] + 1

\* ^ groups to the right: its operand may hold another ^.
OperandLevel(type) == IF type = "CARET" THEN 13 ELSE Strength[type] + 1

SignLevel == 12

InfixContext(op, x, y) ==
  LET type == op.type IN
  IF type = "CARET" THEN PowExpr(op, x, y)
  ELSE IF type \in {"STAR", "SLASH"} THEN MulExpr(op, x, y)
  ELSE IF type \in {"PLUS", "DASH"} THEN AddExpr(op, x, y)
  ELSE IF type = "AMP" THEN ConcatExpr(op, x, y)
  ELSE CompareExpr(op, x, y)

Precpred(type, level) == type \in DOMAIN Strength /\ Strength[type] >= level

StartsArgument == {"TRUE", "FALSE", "ERRORCONST", "LPAREN", "DOLLAR", "PLUS", "DASH",
                   "NUMBER", "COL", "NAME", "STRING"}

SheetQualifier(text, i) ==
  IF LA(text, i) = "STRING" /\ LA(text, i + 1) = "BANG"
  THEN Matched(SheetQualifierNode(text[i]), i + 2) ELSE SyntaxError

CellRef(text, i) ==
  LET col == IF LA(text, i) = "DOLLAR" THEN i + 1 ELSE i
      row == IF LA(text, col + 1) = "DOLLAR" THEN col + 2 ELSE col + 1
  IN IF LA(text, col) = "COL" /\ LA(text, row) = "NUMBER"
     THEN Matched(CellRefNode(text[col], text[row]), row + 1) ELSE SyntaxError

Reference(text, i) ==
  LET sheet == IF LA(text, i) = "STRING" THEN SheetQualifier(text, i) ELSE Matched(<<>>, i)
      from == IF sheet.ok THEN CellRef(text, sheet.next) ELSE SyntaxError
      isRange == from.ok /\ LA(text, from.next) = "COLON"
      to == IF isRange THEN CellRef(text, from.next + 1) ELSE SyntaxError
      qualifier == IF LA(text, i) = "STRING" THEN <<sheet.tree>> ELSE <<>>
  IN IF ~from.ok \/ (isRange /\ ~to.ok) THEN SyntaxError
     ELSE IF isRange THEN Matched(ReferenceNode(qualifier, <<from.tree, to.tree>>), to.next)
     ELSE Matched(ReferenceNode(qualifier, <<from.tree>>), from.next)

\* Capital letters before a row number, or before its $, are a column, unless an
\* argument list follows the number.
IsCall(text, i) ==
  \/ LA(text, i) = "NAME"
  \/ /\ LA(text, i) = "COL" /\ LA(text, i + 1) # "DOLLAR"
     /\ LA(text, i + 1) = "NUMBER" => LA(text, i + 2) = "LPAREN"

RECURSIVE Expression(_, _, _), Suffixes(_, _, _), FunctionCall(_, _), ArgList(_, _), MoreArgs(_, _)

FunctionCall(text, i) ==
  LET open == IF LA(text, i + 1) = "NUMBER" THEN i + 2 ELSE i + 1
      digits == SubSeq(text, i + 1, open - 1)
      args == IF LA(text, open + 1) \in StartsArgument THEN ArgList(text, open + 1)
              ELSE Matched(ArgListNode(<<>>), open + 1)
      list == IF LA(text, open + 1) \in StartsArgument THEN <<args.tree>> ELSE <<>>
  IN IF LA(text, i) \notin {"COL", "NAME"} THEN SyntaxError
     ELSE IF LA(text, open) # "LPAREN" THEN Matched(FunctionCallNode(text[i], <<>>, <<>>), i + 1)
     ELSE IF ~args.ok \/ LA(text, args.next) # "RPAREN" THEN SyntaxError
     ELSE Matched(FunctionCallNode(text[i], digits, list), args.next + 1)

ArgList(text, i) ==
  LET first == Expression(text, i, 0) IN
  IF ~first.ok THEN SyntaxError ELSE MoreArgs(text, Matched(<<first.tree>>, first.next))

MoreArgs(text, sofar) ==
  IF LA(text, sofar.next) # "COMMA" THEN Matched(ArgListNode(sofar.tree), sofar.next)
  ELSE LET arg == Expression(text, sofar.next + 1, 0) IN
       IF ~arg.ok THEN SyntaxError
       ELSE MoreArgs(text, Matched(Append(sofar.tree, arg.tree), arg.next))

\* The alternatives an expression can start with.
Primary(text, i) ==
  LET type == LA(text, i)
      inner == IF type = "LPAREN" THEN Expression(text, i + 1, 0)
               ELSE Expression(text, i + 1, SignLevel)
      call == FunctionCall(text, i)
      ref == Reference(text, i)
  IN IF type = "LPAREN"
     THEN IF inner.ok /\ LA(text, inner.next) = "RPAREN"
          THEN Matched(ParenExpr(inner.tree), inner.next + 1) ELSE SyntaxError
     ELSE IF type \in {"PLUS", "DASH"}
     THEN IF inner.ok THEN Matched(UnaryExpr(text[i], inner.tree), inner.next) ELSE SyntaxError
     ELSE IF IsCall(text, i)
     THEN IF call.ok THEN Matched(CallExpr(call.tree), call.next) ELSE SyntaxError
     ELSE IF type \in {"COL", "DOLLAR"} \/ (type = "STRING" /\ LA(text, i + 1) = "BANG")
     THEN IF ref.ok THEN Matched(RefExpr(ref.tree), ref.next) ELSE SyntaxError
     ELSE IF type = "NUMBER" THEN Matched(NumberExpr(text[i]), i + 1)
     ELSE IF type = "STRING" THEN Matched(StringExpr(text[i]), i + 1)
     ELSE IF type \in {"TRUE", "FALSE"} THEN Matched(BoolExpr(text[i]), i + 1)
     ELSE IF type = "ERRORCONST" THEN Matched(ErrorExpr(text[i]), i + 1)
     ELSE SyntaxError

Expression(text, i, level) ==
  Suffixes(text, Primary(text, i), level)

\* While an operator at least as strong as the level follows, it takes the tree
\* so far as its left operand.
Suffixes(text, left, level) ==
  LET type == LA(text, left.next)
      right == Expression(text, left.next + 1, OperandLevel(type))
      call == FunctionCall(text, left.next + 1)
  IN IF ~left.ok THEN SyntaxError
     ELSE IF ~Precpred(type, level) THEN left
     ELSE IF type = "PERCENT"
     THEN Suffixes(text, Matched(PercentExpr(left.tree), left.next + 1), level)
     ELSE IF type = "PIPE"
     THEN IF call.ok THEN Suffixes(text, Matched(PipeExpr(left.tree, call.tree), call.next), level)
          ELSE SyntaxError
     ELSE IF right.ok
     THEN Suffixes(text, Matched(InfixContext(text[left.next], left.tree, right.tree),
                                 right.next), level)
     ELSE SyntaxError
=============================================================================
