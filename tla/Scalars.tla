------------------------------- MODULE Scalars -------------------------------
(***************************************************************************)
(* The values of cells (internal/engine/value.go) and how the builtins     *)
(* compare and coerce them (funcs.go).                                     *)
(*                                                                         *)
(* A scalar is its kind, its number, and where its text stands in the byte *)
(* order of texts; the empty cell's text stands first, at 0. A number is   *)
(* counted in a unit so small that every mean taken of them is whole.      *)
(***************************************************************************)
EXTENDS Integers, SequencesExt

Kinds == {"empty", "number", "string", "bool", "date", "error"}
IsScalar(v) == v \in [kind : Kinds, num : Int, text : Nat]

\* Where the text of a computed number stands is no matter; nor an error's.
NumberValue(n) == [kind |-> "number", num |-> n, text |-> 0]
Error(code) == [kind |-> "error", num |-> code, text |-> 0]
NA == 1
REF == 2
VALUE == 3
NUM == 4
DIV == 5
NAME == 6

IsError(v) == v.kind = "error"

Numericish(v) == v.kind \in {"number", "bool", "date"}
Textual(v) == v.kind \in {"string", "empty"}

\* asNumber: an empty cell is 0, a text is not a number.
HasNumber(v) == Numericish(v) \/ v.kind = "empty"
AsNumber(v) == IF Numericish(v) THEN v.num ELSE 0
NotANumber(v) == IF IsError(v) THEN v ELSE Error(VALUE)

Truthy(v) == CASE Numericish(v)      -> v.num # 0
               [] v.kind = "string" -> v.text # 0
               [] OTHER             -> FALSE

\* Numbers and booleans compare as numbers, texts as texts; a mixed pair is an
\* error, which equals nothing.
EqualValues(a, b) == \/ Numericish(a) /\ Numericish(b) /\ a.num = b.num
                     \/ Textual(a) /\ Textual(b) /\ a.text = b.text

\* SORT's order: a mixed pair compares as texts.
LessValue(a, b) ==
  IF Numericish(a) /\ Numericish(b) THEN a.num < b.num ELSE a.text < b.text
=============================================================================
