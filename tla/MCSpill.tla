------------------------------- MODULE MCSpill -------------------------------
(* Every ragged sheet of two rows of two and three cells: blanks, a literal, a   *)
(* formula that shows nothing, and arrays of one, two and four elements, each  *)
(* element told apart by its anchor.                                           *)
EXTENDS Spill

Nothing == <<>>
Content == <<"x">>
Error == <<"#SPILL!">>
ElementOf(r, c, i, j) == <<r, c, i, j>>

MCText == {Nothing, Content, Error}
            \cup {ElementOf(r, c, i, j) : r \in 1..2, c \in 1..3, i, j \in 0..1}

Kinds == {"blank", "content", "silent", "wide", "tall", "square"}

ArrayAt(r, c, h, w) ==
  [kind |-> "array", height |-> h, width |-> w,
   texts |-> [i \in 0..(h - 1) |-> [j \in 0..(w - 1) |-> ElementOf(r, c, i, j)]]]

CellOf(k, r, c) == CASE k = "blank"   -> [kind |-> "literal", text |-> Nothing]
                     [] k = "content" -> [kind |-> "literal", text |-> Content]
                     [] k = "silent"  -> [kind |-> "scalar", text |-> Nothing]
                     [] k = "wide"    -> ArrayAt(r, c, 1, 2)
                     [] k = "tall"    -> ArrayAt(r, c, 2, 1)
                     [] k = "square"  -> ArrayAt(r, c, 2, 2)

Rows2(m, n) ==
  {<< [c \in 1..m |-> CellOf(top[c], 1, c)], [c \in 1..n |-> CellOf(low[c], 2, c)] >> :
     top \in [1..m -> Kinds], low \in [1..n -> Kinds]}

MCSheets == {<<>>} \cup Rows2(3, 2) \cup Rows2(2, 3) \cup Rows2(2, 0) \cup Rows2(0, 2)
=============================================================================
