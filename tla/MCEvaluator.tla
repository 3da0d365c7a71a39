----------------------------- MODULE MCEvaluator -----------------------------
(* Small sheets for Evaluator: three cells A1, B1, C1 in one row, and one   *)
(* address off the grid.                                                    *)
EXTENDS EvaluatorRefinement

MCAddress == {"A1", "B1", "C1", "Z9"}
MCRowMajor == <<"A1", "B1", "C1">>
MCCells == {"A1", "B1", "C1"}

One == Const(Number(1))

Plus1 == {Call("add", <<Ref(a), One>>) : a \in MCAddress}
Fallbacks == {Call("iferror", <<Ref(a), One>>) : a \in MCCells}

\* Every cell ranges over every one of these: self-references, cycles of two and
\* three cells, diamonds, and errors met first, second or not at all.
MCSheets ==
  [MCCells -> {Literal(Number(0)), Literal(Text)} \cup Plus1 \cup Fallbacks
                \cup {Call("and", <<Ref("B1"), Ref("C1")>>),
                      Call("and", <<Ref("C1"), Ref("A1")>>),
                      Call("if", <<Ref("A1"), Ref("C1"), Const(Text)>>),
                      Call("iserror", <<Ref("A1")>>),
                      Call("ref", <<Ref("A1"), Ref("B1")>>)}]
=============================================================================
