----------------------------- MODULE MCEditImpact -----------------------------
(* Sheets of three cells over sums, choices and fallbacks, cyclic and not, of    *)
(* which one cell is replaced by another formula.                               *)
EXTENDS EditImpact

MCAddress == {"A1", "B1", "C1", "Z9"}
MCRowMajor == <<"A1", "B1", "C1">>
MCCells == {"A1", "B1", "C1"}

One == Const(Number(1))

MCMenu == {Literal(Number(2)),
           Call("add", <<Ref("C1"), One>>),
           Call("add", <<Ref("A1"), Ref("Z9")>>),
           Call("iferror", <<Ref("B1"), One>>),
           Call("if", <<Ref("A1"), Ref("C1"), Ref("B1")>>)}

MCSheets == [MCCells -> MCMenu \cup {Call("add", <<Ref("A1"), One>>)}]
=============================================================================
