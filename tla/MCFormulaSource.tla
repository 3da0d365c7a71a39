--------------------------- MODULE MCFormulaSource ---------------------------
(***************************************************************************)
(* An instance of FormulaSource: a window of columns around TRUE, and      *)
(* operators of every associativity and rank.                              *)
(***************************************************************************)
EXTENDS FormulaSource

MCCapitals == {"TRUD", "TRUE", "TRUF", "A", "B", "C", "LOG"}
MCReservedColumns == <<"TRUD", "TRUE", "TRUF">>
MCPlainColumns == <<"A", "B", "C">>

CellText(col, row) == <<Letters(col), Digits(row)>>

MCReservedAtoms == {CellText("TRUD", 1),
                    CellText("TRUD", 2) \o <<Symbol(":"), Symbol("$")>> \o CellText("TRUD", 1)}
MCPlainAtoms == {CellText("A", 1), <<Quoted("f"), Symbol("!")>> \o CellText("B", 1)}
MCOperators == <<{"^", "*", "-", "&", "<="}, {"^", "-", "="}, {}>>
MCNames == {<<Letters("len")>>, <<Letters("LOG"), Digits(10)>>}
=============================================================================
