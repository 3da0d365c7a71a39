------------------------------ MODULE MCDocument ------------------------------
(* Small files for Document: a shebang, comments before, between and after   *)
(* rows, ragged rows, and formulas with every kind of reference.             *)
EXTENDS References

Literal(t) == [text |-> t, refs |-> <<>>, rendered |-> FALSE]
Formula(refs) == [text |-> "=", refs |-> refs, rendered |-> FALSE]

CellRef(row, col) == [kind |-> "cell", from |-> At(row, col)]
RangeRef(r1, c1, r2, c2) == [kind |-> "range", from |-> At(r1, c1), to |-> At(r2, c2)]
Foreign(row, col) == [kind |-> "foreign", from |-> At(row, col), to |-> At(row, col)]

MCHash == {"# note", "# end"}
MCBang == {"#!"}
MCMalformed == {"=("}
MCText == {"", "x", "="} \cup MCHash \cup MCBang \cup MCMalformed

x == Literal("x")

\* Every range of a three-by-two grid, from any of its corners.
MCRanges == {RangeRef(r1, c1, r2, c2) : r1, r2 \in 0..2, c1, c2 \in 0..1}

Between(f) == << <<Literal("#!"), Literal("=(")>>, <<x, f>>, <<Literal("# note")>>, <<x>>,
                 <<Literal("# end")>> >>

MCSources ==
  {Between(Formula(<<ref, CellRef(1, 0)>>)) : ref \in MCRanges}
    \cup { <<>>,
           << <<Literal("# note")>>, <<x, Formula(<<Foreign(1, 0)>>)>>, <<BlankCell>>, <<x>> >>,
           << <<x>>, <<Formula(<<CellRef(2, 2), CellRef(-1, 0)>>), x>> >> }

MCMenu == {x}
=============================================================================
