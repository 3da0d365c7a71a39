------------------------------- MODULE MCBrowser ------------------------------
(* Small texts for Browser: an empty one, one with a shebang and comments,   *)
(* one that does not parse, formulas that may be printed as no formula; and  *)
(* cells a page may type, comment-like ones and a malformed formula among    *)
(* them.                                                                     *)
EXTENDS Browser

Literal(t) == [text |-> t, refs |-> <<>>, rendered |-> FALSE]

MCHash == {"# note"}
MCBang == {"#!"}
MCMalformed == {"=("}
MCText == {"", "x", "="} \cup MCHash \cup MCBang \cup MCMalformed

x == Literal("x")
note == Literal("# note")
bang == Literal("#!")
bad == Literal("=(")
CellRef(row, col) == [kind |-> "cell", from |-> At(row, col)]
Formula(refs) == [text |-> "=", refs |-> refs, rendered |-> FALSE]

second == Formula(<<CellRef(1, 0)>>)
called == Formula(<<CellRef(0, 0), [kind |-> "call", from |-> At(1, 1)]>>)    \* A1 + B2()
piped == Formula(<<CellRef(0, 1), Misspelt>>)                                 \* B1 | LOG10()
beyond == Formula(<<CellRef(0, 2)>>)                                          \* C1

MCBoolColumns == {3}

MCFiles == { <<>>,
             << <<bang, bad>>, <<second>> >>,
             << <<x>>, <<note, bad>>, <<second>> >>,
             << <<x>>, <<bang, bad>> >>,
             << <<note>>, <<called>> >>,
             << <<piped>> >>,
             << <<note>>, <<beyond>> >> }

MCTyped == {x, note, bang, bad}
=============================================================================
