---------------------------- MODULE EmbedMeaning ----------------------------
(***************************************************************************)
(* What a cell means when files refer to files, by recursion over them     *)
(* with no memo, no stack and no computers; and that the pass finds it.    *)
(* The recursion ends where the cells of a single file do not refer in a   *)
(* circle; the files may.                                                  *)
(***************************************************************************)
EXTENDS Embed, SequencesExt

\* A file as it is entered: by way of the files in visiting, with arguments.
Entered == [path : Paths, visiting : SUBSET Paths, args : Seq(Value)]

EnteredAs(p, visiting, args) == [path |-> p, visiting |-> visiting, args |-> args]

\* The meaning of an operand and of a formula in an entered file w on the disk d,
\* where m gives the meanings of the cells they refer to.
AtomMeaning(m, w, x) ==
  CASE x.op = "value" -> x.value
    [] x.op = "input" -> IF x.n \in 1..Len(w.args) THEN w.args[x.n] ELSE Error("#REF!")
    [] x.op = "cell"  -> m[<<w, x.cell>>]

AtomMeanings(m, w, items) == [i \in DOMAIN items |-> AtomMeaning(m, w, items[i])]

OperandMeaning(d, m, w, x) ==
  IF x.op \notin {"foreign", "sheet"} THEN AtomMeaning(m, w, x)
  ELSE LET q == Resolve[w.path][x.file]
           outputs == {c \in Cells : d[q][c].call = "output"}
           At(args) == EnteredAs(q, w.visiting \cup {q}, args)
       IN IF q = None THEN Error("#REF!")
          ELSE IF q \in w.visiting THEN Error("#CIRC!")
          ELSE IF x.op = "foreign"
               THEN Total([i \in DOMAIN x.cells |-> m[<<At(<<>>), x.cells[i]>>]])
          ELSE IF \E c \in Cells : outputs = {c}
               THEN m[<<At(AtomMeanings(m, w, x.args)), CHOOSE c \in outputs : TRUE>>]
               ELSE Error("#REF!")

FormulaMeaning(d, m, w, c) ==
  LET items == d[w.path][c].args IN
  Total([i \in DOMAIN items |-> OperandMeaning(d, m, w, items[i])])

\* What the cells of each entered file mean, on the disk d.
Meaning(d) ==
  LET meaning[x \in Entered \X Cells] == FormulaMeaning(d, meaning, x[1], x[2]) IN meaning

\* The atoms a formula is made of, those that are arguments of its SHEET calls included.
AtomsOf(items) ==
  ToSet(items) \cup UNION {ToSet(x.args) : x \in {x \in ToSet(items) : x.op = "sheet"}}

\* The cells of a file refer to later ones only, and none asks for TICK(), so that
\* a meaning is defined and does not depend on the pass.
Grounded(d) ==
  \A p \in Paths : \A i \in DOMAIN Order : \A x \in AtomsOf(d[p][Order[i]].args) :
    /\ x.op # "tick"
    /\ x.op = "cell" => \A j \in DOMAIN Order : Order[j] = x.cell => i < j

\* A value a computer has stored is what its cell means in its file, entered as it
\* was with the arguments it was given: no other file, no earlier reference to the
\* same one and no other call of it has left a trace in it.
CacheIsMeaning ==
  Grounded(disk) => \A k \in DOMAIN comps : \A c \in Cells :
    comps[k].phase[c] = "done" =>
      LET way == {comps[j].path : j \in 1..k} IN
      comps[k].cache[c] = Meaning(disk)[<<EnteredAs(comps[k].path, way, comps[k].args), c>>]

\* The grid shown inside a cell and the value of the cell tell the same story: the
\* value is that of the grid's only OUTPUT cell, and #REF! when it has not just one.
NestedGridAgrees ==
  (Grounded(disk) /\ grid # None /\ nested # None) =>
    LET outputs == {c \in Cells : disk[nested.path][c].call = "output"} IN
    grid[nested.cell] = IF \E c \in Cells : outputs = {c}
                        THEN nested.grid[CHOOSE c \in outputs : TRUE]
                        ELSE Error("#REF!")
=============================================================================
