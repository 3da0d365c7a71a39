------------------------ MODULE EvaluatorRefinement -------------------------
(* Evaluator implements Recalc: a cell is settled when its phase is done.  *)
EXTENDS Evaluator

Unset == [kind |-> "unset"]

R == INSTANCE Recalc WITH
       Grid <- Cells,
       settled <- [c \in Cells |-> IF phase[c] = "done" THEN cache[c] ELSE Unset]

\* Every step of the recursive evaluator settles one cell in dependency order,
\* begins a pass, or leaves the settled cells alone.
ImplementsRecalc == R!Spec
=============================================================================
