------------------------------ MODULE EditImpact ------------------------------
(***************************************************************************)
(* What one edit of a cell can do to the computed sheet: the bridge        *)
(* answers an edit by computing the new sheet as a whole (setCell and      *)
(* render of browser/main.go), so the grid before and the grid after are   *)
(* what a user sees change.                                                *)
(***************************************************************************)
EXTENDS Evaluator

CONSTANT Menu     \* the formulas a user may type

ASSUME MenuAssumption == \A f \in Menu : IsFormula(f)

VARIABLE before   \* the edited cell and the grid before the edit, None until then

impactVars == <<vars, before>>

ImpactInit == Init /\ before = None

\* SetCell replaces one cell of a computed sheet. Bound: one edit.
SetCell(c, f) ==
  /\ stack = <<>> /\ grid # None /\ before = None
  /\ before' = [cell |-> c, grid |-> grid]
  /\ sheet' = [sheet EXCEPT ![c] = f]
  /\ grid' = None /\ trace' = None
  /\ UNCHANGED <<request, phase, cache, stack>>

ImpactNext ==
  \/ (Compute \/ (\E c \in Cells : Explain(c)) \/ Step) /\ UNCHANGED before
  \/ \E c \in Cells, f \in Menu : SetCell(c, f)

\* A call, once made, runs to its end, as in Evaluator.
ImpactSpec == ImpactInit /\ [][ImpactNext]_impactVars /\ WF_vars(Step)

-----------------------------------------------------------------------------

\* The edit has been made and what it led to is known.
Shown == before # None /\ grid # None

\* After an edit every cell off the cycles shows what its formula means over the
\* values shown for the cells it names: no value of the sheet before the edit is
\* left in any of them.
NothingIsStale ==
  Shown => \A c \in Cells : OffCycles(c) => grid[c] = Denote(sheet[c], grid)

\* An edit changes its own cell and the cells that depend on it, however
\* indirectly, and no other off the cycles, although every cell is computed
\* anew and the order of evaluation is another: what follows dependents from the
\* edited cell (Sheet.Dependents) finds all that may have changed.
EditReachesDependentsOnly ==
  Shown => \A c \in Cells : OffCycles(c) /\ grid[c] # before.grid[c] =>
                              c = before.cell \/ Reaches(c, before.cell)
=============================================================================
