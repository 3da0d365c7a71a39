------------------------------ MODULE Evaluator ------------------------------
(***************************************************************************)
(* The recursive evaluator of internal/engine/resolve.go: computer.read    *)
(* memoizes each cell on its first visit, answers #CIRC! for a cell that   *)
(* is already being evaluated, and evaluates formulas by reading further   *)
(* cells.  Compute drives it over the whole grid in row-major order;       *)
(* Explain drives a fresh computer from a single cell.                     *)
(*                                                                         *)
(* The Go call stack is the variable stack: one frame for the caller (the  *)
(* loop of computeGrid, or Explain) and one for every cell being           *)
(* evaluated, each with the values it has obtained so far.                 *)
(***************************************************************************)
EXTENDS Formula, FiniteSets

CONSTANTS RowMajor,    \* the in-grid addresses, in the order Compute visits them
          Sheets,      \* the sheets considered: functions from Cells to formulas
          Caller,      \* the bottom frame: the API call being served
          None,        \* no result yet
          MaxDepth     \* bound on the cells under evaluation at one time

Cells == {RowMajor[i] : i \in DOMAIN RowMajor}

ASSUME RowMajorAssumption == RowMajor \in Seq(Address)
ASSUME SheetsAssumption == \A s \in Sheets : DOMAIN s = Cells /\ \A c \in Cells : IsFormula(s[c])
ASSUME CallerAssumption == Caller \notin Address
ASSUME DepthAssumption == MaxDepth \in Nat

VARIABLES
  sheet,     \* the sheet, fixed while calls are served
  request,   \* the API call served last: its name, its cell, the atoms it reads
  phase,     \* computer.phase
  cache,     \* computer.cache
  stack,     \* the evaluation stack, <<>> between calls
  grid,      \* what Compute returned last, or None
  trace      \* what Explain returned last, or None

vars == <<sheet, request, phase, cache, stack, grid, trace>>

FormulaOf(c) == IF c = Caller THEN request ELSE sheet[c]

Frame(c) == [cell |-> c, got |-> <<>>]

-----------------------------------------------------------------------------

\* Mutant: the memo of the computer before is taken over.
KeptCache == UNCHANGED <<phase, cache>>

\* newComputer: a zeroed cache and no cell visited.
NewComputer == /\ phase' = [c \in Cells |-> "unvisited"]
               /\ cache' = [c \in Cells |-> Empty]

\* cellValue: computeGrid takes a literal's value directly, and reads a formula.
CellValue(c) == IF sheet[c].op = "literal" THEN sheet[c].args[1] ELSE Ref(c)

Serve(name, at, args) ==
  /\ stack = <<>>
  /\ request' = [op |-> name, at |-> at, args |-> args]
  /\ stack' = <<Frame(Caller)>>
  /\ NewComputer
  /\ UNCHANGED sheet

Compute == /\ Serve("compute", None, [i \in DOMAIN RowMajor |-> CellValue(RowMajor[i])])
           /\ grid' = None
           /\ UNCHANGED trace

\* Mutant: the operands are read before the cell itself.
InputsFirst(c) == /\ Serve("explain", c,
                           (IF sheet[c].op = "literal" THEN <<>> ELSE sheet[c].args) \o <<Ref(c)>>)
                  /\ trace' = None
                  /\ UNCHANGED grid

\* Explain reads the cell, then every operand of its formula through the same computer.
Explain(c) == /\ Serve("explain", c,
                       <<Ref(c)>> \o IF sheet[c].op = "literal" THEN <<>> ELSE sheet[c].args)
              /\ trace' = None
              /\ UNCHANGED grid

-----------------------------------------------------------------------------

Top == stack[Len(stack)]

Asking == stack # <<>> /\ Wants(FormulaOf(Top.cell), Top.got)

Target == Wanted(FormulaOf(Top.cell), Top.got)

\* The frame on top receives the value of the atom it asked for.
Answer(v) == /\ stack' = [stack EXCEPT ![Len(stack)] = [cell |-> Top.cell, got |-> Append(Top.got, v)]]
             /\ UNCHANGED <<sheet, request, phase, cache, grid, trace>>

TakeConst == Asking /\ Target.atom = "const" /\ Answer(Target.value)

Reading(c) == Asking /\ Target.atom = "cell" /\ Target.cell = c

\* sheet.at: a position outside the grid is #REF!.
ReadOffGrid(a) == Reading(a) /\ a \notin Cells /\ Answer(Error("#REF!"))

ReadDone(c) == Reading(c) /\ phase[c] = "done" /\ Answer(cache[c])

\* Mutant: any cell that is not done counts as circular.
CircUnlessDone(c) == Reading(c) /\ phase[c] # "done" /\ Answer(Error("#CIRC!"))

ReadVisiting(c) == Reading(c) /\ phase[c] = "visiting" /\ Answer(Error("#CIRC!"))

\* Mutant: the visiting mark is missing, so recursion is not noticed.
Unmarked(c) ==
  /\ Reading(c) /\ phase[c] = "unvisited" /\ Len(stack) <= MaxDepth
  /\ stack' = Append(stack, Frame(c))
  /\ UNCHANGED <<sheet, request, phase, cache, grid, trace>>

\* Mutant: a done cell is evaluated again.
Unmemoized(c) ==
  /\ Reading(c) /\ phase[c] # "visiting" /\ Len(stack) <= MaxDepth
  /\ phase' = [phase EXCEPT ![c] = "visiting"]
  /\ stack' = Append(stack, Frame(c))
  /\ UNCHANGED <<sheet, request, cache, grid, trace>>

ReadUnvisited(c) ==
  /\ Reading(c)
  /\ phase[c] = "unvisited"
  /\ Len(stack) <= MaxDepth
  /\ phase' = [phase EXCEPT ![c] = "visiting"]
  /\ stack' = Append(stack, Frame(c))
  /\ UNCHANGED <<sheet, request, cache, grid, trace>>

\* Mutant: an error is stored and the cell left as one being visited.
FinishUnlessError ==
  /\ Len(stack) > 1
  /\ ~Asking
  /\ LET c == Top.cell
         v == Result(sheet[c], Top.got)
         below == stack[Len(stack) - 1]
     IN /\ cache' = [cache EXCEPT ![c] = v]
        /\ phase' = IF IsError(v) THEN phase ELSE [phase EXCEPT ![c] = "done"]
        /\ stack' = Append(SubSeq(stack, 1, Len(stack) - 2),
                           [cell |-> below.cell, got |-> Append(below.got, v)])
  /\ UNCHANGED <<sheet, request, grid, trace>>

\* The rest of read: the result is stored, the cell is done, and the value
\* returns to the frame below.
Finish ==
  /\ Len(stack) > 1
  /\ ~Asking
  /\ LET c == Top.cell
         v == Result(sheet[c], Top.got)
         below == stack[Len(stack) - 1]
     IN /\ cache' = [cache EXCEPT ![c] = v]
        /\ phase' = [phase EXCEPT ![c] = "done"]
        /\ stack' = Append(SubSeq(stack, 1, Len(stack) - 2),
                           [cell |-> below.cell, got |-> Append(below.got, v)])
  /\ UNCHANGED <<sheet, request, grid, trace>>

\* Mutant: a pass that met #CIRC! starts over, as a fixed-point recalculation would.
Recalculate ==
  /\ Len(stack) = 1 /\ ~Asking
  /\ stack' = IF \E i \in DOMAIN Top.got : Top.got[i] = Error("#CIRC!")
              THEN <<Frame(Caller)>> ELSE <<>>
  /\ UNCHANGED <<sheet, request, phase, cache, grid, trace>>

\* The API call returns: a grid of values, or a value with its inputs.
Return ==
  /\ Len(stack) = 1
  /\ ~Asking
  /\ stack' = <<>>
  /\ IF request.op = "compute"
     THEN /\ grid' = [c \in Cells |-> Top.got[CHOOSE i \in DOMAIN RowMajor : RowMajor[i] = c]]
          /\ UNCHANGED trace
     ELSE /\ trace' = [cell |-> request.at, value |-> Head(Top.got), inputs |-> Tail(Top.got)]
          /\ UNCHANGED grid
  /\ UNCHANGED <<sheet, request, phase, cache>>

-----------------------------------------------------------------------------

Init == /\ sheet \in Sheets
        /\ request = [op |-> "compute", at |-> None, args |-> <<>>]
        /\ phase = [c \in Cells |-> "unvisited"]
        /\ cache = [c \in Cells |-> Empty]
        /\ stack = <<>>
        /\ grid = None
        /\ trace = None

\* A step of the evaluator itself.
Step == \/ TakeConst
        \/ \E a \in Address : ReadOffGrid(a)
        \/ \E c \in Cells : ReadDone(c) \/ ReadVisiting(c) \/ ReadUnvisited(c)
        \/ Finish
        \/ Return

Next == Compute \/ (\E c \in Cells : Explain(c)) \/ Step

\* A call, once made, runs to its end: it is one goroutine and never waits.
Spec == Init /\ [][Next]_vars /\ WF_vars(Step)

-----------------------------------------------------------------------------

Phase == {"unvisited", "visiting", "done"}

FrameType == [cell : Cells \cup {Caller}, got : Seq(Value)]

TypeOK == /\ sheet \in Sheets
          /\ request \in [op : {"compute", "explain"}, at : Cells \cup {None}, args : Seq(Atom)]
          /\ phase \in [Cells -> Phase]
          /\ cache \in [Cells -> Value]
          /\ stack \in Seq(FrameType)
          /\ grid = None \/ grid \in [Cells -> Value]
          /\ \/ trace = None
             \/ trace \in [cell : Cells, value : Value, inputs : Seq(Value)]

\* The marks the evaluator leaves in phase are exactly its call stack: the cells
\* marked visiting are those under evaluation, each of them once, and each frame
\* is there because the frame below wants that very cell.
CallChain ==
  /\ \A i, j \in DOMAIN stack : stack[i].cell = stack[j].cell => i = j
  /\ \A i \in DOMAIN stack : stack[i].cell = Caller <=> i = 1
  /\ \A c \in Cells : phase[c] = "visiting" <=> \E i \in DOMAIN stack : stack[i].cell = c
  /\ \A i \in DOMAIN stack : i > 1 =>
       LET f == FormulaOf(stack[i-1].cell) IN
       Wants(f, stack[i-1].got) /\ Wanted(f, stack[i-1].got) = Ref(stack[i].cell)

\* The reference graph.  Reaches(a, b): every set of cells that holds what a
\* mentions, and what its own members mention, holds b.
Closed(S) == \A c \in S : Refs(sheet[c]) \cap Cells \subseteq S

Reaches(a, b) == \A S \in SUBSET Cells :
                   Refs(sheet[a]) \cap Cells \subseteq S /\ Closed(S) => b \in S

Cyclic(c) == Reaches(c, c)

\* A memoized value is the meaning of the cell's formula over the memoized
\* values of the cells it refers to, unless the cell depends on itself: the memo
\* never holds a value from a partial or interrupted evaluation.
Coherent == \A c \in Cells :
              phase[c] = "done" /\ ~Cyclic(c) => cache[c] = Denote(sheet[c], cache)

\* A cell is #CIRC! only when its references lead to a cell that depends on itself
\* (no formula here writes #CIRC! literally).
CircIsReal == \A c \in Cells :
                phase[c] = "done" /\ cache[c] = Error("#CIRC!")
                  => \E d \in Cells : (d = c \/ Reaches(c, d)) /\ Cyclic(d)

\* When each cell of a set is a strict formula that reads another cell of the set,
\* every one of them that is done is an error, wherever evaluation entered the set.
StrictCycleIsError ==
  \A S \in SUBSET Cells :
    (\A c \in S : sheet[c].op \in {"add", "and"} /\ Refs(sheet[c]) \cap S # {})
      => \A c \in S : phase[c] = "done" => IsError(cache[c])

\* The error of a cycle is neither a false alarm nor missed: #CIRC! tells of a cell that
\* depends on itself, and no value of strict formulas holds itself up (read).
CyclesAreErrors == CircIsReal /\ StrictCycleIsError

\* Cells that neither depend on themselves nor read a cell that does, however
\* indirectly; the rest of the sheet may be cyclic.
OffCycles(c) == ~Cyclic(c) /\ \A d \in Cells : Reaches(c, d) => ~Cyclic(d)

\* Off the cycles the order of evaluation is invisible, also on a sheet with cycles
\* elsewhere: the value and the inputs Explain reports of such a cell from its own
\* computer are those Compute put in the grid.
ExplainAgreesOffCycles ==
  (grid # None /\ trace # None) => (OffCycles(trace.cell) =>
    /\ trace.value = grid[trace.cell]
    /\ \A i \in DOMAIN trace.inputs :
         trace.inputs[i] = AtomValue(sheet[trace.cell].args[i], grid))

\* Within a call a cell is evaluated once: when it is done, its value stays.
MemoStable ==
  [][\A c \in Cells : (phase[c] = "done" /\ stack # <<>>)
                        => phase'[c] = "done" /\ cache'[c] = cache[c]]_vars

\* Every Compute and every Explain returns, on every sheet, cycles included.
CallReturns == (stack # <<>>) ~> (stack = <<>>)
=============================================================================
