-------------------------------- MODULE Embed --------------------------------
(***************************************************************************)
(* A compute pass over several files (internal/engine/embed.go and         *)
(* foreign.go): SHEET(file, arguments) computes another file and takes the *)
(* value of its OUTPUT cell, "file"!A1 reads cells of it.  Each reference  *)
(* is served by a child computer with a memo of its own, which carries the *)
(* files on the way to it so that none is entered twice.                   *)
(*                                                                         *)
(* comps is the chain of computers, the pass's own first; stack holds the  *)
(* evaluations under way, innermost last.  A formula here is an eager call *)
(* of its operands that answers the first error among them or their sum;   *)
(* OUTPUT marks its cell.  How operators choose and order their operands   *)
(* is the business of Formula and Evaluator.                               *)
(***************************************************************************)
EXTENDS Integers, Sequences, FiniteSets

CONSTANTS Paths,     \* the files there are
          Root,      \* the file the pass is over: ComputeOptions.Base
          Names,     \* how a formula may name a file
          None,      \* no file, and no result yet
          Resolve,   \* the loader: from a file and a name in it, a file or None
          Order,     \* the cells of a file, in row-major order
          Disks,     \* the contents considered: for each file and cell a formula
          MaxTick    \* bound on the passes made

Cells == {Order[i] : i \in DOMAIN Order}

ASSUME PathsAssumption == Root \in Paths /\ None \notin Paths
ASSUME ResolveAssumption == Resolve \in [Paths -> [Names -> Paths \cup {None}]]
ASSUME OrderAssumption == Order \in Seq(Cells)
ASSUME TickAssumption == MaxTick \in Nat

Number(n) == [kind |-> "number", n |-> n]
Error(code) == [kind |-> "error", code |-> code]

Value == [kind : {"number"}, n : Int] \cup [kind : {"error"}, code : {"#REF!", "#CIRC!"}]

Errors(got) == {i \in DOMAIN got : got[i].kind = "error"}

\* What an eager call makes of its operands: the first error, or their sum.
Total(got) ==
  IF Errors(got) # {} THEN got[CHOOSE i \in Errors(got) : \A j \in Errors(got) : i <= j]
  ELSE LET sum[i \in 0..Len(got)] == IF i = 0 THEN 0 ELSE sum[i - 1] + got[i].n
       IN Number(sum[Len(got)])

Local(c) == [op |-> "cell", cell |-> c]

Atom == [op : {"value"}, value : Value] \cup [op : {"cell"}, cell : Cells]
          \cup [op : {"input"}, n : Nat] \cup [op : {"tick"}]

Operand == Atom \cup [op : {"foreign"}, file : Names, cells : Seq(Cells)]
                \cup [op : {"sheet"}, file : Names, args : Seq(Atom)]

\* A "value" is an operand and nothing else.
Formula == {f \in [call : {"value", "sum", "output"}, args : Seq(Operand)] :
              f.call = "value" => Len(f.args) = 1}

ASSUME DisksAssumption ==
  \A d \in Disks : /\ DOMAIN d = Paths
                   /\ \A p \in Paths : DOMAIN d[p] = Cells /\ \A c \in Cells : d[p][c] \in Formula

VARIABLES
  disk,    \* the files, the same throughout a pass
  tick,    \* the ordinal of the last pass
  request, \* what is being served: a pass, or the nested grid of a cell
  comps,   \* the chain of computers
  stack,   \* the evaluations under way
  grid,    \* the values of the last pass, or None
  nested   \* the nested grid last shown and its cell, or None

vars == <<disk, tick, request, comps, stack, grid, nested>>

-----------------------------------------------------------------------------

\* Mutant: a child carries its parent's files only.
ParentsOnly(visiting, p) == visiting

WithPath(visiting, p) == visiting \cup {p}

Computer(p, visiting, args, t) ==
  [path |-> p, visiting |-> visiting, args |-> args, tick |-> t,
   phase |-> [c \in Cells |-> "unvisited"], cache |-> [c \in Cells |-> Number(0)]]

Top == stack[Len(stack)]

\* The computer the innermost evaluation runs in: its resolver holds it.
Comp == comps[Top.comp]

\* A child has the arguments of its call; the pass's ordinal is not handed on.
Child(p, args) == Computer(p, WithPath(Comp.visiting, p), args, 0)

\* Mutant: a file that is read by reference sees its reader's arguments.
ReadersArgs(p) == Child(p, Comp.args)

\* A file that is read by reference has no arguments.
ForeignChild(p) == Child(p, <<>>)

Frame(role, of, k, items) == [role |-> role, of |-> of, comp |-> k, items |-> items, got |-> <<>>]

\* Reading the cells of the kth computer from outside it.
Entry(k, cells) == Frame("entry", None, k, [i \in DOMAIN cells |-> Local(cells[i])])

\* Evaluating, in the kth computer, the arguments of a SHEET call that goes to file p.
Call(k, p, args) == Frame("call", p, k, args)

\* Evaluating a cell of the computer at hand.
Evaluation(c) == Frame("cell", c, Top.comp, disk[Comp.path][c].args)

Asking == stack # <<>> /\ Len(Top.got) < Len(Top.items)

Item == Top.items[Len(Top.got) + 1]

\* The frames without the topmost one, the next given v.
Given(frames, v) == [frames EXCEPT ![Len(frames)].got = Append(@, v)]

Below == SubSeq(stack, 1, Len(stack) - 1)

Answer(v) == /\ stack' = Given(stack, v)
             /\ UNCHANGED <<disk, tick, request, comps, grid, nested>>

-----------------------------------------------------------------------------
(***************************************************************************)
(* Operands that need no other file.                                       *)
(***************************************************************************)

TakeValue == Asking /\ Item.op = "value" /\ Answer(Item.value)

TakeTick == Asking /\ Item.op = "tick" /\ Answer(Number(Comp.tick))

\* INPUT(n) is the nth argument of the call that embeds this file.
TakeInput == /\ Asking /\ Item.op = "input"
             /\ Answer(IF Item.n \in 1..Len(Comp.args) THEN Comp.args[Item.n] ELSE Error("#REF!"))

Reading(c) == Asking /\ Item = Local(c)

ReadDone(c) == Reading(c) /\ Comp.phase[c] = "done" /\ Answer(Comp.cache[c])

ReadVisiting(c) == Reading(c) /\ Comp.phase[c] = "visiting" /\ Answer(Error("#CIRC!"))

ReadUnvisited(c) ==
  /\ Reading(c) /\ Comp.phase[c] = "unvisited"
  /\ comps' = [comps EXCEPT ![Top.comp].phase[c] = "visiting"]
  /\ stack' = Append(stack, Evaluation(c))
  /\ UNCHANGED <<disk, tick, request, grid, nested>>

FinishCell ==
  /\ stack # <<>> /\ ~Asking /\ Top.role = "cell"
  /\ LET v == Total(Top.got) IN
     /\ comps' = [comps EXCEPT ![Top.comp].phase[Top.of] = "done",
                               ![Top.comp].cache[Top.of] = v]
     /\ stack' = Given(Below, v)
  /\ UNCHANGED <<disk, tick, request, grid, nested>>

-----------------------------------------------------------------------------
(***************************************************************************)
(* Operands in another file.  The loader is asked for every one of them.   *)
(***************************************************************************)

Loading == Asking /\ Item.op \in {"foreign", "sheet"}

Loaded == Resolve[Comp.path][Item.file]

LoadFails == Loading /\ Loaded = None /\ Answer(Error("#REF!"))

\* A file on the way here is a cycle, whichever of its cells is meant.
LoadCycle == Loading /\ Loaded \in Comp.visiting /\ Answer(Error("#CIRC!"))

CanEnter == Loading /\ Loaded \in Paths \ Comp.visiting

\* A single cell, or a range: all of its cells are read by one computer.
OpenForeign ==
  /\ CanEnter /\ Item.op = "foreign"
  /\ comps' = Append(comps, ForeignChild(Loaded))
  /\ stack' = Append(stack, Entry(Top.comp + 1, Item.cells))
  /\ UNCHANGED <<disk, tick, request, grid, nested>>

\* The arguments of SHEET are evaluated here, once the file is known to load.
CallSheet ==
  /\ CanEnter /\ Item.op = "sheet"
  /\ stack' = Append(stack, Call(Top.comp, Loaded, Item.args))
  /\ UNCHANGED <<disk, tick, request, comps, grid, nested>>

Called == stack # <<>> /\ ~Asking /\ Top.role = "call"

OutputCells(p) == {c \in Cells : disk[p][c].call = "output"}

\* Mutant: the first of several OUTPUT cells is as good as the only one.
SomeOutput(p) == OutputCells(p) # {}

HasOutput(p) == Cardinality(OutputCells(p)) = 1

OutputCell(p) == Order[CHOOSE i \in DOMAIN Order :
                         /\ Order[i] \in OutputCells(p)
                         /\ \A j \in DOMAIN Order : Order[j] \in OutputCells(p) => i <= j]

EnterSheet ==
  /\ Called /\ Len(stack) > 1 /\ HasOutput(Top.of)
  /\ comps' = Append(comps, Child(Top.of, Top.got))
  /\ stack' = Append(Below, Entry(Top.comp + 1, <<OutputCell(Top.of)>>))
  /\ UNCHANGED <<disk, tick, request, grid, nested>>

NoOutput ==
  /\ Called /\ Len(stack) > 1 /\ ~HasOutput(Top.of)
  /\ stack' = Given(Below, Error("#REF!"))
  /\ UNCHANGED <<disk, tick, request, comps, grid, nested>>

Read == stack # <<>> /\ ~Asking /\ Top.role = "entry"

\* Mutant: a file that answered #CIRC! is read once more.
ReadAgain ==
  /\ Read /\ Len(stack) > 1
  /\ IF Total(Top.got) = Error("#CIRC!")
     THEN comps' = comps /\ stack' = Append(Below, [Top EXCEPT !.got = <<>>])
     ELSE comps' = SubSeq(comps, 1, Len(comps) - 1) /\ stack' = Given(Below, Total(Top.got))
  /\ UNCHANGED <<disk, tick, request, grid, nested>>

\* The cells asked of a file are read, and its computer is dropped with its memo.
Leave ==
  /\ Read /\ Len(stack) > 1
  /\ comps' = SubSeq(comps, 1, Len(comps) - 1)
  /\ stack' = Given(Below, Total(Top.got))
  /\ UNCHANGED <<disk, tick, request, grid, nested>>

-----------------------------------------------------------------------------
(***************************************************************************)
(* What a frontend asks for: a pass, with the next ordinal, or the nested  *)
(* grid of a cell that is a SHEET call and nothing else.                   *)
(***************************************************************************)

Idle == stack = <<>>

RootComputer(t) == Computer(Root, {Root}, <<>>, t)

Compute ==
  /\ Idle /\ tick < MaxTick
  /\ tick' = tick + 1
  /\ request' = [name |-> "compute", cell |-> None]
  /\ comps' = <<RootComputer(tick + 1)>>
  /\ stack' = <<Entry(1, Order)>>
  /\ grid' = None
  /\ UNCHANGED <<disk, nested>>

IsSheetCall(f) == f.call = "value" /\ f.args[1].op = "sheet"

EmbeddedGrid(c) ==
  /\ Idle
  /\ IsSheetCall(disk[Root][c])
  /\ LET sheet == disk[Root][c].args[1]
         target == Resolve[Root][sheet.file]
     IN /\ target \in Paths \ {Root}
        /\ stack' = <<Call(1, target, sheet.args)>>
  /\ request' = [name |-> "nested", cell |-> c]
  /\ comps' = <<RootComputer(0)>>
  /\ nested' = None
  /\ UNCHANGED <<disk, tick, grid>>

\* The nested grid is the whole file's, whether or not it has an OUTPUT cell.
EnterGrid ==
  /\ Called /\ Len(stack) = 1
  /\ comps' = Append(comps, Child(Top.of, Top.got))
  /\ stack' = <<Entry(Top.comp + 1, Order)>>
  /\ UNCHANGED <<disk, tick, request, grid, nested>>

Return ==
  /\ Read /\ Len(stack) = 1
  /\ LET values == [c \in Cells |-> Top.got[CHOOSE i \in DOMAIN Order : Order[i] = c]] IN
     IF request.name = "compute"
     THEN grid' = values /\ UNCHANGED nested
     ELSE nested' = [cell |-> request.cell, path |-> Comp.path, grid |-> values] /\ UNCHANGED grid
  /\ comps' = <<>> /\ stack' = <<>>
  /\ UNCHANGED <<disk, tick, request>>

-----------------------------------------------------------------------------

Init == /\ disk \in Disks
        /\ tick = 0
        /\ request = [name |-> "compute", cell |-> None]
        /\ comps = <<>>
        /\ stack = <<>>
        /\ grid = None
        /\ nested = None

Step == \/ TakeValue \/ TakeTick \/ TakeInput
        \/ \E c \in Cells : ReadDone(c) \/ ReadVisiting(c) \/ ReadUnvisited(c)
        \/ FinishCell
        \/ LoadFails \/ LoadCycle \/ OpenForeign
        \/ CallSheet \/ EnterSheet \/ NoOutput \/ EnterGrid
        \/ Leave \/ Return

Next == Compute \/ (\E c \in Cells : EmbeddedGrid(c)) \/ Step

\* A pass, once asked for, runs to its end: it is one goroutine and never waits.
Spec == Init /\ [][Next]_vars /\ WF_vars(Step)

-----------------------------------------------------------------------------
(***************************************************************************)
(* Correctness.                                                            *)
(***************************************************************************)

ComputerType == [path : Paths, visiting : SUBSET Paths, args : Seq(Value), tick : 0..MaxTick,
                 phase : [Cells -> {"unvisited", "visiting", "done"}], cache : [Cells -> Value]]

FrameType ==
  {f \in [role : {"entry", "call", "cell"}, of : {None} \cup Paths \cup Cells, comp : Nat,
         items : Seq(Operand), got : Seq(Value)] :
     CASE f.role = "entry" -> f.of = None
       [] f.role = "call"  -> f.of \in Paths
       [] f.role = "cell"  -> f.of \in Cells}

TypeOK == /\ disk \in Disks
          /\ tick \in 0..MaxTick
          /\ request \in [name : {"compute", "nested"}, cell : Cells \cup {None}]
          /\ comps \in Seq(ComputerType)
          /\ stack \in Seq(FrameType)
          /\ grid = None \/ grid \in [Cells -> Value]
          /\ \/ nested = None
             \/ nested \in [cell : Cells, path : Paths, grid : [Cells -> Value]]

\* The files a computer refuses to enter are exactly those on the way to it, its
\* own last, and no file is on the way twice: files entered side by side do not
\* see each other, and embedding goes no deeper than there are files.
NestingIsAPath ==
  /\ \A k \in DOMAIN comps : comps[k].visiting = {comps[j].path : j \in 1..k}
  /\ \A j, k \in DOMAIN comps : comps[j].path = comps[k].path => j = k

\* The innermost evaluation runs in the last computer of the chain, and a computer
\* lives exactly as long as the one frame that entered it: no evaluation is ever
\* left in a computer that was dropped, nor comes back to a wrong one.
FramesMatchComputers ==
  /\ stack = <<>> <=> comps = <<>>
  /\ stack # <<>> => Top.comp = Len(comps)
  /\ \A i \in 2..Len(stack) :
       stack[i].comp = IF stack[i].role = "entry" THEN stack[i - 1].comp + 1 ELSE stack[i - 1].comp

\* Every pass and every nested grid is answered, however the files refer to each other.
PassEnds == (stack # <<>>) ~> (stack = <<>>)

\* tsvsheet.go:27 promises that the ordinal a refreshing frontend increments makes
\* TICK() advance across passes: in a pass TICK() answers the pass's ordinal.
TickIsOfThePass ==
  (Asking /\ Item.op = "tick" /\ request.name = "compute") => Comp.tick = tick
=============================================================================
