# Verification of go-tsvsheet

go-tsvsheet is a spreadsheet whose file is tab-separated text: an evaluator, a document model that
keeps comments where they are, structural edits that rewrite references, spilled arrays, sheets
embedded in sheets, and imports over the network. This directory models the engine
(`internal/engine`) and its bridge to a page (`browser`) in TLA+, checks the models with TLC on small
instances, and proves theorems about them with TLAPS.

Contents: [1 The system](#1-the-system) · [2 The modules](#2-the-modules) · [3 The runs](#3-the-runs) ·
[4 The proofs](#4-the-proofs) · [5 What disagrees](#5-what-disagrees-with-the-docs) ·
[6 What is not modelled](#6-what-is-not-modelled) · [7 Plan](#7-plan)

To check: `tlc -config X.cfg M` for the runs of section 3, `tlapm M.tla` for the modules that end in
`Proofs`. `PROJECT.json` lists the components, runs, mutants, hazards, findings and theorems, and maps
every definition to the lines it stands for.

## 1 The system

The engine is a library: every exported call runs to its end in the goroutine that makes it, starts no
other and shares no mutable state with another call. There is no persistence, no message passing and
no lock. What is hard is therefore not scheduling but

- **recursion with a memo** that must cut cycles without poisoning what is off them,
- **two structures kept in step** by separate code (the grid and the line layout; references and the
  cells they name; the text of a file and the view made of it),
- **long sequences of legal edits** at, before and past the ends of a ragged grid,
- **order made visible** (row-major evaluation, spilling, first error, stable sorting),
- **what comes from outside** (a loader's files, a server's bodies, the float conversions of a CPU).

| Component (source) | State | Operations | Interacts with | Correct when |
|---|---|---|---|---|
| Evaluator (`resolve.go`, `funcs.go`, `builtins_logic.go`, `model.go` compute, `explain.go`) | `computer`: per cell a phase and a value; the Go stack | `Compute`, `Explain`, `read` | calls itself through formulas; owned by a pass; children made by Embedding | cycles are cut and are the only source of `#CIRC!`; the memo holds meanings; a call returns; entry order is invisible off cycles |
| Document (`document.go`, `grid.go`) | grid of cells; layout of row markers and comment lines | `ParseDocument`, `SetCell`, four line edits, `Text` | grid edits delegated to Structural edits; Limits bound growth | one marker per row; no comment lost, moved past a row or reordered; deletion undoes insertion |
| Structural edits (`structural.go`, `model.go` Set) | none: grid to grid | insert, delete a row, a column; rewriting of each reference | called by Document; result read by the evaluator and references | a reference names after the edit what it named before, and is `#REF!` only when nothing is left |
| Spilling (`model.go`) | the output grid | scalars, then arrays in row-major order | reads computed values | all writes in range, content never covered, a defined winner |
| Embedding, foreign sheets (`embed.go`, `foreign.go`) | a chain of computers, each with its memo, arguments and the files on the way to it | `ComputeWith`, `EmbeddedGrid`, `SHEET`, `INPUT`, `OUTPUT`, `"file"!A1` | the loader of a frontend (external) | no file enters itself; each memo is of its own call; a pass ends; the nested grid and the value agree |
| Imports (`import.go`) | none across passes: a request and its answer | the `IMPORT*` calls | a `Fetcher` and a server (external) | the promised shape, whole, within budget, or an error |
| Limits, random generators (`limits.go`, `builtins_random.go`) | a generator per computer | `tooManyCells`, `RANDBETWEEN`, `RANDARRAY`, `REPT` | every array builder | budgets exact where the product fits, draws in the range and of every float of it |
| Array and lookup builtins (`builtins_array.go`, `builtins_lookup.go`) | none | array calls, nested; lookups | the evaluator's values; results go to Spilling | results rectangular and whole-rowed; orders as documented; the axes agree |
| Calls and argument slots (`funcs.go`, `builtins_logic.go`, `check.go`) | none | dispatch by name, arities, binding of values to parameters, conditionals, inspectors, `Check` | every builtin | how values are divided into ranges does not show; a conditional is the `IF`s it stands for |
| Aggregates, criteria, series (`builtins.go`, `builtins_stat.go`, `builtins_criteria.go`, `builtins_series.go`) | none | over a column that is edited | Calls; series go to Spilling | counting, summing, ranking and windows agree on what a column holds |
| Texts, dates, JSON (`builtins_text.go`, `builtins_date.go`, `builtins_json.go`) | none; the value a chain of calls hands on | cuts and searches, months, paths and `JSONSET` | Calls; each other through texts and serials | the parts make the whole; positions name what stands there; an edit is local |
| Formula parser (`internal/grammar`, `internal/tsvt`), rendering (`render.go`) | none | text to tree, tree to text | Structural edits rewrite the tree and save the text | what is saved means what was computed |
| Addresses (`address.go`) | none | address to cell, cell to label | parser, Structural edits | each the other's inverse |
| References and diagnostics (`references.go`, `check.go`, `volatile.go`) | none | `Precedents`, `Dependents`, `Check`, schedules | edited documents | the graph follows the cells through edits |
| Browser bridge (`browser/main.go`) | none: the page holds the text | compute, set, insert, delete, explain, references | parses, edits and writes a Document at each call | the text given back is a fixed point and says what the view says |
| Maths, digests, URLs, addresses of mail (`builtins_math.go`, `builtins_crypto.go`, ...), facade (`tsvsheet.go`) | none | pure functions | | section 6 |

The hazards these give, each at its line and with the properties that watch it, are listed in
`PROJECT.json` under "hazards".

## 2 The modules

### Evaluator

`Formula` says how each way of evaluating a formula asks for its operands: strict operators, eager
calls that evaluate every argument before the first error wins, the lazy `if`, `iferror`, `ifna`, the
error inspectors, `and`, bare references. `Wants`, `Wanted` and `Result` drive an evaluation one
operand at a time; `Denote` is the meaning of a formula over a valuation, with no order at all.

`Evaluator` is `computer` with its Go stack made explicit: `stack` holds a frame for the caller and one
for each cell under evaluation, `phase` and `cache` are `computer.phase` and `computer.cache`. One
action per branch of `read`: `ReadOffGrid`, `ReadDone`, `ReadVisiting` (`#CIRC!`), `ReadUnvisited`
(mark and recurse), `Finish` (store, mark done, return). `Compute` and `Explain(c)` start a call on a
fresh computer, `Return` ends it. `Recalc` is the abstract specification, "evaluates every formula in
dependency order" (`model.go`): cells settle one at a time, each at the meaning of its formula, with no
stack. `EvaluatorRefinement` shows that the first implements the second.

`EditImpact` puts one `SetCell` between two computations. `Recalc` says what one pass finds;
`EditImpact` says what a user may see change.

### Document

`Structural` is `structural.go`: the four line edits on a ragged grid and the rewriting of references,
one endpoint at a time, ranges written in any order of corners. A formula is its text with the
references cut out, and with them the calls that printing may misspell (`CellLikeCall`, `Misspelt`), and the
flag `rendered`, set when an edit had to spell it anew. `DocumentText`
holds parsing to a document with its line layout, what a printed formula reads as (`Readable`, `AsRead`), each `Document` operation as a function, and `Text`.
`Document` makes them the actions of a document's life. `Browser` is the stateless bridge over the
same operators: its one persistent variable is the text the page holds, parsed at every call.
`References` adds `Precedents` and `Dependents` over the documents of `Document`.

### Spilling, embedding, and the rest

`Spill` renders a sheet whose values are known: `Rows` and `Cols` (the extent), `FillScalars`, then
`SpillNext` on each array in row-major order, with `SpillBlocked` looking at the source sheet as the
code does. `Embed` is a pass over several files: `comps`, the chain of computers, `stack`, the
evaluations under way; `LoadFails`, `LoadCycle`, `OpenForeign`, `CallSheet`, `EnterSheet`, `NoOutput`,
`Leave` are the branches of `embed.go` and `foreign.go`; `EmbeddedGrid` serves the nested grid.
`EmbedMeaning` defines the same values by recursion, with neither memo nor stack: the two agree, checked
on small folders and proved for all.

### The text of a formula

`Grammar` is the lexer's token types and the parser's rules, with the strengths by which the operators
of the generated parser bind; a text is a sequence of lexemes, and where the parser predicts from its
table the operators say which lookahead decides. `Expressions` builds the typed tree (`tsvt`): a pipe
becomes the call it stands for, the digits of a name are folded into it. `Rendering` is `render.go`,
with its own table of precedences. `FormulaSource` composes them with `Structural` into the life of one
cell: a user types, the parser reads, an edit shifts the references of the tree and writes the rendered
tree in place of the text, the text is parsed again.

### What keeps nothing

The builtins are functions of their arguments. Each family is a module with the little state its
properties need, the value one call hands to the next:

- `Scalars`: values, comparison and coercion (`value.go`, `funcs.go`). Numbers are integers in a unit,
  texts are their rank in the order of texts.
- `Calls`: who owns a name, what arity it has, how the values of a call's arguments are bound to its
  parameters (`argValues`, head, variadic and tail slots), conditionals, inspectors, `Check`.
- `Aggregates`: the functions of a list of scalars. `Columns`: a column of cells that is edited, the
  aggregates over it, criteria and series.
- `Arrays`: nested array calls and lookups on one block of values.
- `Limits`: arithmetic in a fixed width, of `int`, `int64` and of the conversion of floats as a build
  does it: `saturates` is the build's choice.
- `Texts`: a text cut and joined again and again, runes and their bytes. `Dates`: a chain of month
  steps from a date. `JsonDocument`: a chain of `JSONSET`s on a text. `Addresses`: what is typed, the
  cell it names, the label an edit makes of it.
- `Import`: one import, pass after pass, with a server that sends what it likes under whatever label.

`Standalone` puts arrays, limits, imports, columns, calls, dates, addresses and texts side by side: a behaviour
is one of one part, chosen at the start. It says once more, under the same names, what each part
promises, and is what `StandaloneProofs`, `RangeProofs` and `TextProofs` are about. JSON is defined by
`RECURSIVE` operators, so it joins them in a module of its own, `Builtins`: a behaviour of `BuiltinSpec`
is one of `Spec`, or of JSON. The run `standalone` checks `BuiltinSpec`.

An operator or action preceded by a comment `Mutant:` models no code: it is a plausible bug, used in
`PROJECT.json` to confirm that a property sees it.

## 3 The runs

| Run | Instance | States | Shows |
|---|---|---:|---|
| `evaluator` | every sheet of 3 cells over 16 formulas, one address off the grid; any sequence of Compute and Explain | 287,396 | the memo is coherent (`Coherent`, `MemoStable`), the marks are the stack (`CallChain`), no false `#CIRC!` and no strict cycle that holds itself up (`CyclesAreErrors`), Explain agrees on every cell off the cycles, be there cycles elsewhere or not, every step implements `Recalc` |
| `edit_impact` | 216 sheets of 3 cells, one of five formulas typed into one cell of the computed sheet | 209,897 | nothing is stale after an edit; off the cycles only dependents change; every call returns (`CallReturns`) |
| `document` | files of at most 3 rows and 2 columns, with shebang and comments, a formula over every range of a 3 by 2 grid, written from any corner; any sequence of edits | 15,393 | grid and layout in step, references and the graph of dependents follow their cells, comments keep their place, deletion undoes insertion |
| `browser` | seven texts, among them formulas that an edit prints as no formula, or as another; comment-like and malformed cells typed | 41,189 | each text given back is a fixed point, unless an edit printed a formula that does not parse; the view differs from its text in two kinds of row and in printed calls that read as cells only |
| `spill` | every ragged two-row sheet (2 and 3 cells, 2 and none) over six kinds of cell | 54,577 | content survives, every write is in range and the later anchor is in front |
| `embed` | 880 contents of 3 files of 2 cells, names relative to the file | 45,695 | nesting is a path, each memo is of its own call, value and nested grid agree, every pass ends |
| `syntax` | formulas of up to three operators or calls, of every rank and associativity; one edit before, at or after the column | 94,731 | a rewritten text means the formula it was written for (`TextMeansFormula`); parentheses are written only where they are needed, and dropped nowhere else (`ParensAreNeeded`) |
| `standalone` | below | 160,314 | the promises of the parts that keep nothing |

| Part of `standalone` | Instance | Shows |
|---|---|---|
| arrays | blocks of 1 to 3 rows, 1 and 2 columns, over 6 values, and whatever calls on them nest to | the axes agree, `UNIQUE` and `SORT` keep whole rows and their order, a lookup survives `UNIQUE` |
| limits | an `int` and an `int64` of 6 bits, floats of 3 binary digits, both conversions of floats | the budget of cells and bytes is exact wherever the product fits `int64`, and no text escapes it (`BudgetHolds`); draws are the floats of the range although its size may not fit (`DrawsEveryFloat`) |
| imports | every table of up to 3 records, a budget of 4 cells, any answer at every pass | the promised shape, whole and within the budget, or an error, under whatever label |
| columns | columns of 4 cells over 7 contents, criteria with all operators on 3 bounds, windows of 1 to 3 | counts, sums, averages and ranks agree (`CountsAgree`), a series is the aggregates of its windows (`WindowsAreRanges`) |
| calls | up to 4 arguments out of 5 operands, for every name | a call is worth the same however its cells are divided into ranges (`SlotsNeverShift`), conditionals are nested `IF`s |
| JSON | 9 texts, 15 paths, documents of up to 26 symbols set in again | `JSONSET` changes the place it names, in place, and no other |
| texts | 5 texts of runes of one, two and three bytes, one of which is shorter in lower case; 5-bit positions | what a text is cut into joins to it, what `FIND` and `SEARCH` find stands there |
| dates | ten serials, among them the ends of Februaries and both ends of a `Duration`; seven dates | `EDATE`, `EOMONTH`, `DATE`, `YEAR`, `MONTH` and `DAY` agree on the calendar |
| addresses | 3 letters, up to 5 of them, up to 2 digits, 8-bit integers | an address is written as it was read, labels follow one another, until they wrap |

The runs `browser_view`, `embed_tick`, `limits_wide` and `syntax_digits` each find the one property they check violated:
section 5.

Every property of a passing run has a mutant in `PROJECT.json`: one definition of the model changed
the way a bug in that code would change it, on which TLC finds the property violated.

**Why the bounds are enough.** Three cells hold a self-reference, cycles of two and three, a diamond, a
tail that leads into a cycle, and two cells that read one in different orders; `MaxDepth` is the number
of cells, so it cuts nothing. Three rows and two columns have a first, an inner and a last line, a line
before (`-1`) and lines past the end, ranges of one, two and all lines in every order of corners, and short
rows; an edit that would exceed `MaxRows`, `MaxCols` or `MaxLine` (the largest line a reference may name)
is not explored, and nothing in the code tells larger lines apart. `GridDim` is 2, below the largest grid,
so growth meets it from both sides. The spilled arrays are 1 by 2, 2 by 1 and 2 by 2: targets meet inside,
at corners and past the sheet. Three files embed in circles of two and three, and side by side; one memo
is told from another by arguments and by the way to its file. Six bits hold what sixty-four do, of
an `int` as wide as `int64` as on every 64-bit build: a product that wraps to zero or below, a difference of
one, the full range. Floats of `Precision` 8 are all the integers up to 8, every second one up to 16, and
every fourth up to 32, so most integers near the ends of `int64` are no floats, as beyond 2^53.
Five texts and two numbers are enough for an order that is not transitive. A budget of four cells is met
exactly by a block of 2 by 2 and exceeded by one of 3 by 2. In a unit of 216 every mean of up to four
numbers, and every average of windows of up to three of those, is whole, so the arithmetic of a column is
exact. Four arguments fill every head and tail slot and leave two for a variadic one; three letters carry
twice within five places, and 128 is passed by labels of five. A third operator (`MaxEdited` leaves the
formulas of three unedited) nests on either side of the second, which is as deep as a comparison of two
tables of ranks needs. `Reach` keeps the chain of month steps near the epoch, the Februaries of 2000 and
the horizon of 106,751 days.

**Fairness.** `Evaluator` (with `EditImpact`) and `Embed` assume weak fairness of their own `Step` and
nothing of the calls: a call is one goroutine that waits for nobody, so while it can move, it moves. No
other specification needs fairness.

**Deadlock** is checked wherever the system should never stop. `Spill`, `FormulaSource` and `Builtins`
(in `standalone`, `limits_wide`) end when their work is done, and `Embed` after `MaxTick` passes when no cell has a nested grid to show.

## 4 The proofs

For every value of the constants (any grid, any set of sheets, any number of rows, files and cells), from
the named assumptions of each module and nothing else. `tlapm` checks every obligation.

**Evaluator** (`EvaluatorProofs`). First the invariant of the call in
progress: `TypeCorrect`, `MarksAreTheStack` (`CallChain`), `MemoIsMeaning` (`Coherent`), `EvaluatedOnce`
(`MemoStable`). None of them is inductive alone. `IInv` adds what the Go stack guarantees without saying so:

- `Dialogues`: the values a frame holds answer, one by one, the questions its formula asks;
- `StackReaches`: the stack above the caller is a path in the reference graph;
- `FramesFaithful`: in a frame whose cell is not cyclic every value held so far is the settled value of
  the atom it answers;
- `DoneFaithful`: a cell that is done and not cyclic carries the dialogue that led to its value.

The step that matters is `ReadVisiting`: the cell that answers `#CIRC!` is on the stack below the one
that asks, the stack is a path, so the asker reaches itself and nothing is claimed of it. From
`DoneFaithful`, `ResultIsDenotation` (a dialogue with faithful answers ends in the meaning, although
lazy operators skip atoms and eager ones stop at the first error) gives `Coherent`.

Then what the calls return.

- `CyclesShow` (`CyclesAreErrors`), from a second invariant `CycleInv`. That `#CIRC!` is no false alarm
  needs no induction over the graph: a cell off the cycles that finishes as `#CIRC!` was given it by a cell
  already done, of which the claim holds. That strict formulas reading each other are errors rests on
  `FramesStrict`: whatever such a frame has been told by its set is an error, be it a memo or the `#CIRC!`
  of a cell still on the stack. It assumes `CircUnwritten`, that no formula has `#CIRC!` typed in.
- `Implements` (`ImplementsRecalc`) maps each step to one of `Recalc` or to a stutter. Only `Finish` settles
  a cell: `NeededIsRead` says that what the meaning rests on was read, `FramesFaithful` that what was read
  had settled.
- `GridIsMeaning`: the grid that `Compute` returns solves its own sheet (`GridMeans`). The memo is gone once
  the call returns; `CallInv` carries over what the caller's frame had been answered.
- `ExplainAgrees` (`ExplainAgreesOffCycles`). Explain runs on a computer of its own and enters elsewhere, so
  no invariant relates the two memos. `ExplainInv` says instead that off the cycles memo and trace are what
  *every* solution of the sheet has there, whatever it has on its cycles; the grid is one by `GridIsMeaning`.
- `EditLeavesNothingStale` (`NothingIsStale`) and `EditReachesDependents` (`EditReachesDependentsOnly`), from
  `ImpactInv`: the grid before the edit solves the sheet before the edit, the grid now the sheet now. Of the
  cells that changed without leading to the edited one, `DeepestCell` takes one that leads to fewest; all it
  mentions is unchanged, so its meaning is, too.

**Documents** (`DocumentTextProofs`, `DocumentProofs`). `Matched`, the type of a document and one marker for
every row, is the invariant behind `DocumentTypeCorrect`, `MarkersAlwaysMatch` and `TextIsComplete`; each
operation is shown to keep it, the splices by counting: the markers before a place are numbered 1, 2, ...
by their rank in a finite set of positions. `DocumentTextProofs` has what an operation does to a grid, to a
reference and to a layout; `DocumentProofs` the theorems of `Document` and `References`:

- `ReferencesAlwaysFollow` (`ReferencesFollowCells`). `ReferenceFollows` says what a reference covers after
  the insertion or deletion of a line, for every integer position, reversed and off-grid ranges included;
  `InsertRowMoves` and its three fellows say where the cells of a ragged grid go (`Moves`). A reference
  covers a rectangle, the hull of its corners, and `HullFollows` takes the two together, axis by axis.
- `DependentsAlwaysFollow` (`DependentsFollowCells`): `SpanIsHull` identifies what `Dependents` walks with
  that rectangle, and only moved cells have references.
- `DeleteIsUndo` (`DeleteUndoesInsert`): `DeleteRestoresReference` for a reference (shifted past what
  deletion would cut, then back), `RowsRestored`, `ColumnsRestored` for the cells of short and long rows, and
  `MarkerRestored` for the layout.
- `CommentsStayAnchored` (`CommentsAnchored`). The layout is spliced at an index, while the claim is of the
  k-th comment and the rows above it. `SameOrderRank` says that a bijection which keeps the order of two
  finite sets of positions keeps the place of each member in its set; an edit of the layout is such a
  bijection between the comments before and after.

**Browser bridge** (`BrowserProofs`): `TextStaysFixed` (`TextIsFixedPoint`) and `ViewsDescribePlainRows`
(`ViewDescribesPlainRows`). The text alone is not inductive: what it reads back as depends on the
document that wrote it. `ViewInv` says that the view was rendered from a document that is `Writable`:
matched, of cells that parse or were printed by an edit, and with every comment one that reads as a comment *where it stands*,
for a shebang is a comment on the first line only. Edits keep that since a
marker is never spliced above a comment on the first line. `WriteAfterRead` gives the fixed point; the rows
that come back are counted by `SameOrderRank` again.

**Spilling** (the end of `EmbedProofs`): `NoWriteOutOfRange`, `NothingWrittenOver`, `LastArrayIsSeen` (`LastArrayWins`).
The extent is a maximum over the finite set of anchors, so every target lies within it; the invariant says
that every cell of the sheet shows its own text, its first element or its `#SPILL!`, and a target that is
not blocked meets only blank literals. `PaintInv` adds that the arrays spilled so far come before the others,
and that a cell shows the last of those that cover it.

**Embedding** (`EmbedProofs`): `EmbedNesting` (`NestingIsAPath`), `EmbedFrames` (`FramesMatchComputers`),
`EmbedDepth` (over finitely many files a pass nests no deeper than there are files). The invariant is
`Nested` (each computer refuses exactly the files on the way to it) and `Placed` (computers along the
stack are non-decreasing and step by one at an entry). `EmbedDepth` counts distinct paths.

`EmbedTypeCorrect`, `EmbedCacheIsMeaning` (`CacheIsMeaning`) and `EmbedNestedGridAgrees`
(`NestedGridAgrees`), the last two over finitely many files:

- *There is a meaning.* `Meaning` is a recursive function, and TLA+ does not say that a recursive definition
  has a solution. `MeaningSolves` shows it: a place (a cell of a file as it is entered) has the rank "files
  left to enter, then cells after it in its file", what a formula mentions has a lower rank, and solutions
  up to a rank agree, each by the least rank that would be a counterexample.
- *The pass finds it.* `Sound`, on disks whose files are not circular in themselves: what a frame was told
  is what its operands mean (`Told`), a frame awaits what the one above it is to find (`Awaits`), within one
  computer evaluation moves to later cells (`Before`, so no cell is asked for while it is visited), a stored
  value is the meaning and a visited cell has its frame (`Memo`), and what was shown is right (`Answered`).
- *Two passes.* The value of a SHEET cell and the grid shown inside it come from different passes, which
  share no memo. Both are the meaning of the same place: `ServedArgs` says that the arguments the nested grid
  is computed with are the ones the call passes.

**The builtins** (`StandaloneProofs`, `RangeProofs` of arrays, columns and series, `TextProofs` of addresses and texts). Much of what a
builtin computes is a fold over its arguments, and TLA+ does not say that a recursive function has a value.
Two lemmas replace the induction theorems the provers cannot instantiate: `Upward` (a set of numbers with 0
and the successor of each member contains `Nat`, by the least counterexample) and `FoldedAlong` (a fold over
a sequence ends a walk that takes its elements one by one). Each fold of the model is unfolded through them
once, and what it is said to do is then shown of every point of the walk.

- Limits: `BudgetEveryWidth` (`BudgetHolds`), the budgets on every build, an `int` as wide as `int64`
  included: a product that fits is compared as it is (`WrapFits`), and a text is made only where an `int`
  counts its bytes, so its product fits. `DrawsEveryWidth` (`DrawsEveryFloat`), the draw, for every width of
  `int64` and every precision of a float. `ModulusIsSize` says that the wrapped size is the size but for the
  whole of `int64`; `RoundHolds` that rounding passes no multiple of the distance of the floats there,
  `FloatIsBound` that it passes no float of another distance either, so that what is drawn between two floats
  stays between them; a float rounds to itself (`ToFloatIsFloat`), so each is drawn; and `EndsRound` has the
  largest `int64`, which is no float.
- Calls: `SlotsHold` (`SlotsNeverShift`) rests on `FlattenSplit`: a range divided in two leaves the
  concatenation of the operands' values as it was. `NestsOfIfs` (`ConditionalsAreNestedIfs`) unrolls a
  conditional and the `IF`s it stands for side by side, one pair or case at a time.
- Dates: `CalendarAgrees` (`MonthsAddUp`). The year of a day is one of three around a guess (`YearGuess`),
  and a day is of one date only (`OneDate`), so the parts of a date that a chain of month steps arrives at
  are the ones it set out for.
- Imports: `NothingIsSalvaged` (`NeverASalvage`), `LabelsAreNoMatter` (`LabelIsNoMatter`). What parsing
  keeps of a table is all of it if the table is plain (`KeptIs`), and a shape that is no error holds all
  that was kept (`ShapeFits`). The invariant carries this over passes in which the
  server says something else each time.
- Arrays: `AxesAreAlike` (`TransposeSwapsAxes`), `UniqueKeepsLookups` (`LookupSurvivesUnique`),
  `SortKeepsTies` (`SortIsStable`). The invariant is that every value is a scalar or a rectangular block,
  whatever chain of calls made it. `KeptAt` is carried along `UNIQUE`: of the rows read so far, those
  kept are in the order they had, and each has one like it kept that stands no lower. `PlacedAt` is carried
  along `SORT`: the rows read so far are permuted, and one is put before another exactly if it is less, or
  ties and stood before it; that takes a comparison that is an order.
- Addresses: `LabelsRoundTrip` (`AddressesRoundTrip`). A label is the digits of a number in a numeration
  without zero, written from the last letter and read from the first; the two meet by the least number on
  which they would not. The index of a column wraps, and a label too long for it names another
  column, whose label it is not.
- Texts: `PartsJoin` (`CutsRejoin`), `SearchesFind` (`FindsWhatStands`). The ends of the occurrences
  (`EndOfNth`) only grow until there are no more (`EndsCounted`), so replacing all of them and replacing the
  last so many, one by one from the last, leave the same text at each of the ends (`AllIsOneByOne`). For the
  searches the bytes of a text are laid out rune by rune (`Laid`): bytes that stand in it begin where a rune
  begins and end where one ends, and are the bytes of no other runes (`BytesThenRunes`), as no rune of the
  code begins within another.
- Columns: `ColumnsAgree` (`CountsAgree`). A criterion is read by its longest sign first (`ParseCriterion`),
  so that opposite operators share the cells out between them. Matches are counted by cardinality, but
  summed along the walk of the cells that are kept; `TotalsSplit` takes three such walks side by side. The
  place of a number (those less than it, and those it ties with up to it) is an injection of the positions
  into themselves, so each place is taken (`PlacesFilled`), and `RankFacts` says how many numbers stand
  below and above the k-th.
- Series: `SeriesAreWindows` (`WindowsAreRanges`). The numbers of a part of the column are that part of
  its numbers (`NumsOfPart`), so a window is the range its aggregate is computed of; a row of `EMA` stays as it was when
  the next one comes (`EmaRows`), so the series of the first cells is the first rows of the series.

These rest on the assumptions the modules name, of the kind the code gives: runes are told apart by their
bytes, and no rune begins within another (`EncodingAssumption`, which is so of UTF-8), `None` is none of the values it
is told from (`NoneIsNoName`, `NoneIsNoError`), and the constants are of their types (`InputsAssumption`).

**Only model-checked.**

- `CallReturns` and `PassEnds`, liveness under fairness, which TLAPS does not reach.
- `TextMeansFormula`, `ParensAreNeeded`: the grammar and the renderer are `RECURSIVE` operators over trees.
- `JsonSetIsLocal`: so is the setting of a path in a document. What a `RECURSIVE` operator computes is closed
  to the provers.

## 5 What disagrees with the docs

Each of these is a run that ends in a counterexample; `PROJECT.json` quotes both sides.

- `browser_view`: a view does not always describe the text it carries. A cell set two rows past the end
  leaves a row of no cells in the grid, which its text reads back as a row of one blank cell; a first cell
  that begins with `# ` makes its row a comment of the text while the grid still shows it.
- `embed_tick`: `TICK()` and `FRAME()` in an embedded or foreign sheet are 0 in every pass.
- `limits_wide`: on a 64-bit build the product of two dimensions wraps, and a block far over the budget
  passes for a small one.
- `syntax_digits`: an edit that moves a reference writes `A1 | LOG10()` as `B1 | LOG10`, which does not
  parse: the grammar takes a name that ends in digits only with its parentheses.

Others are built into the statement of a property that holds, as the exception it names:

- *Explain on cycles* (`ExplainAgreesOffCycles`): where evaluation enters a cycle decides which of its
  cells is `#CIRC!`: of `=iferror(B1,1)` in A1 and `=iserror(A1)` in B1 the grid shows TRUE and TRUE, Explain
  of B1 FALSE. Cells that read a cycle may differ likewise; the others never do.
- *Formulas that do not read back* (`TextIsFixedPoint`, `ViewDescribesPlainRows`): a printed call without
  arguments whose name ends in digits has lost its parentheses. After a pipe or in small letters it is no
  formula, and the text of the view fails to parse; in capitals it is spelled like a cell, and `B1 + LOG10()`
  comes back as a sum of two cells. A reference moved into a column TRUE or FALSE does not parse either
  (`TRUE1` is a constant before a number).
- *Overlapping spills* (`LastArrayWins`): two arrays whose targets meet in an empty cell both spill, and
  the later is in front, with `#SPILL!` at neither: the docs speak of occupied cells only.
- *Mixed columns* (`SortIsStable`): numbers compare as numbers but a number and a text as texts, which is
  no order; `SORT` of 10, 1a, 9 returns 10, 1a, 9.
- *Values that look alike* (`LookupSurvivesUnique`): `UNIQUE` merges `TRUE()` with the text TRUE, which a
  lookup tells apart.
- *Comment-like records* (`NeverASalvage`): a TSV record that reads as a comment, and a CSV record of one
  empty cell, are skipped, so a column may close up over them.
- *The ends of int64* (`DrawsEveryFloat`): where floats out of range convert to the nearest integer,
  `RANDBETWEEN` from one end of `int64` to the other divides by zero, and up to the largest `int64` it may
  return the float past it. Beyond 2^53 it returns floats, so most integers of a range are never drawn.
- *A product that wraps* (`BudgetHolds`): `REPT` of a count whose product with the length looks like none to
  the budget ends the program (`strings.Repeat`).
- *Edits on cycles* (`EditReachesDependentsOnly`): there an edit may move `#CIRC!` to a cell that does not
  depend on the edited one.
- *Nested grids* (`NestedGridAgrees`) agree with the value of their cell unless a file's own cells are
  circular, or ask for `TICK()`.

- *Constants that are columns* (`TextMeansFormula`): a reference shifted into the column TRUE or FALSE is
  written as the constant, and does not parse back.
- *Careful parentheses* (`ParensAreNeeded`): `2^(-3)` and `(A1 | f) + 1` keep parentheses they do not need.
- *Booleans under a criterion* (`CountsAgree`): a criterion never matches `TRUE()`, though a lookup of it
  does, and `<>text` matches nothing.
- *Arrays compared, kinds mixed* (`ConditionalsAreNestedIfs`): `SWITCH` takes values of kinds that `=`
  refuses with `#VALUE!` for no match.
- *An empty text* (`CutsRejoin`): `SUBSTITUTE` of it puts the new text around every rune, or nowhere if an
  occurrence is named. Where a float out of range converts to the largest `int`, `MID` and `REPLACE` of
  such a length end the program.
- *Positions* (`FindsWhatStands`): `FIND` and `SEARCH` count bytes, `MID` and `REPLACE` runes; `SEARCH`
  counts them in a lower-cased copy.
- *Far dates* (`MonthsAddUp`): a date more than 292 years from 1899-12-30, such as `DATE(2300,1,1)`, is cut
  off without an error.
- *Numbers that JSON has not* (`JsonSetIsLocal`): `JSONSET` of an infinite number leaves a text no JSON call
  reads.
- *Long labels* (`AddressesRoundTrip`): letters too many for an `int` name a column they wrap round to.

A file reached again on the way to itself answers `#CIRC!` even where the cells concerned do not depend
on themselves; that is the documented design, and `EmbedMeaning` has it.

## 6 What is not modelled

- **Maths, digests, URLs and mail addresses** (`builtins_math.go`, `builtins_crypto.go`, `builtins_url.go`,
  `builtins_email.go`): calls of Go's libraries, whose floats and texts are the whole of what they do.
- **Public facade**: re-exports.
- **Of the families that are modelled**: variances, `GEOMEAN` and the financial functions but `NPV`
  (irrational, or iterated to a tolerance); times of day, `TODAY`, `NOW`; case mapping beyond that of
  `SEARCH`, `TRIM`, `CHAR`, `VALUE` and regular expressions; escapes within JSON strings; `ROWS`,
  `COLUMNS`; cells of a range that themselves hold arrays.
- **Of the parser**: characters within a lexeme, blanks, the recovery after an error. A cell that does not
  parse is a text in `Malformed`.
- **Of the engine**: the generator, its mixing and its reseeding in children (the hazard at
  `resolve.go:31` has no property); the loader answers the same throughout a pass (the code loads at each
  reference); `ResultBytes` other than in `REPT`; the volatile schedules; the bridge's `explain` and
  `references` calls; splitting a line at tabs, so no text with a tab or a newline is written.

## 7 Plan

Done, in this order: evaluator and its proofs; documents, structural edits, the bridge; spilling;
embedding; limits, arrays, imports, edits between passes, the graph of references; the text of formulas,
from typing to rewriting; calls, aggregates, columns, texts, dates, JSON, addresses.

Next:

1. Draws in evaluation order: the generator of a computer and the reseeding of its children, over
   `Evaluator` and `Embed`.
2. The volatile schedules, and a loader whose files change between two loads of a pass.
3. The families that compute in floats, on the operations whose result is exact.

Then proofs: of `JsonDocument`, whose recursion would first have to be written as a recursive
function with a rank, as `Meaning` is; of `Grammar` and `Rendering`, by the same way over trees.
