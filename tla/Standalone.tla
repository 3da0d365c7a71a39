------------------------------ MODULE Standalone ------------------------------
(***************************************************************************)
(* The parts of the engine that keep nothing of one another, side by side: *)
(* the builtins, each with what its dispatcher in evalCall                 *)
(* (internal/engine/funcs.go) or the function registry hands it, and the   *)
(* addresses. A behaviour is one of one part; the variables of the others  *)
(* are None.                                                               *)
(***************************************************************************)
EXTENDS Integers, Sequences

CONSTANT None

\* Of the arrays, the lookups and the calls.
CONSTANTS Ranges, Conditions, Keys, Operands, MaxArgs, CallUnit
\* Of the columns.
CONSTANTS Unit, ColumnLength, Contents, Bounds, Spans
\* Of the limits.
CONSTANTS IntHalf, Int64Half, Precision, Spacings, Halves, Lengths, GivenLimits, Unset, DefaultCells
\* Of the imports.
CONSTANTS Cell, Blank, Note, Shebang, Tables, ResultCells
\* Of the dates.
CONSTANTS Horizon, Serials, Offsets, Moments, Reach
\* Of the addresses.
CONSTANTS Radix, AddressHalf, Digits, MaxLetters, MaxDigits
\* Of the texts.
CONSTANTS Octets, Utf8, Lower, Texts, Counts, Half, MaxRunes

VARIABLES owner,  \* the part
          val, call, saturates, limit, answer, name, arg, isEnabled, table,
          request, column, args, text, serial, address

vars == <<owner, val, call, saturates, limit, answer, name, arg, isEnabled, table,
          request, column, args, text, serial, address>>

A == INSTANCE Arrays
L == INSTANCE Limits
I == INSTANCE Import
C == INSTANCE Columns
F == INSTANCE Calls WITH Unit <- CallUnit
D == INSTANCE Dates
R == INSTANCE Addresses
X == INSTANCE Texts

ASSUME InputsAssumption == A!InputsAreCells /\ F!OperandsAreCells /\ F!UnitIsPositive
                            /\ C!UnitIsPositive /\ C!InputsAreScalars /\ L!WidthsFit /\ L!FloatsFit /\ I!TablesAreRecords
                            /\ D!InputsAreNumbers /\ R!InputsAreSymbols /\ X!InputsAreTexts

ASSUME EncodingAssumption == X!Utf8IsACode

\* No function is called so, and no value is written so.
ASSUME NoneIsNoName == None \notin F!Names \cup {"unique", "sort"}
ASSUME NoneIsNoError == None # I!Error("#IMPORT!")

-----------------------------------------------------------------------------

\* The variables a part does not use.
Absent(used) ==
  /\ IF "val" \in used THEN TRUE ELSE val = None
  /\ IF "call" \in used THEN TRUE ELSE call = None
  /\ IF "saturates" \in used THEN TRUE ELSE saturates = None
  /\ IF "limit" \in used THEN TRUE ELSE limit = None
  /\ IF "answer" \in used THEN TRUE ELSE answer = None
  /\ IF "name" \in used THEN TRUE ELSE name = None
  /\ IF "arg" \in used THEN TRUE ELSE arg = None
  /\ IF "isEnabled" \in used THEN TRUE ELSE isEnabled = None
  /\ IF "table" \in used THEN TRUE ELSE table = None
  /\ IF "request" \in used THEN TRUE ELSE request = None
  /\ IF "column" \in used THEN TRUE ELSE column = None
  /\ IF "args" \in used THEN TRUE ELSE args = None
  /\ IF "text" \in used THEN TRUE ELSE text = None
  /\ IF "serial" \in used THEN TRUE ELSE serial = None
  /\ IF "address" \in used THEN TRUE ELSE address = None

Init ==
  \/ owner = "arrays" /\ A!Init /\ Absent({"val", "call"})
  \/ owner = "limits" /\ L!Init /\ Absent({"saturates", "limit", "answer"})
  \/ owner = "imports" /\ I!Init /\ Absent({"name", "arg", "isEnabled", "table", "request", "val"})
  \/ owner = "columns" /\ C!Init /\ Absent({"column"})
  \/ owner = "calls" /\ F!Init /\ Absent({"name", "args", "val"})
  \/ owner = "dates" /\ D!Init /\ Absent({"saturates", "serial", "val"})
  \/ owner = "addresses" /\ R!Init /\ Absent({"text", "address"})
  \/ owner = "texts" /\ X!Init /\ Absent({"saturates", "text", "val"})

ArrayStep ==
  /\ owner = "arrays" /\ A!Next
  /\ UNCHANGED <<owner, saturates, limit, answer, name, arg, isEnabled, table, request,
                 column, args, text, serial, address>>

LimitStep ==
  /\ owner = "limits" /\ L!Next
  /\ UNCHANGED <<owner, val, call, name, arg, isEnabled, table, request, column, args,
                 text, serial, address>>

ImportStep ==
  /\ owner = "imports" /\ I!Next
  /\ UNCHANGED <<owner, call, saturates, limit, answer, column, args, text, serial, address>>

ColumnStep ==
  /\ owner = "columns" /\ C!Next
  /\ UNCHANGED <<owner, val, call, saturates, limit, answer, name, arg, isEnabled,
                 table, request, args, text, serial, address>>

CallStep ==
  /\ owner = "calls" /\ F!Next
  /\ UNCHANGED <<owner, call, saturates, limit, answer, arg, isEnabled, table, request,
                 column, text, serial, address>>

DateStep ==
  /\ owner = "dates" /\ D!Next
  /\ UNCHANGED <<owner, call, limit, answer, name, arg, isEnabled, table, request,
                 column, args, text, address>>

AddressStep ==
  /\ owner = "addresses" /\ R!Next
  /\ UNCHANGED <<owner, val, call, saturates, limit, answer, name, arg, isEnabled,
                 table, request, column, args, serial>>

TextStep ==
  /\ owner = "texts" /\ X!Next
  /\ UNCHANGED <<owner, call, limit, answer, name, arg, isEnabled, table, request,
                 column, args, serial, address>>

Next == \/ ArrayStep \/ LimitStep \/ ImportStep \/ ColumnStep \/ CallStep
        \/ DateStep \/ AddressStep \/ TextStep

Spec == Init /\ [][Next]_vars

-----------------------------------------------------------------------------

\* VLOOKUP and HLOOKUP, the two indexes of INDEX and the two ways MATCH looks are each
\* other's over the transposed block (builtins_lookup.go).
TransposeSwapsAxes == owner = "arrays" => A!TransposeSwapsAxes

\* A lookup finds after UNIQUE what it found before (arrayUnique).
LookupSurvivesUnique == A!LookupSurvivesUnique

\* SORT keeps whole rows, in order, and ties as they stood (arraySort).
SortIsStable == A!SortIsStable

\* What is allocated is bounded by the budget, and what is within it is not refused
\* (tooManyCells, repeatText).
BudgetIsExact == owner = "limits" => L!BudgetIsExact

\* The same of every build, wherever the product of the numbers named fits int64.
BudgetHolds == owner = "limits" => L!BudgetHolds

\* RANDBETWEEN draws the floats of its range and nothing else (randBetween).
DrawsEveryFloat == owner = "limits" => L!DrawsEveryFloat

\* An import is the whole of a table, in the shape it promises, or #IMPORT! (import.go).
NeverASalvage == owner = "imports" => I!NeverASalvage

\* The media type a table comes in does not show in the cell (readImport).
LabelIsNoMatter == I!LabelIsNoMatter

\* Counting, summing and ranking a column agree on its cells (matchesCriterion, rankPick).
CountsAgree == owner = "columns" => C!CountsAgree

\* A series is the aggregates of its windows (builtins_series.go).
WindowsAreRanges == owner = "columns" => C!WindowsAreRanges

\* However its cells are divided into ranges, a call is worth the same (argValues).
SlotsNeverShift == F!SlotsNeverShift

\* A conditional is the nest of IFs it abbreviates (builtins_logic.go).
ConditionalsAreNestedIfs == owner = "calls" => F!ConditionalsAreNestedIfs

\* EDATE, EOMONTH, DATE and DATEVALUE agree on the calendar (builtins_date.go).
MonthsAddUp == owner = "dates" => D!MonthsAddUp

\* An address is written as it was read, and labels follow one another (address.go).
AddressesRoundTrip == owner = "addresses" => R!AddressesRoundTrip

\* The parts a text is cut into join to the text (fnMid, fnReplace, substituteNth).
CutsRejoin == owner = "texts" => X!CutsRejoin

\* What FIND and SEARCH find stands there, at a count of bytes (locate).
FindsWhatStands == owner = "texts" => X!FindsWhatStands
=============================================================================
