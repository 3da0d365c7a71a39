------------------------------ MODULE MCStandalone -----------------------------
(***************************************************************************)
(* Inputs of the parts of Builtins. A number of a block carries the rank   *)
(* of its text, so that it can be compared with one; a number of a column  *)
(* and of the limits is a multiple of a fraction, its unit.                *)
(***************************************************************************)
EXTENDS Builtins, TLC

\* The cells of a block: 10, 9, 1a, the text TRUE and the boolean that is written so.
MCEmpty == [kind |-> "empty", num |-> 0, text |-> 0]
MCNumber(n, rank) == [kind |-> "number", num |-> n, text |-> rank]
MCString(rank) == [kind |-> "string", num |-> 0, text |-> rank]

Ten == MCNumber(10, 1)
Nine == MCNumber(9, 3)
OneA == MCString(2)
TrueText == MCString(4)
TrueBool == [kind |-> "bool", num |-> 1, text |-> 4]

MCCells == {MCEmpty, Ten, Nine, OneA, TrueText, TrueBool}

Blocks(rows, first, second) ==
  {[i \in 1..rows |-> <<f[i], s[i]>>] : f \in [1..rows -> first], s \in [1..rows -> second]}

MCRanges == {<<<<c>>>> : c \in MCCells}
              \cup Blocks(1, MCCells, MCCells) \cup Blocks(2, MCCells, {Ten, OneA})
              \cup Blocks(3, MCCells, {Ten, OneA})

\* Columns of conditions, one shorter than the ranges, one that never holds.
MCConditions == {<<<<Ten>>, <<MCEmpty>>, <<OneA>>>>, <<<<MCEmpty>>, <<TrueBool>>>>,
                 <<<<MCEmpty>>>>}

MCKeys == {MCEmpty, Ten, OneA, TrueText, TrueBool, [kind |-> "error", num |-> 1, text |-> 0]}
\* Twice floats of three binary digits: of 1/2, 5/2, 28, and of 40, which is out of range.
MCHalves == {-80, -64, -5, -2, -1, 0, 1, 2, 4, 5, 6, 7, 8, 16, 32, 56, 80}
MCSpacings == {1, 2, 4, 8, 16}

\* Unset falls back to DefaultCells; 0 is a Limits with only its other fields set.
MCGivenLimits == {Unset, 0, 2}
MCLengths == 0..3

MCCell == {"x", "", "# x", "#!x"}
Records == {<<c>> : c \in MCCell} \cup {<<"x", "">>, <<"", "x">>, <<"# x", "x">>}
MCTables == UNION {[1..n -> Records] : n \in 0..3}

\* A column of numbers of either sign, halves, an empty cell, a boolean, a text, an error.
\* In a unit of 216 all means of four, and the averages of spans up to 3, are whole.
MCContents == {MCEmpty, MCNumber(0, 0), MCNumber(-216, 0), MCNumber(432, 0),
               [kind |-> "bool", num |-> 216, text |-> 4], MCString(4),
               [kind |-> "error", num |-> 1, text |-> 0]}
MCBounds == {-216, 0, 216}

\* The call operands, in halves: 2, -1/2, the range <1, empty, 3>, the array <TRUE, 2>, #N/A.
MCWritten(form, cells) == [form |-> form, cells |-> cells]
MCOperands ==
  {MCWritten("scalar", <<MCNumber(4, 0)>>), MCWritten("scalar", <<MCNumber(-1, 0)>>),
   MCWritten("range", <<MCNumber(2, 0), MCEmpty, MCNumber(6, 0)>>),
   MCWritten("array", <<[kind |-> "bool", num |-> 2, text |-> 5], MCNumber(4, 0)>>),
   MCWritten("scalar", <<[kind |-> "error", num |-> 1, text |-> 0]>>)}

\* JSON: numbers in the spelling they are stored in, one of them beyond a float.
MCCanon ==
  [n \in {"0", "1", "1.0", "1e999"} |->
     CASE n = "1.0" -> "1" [] n = "1e999" -> "overflow" [] OTHER -> n]
MCSubscript == [n \in {"0", "1", "-1"} |-> CASE n = "0" -> 0 [] n = "1" -> 1 [] OTHER -> -1]

Q == "\""
MCDocuments ==
  {<<"{", "}">>,
   <<"{", Q, "a", Q, ":", "1.0", ",", Q, "b", Q, ":",
     "[", "true", ",", "{", Q, "a", Q, ":", "null", "}", "]", "}">>,
   <<"{", Q, "b", Q, ":", "{", Q, "b", Q, ":", "1e999", "}", ",", Q, "b", Q, ":", "0", "}">>,
   <<"[", "[", "1.0", "]", ",", "{", "}", "]">>,
   <<"[", "1", ",", "]">>, <<"1", "1">>, <<Q, "a", Q>>,
   <<"{", Q, "a", Q, ",", "1", "}">>, <<>>}

MCPaths ==
  {<<>>, <<"a">>, <<"b">>, <<"b", ".", "b">>, <<"a", ".", "b">>, <<"b", "[", "1", "]">>,
   <<"b", "[", "1", "]", ".", "a">>, <<"[", "0", "]">>, <<"[", "0", "]", "[", "0", "]">>,
   <<"[", "1", "]", ".", "a">>, <<".">>, <<"a", "[">>, <<"a", ".", "[", "0", "]">>,
   <<"[", "0", "]", "b">>, <<"a", "[", "-1", "]">>}

MCJsonValues ==
  {[kind |-> "number", str |-> <<"1">>], [kind |-> "number", str |-> <<"+Inf">>],
   [kind |-> "empty", str |-> <<>>], [kind |-> "string", str |-> <<"a">>]}

\* Runes: one byte, two bytes (e'), and the Kelvin sign K, whose lower case is shorter.
MCOctets == {"a", "A", "k", "C3", "A9", "E2", "84", "AA"}
MCUtf8 ==
  [c \in {"a", "A", "k", "e'", "K"} |->
     CASE c = "e'" -> <<"C3", "A9">> [] c = "K" -> <<"E2", "84", "AA">> [] OTHER -> <<c>>]
MCLower ==
  [c \in {"a", "A", "k", "e'", "K"} |-> CASE c = "A" -> "a" [] c = "K" -> "k" [] OTHER -> c]
MCTexts == {<<>>, <<"a">>, <<"a", "a">>, <<"A", "e'">>, <<"K", "a">>}
MCCounts == {-1, 0, 1, 2, 3}

\* Serials about the epoch, the ends of Februaries and the horizon.
MCSerials == {0, 1, 60, 36556, 36585, 43861, 106750, 106751, -106751, 200000}
MCOffsets == {-13, -1, 0, 1, 2, 12}
MCMoments == {<<2024, 2, 29>>, <<2023, 14, 31>>, <<2100, 3, 0>>, <<2023, 2, 29>>,
              <<1900, 1, 31>>, <<2300, 1, 1>>, <<2000, -10, 400>>}
MCReach == (-32..90) \cup (36500..36650) \cup (106600..106752)
=============================================================================
