------------------------------- MODULE MCEmbed -------------------------------
(* Three files of two cells.  "next" is a name each file understands in its   *)
(* own way, and leads through all of them back to the first.                  *)
EXTENDS EmbedMeaning

MCPaths == {"main", "b", "c"}
MCNames == {"next", "b", "lost"}
MCResolve == [p \in MCPaths |->
  [n \in MCNames |-> CASE n = "lost" -> None
                       [] n = "b"    -> "b"
                       [] n = "next" -> CASE p = "main" -> "b" [] p = "b" -> "c" [] p = "c" -> "main"]]
MCOrder == <<"A1", "A2">>

F(call, args) == [call |-> call, args |-> args]
Num(n) == [op |-> "value", value |-> Number(n)]
Input(n) == [op |-> "input", n |-> n]
File(name, cells) == [op |-> "foreign", file |-> name, cells |-> cells]
Sheet(name, args) == [op |-> "sheet", file |-> name, args |-> args]
Tick == [op |-> "tick"]

DiskOf(main1, main2, b1, b2, c1, c2) ==
  [p \in MCPaths |-> CASE p = "main" -> [c \in {"A1", "A2"} |-> IF c = "A1" THEN main1 ELSE main2]
                       [] p = "b"    -> [c \in {"A1", "A2"} |-> IF c = "A1" THEN b1 ELSE b2]
                       [] p = "c"    -> [c \in {"A1", "A2"} |-> IF c = "A1" THEN c1 ELSE c2]]

\* No file refers to itself in a circle: its first cell may read its second.
MCDisks ==
  {DiskOf(main1, main2, b1, b2, c1, c2) :
     main1 \in {F("value", <<Sheet("next", <<Local("A2")>>)>>),
                F("value", <<Sheet("next", <<Num(3), Num(4)>>)>>),
                F("sum", <<Sheet("b", <<Num(1)>>), Sheet("b", <<Num(2)>>), File("b", <<"A1", "A2">>)>>),
                F("sum", <<File("next", <<"A2">>), Sheet("lost", <<>>), Local("A2")>>)},
     main2 \in {F("value", <<Num(2)>>), F("value", <<File("b", <<"A1">>)>>)},
     b1 \in {F("output", <<Input(1)>>), F("output", <<Local("A2")>>), F("sum", <<Input(1), Local("A2")>>)},
     b2 \in {F("value", <<Num(5)>>), F("value", <<Input(2)>>), F("output", <<Num(7)>>),
             F("sum", <<Sheet("next", <<Input(1)>>), File("next", <<"A1", "A2">>)>>)},
     c1 \in {F("output", <<Num(2)>>), F("output", <<Input(1)>>),
             F("output", <<Local("A2")>>)},
     c2 \in {F("value", <<File("b", <<"A2">>)>>), F("value", <<Sheet("next", <<Num(4)>>)>>),
             F("value", <<Num(1)>>)}}

\* Cells of one file that refer to each other, and to those of another that do.
MCCircularDisks ==
  {DiskOf(main1, main2, b1, b2,
          F("output", <<Local("A2")>>),
          F("sum", <<Tick, File("next", <<"A1">>)>>)) :
     main1 \in {F("sum", <<Local("A2"), Sheet("b", <<Local("A2")>>)>>), F("value", <<Local("A1")>>)},
     main2 \in {F("sum", <<File("b", <<"A1", "A2">>), Local("A1")>>), F("value", <<Sheet("b", <<>>)>>)},
     b1 \in {F("output", <<Local("A2")>>), F("sum", <<Local("A2"), Input(1)>>)},
     b2 \in {F("sum", <<Local("A1"), File("next", <<"A2", "A1">>)>>), F("value", <<Sheet("next", <<>>)>>)}}

MCAllDisks == MCDisks \cup MCCircularDisks

\* A file that shows the ordinal of the pass, embedded and read.
MCTickDisks ==
  {DiskOf(main1, main2, F("output", <<Tick>>), F("value", <<Num(1)>>), F("value", <<Num(1)>>), F("value", <<Num(1)>>)) :
     main1 \in {F("value", <<Sheet("b", <<>>)>>), F("value", <<File("b", <<"A1">>)>>)},
     main2 \in {F("value", <<Tick>>)}}
=============================================================================
