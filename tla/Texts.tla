-------------------------------- MODULE Texts --------------------------------
(***************************************************************************)
(* The builtins that cut, join and search texts                            *)
(* (internal/engine/builtins_text.go), over a text that each call makes    *)
(* from the one before.                                                    *)
(*                                                                         *)
(* A text is a sequence of runes. The cuts count runes, the searches the   *)
(* bytes the runes are encoded in. Positions are machine integers; a       *)
(* number beyond them converts to the smallest one, or on a build that     *)
(* saturates to the largest.                                               *)
(***************************************************************************)
EXTENDS Integers, SequencesExt

CONSTANTS Octets,    \* the bytes
          Utf8,      \* the bytes of each rune
          Lower,     \* its lower case
          Texts,     \* the texts a user writes
          Counts,    \* the numbers a user writes, as far as they are integers
          Half,      \* the integers are -Half .. Half - 1
          MaxRunes   \* bound: the length of a text that is cut again

Runes == DOMAIN Utf8

InputsAreTexts ==
  /\ Half \in Nat \ {0} /\ Counts \subseteq -Half..(Half - 1) /\ Texts \subseteq Seq(Runes)
  /\ Utf8 \in [Runes -> Seq(Octets) \ {<<>>}] /\ Lower \in [Runes -> Runes]

\* The first byte of a rune tells how many there are, and is never within another rune.
Utf8IsACode ==
  \A r, q \in Runes :
    /\ Utf8[r] = Utf8[q] => r = q
    /\ Utf8[r][1] = Utf8[q][1] => Len(Utf8[r]) = Len(Utf8[q])
    /\ \A i \in 2..Len(Utf8[q]) : Utf8[q][i] # Utf8[r][1]

VARIABLES saturates, text, val

vars == <<saturates, text, val>>

Text(runes) == [kind |-> "string", str |-> runes]
Position(n) == [kind |-> "number", at |-> n]
ValueError == [kind |-> "error"]
Panic == [kind |-> "panic"]

\* The integers a call reads.
Ints == Counts \cup {IF saturates THEN Half - 1 ELSE -Half}

Plus(m, n) == ((m + n + Half) % (2 * Half)) - Half
ClampPos(n, length) == IF n > length THEN length ELSE n

\* A slice whose end lies before its start ends the program.
Slice(runes, from, to) == SubSeq(runes, from + 1, to)

-----------------------------------------------------------------------------
(* Cuts *)

SideChars(runes, n, isFromLeft) ==
  LET k == ClampPos(n, Len(runes)) IN
  IF n < 0 THEN ValueError
  ELSE Text(IF isFromLeft THEN Slice(runes, 0, k) ELSE Slice(runes, Len(runes) - k, Len(runes)))

FnLeft(runes, n) == SideChars(runes, n, TRUE)
FnRight(runes, n) == SideChars(runes, n, FALSE)

\* MID keeps the runes from .. to - 1; REPLACE puts others for them.
Cut(runes, start, length, Of(_, _)) ==
  LET from == ClampPos(start - 1, Len(runes))
      to == ClampPos(Plus(from, length), Len(runes))
  IN  IF start < 1 \/ length < 0 THEN ValueError
      ELSE IF to < from THEN Panic ELSE Text(Of(from, to))

FnMid(runes, start, length) ==
  Cut(runes, start, length, LAMBDA from, to : Slice(runes, from, to))

FnReplace(runes, start, length, new) ==
  Cut(runes, start, length,
      LAMBDA from, to : Slice(runes, 0, from) \o new \o Slice(runes, to, Len(runes)))

-----------------------------------------------------------------------------
(* Searches *)

Bytes(runes) == FlattenSeq([i \in DOMAIN runes |-> Utf8[runes[i]]])
Lowered(runes) == [i \in DOMAIN runes |-> Lower[runes[i]]]

IsAt(seq, sub, i) ==
  i + Len(sub) - 1 <= Len(seq) /\ SubSeq(seq, i, i + Len(sub) - 1) = sub

\* Where sub first stands in seq; 0 when it does not.
FirstAt(seq, sub) == SelectInSeq([i \in 1..(Len(seq) - Len(sub) + 1) |-> i],
                                 LAMBDA i : IsAt(seq, sub, i))

\* Mutant: the position is the one in what is left of the haystack.
LocateInRest(needle, haystack, start, isCaseSensitive) ==
  LET Of(runes) == Bytes(IF isCaseSensitive THEN runes ELSE Lowered(runes))
      bytes == Of(haystack)
      at == FirstAt(Slice(bytes, start - 1, Len(bytes)), Of(needle))
  IN  IF start < 1 \/ start - 1 > Len(bytes) \/ at = 0 THEN ValueError ELSE Position(at)

\* FIND and SEARCH on the bytes of the haystack after the first start - 1.
Locate(needle, haystack, start, isCaseSensitive) ==
  LET Of(runes) == Bytes(IF isCaseSensitive THEN runes ELSE Lowered(runes))
      bytes == Of(haystack)
      at == FirstAt(Slice(bytes, start - 1, Len(bytes)), Of(needle))
  IN  IF start < 1 \/ start - 1 > Len(bytes) \/ at = 0 THEN ValueError
      ELSE Position(start - 1 + at)

FnFind(needle, haystack, start) == Locate(needle, haystack, start, TRUE)
FnSearch(needle, haystack, start) == Locate(needle, haystack, start, FALSE)

\* Where the nth occurrence of old ends, -1 when there are fewer: the search goes on
\* after each.
EndOfNth(runes, old, nth) ==
  LET End[k \in Nat] ==
        LET at == FirstAt(Slice(runes, End[k - 1], Len(runes)), old) IN
        IF k = 0 THEN 0 ELSE IF End[k - 1] = -1 \/ at = 0 THEN -1
        ELSE End[k - 1] + at - 1 + Len(old)
  IN  End[nth]

\* strings.ReplaceAll: an empty old stands before every rune and at the end.
SubstituteAll(runes, old, new) ==
  LET End(k) == EndOfNth(runes, old, k)
      Out[k \in Nat] ==
        IF k = 0 THEN <<>> ELSE Out[k - 1] \o Slice(runes, End(k - 1), End(k) - Len(old)) \o new
      count == Cardinality({k \in 1..Len(runes) : End(k) # -1})
  IN  IF old = <<>> THEN new \o FlattenSeq([i \in DOMAIN runes |-> <<runes[i]>> \o new])
      ELSE Out[count] \o Slice(runes, End(count), Len(runes))

\* Mutant: the search goes on one rune after an occurrence.
SubstituteOverlapping(runes, old, new, nth) ==
  LET End[k \in Nat] ==
        LET next == End[k - 1] - (IF k = 1 THEN 0 ELSE Len(old) - 1)
            at == FirstAt(Slice(runes, next, Len(runes)), old)
        IN  IF k = 0 THEN 0 ELSE IF End[k - 1] = -1 \/ at = 0 THEN -1 ELSE next + at - 1 + Len(old)
  IN  IF nth < 1 \/ old = <<>> \/ End[nth] = -1 THEN runes
      ELSE Slice(runes, 0, End[nth] - Len(old)) \o new \o Slice(runes, End[nth], Len(runes))

\* The n-th occurrence.
SubstituteNth(runes, old, new, nth) ==
  LET end == EndOfNth(runes, old, nth) IN
  IF nth < 1 \/ old = <<>> \/ end = -1 THEN runes
  ELSE Slice(runes, 0, end - Len(old)) \o new \o Slice(runes, end, Len(runes))

-----------------------------------------------------------------------------

Becomes(v) == /\ val' = v
              /\ text' = IF v.kind = "string" THEN v.str ELSE text
              /\ UNCHANGED saturates

Init == saturates \in BOOLEAN /\ text \in Texts /\ val = Text(text)

TakeCut == \E m, n \in Ints : \/ Becomes(FnLeft(text, n)) \/ Becomes(FnRight(text, n))
                              \/ Becomes(FnMid(text, m, n))

Replace == \E m, n \in Ints, new \in Texts : Becomes(FnReplace(text, m, n, new))

Substitute == \E old, new \in Texts :
                \/ Becomes(Text(SubstituteAll(text, old, new)))
                \/ \E n \in Ints : Becomes(Text(SubstituteNth(text, old, new, n)))

Next == Len(text) <= MaxRunes /\ val.kind = "string" /\ (TakeCut \/ Replace \/ Substitute)

Spec == Init /\ [][Next]_vars

-----------------------------------------------------------------------------

\* Its first so many occurrences replaced one at a time, the last of them first.
OneByOne(runes, old, new, count) ==
  LET Done[k \in Nat] ==
        IF k = 0 THEN runes ELSE SubstituteNth(Done[k - 1], old, new, count + 1 - k)
  IN  Done[count]

\* The parts a text is cut into join to the text: LEFT and the RIGHT of the rest are the
\* whole, REPLACE is what stands before, the new runes and what stands after, whatever
\* length is named, and SUBSTITUTE is the substitutions of each occurrence, made one by
\* one. A length that goes beyond the integers, as one does that a build which saturates
\* reads as the largest, ends the program after the first rune (fnMid, fnReplace: the end
\* of the cut is from + length, an int).
CutsRejoin ==
  LET whole == Len(text)
      Before(m) == FnLeft(text, m - 1).str
      After(m, n) == FnRight(text, IF m - 1 + n < whole THEN whole - (m - 1 + n) ELSE 0).str
  IN  /\ \A n \in 0..whole : FnLeft(text, n).str \o FnRight(text, whole - n).str = text
      /\ \A m, n \in Ints \cap Nat, new \in Texts :
           m >= 1 => FnReplace(text, m, n, new) =
                       IF ClampPos(m - 1, whole) + n >= Half THEN Panic
                       ELSE Text(Before(m) \o new \o After(m, n))
      /\ \A old \in Texts \ {<<>>}, new \in Texts :
           SubstituteAll(text, old, new) = OneByOne(text, old, new, whole)

\* Where FIND and SEARCH find a text it stands, rune for rune: the position is that of a
\* whole rune, the first from the start on, and counts the bytes before it, of the
\* haystack as it is compared (locate). Only of one-byte runes is it the position MID
\* and REPLACE take, in a text no longer than an integer counts.
FindsWhatStands ==
  \A needle \in Texts, start \in Counts, isExact \in BOOLEAN :
    LET compared == IF isExact THEN text ELSE Lowered(text)
        sought == IF isExact THEN needle ELSE Lowered(needle)
        Before(i) == Len(Bytes(SubSeq(compared, 1, i - 1)))
        places == {i \in DOMAIN text : IsAt(compared, sought, i) /\ Before(i) >= start - 1}
        first == CHOOSE i \in places : \A j \in places : i <= j
        found == Locate(needle, text, start, isExact)
    IN  (start >= 1 /\ needle # <<>>) =>
          IF places = {} THEN found = ValueError
          ELSE /\ found = Position(Before(first) + 1)
               /\ Len(text) < Half /\ (\A i \in 1..(first - 1) : Len(Utf8[compared[i]]) = 1) =>
                    FnMid(compared, found.at, Len(sought)) = Text(sought)
=============================================================================
