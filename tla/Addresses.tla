------------------------------- MODULE Addresses -------------------------------
(***************************************************************************)
(* Cell addresses (internal/engine/address.go): a text that is typed, the  *)
(* cell it names, and the text a structural edit makes of a cell that      *)
(* moved. Columns are numbered in a base without a zero.                   *)
(***************************************************************************)
EXTENDS Integers, SequencesExt

CONSTANTS Radix,      \* the letters there are: 26
          AddressHalf,\* the integers are -AddressHalf .. AddressHalf - 1
          Digits,     \* the digits typed
          MaxLetters, \* bound: the letters typed
          MaxDigits   \* bound: the digits typed

InputsAreSymbols == Radix \in Nat \ {0} /\ AddressHalf \in Nat \ {0} /\ Digits \subseteq 0..9

VARIABLES text,       \* letters, digits, and whether anything else stands after the letters
          address     \* the cell it names

vars == <<text, address>>

Written(letters, digits, isMalformed) ==
  [letters |-> letters, digits |-> digits, isMalformed |-> isMalformed]

Invalid == [row |-> -1, col |-> -1]

Int64(n) == ((n + AddressHalf) % (2 * AddressHalf)) - AddressHalf

\* The number goes round at the end of an int.
LettersToIndex(letters) ==
  Int64(FoldLeft(LAMBDA index, letter : Int64(index * Radix + letter), 0, letters) - 1)

\* Mutant: the base has a zero.
LabelOfZeroBased(n) ==
  LET label[k \in Nat] == IF k = 0 THEN <<>>
                          ELSE Append(label[k \div Radix], ((k - 1) % Radix) + 1)
  IN  IF n <= 0 THEN <<>> ELSE label[n]

Label(n) ==
  LET label[k \in Nat] == IF k = 0 THEN <<>>
                          ELSE Append(label[(k - 1) \div Radix], ((k - 1) % Radix) + 1)
  IN  IF n <= 0 THEN <<>> ELSE label[n]

IndexToLetters(index) == Label(Int64(index + 1))

Decimal(digits) == FoldLeft(LAMBDA n, d : 10 * n + d, 0, digits)

DigitsOf(n) ==
  LET digits[k \in Nat] == IF k < 10 THEN <<k>> ELSE Append(digits[k \div 10], k % 10)
  IN  digits[n]

ParseAddress(s) ==
  LET row == Decimal(s.digits) IN
  IF s.letters = <<>> \/ s.digits = <<>> \/ s.isMalformed \/ row \notin 1..(AddressHalf - 1)
  THEN Invalid ELSE [row |-> row - 1, col |-> LettersToIndex(s.letters)]

AddressText(a) == Written(IndexToLetters(a.col), DigitsOf(a.row + 1), FALSE)

-----------------------------------------------------------------------------

Becomes(s) == text' = s /\ address' = ParseAddress(s)

Init == text = Written(<<>>, <<>>, FALSE) /\ address = Invalid

TypeLetter == /\ text.digits = <<>> /\ ~text.isMalformed /\ Len(text.letters) < MaxLetters
              /\ \E l \in 1..Radix : Becomes([text EXCEPT !.letters = Append(@, l)])

TypeDigit == /\ Len(text.digits) < MaxDigits
             /\ \E d \in Digits : Becomes([text EXCEPT !.digits = Append(@, d)])

TypeOther == ~text.isMalformed /\ Becomes([text EXCEPT !.isMalformed = TRUE])

\* A column is inserted before the cell: its address is the next column's.
ShiftColumn == /\ address # Invalid /\ address.col >= 0 /\ address.col + 1 < AddressHalf - 1
               /\ Becomes(AddressText([address EXCEPT !.col = @ + 1]))

Next == TypeLetter \/ TypeDigit \/ TypeOther \/ ShiftColumn

Spec == Init /\ [][Next]_vars

-----------------------------------------------------------------------------

\* The number of a label, and the label after it.
NumberOf(letters) ==
  LET number[i \in 0..Len(letters)] == IF i = 0 THEN 0 ELSE Radix * number[i - 1] + letters[i]
  IN  number[Len(letters)]

Successor(letters) ==
  LET next[i \in 0..Len(letters)] ==
        IF i = 0 THEN <<1>>
        ELSE IF letters[i] < Radix THEN Append(SubSeq(letters, 1, i - 1), letters[i] + 1)
        ELSE Append(next[i - 1], 1)
  IN  next[Len(letters)]

\* An address is written as it was typed, but for the zeros before its row, and the
\* column after it has the next label, from Z to AA and from AZ to BA: no label is
\* skipped and none is given twice. A label too long for an int is taken for that of
\* another column, or of none (lettersToIndex, indexToLetters).
AddressesRoundTrip ==
  address # Invalid =>
    IF NumberOf(text.letters) < AddressHalf - 1
    THEN /\ AddressText(address).letters = text.letters
         /\ ParseAddress(AddressText(address)) = address
         /\ IndexToLetters(address.col + 1) = Successor(text.letters)
    ELSE AddressText(address).letters # text.letters \/ NumberOf(text.letters) = AddressHalf - 1
=============================================================================
