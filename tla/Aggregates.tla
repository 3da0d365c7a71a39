------------------------------ MODULE Aggregates ------------------------------
(***************************************************************************)
(* The functions of a list of scalars: internal/engine/builtins.go,        *)
(* builtins_stat.go, builtins_logic.go and builtins_financial.go. The list *)
(* is what the argument slots of the call came to, in order.               *)
(***************************************************************************)
EXTENDS Scalars

CONSTANT Unit    \* the number 1, in the unit of Scalars

UnitIsPositive == Unit \in Nat \ {0}

IntArg(v) == IF AsNumber(v) >= 0 THEN AsNumber(v) \div Unit ELSE -((-AsNumber(v)) \div Unit)

BoolValue(b) == [kind |-> "bool", num |-> IF b THEN Unit ELSE 0, text |-> 0]

\* numerics: empty cells are left out, anything that is no number is the result.
FirstBad(args) == SelectInSeq(args, LAMBDA v : ~HasNumber(v))
Numbers(args) ==
  FoldLeft(LAMBDA nums, v : IF Numericish(v) THEN Append(nums, v.num) ELSE nums, <<>>, args)

OfNumbers(args, F(_)) ==
  IF FirstBad(args) # 0 THEN NotANumber(args[FirstBad(args)]) ELSE F(Numbers(args))

CountOf(args, Test(_)) == NumberValue(Unit * Cardinality({i \in DOMAIN args : Test(args[i])}))
Total(nums) == FoldLeft(LAMBDA x, y : x + y, 0, nums)
MeanOf(nums) == Total(nums) \div Len(nums)
Least(nums) == CHOOSE n \in ToSet(nums) : \A m \in ToSet(nums) : n <= m
Greatest(nums) == CHOOSE n \in ToSet(nums) : \A m \in ToSet(nums) : n >= m

\* Where a number stands among the others, those that tie in the order they came in.
Place(nums, i) ==
  Cardinality({j \in DOMAIN nums : nums[j] < nums[i] \/ (nums[j] = nums[i] /\ j <= i)})
Ascending(nums) == [k \in DOMAIN nums |-> nums[CHOOSE i \in DOMAIN nums : Place(nums, i) = k]]

FnSum(args) == OfNumbers(args, LAMBDA nums : NumberValue(Total(nums)))

\* An empty set of numbers has no extreme.
Extreme(args, Pick(_)) ==
  OfNumbers(args, LAMBDA nums : IF nums = <<>> THEN Error(VALUE) ELSE NumberValue(Pick(nums)))

FnMin(args) == Extreme(args, Least)
FnMax(args) == Extreme(args, Greatest)

FnCountNumbers(args) == CountOf(args, LAMBDA v : v.kind \in {"number", "date"})
FnCount(args) == CountOf(args, LAMBDA v : v.kind # "empty")
FnCountblank(args) == CountOf(args, LAMBDA v : v.kind = "empty")

FnAvg(args) ==
  OfNumbers(args, LAMBDA nums : IF nums = <<>> THEN Error(DIV) ELSE NumberValue(MeanOf(nums)))

FnMedian(args) ==
  OfNumbers(args, LAMBDA nums :
    LET mid == Len(nums) \div 2
        s == Ascending(nums)
    IN  IF nums = <<>> THEN Error(NUM)
        ELSE IF Len(nums) % 2 = 1 THEN NumberValue(s[mid + 1])
        ELSE NumberValue((s[mid] + s[mid + 1]) \div 2))

\* The first value to appear as often as any; no repeat is #N/A.
FnMode(args) ==
  OfNumbers(args, LAMBDA nums :
    LET Often(i) == Cardinality({j \in 1..i : nums[j] = nums[i]})
        firsts == {i \in DOMAIN nums : Often(i) > 1 /\ \A j \in 1..(i - 1) : Often(j) < Often(i)}
        most == {i \in firsts : \A j \in DOMAIN nums : Often(j) <= Often(i)}
    IN  IF most = {} THEN Error(NA) ELSE NumberValue(nums[CHOOSE i \in most : TRUE]))

\* Mutant: the largest are counted from the last but one.
RankOffByOne(k, nums, isLargest) ==
  IF k \notin 1..Len(nums) THEN Error(NUM)
  ELSE NumberValue(Ascending(nums)[IF isLargest THEN Greatest(<<1, Len(nums) - k>>) ELSE k])

KthOf(k, nums, isLargest) ==
  IF k \notin 1..Len(nums) THEN Error(NUM)
  ELSE NumberValue(Ascending(nums)[IF isLargest THEN Len(nums) + 1 - k ELSE k])

\* LARGE and SMALL: the last argument is k.
RankPick(args, isLargest) ==
  IF ~HasNumber(Last(args)) THEN NotANumber(Last(args))
  ELSE OfNumbers(Front(args), LAMBDA nums : KthOf(IntArg(Last(args)), nums, isLargest))

FnLarge(args) == RankPick(args, TRUE)
FnSmall(args) == RankPick(args, FALSE)

\* NPV: the payments discounted period by period. Bound: rates at which that is whole.
FnNpv(args) ==
  LET rate == AsNumber(args[1])
      paid == Tail(args)
      bad == SelectInSeq(paid, LAMBDA v : ~HasNumber(v))
  IN  IF ~HasNumber(args[1]) THEN NotANumber(args[1])
      ELSE IF bad # 0 THEN NotANumber(paid[bad])
      ELSE NumberValue(Total([p \in DOMAIN paid |->
                                (AsNumber(paid[p]) * Unit^p) \div (Unit + rate)^p]))

FnChoose(args) ==
  IF ~HasNumber(args[1]) THEN NotANumber(args[1])
  ELSE IF IntArg(args[1]) \notin 1..(Len(args) - 1) THEN Error(VALUE)
  ELSE args[IntArg(args[1]) + 1]

\* MOD takes the sign of the divisor.
FnMod(args) ==
  IF FirstBad(args) # 0 THEN NotANumber(args[FirstBad(args)])
  ELSE LET n == AsNumber(args[1])
           d == AsNumber(args[2])
           m == IF d > 0 THEN n % d ELSE -((-n) % (-d))
       IN  IF d = 0 THEN Error(DIV) ELSE NumberValue(m)

-----------------------------------------------------------------------------
(* Logic *)

FnAnd(args) == BoolValue(\A i \in DOMAIN args : Truthy(args[i]))
FnOr(args) == BoolValue(\E i \in DOMAIN args : Truthy(args[i]))
FnXor(args) == BoolValue(Cardinality({i \in DOMAIN args : Truthy(args[i])}) % 2 = 1)
FnNot(args) == BoolValue(~Truthy(args[1]))

ParityIs(v, isOdd) ==
  IF ~HasNumber(v) THEN NotANumber(v) ELSE BoolValue((IntArg(v) % 2 = 1) = isOdd)

\* N.
InspectN(v) ==
  IF v.kind \in {"number", "bool"} THEN NumberValue(v.num) ELSE IF IsError(v) THEN v
  ELSE NumberValue(0)

\* TYPE.
TypeCode(v) ==
  NumberValue(Unit * CASE v.kind = "string" -> 2 [] v.kind = "bool" -> 4
                       [] v.kind = "error" -> 16 [] OTHER -> 1)
=============================================================================
