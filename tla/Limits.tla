-------------------------------- MODULE Limits --------------------------------
(***************************************************************************)
(* The calls whose cost or whose draw is machine arithmetic: SEQUENCE and  *)
(* RANDARRAY under the cell budget (internal/engine/limits.go,             *)
(* builtins_array.go), REPT under the byte budget (builtins_text.go) and   *)
(* RANDBETWEEN (builtins_random.go).                                       *)
(*                                                                         *)
(* An argument is a float, given here in halves, so that truncation shows; *)
(* an integer is a two's complement one of the width of its Go type. What  *)
(* a float outside that width converts to is the build's choice: the       *)
(* smallest integer on amd64, the nearest one on arm64 and wasm. An        *)
(* integer converts to the nearest float, which is it only while it has no *)
(* more digits than a float keeps.                                         *)
(***************************************************************************)
EXTENDS Integers

CONSTANTS IntHalf,      \* 2^(w-1) for the width w of int
          Int64Half,    \* 2^(w-1) for the width w of int64
          Precision,    \* 2^53: up to here every integer is a float
          Spacings,     \* the powers of two: the distances of neighbouring floats
          Halves,       \* twice the numbers a formula may name
          Lengths,      \* the bytes a text may have that is repeated
          GivenLimits,  \* the budgets injected; Unset is the zero Limits
          Unset,
          DefaultCells, \* the budget of DefaultLimits
          None

Reaches(s, n) == n \in -(Precision * s)..(Precision * s)

\* The floats that are integers; twice one and half of one are written alike.
IsFloat(n) == \E s \in Spacings : Reaches(s, n) /\ n % s = 0

\* The ends of int64 are one beyond its largest integer, which is no float.
FloatsFit == /\ Precision \in Nat \ {0} /\ Precision % 2 = 0
             /\ Spacings \subseteq Nat \ {0} /\ 1 \in Spacings
             /\ \A s \in Spacings \ {1} : s % 2 = 0 /\ s \div 2 \in Spacings
             /\ \A s, t \in Spacings : s <= t => t % s = 0
             /\ \E s \in Spacings \ {1} : Int64Half = Precision * s
             /\ \A h \in Halves : IsFloat(h)

WidthsFit == /\ IntHalf \in Nat \ {0} /\ Int64Half \in Nat \ {0} /\ IntHalf <= Int64Half
             /\ Halves \subseteq Int
             /\ Lengths \cup {DefaultCells} \cup (GivenLimits \ {Unset}) \subseteq 0..(IntHalf - 1)

VARIABLES saturates,    \* does a float out of range convert to the nearest integer?
          limit,        \* the budget of the pass, of cells and of bytes
          answer        \* the last call, the integers it read and its result

vars == <<saturates, limit, answer>>

-----------------------------------------------------------------------------

MinInt(half) == -half
MaxInt(half) == half - 1

\* Arithmetic on a type of 2 * half values.
Wrap(n, half) == ((n + half) % (2 * half)) - half

Truncate(h) == IF h >= 0 THEN h \div 2 ELSE -((-h) \div 2)

\* The conversion of a float to an integer type.
ToInt(h, half, nearest) ==
  LET n == Truncate(h)
  IN  IF n \in MinInt(half)..MaxInt(half) THEN n
      ELSE IF nearest /\ n > 0 THEN MaxInt(half) ELSE MinInt(half)

\* The distance of the floats about an integer.
Spacing(n) == CHOOSE s \in Spacings : /\ Reaches(s, n)
                                      /\ \A t \in Spacings : Reaches(t, n) => s <= t

\* The multiple of s nearest to n, of two the even one.
Round(n, s) ==
  LET q == n \div s
      r == n % s
  IN  IF 2 * r < s \/ (2 * r = s /\ q % 2 = 0) THEN q * s ELSE (q + 1) * s

\* The conversion of an integer to a float.
ToFloat(n) == Round(n, Spacing(n))

EffectiveLimits(given) == IF given = Unset THEN DefaultCells ELSE given

\* Mutant: a block as large as the budget is refused.
RefusedAtBudget(rows, cols, budget) == Wrap(rows * cols, Int64Half) >= budget

\* The product is taken in int64.
TooManyCells(rows, cols, budget) == Wrap(rows * cols, Int64Half) > budget

Error(code) == [kind |-> "error", code |-> code]
Panic == [kind |-> "panic"]
Text(bytes) == [kind |-> "string", bytes |-> bytes]
Array(rows, cols) == [kind |-> "array", rows |-> rows, cols |-> cols]
Number(n) == [kind |-> "number", value |-> n]

\* arraySequence and randArray share their dimensions and their budget.
Block(rows, cols, budget) ==
  IF rows < 1 \/ cols < 1 \/ TooManyCells(rows, cols, budget)
  THEN Error("#VALUE!") ELSE Array(rows, cols)

\* repeatText. strings.Repeat ends the program when no int counts the bytes it makes.
Repeat(n, length, budget) ==
  IF n < 0 \/ (length > 0 /\ Wrap(n * length, Int64Half) > budget) THEN Error("#VALUE!")
  ELSE IF n * length > MaxInt(IntHalf) THEN Panic ELSE Text(n * length)

\* Mutant: the last integer of the range is left out, as of a half-open one.
HalfOpen(lo, hi) == Wrap(hi - lo, Int64Half) % (2 * Int64Half)

\* intN: a draw of the generator, an unsigned 64-bit integer, reduced modulo n.
\* A modulus of zero is a division by zero, which ends the program.
Modulus(lo, hi) == Wrap(hi - lo + 1, Int64Half) % (2 * Int64Half)

Between(lo, hi, draw) ==
  IF hi < lo THEN Error("#NUM!")
  ELSE IF Modulus(lo, hi) = 0 THEN Panic
  ELSE Number(ToFloat(Wrap(lo + Wrap(draw % Modulus(lo, hi), Int64Half), Int64Half)))

Draws == 0..(2 * Int64Half - 1)

-----------------------------------------------------------------------------

Init == /\ saturates \in BOOLEAN
        /\ limit \in {EffectiveLimits(given) : given \in GivenLimits}
        /\ answer = None

\* SEQUENCE and RANDARRAY. Bound: a behaviour is one call, since none of them
\* leaves anything behind that a later one reads, the generator apart, of which
\* every draw is tried.
Generate(call, r, c) ==
  LET rows == ToInt(r, IntHalf, saturates)
      cols == ToInt(c, IntHalf, saturates)
  IN  answer' = [call |-> call, args |-> <<rows, cols>>,
                 result |-> Block(rows, cols, limit)]

Rept(count, length) ==
  LET n == ToInt(count, IntHalf, saturates)
  IN  answer' = [call |-> "rept", args |-> <<n, length>>, result |-> Repeat(n, length, limit)]

RandBetween(lo, hi, draw) ==
  LET loI == ToInt(lo, Int64Half, saturates)
      hiI == ToInt(hi, Int64Half, saturates)
  IN  answer' = [call |-> "randbetween", args |-> <<loI, hiI>>,
                 result |-> Between(loI, hiI, draw)]

Next == /\ answer = None
        /\ \E a \in Halves :
             \/ \E length \in Lengths : Rept(a, length)
             \/ \E b \in Halves :
                  \/ \E call \in {"sequence", "randarray"} : Generate(call, a, b)
                  \/ \E draw \in Draws : RandBetween(a, b, draw)
        /\ UNCHANGED <<saturates, limit>>

Spec == Init /\ [][Next]_vars

-----------------------------------------------------------------------------

Called(call) == answer # None /\ answer.call = call

\* A block is built exactly when it has a cell and no more cells than the budget
\* ("computed in int64 so the product cannot overflow", tooManyCells), and a text is
\* repeated exactly when it has no more bytes than the budget ("a result exceeding the
\* byte budget is #VALUE!", repeatText), if the product of the two numbers named is at
\* most most.
ExactUpTo(most) ==
  LET isText == answer.call = "rept"
      m == answer.args[1]
      n == answer.args[2]
  IN  m * n <= most =>
        IF (IF isText THEN m >= 0 ELSE m >= 1 /\ n >= 1) /\ m * n <= limit
        THEN answer.result = IF isText THEN Text(m * n) ELSE Array(m, n)
        ELSE answer.result = Error("#VALUE!")

Allocates == answer # None /\ answer.call # "randbetween"

\* What is allocated is bounded, whatever numbers are named.
BudgetIsExact == Allocates => ExactUpTo(answer.args[1] * answer.args[2])

\* What is left of that where an int is as wide as int64: the budget is exact wherever
\* the product fits int64; and beyond, where a block escapes it, a text still does not,
\* though a count that looks like none to the budget may end the program.
BudgetHolds ==
  Allocates =>
    /\ ExactUpTo(MaxInt(Int64Half))
    /\ answer.result.kind = "string" => answer.args[1] * answer.args[2] <= limit

\* RANDBETWEEN can draw every float that is an integer from its first bound to its
\* second, and nothing else, though the size of the range is taken in a type it may not
\* fit, and the integer drawn is rounded to a float (randBetween, "a uniform integer in
\* [lo, hi]"): beyond Precision not every integer is drawn. The largest int64, which only
\* a build that saturates reads from a bound, rounds to the float past it. From the one
\* end of int64 to the other the size is zero and the draw divides by it.
DrawsEveryFloat ==
  Called("randbetween") =>
    LET lo == answer.args[1]
        hi == answer.args[2]
        last == IF hi = MaxInt(Int64Half) THEN Int64Half ELSE hi
    IN  IF hi < lo THEN answer.result = Error("#NUM!")
        ELSE {Between(lo, hi, draw) : draw \in Draws} =
               IF saturates /\ lo = MinInt(Int64Half) /\ hi = MaxInt(Int64Half)
               THEN {Panic} ELSE {Number(f) : f \in {n \in lo..last : IsFloat(n)}}
=============================================================================
