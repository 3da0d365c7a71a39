------------------------------- MODULE Columns -------------------------------
(***************************************************************************)
(* A column of cells that is edited, and the formulas over it: the         *)
(* aggregates of Aggregates, the conditional aggregates                    *)
(* (internal/engine/builtins_criteria.go) and the series that spill beside *)
(* it (builtins_series.go).                                                *)
(***************************************************************************)
EXTENDS Aggregates

CONSTANTS ColumnLength, \* how many cells the column has
          Contents,     \* what a cell may hold
          Bounds,       \* the numbers criteria compare with
          Spans         \* the window sizes

InputsAreScalars ==
  /\ ColumnLength \in Nat /\ \A v \in Contents : IsScalar(v)
  /\ Bounds \subseteq Int /\ Spans \subseteq Nat \ {0}

VARIABLE column

-----------------------------------------------------------------------------
(* Criteria. A criterion is the operator signs it begins with and the value *)
(* after them.                                                              *)

\* Mutant: > is tried before >=.
ShortestFirst == <<<<">">>, <<"<">>, <<"=">>, <<">", "=">>, <<"<", "=">>, <<"<", ">">>>>

\* The operators, in the order they are tried as a prefix.
Operators == <<<<">", "=">>, <<"<", "=">>, <<"<", ">">>, <<">">>, <<"<">>, <<"=">>>>

\* What is left of the signs is taken for text, so that the operand is no number.
ParseCriterion(crit) ==
  LET i == SelectInSeq(Operators, LAMBDA op : IsPrefix(op, crit.signs))
      op == IF i = 0 THEN <<>> ELSE Operators[i]
  IN  [op |-> op, isNumber |-> op = crit.signs /\ crit.operand.kind = "number"]

NumberOrder(op, l, r) ==
  CASE op = <<"=">> -> l = r      [] op = <<"<", ">">> -> l # r
    [] op = <<"<">> -> l < r      [] op = <<"<", "=">> -> l <= r
    [] op = <<">">> -> l > r      [] OTHER             -> l >= r

\* The text of a value, read as a cell: TRUE() and a date are the texts they are shown as.
Reread(v) == IF v.kind \in {"bool", "date"} THEN [kind |-> "string", num |-> 0, text |-> v.text]
             ELSE v

MatchesCriterion(cell, crit) ==
  LET parsed == ParseCriterion(crit) IN
  IF parsed.op = <<>> THEN EqualValues(cell, Reread(crit.operand))
  ELSE /\ parsed.isNumber /\ HasNumber(cell)
       /\ NumberOrder(parsed.op, AsNumber(cell), crit.operand.num)

CriteriaCount(cells, crit) == CountOf(cells, LAMBDA cell : MatchesCriterion(cell, crit))

\* The positions whose cells match, where there is something to sum at them.
FoldMatches(cells, sumCells, crit) ==
  FoldLeftDomain(LAMBDA out, i : IF i <= Len(sumCells) /\ MatchesCriterion(cells[i], crit)
                                 THEN Append(out, sumCells[i]) ELSE out, <<>>, cells)

CriteriaSum(cells, sumCells, crit, isAverage) ==
  LET matched == FoldMatches(cells, sumCells, crit)
      nums == [i \in DOMAIN matched |-> AsNumber(matched[i])]
  IN  IF FirstBad(matched) # 0 THEN NotANumber(matched[FirstBad(matched)])
      ELSE IF ~isAverage THEN NumberValue(Total(nums))
      ELSE IF matched = <<>> THEN Error(DIV) ELSE NumberValue(MeanOf(nums))

-----------------------------------------------------------------------------
(* Series *)

\* Positions matter, so an empty cell is an error here.
SeriesBad(cells) == SelectInSeq(cells, LAMBDA v : v.kind \notin {"number", "bool", "date"})

FoldOf(fn, window) == CASE fn = "movingavg"  -> MeanOf(window)
                        [] fn = "rollingmin" -> Least(window)
                        [] OTHER             -> Greatest(window)

\* Mutant: a window that is one short of the span is taken as it is.
WindowedPartial(fn, nums, span) ==
  [i \in DOMAIN nums |->
     IF i + 1 < span THEN Error(NA)
     ELSE NumberValue(FoldOf(fn, SubSeq(nums, Greatest(<<1, i + 1 - span>>), i)))]

Windowed(fn, nums, span) ==
  [i \in DOMAIN nums |-> IF i < span THEN Error(NA)
                         ELSE NumberValue(FoldOf(fn, SubSeq(nums, i + 1 - span, i)))]

\* Each value moves the average by 2/(span + 1) of its distance.
EmaSeries(nums, span) ==
  LET Next(out, n) == Append(out, IF out = <<>> THEN n
                                  ELSE (2 * n + (span - 1) * Last(out)) \div (span + 1))
  IN  [i \in DOMAIN nums |-> NumberValue(FoldLeft(Next, <<>>, nums)[i])]

CumsumSeries(nums) == [i \in DOMAIN nums |-> NumberValue(Total(SubSeq(nums, 1, i)))]

SeriesFuncs == {"movingavg", "ema", "rollingmin", "rollingmax", "cumsum"}

Build(fn, nums, span) == CASE fn = "ema"    -> EmaSeries(nums, span)
                           [] fn = "cumsum" -> CumsumSeries(nums)
                           [] OTHER         -> Windowed(fn, nums, span)

\* The column that spills, or the one error of the call.
SeriesCall(fn, cells, span) ==
  LET bad == SeriesBad(cells) IN
  IF fn # "cumsum" /\ span < 1 THEN <<Error(NUM)>>
  ELSE IF bad # 0 THEN <<NotANumber(cells[bad])>>
  ELSE Build(fn, [i \in DOMAIN cells |-> cells[i].num], span)

-----------------------------------------------------------------------------

EmptyCell == [kind |-> "empty", num |-> 0, text |-> 0]

Init == column = [i \in 1..ColumnLength |-> EmptyCell]

SetCell(i, v) == column' = [column EXCEPT ![i] = v]

Next == \E i \in 1..ColumnLength, v \in Contents : SetCell(i, v)

Spec == Init /\ [][Next]_column

-----------------------------------------------------------------------------

Crit(op, n) == [signs |-> op, operand |-> NumberValue(n)]

Matching(op, n) == CriteriaCount(column, Crit(op, n)).num
SumOf(op, n) == CriteriaSum(column, column, Crit(op, n), FALSE).num

AllNumbers == \A i \in 1..ColumnLength : Numericish(column[i])

\* The operators split the cells that have a number in two, at any bound, and the sum
\* with them; a number without an operator finds what = finds but for the empty cells,
\* which = takes for 0 (parseCriterion and matchesCriterion).
OperatorsPartition(n) ==
  LET numeric == CountOf(column, HasNumber).num
      empties == FnCountblank(column).num
  IN  /\ Matching(<<">", "=">>, n) + Matching(<<"<">>, n) = numeric
      /\ Matching(<<"<", "=">>, n) + Matching(<<">">>, n) = numeric
      /\ Matching(<<"<", ">">>, n) + Matching(<<"=">>, n) = numeric
      /\ SumOf(<<">", "=">>, n) + SumOf(<<"<">>, n) = Total(Numbers(column))
      /\ Matching(<<"=">>, n) - Matching(<<>>, n) = IF n = 0 THEN empties ELSE 0
      /\ Matching(<<">">>, n) > 0 =>
           CriteriaSum(column, column, Crit(<<">">>, n), TRUE).num
             = (Unit * SumOf(<<">">>, n)) \div Matching(<<">">>, n)

\* LARGE and SMALL stand where COUNTIF counts them, and MEDIAN in their middle: fewer
\* than k cells are beyond the k-th, and at least k are not short of it (rankPick).
RankMatchesCount(k) ==
  LET large == FnLarge(column \o <<NumberValue(Unit * k)>>)
      small == FnSmall(column \o <<NumberValue(Unit * k)>>)
  IN  /\ Matching(<<">">>, large.num) < Unit * k
      /\ Matching(<<">", "=">>, large.num) >= Unit * k
      /\ FnSmall(column \o <<NumberValue(Unit * (ColumnLength + 1 - k))>>) = large
      /\ k = 1 => large = FnMax(column) /\ small = FnMin(column)
      /\ k = (ColumnLength + 1) \div 2 => FnMedian(column).num = (small.num + large.num) \div 2

\* Whatever the cells hold, counting, summing, averaging and ranking them agree on which
\* cells are which: COUNTIF, SUMIF and AVERAGEIF by every operator, and, of numbers,
\* LARGE, SMALL, MIN, MAX and MEDIAN with COUNTIF.
CountsAgree ==
  /\ \A n \in Bounds : OperatorsPartition(n)
  /\ AllNumbers => \A k \in 1..ColumnLength : RankMatchesCount(k)

\* A series is, row by row, the aggregate of the cells of its window, which the eager
\* functions compute from the range of that window; EMA is the mean of the newest cell
\* and the average so far, by weights of the span; and no row of it depends on a row
\* below (windowed, emaSeries, cumsumSeries against builtins.go).
WindowsAreRanges ==
  \A span \in Spans : SeriesBad(column) = 0 =>
    LET Of(fn) == SeriesCall(fn, column, span)
        Window(i) == SubSeq(column, i + 1 - span, i)
    IN  /\ \A fn \in SeriesFuncs, i \in 1..ColumnLength :
             SeriesCall(fn, SubSeq(column, 1, i), span) = SubSeq(Of(fn), 1, i)
        /\ \A i \in 1..ColumnLength :
             /\ Of("cumsum")[i] = FnSum(SubSeq(column, 1, i))
             /\ IsError(Of("movingavg")[i]) <=> i < span
             /\ i >= span => /\ Of("movingavg")[i] = FnAvg(Window(i))
                             /\ Of("rollingmin")[i] = FnMin(Window(i))
                             /\ Of("rollingmax")[i] = FnMax(Window(i))
        /\ \A i \in 2..ColumnLength :
             Of("ema")[i].num
               = (2 * column[i].num + (span - 1) * Of("ema")[i - 1].num) \div (span + 1)
=============================================================================
