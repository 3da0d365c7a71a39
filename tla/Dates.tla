-------------------------------- MODULE Dates --------------------------------
(***************************************************************************)
(* The date builtins (internal/engine/builtins_date.go): a cell that holds *)
(* a date, by its serial, and the steps of months a chain of EDATEs and    *)
(* EOMONTHs takes from it.                                                 *)
(*                                                                         *)
(* A serial counts the days since 1899-12-30, whole ones here. It is made  *)
(* from a Duration, and read through one, and a Duration holds no more     *)
(* than Horizon whole days either way: a longer one is cut off, and a      *)
(* serial beyond it is a float no int64 holds, which converts to the       *)
(* smallest one, or on a build that saturates to the nearest.              *)
(***************************************************************************)
EXTENDS Integers, FiniteSets

CONSTANTS Horizon,    \* the whole days of the longest Duration
          Serials,    \* the serials a user writes
          Offsets,    \* the months a user writes
          Moments,    \* year, month and day of the dates a user writes, normalised or not
          Reach       \* bound: the serials from which the chain goes on

InputsAreNumbers == /\ Horizon \in Nat /\ Serials \cup Offsets \subseteq Int
                    /\ Moments \subseteq Int \X Int \X Int

VARIABLES saturates, serial, val

vars == <<saturates, serial, val>>

Date(n) == [kind |-> "date", num |-> n]
Number(n) == [kind |-> "number", num |-> n]
Error(code) == [kind |-> "error", code |-> code]

-----------------------------------------------------------------------------
(* The calendar, of package time *)

IsLeap(y) == y % 4 = 0 /\ (y % 100 # 0 \/ y % 400 = 0)
DaysIn(y, m) == CASE m = 2 -> IF IsLeap(y) THEN 29 ELSE 28
                  [] m \in {4, 6, 9, 11} -> 30
                  [] OTHER -> 31

\* The days before a month of a year that is not leap.
DaysBefore == <<0, 31, 59, 90, 120, 151, 181, 212, 243, 273, 304, 334>>

\* The day of a date, from that of the epoch; the month and the day may be any.
Day(y, m, d) ==
  LET year == y + ((m - 1) \div 12)
      month == ((m - 1) % 12) + 1
      past == year - 1
  IN  365 * past + (past \div 4) - (past \div 100) + (past \div 400) + DaysBefore[month]
        + (IF month > 2 /\ IsLeap(year) THEN 1 ELSE 0) + d - 693594

\* The date of a day.
DateOf(n) ==
  LET guess == 1900 + ((n * 400) \div 146097)
      y == CHOOSE y \in (guess - 1)..(guess + 1) : Day(y, 1, 1) <= n /\ n < Day(y + 1, 1, 1)
      m == CHOOSE m \in 1..12 : Day(y, m, 1) <= n /\ n < Day(y, m + 1, 1)
  IN  [y |-> y, m |-> m, d |-> n - Day(y, m, 1) + 1]

-----------------------------------------------------------------------------
(* Serials *)

\* serialToTime. The smallest Duration ends within a day that has begun.
ToDay(n, nearest) == IF n \in -Horizon..Horizon THEN n
                     ELSE IF nearest /\ n > 0 THEN Horizon ELSE -(Horizon + 1)

\* daySerial: the Duration of a day too far, rounded to days.
DaySerial(n) == IF n > Horizon THEN Horizon + 1 ELSE IF n < -Horizon THEN -(Horizon + 1) ELSE n

TimeOf(n) == DateOf(ToDay(n, saturates))

FnYear(n) == Number(TimeOf(n).y)
FnMonth(n) == Number(TimeOf(n).m)
FnDay(n) == Number(TimeOf(n).d)

\* Day 0 is a Saturday, whose number is 6.
FnWeekday(n, returnType) ==
  LET sun == (ToDay(n, saturates) + 6) % 7
  IN  CASE returnType = 1 -> Number(sun + 1)
        [] returnType = 2 -> Number(((sun + 6) % 7) + 1)
        [] returnType = 3 -> Number((sun + 6) % 7)
        [] OTHER -> Error("#NUM!")

FnDate(y, m, d) == Date(DaySerial(Day(y, m, d)))

FnDatevalue(y, m, d) == IF m \in 1..12 /\ d \in 1..DaysIn(y, m) THEN FnDate(y, m, d)
                        ELSE Error("#VALUE!")

\* A day the month does not have runs over into the next one.
FnEdate(n, months) ==
  LET t == TimeOf(n) IN Date(DaySerial(Day(t.y, t.m + months, t.d)))

\* Mutant: the months are added to the day itself.
EomonthFromDay(n, months) ==
  LET t == TimeOf(n)
      then == DateOf(Day(t.y, t.m + months + 1, t.d))
  IN  Date(DaySerial(Day(then.y, then.m, 1) - 1))

FnEomonth(n, months) ==
  LET t == TimeOf(n) IN Date(DaySerial(Day(t.y, t.m + months + 1, 1) - 1))

FnDays(end, start) ==
  Number(DaySerial(ToDay(end, saturates)) - DaySerial(ToDay(start, saturates)))

-----------------------------------------------------------------------------

Becomes(v) == /\ val' = v
              /\ serial' = IF v.kind = "date" THEN v.num ELSE serial
              /\ UNCHANGED saturates

Init == saturates \in BOOLEAN /\ serial \in Serials /\ val = Date(serial)

AddMonths == \E months \in Offsets : \/ Becomes(FnEdate(serial, months))
                                     \/ Becomes(FnEomonth(serial, months))

WriteDate == \E t \in Moments : \/ Becomes(FnDate(t[1], t[2], t[3]))
                               \/ Becomes(FnDatevalue(t[1], t[2], t[3]))

Next == serial \in Reach /\ (AddMonths \/ WriteDate)

Spec == Init /\ [][Next]_vars

-----------------------------------------------------------------------------

IsReadable(n) == n \in -Horizon..Horizon

\* Months add up: a date is the DATE, and the DATEVALUE, of its own year, month and day;
\* EOMONTH is the day before a first, and from there the months still to go lead to the
\* same end; EDATE lies as many days past the end of the month before as the date
\* lies in its month, in the next month when the month is shorter; and what the days
\* count between them is what lies between. All of it holds as far as a Duration
\* reaches, 292 years from the epoch; a date beyond is no longer the date it was
\* ("each normalized", fnDate).
MonthsAddUp ==
  LET y == FnYear(serial).num
      m == FnMonth(serial).num
      d == FnDay(serial).num
      End(n) == FnEomonth(serial, n).num
  IN  /\ IsReadable(serial) => /\ FnDate(y, m, d) = Date(serial)
                               /\ FnDatevalue(y, m, d) = Date(serial)
      /\ IsReadable(serial) /\ IsReadable(serial + 1) =>
           FnWeekday(serial + 1, 2) = FnWeekday(serial, 1)
      /\ \A n \in Offsets : (IsReadable(serial) /\ IsReadable(End(n)) /\ IsReadable(End(n) + 1)) =>
           /\ FnDay(End(n) + 1).num = 1 /\ FnDays(End(n), serial) = Number(End(n) - serial)
           /\ \A k \in Offsets : FnEomonth(End(n), k) = FnEomonth(serial, n + k)
           /\ IsReadable(End(n) + d) => FnEdate(serial, n + 1) = Date(End(n) + d)
=============================================================================
