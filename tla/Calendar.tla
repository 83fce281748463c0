------------------------------- MODULE Calendar -------------------------------
(***************************************************************************)
(* The calendar arithmetic of parking_permits/utils.py.                    *)
(*                                                                         *)
(* A date is 31 * (months since year 0) + day of the month - 1, so that    *)
(* dates compare as numbers.  A moment is 24 * date + hour, in UTC, which  *)
(* is how the database returns a time; the last hour of a day stands for   *)
(* 23:59:59.999999.  Functions that convert to Europe/Helsinki do so here, *)
(* functions that compute with the time as it was read compute in UTC.     *)
(***************************************************************************)
EXTENDS Integers

DateOf(year, month, day) == 31 * (12 * year + month - 1) + day - 1
MonthOf(date) == date \div 31
DayOf(date) == (date % 31) + 1

IsLeapYear(year) == year % 4 = 0 /\ (year % 100 # 0 \/ year % 400 = 0)

DaysIn(month) ==
    CASE month % 12 = 1 -> IF IsLeapYear(month \div 12) THEN 29 ELSE 28
      [] month % 12 \in {3, 5, 8, 10} -> 30
      [] OTHER -> 31

\* relativedelta(months=n): a day the month does not have becomes its last day.
AddMonths(date, n) ==
    LET month == MonthOf(date) + n
    IN  31 * month + (IF DayOf(date) > DaysIn(month) THEN DaysIn(month) ELSE DayOf(date)) - 1

\* timedelta(days=n), for n up to the length of the shortest month.
AddDays(date, n) ==
    LET month == MonthOf(date)
        day == DayOf(date) + n
    IN  CASE day > DaysIn(month) -> 31 * (month + 1) + day - DaysIn(month) - 1
          [] day < 1 -> 31 * (month - 1) + DaysIn(month - 1) + day - 1
          [] OTHER -> 31 * month + day - 1

(***************************************************************************)
(* Moments and Helsinki time                                               *)
(***************************************************************************)
DateIn(moment) == moment \div 24
HourIn(moment) == moment % 24
At(date, hour) == 24 * date + hour

AddHours(moment, n) ==
    LET hour == HourIn(moment) + n
    IN  CASE hour > 23 -> At(AddDays(DateIn(moment), 1), hour - 24)
          [] hour < 0 -> At(AddDays(DateIn(moment), -1), hour + 24)
          [] OTHER -> At(DateIn(moment), hour)

\* Summer time begins and ends on the last Sunday of March and of October.
SummerBegins(year) == DateOf(year, 3, 31 - ((((5 * year) \div 4) + 4) % 7))
SummerEnds(year) == DateOf(year, 10, 31 - ((((5 * year) \div 4) + 1) % 7))

\* The hours Helsinki is ahead of UTC, when the clock changes at the given hour.
HoursAhead(moment, changes) ==
    LET year == MonthOf(DateIn(moment)) \div 12
    IN  IF /\ moment >= At(SummerBegins(year), changes)
           /\ moment < At(SummerEnds(year), changes)
        THEN 3 ELSE 2

ToLocal(moment) == AddHours(moment, HoursAhead(moment, 1))
FromLocal(date, hour) == AddHours(At(date, hour), -HoursAhead(At(date, hour), 4))

\* timezone.localdate()
LocalDate(moment) == DateIn(ToLocal(moment))

\* Adding months to a time as it was read, in UTC.
AddMonthsTo(moment, n) == At(AddMonths(DateIn(moment), n), HourIn(moment))

(***************************************************************************)
(* Whole months between two moments                                        *)
(***************************************************************************)
\* relativedelta(end, start): the most months that do not pass the end.
WholeMonths(start, end) ==
    LET months == MonthOf(DateIn(end)) - MonthOf(DateIn(start))
    IN  IF AddMonthsTo(start, months) > end THEN months - 1 ELSE months

DiffMonthsFloor(start, end) == IF start > end THEN 0 ELSE WholeMonths(start, end)

\* The days that remain are never negative, so a month is added even if none does.
DiffMonthsCeil(start, end) == IF start > end THEN 0 ELSE WholeMonths(start, end) + 1

\* The same between two dates.
MonthsBetween(first, last) == DiffMonthsCeil(At(first, 0), At(last, 0))

(***************************************************************************)
(* End times                                                               *)
(***************************************************************************)
EndOfDay(date) == FromLocal(date, 23)

GetEndTime(start, months) == EndOfDay(AddDays(AddMonths(LocalDate(start), months), -1))

\* Mutant: no tolerance for the months that are shorter than the first one.
IncrementExactEndTime(start, end, months) ==
    GetEndTime(start, DiffMonthsFloor(start, end) + months)

\* The end is moved by a tolerance of five days before the months are counted.
IncrementEndTime(start, end, months) ==
    LET tolerant == At(AddDays(DateIn(end), 5), HourIn(end))
    IN  GetEndTime(start, DiffMonthsFloor(start, tolerant) + months)

\* The next date with the given day number, or else the last one of the month.
FindNextDate(date, day) ==
    LET month == MonthOf(date)
        found == 31 * month + day - 1
    IN  IF day > DaysIn(month) \/ found < date
        THEN 31 * month + DaysIn(month) - 1 ELSE found
================================================================================
