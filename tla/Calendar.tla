------------------------------ MODULE Calendar ------------------------------
(***************************************************************************)
(* localtime, mktime and strftime of the C library, as far as the labels   *)
(* and the time axis of the graphs use them, for a place in Central Europe *)
(* (the stations Altendorf and Gurin of the example configuration).        *)
(* Times are seconds since 1970.  In a broken down time, fields start      *)
(* where those of struct tm do, but for the year.                          *)
(***************************************************************************)
EXTENDS Integers

Minute == 60
Hour == 3600
Day == 86400

\* the day number of day d (from 1) of month m (from 0) of a year
DayNumber(year, m, d) ==
  LET y == IF m < 2 THEN year - 1 ELSE year
      fromMarch == (m + 10) % 12
  IN  365 * y + y \div 4 - y \div 100 + y \div 400 + (153 * fromMarch + 2) \div 5
        + d - 719469

\* 1 January 1970 was a Thursday
WeekDay(n) == (n + 4) % 7

LastSunday(year, m, days) ==
  LET n == DayNumber(year, m, days) IN n - WeekDay(n)

\* year and month of a day number
YearOf(n) ==
  LET near == 1970 + (400 * n) \div 146097
  IN  CHOOSE y \in (near - 1)..(near + 1) :
        DayNumber(y, 0, 1) <= n /\ n < DayNumber(y + 1, 0, 1)
NextMonth(y, m) == IF m = 11 THEN DayNumber(y + 1, 0, 1) ELSE DayNumber(y, m + 1, 1)
MonthOf(y, n) == CHOOSE m \in 0..11 : DayNumber(y, m, 1) <= n /\ n < NextMonth(y, m)

\* one hour ahead of Greenwich, two in summer
SummerOf(y, t) ==
  /\ LastSunday(y, 2, 31) * Day + Hour <= t
  /\ t < LastSunday(y, 9, 31) * Day + Hour
IsSummer(t) == SummerOf(YearOf((t + Hour) \div Day), t)

\* the fields of second s of day n, which is in month m of year y
BrokenDown(n, s, y, m, isdst) ==
  [year |-> y, mon |-> m, mday |-> n - DayNumber(y, m, 1) + 1,
   hour |-> s \div Hour, min |-> (s % Hour) \div Minute, sec |-> s % Minute,
   wday |-> WeekDay(n), yday |-> n - DayNumber(y, 0, 1), isdst |-> isdst]
DayAndSecond(n, s, isdst) == BrokenDown(n, s, YearOf(n), MonthOf(YearOf(n), n), isdst)
ClockTime(t, isdst) ==
  LET local == t + IF isdst THEN 2 * Hour ELSE Hour IN
    DayAndSecond(local \div Day, local % Day, isdst)

localtime(t) == ClockTime(t, IsSummer(t))

\* mktime believes tm_isdst
mktime(tm) ==
  DayNumber(tm.year, tm.mon, tm.mday) * Day + tm.hour * Hour + tm.min * Minute + tm.sec
    - IF tm.isdst THEN 2 * Hour ELSE Hour

\* %V of strftime: weeks start on Monday and belong to the year of their Thursday
WeekOf(tm) ==
  LET thursday == tm.yday + 3 - ((tm.wday + 6) % 7)
      leap(y) == DayNumber(y + 1, 0, 1) - DayNumber(y, 0, 1)
  IN  IF thursday < 0 THEN (thursday + leap(tm.year - 1)) \div 7 + 1
      ELSE IF thursday >= leap(tm.year) THEN 1
      ELSE thursday \div 7 + 1
=============================================================================
