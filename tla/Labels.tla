------------------------------- MODULE Labels -------------------------------
(***************************************************************************)
(* The labels of hours, days, weeks, months and years by which the browser *)
(* pages and image maps address graphs: lib/Level.cc, lib/Timelabel.cc,    *)
(* lib/Timestamp.cc and src/meteolabel.cc.  A Timelabel is its level and   *)
(* the time in the middle of its period; the string that stands for it in  *)
(* URLs and file names is a record of the numbers in it.                   *)
(***************************************************************************)
EXTENDS Calendar, Sequences

CONSTANT NoLabel     \* the exception of a level that cannot go up or down

Levels == <<"hour", "day", "week", "month", "year">>
Rank(level) == CHOOSE i \in 1..5 : Levels[i] = level

-----------------------------------------------------------------------------
(* Level                                                                   *)

Interval(level) == <<60, 300, 1800, 7200, 86400>>[Rank(level)]
Duration(level) == <<3600, 86400, 604800, 2629743, 31556926>>[Rank(level)]
LevelOf(interval) == CHOOSE level \in {"hour", "day", "week", "month", "year"} :
                       Interval(level) = interval

DownLevel(level) == IF level = "hour" THEN NoLabel ELSE Levels[Rank(level) - 1]

-----------------------------------------------------------------------------
(* Timelabel                                                               *)

\* one round of normalize: to the full hour, or noon of the day in the middle
Middle(t, tm, level) ==
  LET full == t - 60 * tm.min - tm.sec
      noon == full - 3600 * (tm.hour - 12)
  IN CASE level = "hour"  -> full
       [] level = "day"   -> noon
       [] level = "week"  -> noon - 86400 * (tm.wday - 3)
       [] level = "month" -> noon - 86400 * (tm.mday - 15)
       [] level = "year"  -> noon - 86400 * (tm.yday - 182)
Reduce(t, level) == Middle(t, localtime(t), level)

\* rounds until the time does not change
normalize(level, t) ==
  LET rounds[wt \in Int] ==
        IF Reduce(wt, level) = wt THEN wt ELSE rounds[Reduce(wt, level)]
  IN  rounds[t]

Timelabel(t, level) == [level |-> level, midtime |-> normalize(level, t)]

Previous(tl) == Timelabel(tl.midtime - Duration(tl.level), tl.level)
Following(tl) == Timelabel(tl.midtime + Duration(tl.level), tl.level)

\* up, upup, upupup: the programs never ask for more than there is
Up(tl, hops) == Timelabel(tl.midtime, Levels[Rank(tl.level) + hops])
Down(tl, hops) == Timelabel(tl.midtime, Levels[Rank(tl.level) - hops])

\* the year that a week is counted in
StringYear(tm) ==
  IF tm.mon < 6 /\ WeekOf(tm) > 26 THEN tm.year - 1
  ELSE IF tm.mon > 6 /\ WeekOf(tm) < 26 THEN tm.year + 1
  ELSE tm.year

Written(level, tm) ==
  [level |-> level,
   year |-> IF level = "week" THEN StringYear(tm) ELSE tm.year,
   week |-> IF level = "week" THEN WeekOf(tm) ELSE 0,
   mon  |-> IF level \in {"month", "day", "hour"} THEN tm.mon ELSE 0,
   mday |-> IF level \in {"day", "hour"} THEN tm.mday ELSE 0,
   hour |-> IF level = "hour" THEN tm.hour ELSE 0]
getString(tl) == Written(tl.level, localtime(tl.midtime))

\* a Wednesday near the beginning of the year
Wednesday(jan1) == jan1 + 86400 * (10 - localtime(jan1).wday)
FirstWednesday(year) ==
  Wednesday(mktime([year |-> year, mon |-> 0, mday |-> 1, hour |-> 12, min |-> 0, sec |-> 0,
                    isdst |-> FALSE]))

\* mutant of WeeksFrom: the first Wednesday found is taken to be in week 1
WeeksFromFirst(t, week) == t + (week - 1) * 86400 * 7

\* then the right number of weeks
WeeksFrom(t, week) == t + (week - WeekOf(localtime(t))) * 86400 * 7
week2time(year, week) == WeeksFrom(FirstWednesday(year), week)

\* there is no summer time in the struct tm that parse fills
parse(s) ==
  LET tm == [year |-> s.year, min |-> 0, sec |-> 0, isdst |-> FALSE,
             mon  |-> IF s.level = "year" THEN 0 ELSE s.mon,
             mday |-> IF s.level \in {"day", "hour"} THEN s.mday ELSE 14,
             hour |-> IF s.level = "hour" THEN s.hour ELSE 12]
  IN  Timelabel(IF s.level = "week" THEN week2time(s.year, s.week) ELSE mktime(tm), s.level)

-----------------------------------------------------------------------------
(* Timestamp                                                               *)

\* breakup_time forgets the summer time again that the first mktime found
localtime2time(tm) == mktime([tm EXCEPT !.isdst = FALSE])
=============================================================================
