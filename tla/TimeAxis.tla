------------------------------ MODULE TimeAxis ------------------------------
(***************************************************************************)
(* The time axis of lib/GraphWindow.cc, and the areas of the image map     *)
(* that lead from it to the labels of shorter periods.                     *)
(***************************************************************************)
EXTENDS GraphWindow, Labels, FiniteSets, FiniteSetsExt

startOfHour(tm) == tm.min = 0 /\ tm.sec = 0
startOfHalfhour(tm) == tm.min \in {0, 30} /\ tm.sec = 0
startOfDay(tm) == tm.hour = 0 /\ tm.min = 0

\* mutant of startOfWeek: midnight only
startOfWeekMidnight(tm) == tm.hour = 0 /\ tm.wday = 0

\* the grid of two hours may fall on odd hours
startOfWeek(tm) == tm.hour \in {0, 1} /\ tm.wday = 0
startOfMonth(tm) == tm.mday = 1

\* times with a dotted line and a tick
Ticks(w) ==
  {t \in Grid(w) :
     LET tm == localtime(t) IN
       CASE w.interval = 60    -> startOfHalfhour(tm)
         [] w.interval = 300   -> startOfHour(tm)
         [] w.interval = 1800  -> startOfDay(tm)
         [] w.interval = 7200  -> startOfWeek(tm)
         [] w.interval = 86400 -> startOfMonth(tm)}

\* an area of the image map that leads to the label of its middle
getArea(w, start, end) ==
  [start |-> start, end |-> end,
   label |-> getString(Timelabel(start \div 2 + end \div 2, DownLevel(LevelOf(w.interval))))]

\* one area up to every tick and to the end (but for those without width)
Areas(w) ==
  IF w.interval <= 300 THEN {}
  ELSE LET ticks == Ticks(w)
           Before(t) == {u \in ticks : u < t} \cup {w.starttime}
       IN  {getArea(w, Max(Before(t)), t) : t \in (ticks \cup {w.endtime}) \ {w.starttime}}
=============================================================================
