------------------------------ MODULE Browser ------------------------------
(***************************************************************************)
(* browser/meteobrowser.php: a page for a label has the graphs of its      *)
(* period, drawn by meteodraw -L, with an image map that leads to the next *)
(* level of detail, and a bar with links back, up and forward that it has  *)
(* from meteolabel.  A reader may follow any of them, page after page.     *)
(***************************************************************************)
EXTENDS TimeAxis

CONSTANTS Width, Offset,     \* of the graph window, from the configuration
          StationStart, Now,
          Horizon            \* bound: the years of the labels

ASSUME BrowserAssumption ==
  /\ Width \in Nat /\ Offset \in Int /\ Horizon \subseteq Nat
  /\ StationStart \in Nat /\ Now \in Nat /\ StationStart < Now

VARIABLE label

\* the script knows days, weeks, months and years
HopsUp(s) == 5 - Rank(s.level)

\* the script repeats the width of the window
starttime(s) == parse(s).midtime - 200 * Interval(s.level)
endtime(s) == parse(s).midtime + 200 * Interval(s.level)

\* mutant of Graph: the graph ends with the label's time
GraphUncentered(s) == EndingAt(Width, Offset, Interval(s.level), parse(s).midtime)

\* drawlabeled: a graph with the time of the label in its middle
Graph(s) ==
  EndingAt(Width, Offset, Interval(s.level),
           parse(s).midtime + Interval(s.level) * (Width \div 2))

\* without a label, the present month is shown
BrowserInit == label = getString(Timelabel(Now, "month"))

Visit(s) == s.year \in Horizon /\ label' = s

\* meteolabel label operator
Ups == [up |-> 1, upup |-> 2, upupup |-> 3]
Downs == [down |-> 1, downdown |-> 2, downdowndown |-> 3]
Moved(tl, operator) ==
  CASE operator = "previous" -> Previous(tl)
    [] operator = "next" -> Following(tl)
    [] operator \in DOMAIN Ups -> Up(tl, Ups[operator])
    [] operator \in DOMAIN Downs -> Down(tl, Downs[operator])
meteolabel(s, operator) == getString(Moved(parse(s), operator))

GoBack == starttime(label) > StationStart /\ Visit(meteolabel(label, "previous"))

GoForward == endtime(label) < Now /\ Visit(meteolabel(label, "next"))

GoUp == \E operator \in DOMAIN Ups :
          Ups[operator] <= HopsUp(label) /\ Visit(meteolabel(label, operator))

Click == \E area \in Areas(Graph(label)) : Visit(area.label)

BrowserNext == GoBack \/ GoForward \/ GoUp \/ Click

BrowserSpec == BrowserInit /\ [][BrowserNext]_label
-----------------------------------------------------------------------------
\* the first day of a period, and the first one after it
FirstOf(level, tm) ==
  CASE level = "day" -> DayNumber(tm.year, tm.mon, tm.mday)
    [] level = "week" -> DayNumber(tm.year, tm.mon, tm.mday) - 2
    [] level = "month" -> DayNumber(tm.year, tm.mon, 1)
    [] level = "year" -> DayNumber(tm.year, 0, 1)
EndOf(level, tm) ==
  CASE level = "day" -> FirstOf(level, tm) + 1
    [] level = "week" -> FirstOf(level, tm) + 7
    [] level = "month" -> NextMonth(tm.year, tm.mon)
    [] level = "year" -> DayNumber(tm.year + 1, 0, 1)
FirstDay(s) == FirstOf(s.level, localtime(parse(s).midtime))
EndDay(s) == EndOf(s.level, localtime(parse(s).midtime))

\* A year with the 30th of June on a Wednesday after a leap day, like 2004 and 2032: its
\* week 27 is written with the year before, whose week 27 it is then read as.
OddYear(year) ==
  /\ DayNumber(year + 1, 0, 1) - DayNumber(year, 0, 1) = 366
  /\ WeekDay(DayNumber(year, 5, 30)) = 3

Midnight(n) == IF IsSummer(n * Day - 2 * Hour) THEN n * Day - 2 * Hour ELSE n * Day - Hour

(***************************************************************************)
(* A label in a URL or in the name of an image means the same to whoever   *)
(* reads it: when it is parsed and written again, it has not changed, in   *)
(* summer and winter and for the weeks around the turn of the year.        *)
(***************************************************************************)
SameWhenReadAgain == getString(parse(label)) = label

(***************************************************************************)
(* The link forward leads to the period that begins when this one ends,    *)
(* the link back to the one before, although both only add or subtract a   *)
(* mean length of months and years.                                        *)
(***************************************************************************)
NeighboursAreAdjacent ==
  /\ FirstDay(meteolabel(label, "next")) = EndDay(label)
  /\ EndDay(meteolabel(label, "previous")) = FirstDay(label)

(***************************************************************************)
(* The links of a page lead where they say, in summer and winter and at    *)
(* the turn of the year: labels keep their meaning in URLs, and back and   *)
(* forward are the periods next to the one shown.                          *)
(***************************************************************************)
LinksLeadOn == SameWhenReadAgain /\ NeighboursAreAdjacent

\* the areas and graphs of weeks begin on Sunday, the weeks of labels on Monday
Sunday(s) == IF s.level = "week" THEN 1 ELSE 0

(***************************************************************************)
(* The graph of a label shows all of its period: every day of the longest  *)
(* month and year is inside the window, and the seven days from Sunday of  *)
(* a week.  (Of the Sunday after them the window lacks the evening.)       *)
(***************************************************************************)
GraphShowsPeriod ==
  /\ Graph(label).starttime <= Midnight(FirstDay(label) - Sunday(label))
  /\ Midnight(EndDay(label) - Sunday(label)) <= Graph(label).endtime

(***************************************************************************)
(* "Clicking on an image should bring up a new page with the next level of *)
(* detail": each day, week or month in the graph has one area of its own   *)
(* that leads to it, also when the clock is changed.                       *)
(***************************************************************************)
DayOf(t) == FirstOf("day", localtime(t))
OneAreaEach(w, areas) ==
  \A a \in areas :
    /\ a.start # w.starttime => DayOf(a.start) = FirstDay(a.label) - Sunday(a.label)
    /\ a.end # w.endtime => DayOf(a.end) = EndDay(a.label) - Sunday(a.label)
    /\ \A b \in areas : a.label = b.label => a = b
OneAreaPerPeriod == OneAreaEach(Graph(label), Areas(Graph(label)))
=============================================================================
