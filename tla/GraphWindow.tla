---------------------------- MODULE GraphWindow ----------------------------
(***************************************************************************)
(* lib/GraphWindow.cc: the part of an image that data is drawn in.  A      *)
(* window has a column of pixels for every interval of time.  Time is      *)
(* UTC, a timekey is a time plus the offset of the station.                *)
(***************************************************************************)
EXTENDS Integers

\* to the grid on which t + offset is a timekey
reduceTime(w, t) == t - ((t + w.offset) % w.interval)

\* a window of width columns that ends at e
EndingAt(width, offset, interval, e) ==
  LET end == reduceTime([offset |-> offset, interval |-> interval], e) IN
    [width |-> width, offset |-> offset, interval |-> interval,
     endtime |-> end, starttime |-> end - width * interval]

getIndexFromTime(w, t) == (reduceTime(w, t) - w.starttime) \div w.interval
getTimeFromIndex(w, i) == w.starttime + i * w.interval
Grid(w) == {getTimeFromIndex(w, i) : i \in 0..w.width}

-----------------------------------------------------------------------------
(* Series of data: functions from timekeys to values                       *)

\* pairs of columns that drawLine joins
Lines(w, data, connected) ==
  LET Has(i) == getTimeFromIndex(w, i) + w.offset \in DOMAIN data
      Between(i, j) == {k \in (i + 1)..(j - 1) : Has(k) \/ ~connected}
  IN  {p \in (0..(w.width - 1)) \X (0..(w.width - 1)) :
         p[1] < p[2] /\ Has(p[1]) /\ Has(p[2]) /\ Between(p[1], p[2]) = {}}

\* columns with a line down to the bottom, and its height
Histogram(w, data) ==
  {<<getIndexFromTime(w, k - w.offset), data[k]>> : k \in DOMAIN data}

\* columns with a line from a lower to an upper value
Ranges(w, lower, upper) ==
  {getIndexFromTime(w, k - w.offset) : k \in DOMAIN lower \cap DOMAIN upper}

\* columns that are shaded because there is nothing to draw
Nodata(w, data) ==
  {i \in 0..w.width : getTimeFromIndex(w, i) + w.offset \notin DOMAIN data}
=============================================================================
