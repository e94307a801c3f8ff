------------------------------ MODULE Columns ------------------------------
(***************************************************************************)
(* Which column of a window a row of the database is drawn in: the query   *)
(* of lib/Graphics.cc for a window, and what its columns are meant to show.*)
(***************************************************************************)
EXTENDS GraphWindow, TimeSeries

\* a query has times for a minute's rows, and time keys otherwise
queried(w) == IF w.interval = Raw THEN 0 ELSE w.offset

Queried(rows, selects, w) ==
  perform(rows, selects, w.interval, w.starttime + queried(w), w.endtime + queried(w),
          w.offset)

-----------------------------------------------------------------------------
(* What columns show of the rows                                           *)

\* the rows of a table: one for each key, at times that are on the window's grid
Keyed(rows) ==
  \A r, s \in rows :
    r.intval = s.intval /\ r.tk = s.tk /\ r.field = s.field => r = s
OnGrid(rows, w) ==
  \A r \in rows : r.intval = w.interval =>
    reduceTime(w, r.tk - queried(w)) = r.tk - queried(w)

\* the value a field has in a column: a row of a minute is kept under its time
Shown(rows, w, field) ==
  LET of(i) == {r \in rows :
                  /\ r.field = field /\ r.intval = w.interval
                  /\ r.tk = getTimeFromIndex(w, i) + queried(w)}
  IN  [i \in {j \in 0..w.width : of(j) # {}} |-> (CHOOSE r \in of(i) : TRUE).value]

Pairs(f) == {<<i, f[i]>> : i \in DOMAIN f}

\* a histogram has the value of each row, and where there is none it is shaded
ColumnsShow(type, columns, w, shown) ==
  /\ type = "histogram" => columns = Pairs(shown)
  /\ type = "nodata" => columns = 0..w.width \ DOMAIN shown

\* columns whose time key is among the times of the query
Kept(w) ==
  {i \in 0..w.width : LET k == getTimeFromIndex(w, i) + w.offset IN
     /\ (w.starttime + queried(w)) - w.interval < k
     /\ k <= w.endtime + queried(w)}

\* a difference is drawn where both fields have rows
DifferenceShows(columns, w, a, b) ==
  columns = {<<i, a[i] - b[i]>> : i \in DOMAIN a \cap DOMAIN b \cap Kept(w)}

\* and a total is that of the rows up to a column
TotalShows(columns, w, a) ==
  {p \in columns : p[1] \in 0..w.width} =
    {<<i, SumOver(a, {j \in DOMAIN a \cap Kept(w) : j <= i})>> : i \in Kept(w)}
=============================================================================
