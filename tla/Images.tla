------------------------------- MODULE Images -------------------------------
(***************************************************************************)
(* The images that lib/Graphics.cc draws of the graphs of the              *)
(* configuration, for the processes of ImageFiles: the rows of the         *)
(* database, the series made of them, and the columns, scales and axes of  *)
(* the window they are drawn in.                                           *)
(***************************************************************************)
EXTENDS ImageFiles, Columns, Series

CONSTANTS Graph(_),            \* the description of a graph
          Daylight(_)          \* sunrise <= t and t <= sunset, at a station

-----------------------------------------------------------------------------
(* Graphics: an image is what is drawn for each channel                    *)

Element(c, columns) == [type |-> c.type, name |-> c.name, columns |-> columns]

\* of some channels columns are drawn, of curves pairs of columns are joined
drawChannel(w, ds, c) ==
  LET d == getData(ds, c.name)
      lower == getData(ds, c.lower)
  IN  IF c.type \in {"windbackground", "sun"} THEN Element(c, {})
      ELSE IF d = Failed \/ (c.type = "range" /\ lower = Failed) THEN Failed
      ELSE CASE c.type = "nodata"    -> Element(c, Nodata(w, d.data))
             [] c.type = "lowdata"   -> Element(c, Nodata(w, limit(d, c.limit).data))
             [] c.type = "curve"     -> Element(c, Lines(w, d.data, c.connected))
             [] c.type = "histogram" -> Element(c, Histogram(w, d.data))
             [] c.type = "range"     -> Element(c, Ranges(w, lower.data, d.data))
             [] OTHER -> Failed

drawChannels(w, ds, channels) == [i \in DOMAIN channels |-> drawChannel(w, ds, channels[i])]

Window(g, interval, end, aligncenter) ==
  EndingAt(g.width, g.offset, interval,
           IF aligncenter THEN end + interval * (g.width \div 2) ELSE end)

\* the axis of a side is the one for the interval or else the first
axispath(g, side, interval) ==
  LET of == {i \in DOMAIN g.axes : g.axes[i].side = side}
      own == {i \in of : g.axes[i].interval = interval}
  IN  g.axes[Min(IF own # {} THEN own ELSE of)]

DrawnAxis(g, side, interval, ds) ==
  LET x == axispath(g, side, interval)
      scale == Scale(x, ds)
  IN  IF scale = Failed THEN Failed
      ELSE [described |-> x, scale |-> scale, axis |-> Axis(x, scale)]

\* SunData: time keys between sunrise and sunset, by rows of both or by computing
from_database(w, sun, rows) ==
  LET of(field) == {r \in rows : r.field = field /\ r.intval = w.interval} IN
    {r.tk : r \in {q \in of("sunrise") :
       /\ w.starttime + w.offset <= q.tk /\ q.tk <= w.endtime + w.offset
       /\ \E s \in of("sunset") : /\ s.tk = q.tk
                                 /\ q.value < q.tk - sun.offset
                                 /\ q.tk - sun.offset < s.value}}

computed(w, sun) ==
  {k \in {t + w.offset : t \in Grid(w)} : Daylight(k - sun.offset)}

\* Rows of sunrise are those of the console: for a station without one daylight is
\* computed whatever the configuration says.
compute(sun) == sun.console => sun.method = "compute"

\* points on the time axis
drawSun(g, w, rows) ==
  LET keys == IF compute(g.sun) THEN computed(w, g.sun)
              ELSE from_database(w, g.sun, rows)
  IN  IF g.sun = None \/ w.interval = 86400 THEN {}
      ELSE {getIndexFromTime(w, k - g.sun.offset) : k \in keys}

Graphics(g, interval, end, aligncenter, rows) ==
  LET w == Window(g, interval, end, aligncenter)
      ds == addAlldata(Queried(rows, g.selects, w), g.data)
      left == DrawnAxis(g, "left", interval, ds)
      right == DrawnAxis(g, "right", interval, ds)
      channels == drawChannels(w, ds, g.channels)
  IN  IF ds = Failed THEN Failed
      ELSE IF Failed \in {left, right} \cup Range(channels) THEN Failed
      ELSE [window |-> w, left |-> left, right |-> right, channels |-> channels,
            sun |-> drawSun(g, w, rows)]

\* what Drawn is in the processes of ImageFiles
DrawnGraphics(g, interval, end, aligncenter, rows) ==
  Graphics(Graph(g), interval, end, aligncenter, rows)

-----------------------------------------------------------------------------
(* What is in the configuration and in the database                        *)

IsAxis(x) ==
  /\ x.type \in {"static", "dynamic", "toprange", "bottomrange"}
  /\ x.step \in Nat \ {0} /\ x.maxtickcount \in Nat \ {0}
  /\ x.first \in Int /\ x.last \in Int /\ x.origin \in Int \cup {None}
  /\ x.min \in Int \cup {None} /\ x.max \in Int \cup {None} /\ Or(x.min, 0) <= Or(x.max, 1)

\* No two data have a name, nor has a select the name of one, and the time zone of a
\* graph is that of the station whose sun it shows (the sample configuration).
Described(g) ==
  /\ g.width \in Nat /\ g.offset \in Int
  /\ g.data \in Seq(Range(g.data))
  /\ \A i, j \in DOMAIN g.data : g.data[i].name = g.data[j].name => i = j
  /\ \A i \in DOMAIN g.data, j \in DOMAIN g.selects : g.data[i].name # g.selects[j].name
  /\ \A i \in DOMAIN g.data : g.data[i].node \in Nodes /\ g.data[i].node.tag # "constant"
  /\ g.axes \in Seq(Range(g.axes)) /\ \A i \in DOMAIN g.axes : IsAxis(g.axes[i])
  /\ \A side \in {"left", "right"} : \E i \in DOMAIN g.axes : g.axes[i].side = side
  /\ g.sun # None => g.sun.offset = g.offset

\* what is in the tables at one time or another
Tables == {h \cup {x.row : x \in arrived} : h \in Histories, arrived \in SUBSET Feed}

IsRow(r) ==
  /\ r = [intval |-> r.intval, tk |-> r.tk, field |-> r.field, value |-> r.value]
  /\ r.intval \in Nat /\ r.tk \in Int /\ r.value \in Int

\* Rows are on the grid of the graphs' windows: meteopoll.cc and Averager.cc make their
\* keys in the time of the station.
ASSUME ImagesAssumption ==
  /\ Exception = Failed
  /\ \A g \in Graphs : Described(Graph(g))
  /\ \A rows \in Tables : Keyed(rows) /\ \A r \in rows : IsRow(r)
  /\ \A rows \in Tables : \A request \in Requests : \A j \in Range(Jobs(request)) :
       /\ OnGrid(rows, [interval |-> j.interval, offset |-> Graph(j.graph).offset])
       /\ \A s \in Begin..Horizon :
            LET end == IF j.end = AtStart THEN s ELSE j.end IN
              Drawn(j.graph, j.interval, end, j.aligncenter, rows) =
                DrawnGraphics(j.graph, j.interval, end, j.aligncenter, rows)

-----------------------------------------------------------------------------
(* What an image shows of the rows that are in the database                *)

\* images that have just been made
Latest ==
  {[graph |-> Graph(Job(d).graph), image |-> Image(d)] :
     d \in {e \in Drawers : drawer[e].pc = "open" /\ drawer[e].asof = now}}

FieldOf(g, name) ==
  g.selects[CHOOSE j \in DOMAIN g.selects : g.selects[j].name = name].field
IsSelect(g, name) == \E j \in DOMAIN g.selects : g.selects[j].name = name

SunComputed(g, w) == g.sun # None /\ compute(g.sun) /\ w.interval # 86400

\* A histogram has the value of each row in the column of the row's time, and the
\* columns shaded for want of data are the others, be the rows averages under
\* shifted time keys or those of minutes; the points of computed daylight are in the
\* columns of times when the sun is up (Query.cc, GraphWindow.cc, Graphics.cc).
ColumnsShowTheirRows ==
  \A x \in Latest :
    LET w == x.image.window IN
      /\ \A n \in DOMAIN x.image.channels :
           LET c == x.image.channels[n] IN
             IsSelect(x.graph, c.name) =>
               ColumnsShow(c.type, c.columns, w, Shown(table, w, FieldOf(x.graph, c.name)))
      /\ SunComputed(x.graph, w) =>
           x.image.sun = {i \in 0..w.width : Daylight(getTimeFromIndex(w, i))}

OfSelect(g, n) == n.tag = "value" /\ IsSelect(g, n.name)
IsDifference(g, n) == n.tag = "diff" /\ OfSelect(g, n.arg1) /\ OfSelect(g, n.arg2)
IsTotal(g, n) == n.tag = "function" /\ n.name = "accumulate" /\ OfSelect(g, n.arg)

\* Where both fields have rows their difference is drawn, and nowhere else, and the
\* accumulated value is the sum of all rows up to a column: but for graphs of
\* minutes, where columns are lost whose time key is not among the times of the
\* query (Tdata.cc, Dataset.cc).
DerivedFromRows ==
  \A x \in Latest :
    LET w == x.image.window
        ShownOf(n) == Shown(table, w, FieldOf(x.graph, n.name))
    IN  \A i \in DOMAIN x.image.channels, k \in DOMAIN x.graph.data :
          LET c == x.image.channels[i]
              n == x.graph.data[k].node
          IN  c.type = "histogram" /\ c.name = x.graph.data[k].name =>
                /\ IsDifference(x.graph, n) =>
                     DifferenceShows(c.columns, w, ShownOf(n.arg1), ShownOf(n.arg2))
                /\ IsTotal(x.graph, n) => TotalShows(c.columns, w, ShownOf(n.arg))

\* The ticks of the axes on both sides are those that their scales ask for, whatever
\* the data in the image is (Scale.cc, Axis.cc).
TicksFitScale ==
  \A x \in Latest : \A drawn \in {x.image.left, x.image.right} :
    TicksFit(drawn.described, drawn.scale, drawn.axis)
=============================================================================
