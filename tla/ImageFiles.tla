---------------------------- MODULE ImageFiles -----------------------------
(***************************************************************************)
(* Processes of src/meteodraw.cc that draw images of the graphs of the     *)
(* configuration into files, while rows are added to the database.  They   *)
(* are started by cron and by the web server, at any time and side by      *)
(* side.  A process may be killed while it draws.                          *)
(***************************************************************************)
EXTENDS Integers, Sequences, FiniteSets, Functions

CONSTANTS Drawers,
          Graphs,              \* their names
          Drawn(_, _, _, _, _), \* the image of a graph at an interval, up to a time or
                               \* around it, from the rows there are: Graphics.cc
          Exception,           \* what there is instead if it cannot be drawn
          AtStart,             \* the time at which the process was started
          Requests,            \* the command lines in use
          Histories,           \* what the tables may hold at first
          Feed,                \* rows that are added, and when
          Begin, Horizon,      \* bounds: the first and the last time
          MaxRuns, MaxKills,   \* bounds: processes, and those that are killed
          MaxDraw              \* the longest time it takes to draw one image

ASSUME ImageFilesAssumption ==
  /\ Begin \in Nat /\ Horizon \in Nat /\ Begin <= Horizon
  /\ MaxRuns \in Nat /\ MaxKills \in Nat /\ MaxDraw \in Nat
  /\ \A r \in Requests :
       /\ r.images \in BOOLEAN /\ r.graphs \in Seq(Graphs)
       /\ r.intervals \in Seq(Nat \ {0})
       /\ r.labels \in Seq([interval : Nat \ {0}, time : Int])

-----------------------------------------------------------------------------
(* meteodraw                                                               *)

\* Without intervals there is nothing to do: havelabeled is TRUE if there are no
\* labels, and with labels only they are drawn.
readintervals(request, havelabeled) ==
  IF request.intervals = <<>> /\ ~havelabeled THEN <<300, 1800, 7200, 86400>>
  ELSE request.intervals

\* the image of a graph for a label, or the latest one of an interval
JobOf(g, target) ==
  [graph |-> g, interval |-> target.interval, end |-> target.time,
   aligncenter |-> target.time # AtStart, file |-> <<g, target.interval, target.time>>]

\* with labels there are no others
Targets(request) ==
  LET intervals == readintervals(request, request.labels = <<>>)
  IN  IF request.labels # <<>> THEN request.labels
      ELSE [i \in DOMAIN intervals |-> [interval |-> intervals[i], time |-> AtStart]]

\* for every label or interval each graph, by a file of its own
Jobs(request) ==
  LET n == Len(request.graphs)
      targets == Targets(request)
  IN  [k \in 1..(Len(targets) * n) |->
         JobOf(request.graphs[((k - 1) % n) + 1], targets[(k - 1) \div n + 1])]

Files == {job.file : job \in UNION {Range(Jobs(r)) : r \in Requests}}

VARIABLES now, table,
          file,          \* with a ghost, asof: when the data in it was read
          drawer,        \* with a ghost, missed: jobs that met an exception
          runs, kills    \* counted for their bounds

drawVars == <<now, table, file, drawer, runs, kills>>

NoFile == [state |-> "absent", ctime |-> 0, asof |-> 0, writers |-> {}]
NoRequest == [images |-> FALSE, graphs |-> <<>>, intervals |-> <<>>, labels |-> <<>>]
Idle == [pc |-> "idle", request |-> NoRequest, started |-> 0, todo |-> <<>>,
         imgold |-> FALSE, asof |-> 0, missed |-> {}]

DrawInit ==
  /\ now = Begin
  /\ table \in Histories
  /\ file = [f \in Files |-> NoFile]
  /\ drawer = [d \in Drawers |-> Idle]
  /\ runs = 0 /\ kills = 0

Job(d) == Head(drawer[d].todo)
Moves(d, new) == drawer' = [drawer EXCEPT ![d] = new]
Continue(d) ==
  [drawer[d] EXCEPT !.pc = "next", !.todo = Tail(@), !.imgold = FALSE, !.asof = 0]

Start(d) ==
  /\ drawer[d].pc \in {"idle", "done"} /\ runs < MaxRuns
  /\ \E r \in Requests :
       Moves(d, [Idle EXCEPT !.pc = "next", !.request = r, !.started = now,
                             !.todo = Jobs(r)])
  /\ runs' = runs + 1
  /\ UNCHANGED <<now, table, file, kills>>

\* mutant of imageIsOld: only an image that is not there is old
imageIsOldAbsent(f, interval) == file[f].state = "absent"

imageIsOld(f, interval) == file[f].state = "absent" \/ now - file[f].ctime > interval

Drawing(d) == drawer[d].request.images \/ drawer[d].imgold

CheckAge(d) ==
  /\ drawer[d].pc = "next" /\ drawer[d].todo # <<>>
  /\ Moves(d, [drawer[d] EXCEPT !.pc = "query",
                                !.imgold = imageIsOld(Job(d).file, Job(d).interval)])
  /\ UNCHANGED <<now, table, file, runs, kills>>

Done(d) ==
  /\ drawer[d].pc = "next" /\ drawer[d].todo = <<>>
  /\ Moves(d, [drawer[d] EXCEPT !.pc = "done"])
  /\ UNCHANGED <<now, table, file, runs, kills>>

\* with data only if it is going to be drawn
Image(d) ==
  Drawn(Job(d).graph, Job(d).interval,
        IF Job(d).end = AtStart THEN drawer[d].started ELSE Job(d).end,
        Job(d).aligncenter, table)

Construct(d) ==
  /\ drawer[d].pc = "query"
  /\ IF Drawing(d) THEN /\ Image(d) # Exception
                        /\ Moves(d, [drawer[d] EXCEPT !.pc = "open", !.asof = now])
     ELSE Moves(d, Continue(d))
  /\ UNCHANGED <<now, table, file, runs, kills>>

\* mutant of Caught: the exception ends the process
CaughtOutside(d) == [Continue(d) EXCEPT !.todo = <<>>, !.missed = @ \cup {Job(d)}]

\* an exception is caught for each graph
Caught(d) == [Continue(d) EXCEPT !.missed = @ \cup {Job(d)}]

Fails(d) ==
  /\ drawer[d].pc = "query" /\ Drawing(d) /\ Image(d) = Exception
  /\ Moves(d, Caught(d))
  /\ UNCHANGED <<now, table, file, runs, kills>>

\* fopen: what the file had is gone
OpenFile(d) ==
  LET f == Job(d).file IN
    /\ drawer[d].pc = "open"
    /\ file' = [file EXCEPT ![f].state = IF file[f].writers = {} THEN "partial" ELSE "mixed",
                            ![f].ctime = now, ![f].writers = @ \cup {d}]
    /\ Moves(d, [drawer[d] EXCEPT !.pc = "write"])
    /\ UNCHANGED <<now, table, runs, kills>>

\* the database does not answer, or the file cannot be opened
Trouble(d) ==
  /\ drawer[d].pc \in {"query", "open"} /\ Drawing(d)
  /\ Moves(d, Caught(d))
  /\ UNCHANGED <<now, table, file, runs, kills>>

\* the image, when it is not mixed with that of another process
CloseFile(d) ==
  LET f == Job(d).file IN
    /\ drawer[d].pc = "write"
    /\ file' = [file EXCEPT ![f].state = IF @ = "partial" THEN "whole" ELSE "mixed",
                            ![f].asof = drawer[d].asof, ![f].ctime = now,
                            ![f].writers = @ \ {d}]
    /\ Moves(d, Continue(d))
    /\ UNCHANGED <<now, table, runs, kills>>

Kill(d) ==
  /\ ~(drawer[d].pc \in {"idle", "done"}) /\ kills < MaxKills
  /\ drawer' = [drawer EXCEPT ![d] = Idle]
  /\ file' = [f \in Files |-> [file[f] EXCEPT !.writers = @ \ {d}]]
  /\ kills' = kills + 1
  /\ UNCHANGED <<now, table, runs>>

\* rows may be missing; drawing one image does not take longer than MaxDraw
Tick ==
  /\ now < Horizon
  /\ \A d \in Drawers : drawer[d].pc \in {"open", "write"} => now < drawer[d].asof + MaxDraw
  /\ now' = now + 1
  /\ \E arrived \in SUBSET {x \in Feed : x.due = now + 1} :
       table' = table \cup {x.row : x \in arrived}
  /\ UNCHANGED <<file, drawer, runs, kills>>

DrawNext ==
  \/ \E d \in Drawers :
       \/ Start(d) \/ CheckAge(d) \/ Done(d) \/ Construct(d) \/ Fails(d)
       \/ OpenFile(d) \/ Trouble(d) \/ CloseFile(d) \/ Kill(d)
  \/ Tick

DrawSpec == DrawInit /\ [][DrawNext]_drawVars

-----------------------------------------------------------------------------
(***************************************************************************)
(* When a process is done, there is a file for each of its graphs that     *)
(* could be drawn, whatever became of the others.  If the file is whole,   *)
(* the data in it was read no longer before the process started than the   *)
(* interval and the time to draw, although files that are not old were     *)
(* left, and although other processes write the same files (meteodraw.cc). *)
(***************************************************************************)
ImagesAreRecent ==
  \A d \in Drawers : drawer[d].pc = "done" =>
    \A j \in Range(Jobs(drawer[d].request)) \ drawer[d].missed :
      /\ file[j.file].state # "absent"
      /\ file[j.file].state = "whole" =>
           file[j.file].asof >= drawer[d].started - j.interval - MaxDraw
=============================================================================
