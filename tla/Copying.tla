------------------------------ MODULE Copying ------------------------------
(***************************************************************************)
(* The programs that copy a table in chunks: meteodbdump                   *)
(* (lib/ChunkDumper.cc), meteodbmigrate and meteofixtimestamps (support/). *)
(* One run of one program over one table of one sensor or station.  While  *)
(* meteodbdump reads, the daemons go on inserting.  meteofixtimestamps     *)
(* copies old tables, whose keys are local times, into new ones, and the   *)
(* new version of the daemons has been started before                      *)
(* (support/How_to_migrate): it inserts into the new tables all the while. *)
(*                                                                         *)
(* A row is its timekey and, in the averages, its interval.                *)
(***************************************************************************)
EXTENDS Integers, FiniteSets, FiniteSetsExt

CONSTANTS Times, Intervals,     \* timekeys and intervals of rows
          Stationdata,          \* the interval of rows in the old stationdata
          Behind,               \* Behind[i]: how long before it is made the
                                \* key of a row of interval i is, in averages
          Minute, Hour,         \* 60 and 3600 seconds
          ChunkTime, ChunkRows, \* how much is read at once
          SummerStart, SummerEnd,
          Uninitialized,        \* what a variable may hold that was not set
          MaxCopies, MaxNew     \* bounds

ASSUME CopyingAssumption ==
  /\ Times \subseteq Nat \ {0} /\ IsFiniteSet(Times) /\ IsFiniteSet(Intervals)
  /\ Behind \in [Intervals -> Int]
  /\ Minute \in Nat \ {0} /\ Hour \in Nat \ {0}
  /\ ChunkTime \in Nat /\ Hour <= ChunkTime /\ ChunkRows \in Nat \ {0}
  /\ SummerStart \in Nat /\ SummerEnd \in Nat /\ SummerStart < SummerEnd
  /\ Uninitialized \subseteq Int /\ MaxCopies \in Nat \ {0}
  /\ MaxNew \in Nat

Programs == {"dump", "migrate", "fix"}

VARIABLES program,
          pc,         \* "start", "loop", for migrate "averages", "done"
          source,     \* the rows of the table that is read; for migrate of two
          initially,  \* the rows when the program was started
          written,    \* written[r]: how often row r was written
          t, last,    \* loop variable and end time
          copying,    \* fix: the rows of a chunk that are not inserted yet
          stored,     \* fix: the old rows that are in the new table
          fresh,      \* fix: the rows of the new version in the new table
          refused     \* fix: those of the new version that were refused

newTable == <<copying, stored, fresh, refused>>
copyVars == <<program, pc, source, initially, written, t, last, newTable>>

AllRows == [key : Times, intval : Intervals]
First(rows) == Min({r.key : r \in rows})
Last(rows) == Max({r.key : r \in rows})

-----------------------------------------------------------------------------
(* Local time                                                              *)

Local(time) ==
  IF SummerStart <= time /\ time < SummerEnd THEN time + Hour ELSE time

\* unix_timestamp of mysql: the hour at the end of summer that happens twice
\* is taken for the first one
Unix(local) == Min({u \in {local - Hour, local} : Local(u) = local} \cup {local})

\* mutant of local2time: the minutes are read from a string already cut
local2timeCut(local) == local - (local % Hour)

\* The seconds are dropped, and mktime is told that there is no summer time.
local2time(local) == local - (local % Minute)

-----------------------------------------------------------------------------
CopyInit ==
  /\ program \in Programs
  /\ source \in SUBSET AllRows /\ initially = source
  /\ program = "fix" => \A r \in source : Local(Unix(r.key)) = r.key
  /\ written = [r \in AllRows |-> 0]
  /\ copying = {} /\ stored = {} /\ fresh = {} /\ refused = {}
  /\ pc = "start" /\ t = 0 /\ last = 0

Write(rows) ==
  written' = [r \in AllRows |-> IF r \in rows /\ written[r] < MaxCopies
                             THEN written[r] + 1 ELSE written[r]]

\* rows of one interval of time, the end excluded
Within(from, to) == {r \in source : from <= r.key /\ r.key < to}

Loop(from, to) ==
  /\ pc = "start" /\ pc' = "loop"
  /\ t' = from /\ last' = to
  /\ UNCHANGED <<program, source, initially, written, newTable>>

\* min(timekey) of an empty table is NULL: there is no loop then
NothingToDo ==
  /\ program # "migrate" /\ source = {}
  /\ pc = "start" /\ pc' = "done"
  /\ UNCHANGED <<program, source, initially, written, t, last, newTable>>

Finish ==
  /\ program # "migrate" /\ pc = "loop" /\ t >= last /\ copying = {}
  /\ pc' = "done"
  /\ UNCHANGED <<program, source, initially, written, t, last, newTable>>

-----------------------------------------------------------------------------
(* meteodbdump: ChunkDumper::dump of one table                             *)

StartDump == program = "dump" /\ source # {} /\ Loop(First(source), Last(source))

\* mutant of DumpChunk: both ends are read
DumpChunkClosed ==
  /\ program = "dump" /\ pc = "loop" /\ t < last
  /\ Write(Within(t, t + ChunkTime + 1))
  /\ t' = t + ChunkTime
  /\ UNCHANGED <<program, pc, source, initially, last, newTable>>

DumpChunk ==
  /\ program = "dump" /\ pc = "loop" /\ t < last
  /\ Write(Within(t, t + ChunkTime))
  /\ t' = t + ChunkTime
  /\ UNCHANGED <<program, pc, source, initially, last, newTable>>

\* a daemon inserts a row with the present time
Arrives ==
  /\ program = "dump" /\ pc # "done"
  /\ \E r \in AllRows \ source :
       /\ \A s \in source : s.key <= r.key
       /\ source' = source \cup {r}
  /\ UNCHANGED <<program, pc, initially, written, t, last, newTable>>

-----------------------------------------------------------------------------
(* meteofixtimestamps: copy_table                                          *)

StartFix ==
  program = "fix" /\ source # {} /\ Loop(Unix(First(source)), Unix(Last(source)))

\* a day of local time
FixChunk ==
  /\ program = "fix" /\ pc = "loop" /\ t < last /\ copying = {}
  /\ LET rows == Within(Local(t), Local(t + ChunkTime)) IN
       Write(rows) /\ copying' = rows
  /\ t' = t + ChunkTime
  /\ UNCHANGED <<program, pc, source, initially, last, stored, fresh, refused>>

Fixed(r) == [r EXCEPT !.key = local2time(r.key)]
NewTable == {Fixed(r) : r \in stored} \cup fresh

\* copy_rows: the new table refuses a key it has, and the program goes on.
CopyRow ==
  /\ program = "fix"
  /\ \E r \in copying :
       /\ copying' = copying \ {r}
       /\ stored' = IF Fixed(r) \in NewTable THEN stored ELSE stored \cup {r}
  /\ UNCHANGED <<program, pc, source, initially, written, t, last, fresh, refused>>

\* when a row of the new version is made
Made(n) == n.key + Behind[n.intval]

\* The new version inserts a row, or is refused: its rows are made after the
\* old version was stopped, one after the other, with whole minutes as keys.
NewRow ==
  /\ program = "fix"
  /\ Cardinality(fresh \cup refused) < MaxNew
  /\ \E n \in AllRows :
       /\ n.key % Minute = 0
       /\ \A s \in source : Unix(s.key) < Made(n)
       /\ \A m \in fresh \cup refused : m.intval = n.intval => m.key < n.key
       /\ IF n \in NewTable THEN refused' = refused \cup {n} /\ fresh' = fresh
          ELSE fresh' = fresh \cup {n} /\ refused' = refused
  /\ UNCHANGED <<program, pc, source, initially, written, t, last, copying, stored>>

-----------------------------------------------------------------------------
(* meteodbmigrate: stationdata, then averages                              *)

stationdata == {r \in source : r.intval = Stationdata}

\* firstkey
StartMigrate ==
  /\ program = "migrate"
  /\ Loop(IF stationdata = {} THEN 0 ELSE First(stationdata), 0)

\* "timekey > t order by timekey limit chunksize"
NextRows(table, rows) ==
  LET later == {r \in table : r.key > t} IN
    /\ rows \subseteq later
    /\ Cardinality(rows) = Min({ChunkRows, Cardinality(later)})
    /\ \A r \in rows, s \in later \ rows : r.key <= s.key

\* without a row endtime is not set
EndOf(rows) == IF rows = {} THEN Uninitialized ELSE {Last(rows)}

MigrateChunk ==
  /\ program = "migrate" /\ pc = "loop"
  /\ \E rows \in SUBSET stationdata :
       /\ NextRows(stationdata, rows)
       /\ Write(rows)
       /\ \E end \in EndOf(rows) :
            IF end # t /\ end > 0 THEN t' = end /\ pc' = pc
            ELSE /\ t' = IF stationdata = {} THEN 0 ELSE First(stationdata)
                 /\ pc' = "averages"
  /\ UNCHANGED <<program, source, initially, last, newTable>>

\* Averages are asked for from the first row of stationdata on.  What is written
\* of a row is left out: the offset that is added to its key, and its interval,
\* which the code takes from the column of the lowest temperature.
MigrateAverages ==
  /\ program = "migrate" /\ pc = "averages"
  /\ \E rows \in SUBSET (source \ stationdata) :
       /\ NextRows(source \ stationdata, rows)
       /\ Write(rows)
       /\ t' \in EndOf(rows)
  /\ pc' = IF t' # t /\ t' > 0 THEN pc ELSE "done"
  /\ UNCHANGED <<program, source, initially, last, newTable>>

-----------------------------------------------------------------------------
CopyNext == \/ NothingToDo \/ Finish
            \/ StartDump \/ DumpChunk \/ Arrives
            \/ StartFix \/ FixChunk \/ CopyRow \/ NewRow
            \/ StartMigrate \/ MigrateChunk \/ MigrateAverages

CopySpec == CopyInit /\ [][CopyNext]_copyVars
-----------------------------------------------------------------------------
(***************************************************************************)
(* A dump holds no row twice, also when rows are added while it runs: the  *)
(* insert statements of the two files can be executed as they are.         *)
(***************************************************************************)
WrittenOnce == program \in {"dump", "fix"} => \A r \in AllRows : written[r] <= 1

\* local times of the hour that happens twice
HappensTwice(local) == SummerEnd <= local /\ local < SummerEnd + Hour

(***************************************************************************)
(* Between the first and the last row of the table nothing is lost, where  *)
(* ever the chunks begin and end and whatever meteodbmigrate finds in a    *)
(* variable it has not set.  (The last row is in a dump only if the last   *)
(* chunk does not begin with it, the first is never migrated, and a chunk  *)
(* of averages may end between two rows of one time.  The excepted table,  *)
(* which ends in the hour that happens twice, really loses rows: the loop  *)
(* of meteofixtimestamps may end after the clock was set back, with a      *)
(* local time before that of the last row.)                                *)
(***************************************************************************)
NothingBetweenIsLost ==
  pc = "done" =>
    \A r \in initially :
      /\ First(initially) < r.key /\ r.key < Last(initially)
      /\ program = "fix" => ~HappensTwice(Last(initially))
      /\ program = "migrate" => r.intval = Stationdata /\ First(stationdata) < r.key
      => written[r] >= 1

(***************************************************************************)
(* The copy has the rows of the table, each once: none is lost between the *)
(* first and the last, and none is dumped twice.                           *)
(***************************************************************************)
RowsCopiedOnce == NothingBetweenIsLost /\ WrittenOnce

\* the minute of a time, and the same average or minute
MinuteOf(time) == time - (time % Minute)
SameMinute(r, s) == r.intval = s.intval /\ MinuteOf(r.key) = MinuteOf(s.key)

\* the new version made n within an hour after the old row r
Meets(r, n) == /\ SameMinute(r, n)
               /\ Made(n) - Unix(r.key) \in 1..(Hour + Behind[r.intval])

(***************************************************************************)
(* What the migration costs ("as few data points as possible are lost",    *)
(* support/How_to_migrate): of the rows of one minute one is kept, and     *)
(* besides, rows of the old version and of the new one displace each other *)
(* only if the new one is made within an hour after the old one, and then  *)
(* only one of the two is refused.  In the averages the length of the      *)
(* interval comes on top; without summer time, rows of stationdata cannot  *)
(* meet at all, as Meets is false for them.                                *)
(***************************************************************************)
FixLosesAnHour ==
  /\ \A r \in AllRows \ (copying \cup stored) :
       program = "fix" /\ written[r] >= 1 =>
          \/ \E s \in stored : SameMinute(r, s)
          \/ \E n \in fresh : Meets(r, n)
  /\ \A n \in refused : \E s \in stored : Meets(s, n)
=============================================================================
