# Verification of the meteo weather station tools

This directory holds TLA+ models of the C++ programs of this repository
(`meteopoll`, `meteodequeue`, `meteoavg`, `meteomap`, `meteodraw`,
`meteolabel`, `meteodbdump`, the migration tools, the library in `lib/` and the
pages in `browser/`), TLC configurations that check them on small instances,
and proofs for all values of the constants that the TLA+ proof system checks.

    tlc -workers 2 -config MCDataPath_all.cfg MCDataPath
    tlapm DataPathProofs.tla

`PROJECT.json` lists the components, the runs with their properties, for each
property a mutation of the code that breaks it, the lines each definition
translates, the hazards and the theorems.

## 1. The system

A weather station is polled over a serial line or a terminal server.
`meteopoll` forks a child that wakes the console, reads its calibration and
asks for packets. *Readers* take numbers out of a packet, and *recorders*
collect them for a minute. When the minute changes, the recorders' values
become insert statements. These go straight to MySQL, or through a System V
message queue to `meteodequeue`, which performs them. The rows make up the
table `sdata`. `meteoavg` computes averages over 5 minutes to one day and
inserts them into the table `avg`. `meteodraw` draws graphs of both for the
pages of `browser/`, which address them by labels. Each packet is also
published in a map file that `meteomap` shows.

    console <--> meteopoll child --> recorders --(minute)--> batch of rows
                  ^ fork, wait, |                              |        |
                  | signals     +--> map file --> meteomap     |        | (direct)
                meteopoll parent                         message queue  |
                                                               v        v
     meteodbdump, migration <-- tables <------------- meteodequeue --> sdata
                                                                         |
        browser pages <-- images <-- meteodraw <-- avg <-- meteoavg -----+

| component | state | operations | hard behaviour | what makes it correct |
|---|---|---|---|---|
| Supervision (`src/meteopoll.cc`, `main` part) | `clpid`, `giveup`, signal dispositions, the child | fork, wait, sleep; `kill_child` on SIGHUP, SIGTERM | signals at any instruction, in parent and child; silent station | one child at a time, it is replaced when it ends, SIGTERM ends both, SIGHUP only the child |
| Station link (`Channel`, `DavisStation`, `VantagePro`, `WMII`) | the line, the console's mode, the alarm | open, drain, wake up, calibration reads, LOOP, packets | answers that come late or in part, a LOOP left behind by a dead child, noise | nothing is taken for what it is not; the child gets out of every wait |
| Readers and values (`*Reader.cc`, `*Converter.cc`, station classes) | calibrators | take a number from a packet, calibrate, convert | patterns that mean "no value", signs, clipping | no impossible reading |
| Recorders (`Basic`, `Minmax`, `Wind`, `Last`, `Transmitter`) | running means, extremes, wind vector | update, sendOutlet, reset | incremental means, unreadable packets, a clock set back | mean, extremes and vector are those of the minute's readings |
| Rain recorder (`RainRecorder`) | `value`, `startvalue`, `valid` | the same | the counter wraps, is cleared, unreadable; restarts | rain sent equals rain fallen, except where the code says otherwise |
| Data path (`loop` in `meteopoll.cc`, `SensorStation`, outlets, `Datasink`, `MsgQueuer`, `MsgDequeuer`, `meteodequeue.cc`, `QueryProcessor`) | recorders, `minute`, the batch, the queue, the connection, `sdata` | packet, minute change, flush, receive, perform | death of the child in a flush, crash of the dequeuer, full queue, outages, a clock set back | each reading in one row of its minute; keys unique; rows in order; losses bounded; what is queued is stored |
| Averager (`Averager`, `meteoavg.cc`) | `avg`, what each process has to compute | have, remove, one insert per field, sleep | check-then-act between processes, refused and failing inserts, late data, interrupted sleep, death in an average | no field lost but by a failure of its own, none from incomplete data, none computed twice |
| Daemon and pid file (`Daemon`, `Pidfile`) | the file | stat, read, probe, write, compare, unlink | two daemons starting, stale files, pids used again | the file names the daemon started last |
| Map file (`Mapfile`, `meteomap.cc`) | the file | open, publish, read | a reader between two system calls, a new child | one packet's values |
| Lock (`Lock`, `meteodraw -x`) | two semaphores, undo values, the lock file | setup, enter, leave | creation of the set, death anywhere | limits hold, slots neither leak nor multiply, nobody waits for ever |
| Names (`Configuration`, `Field`, `FQField`, `StationInfo`, `SensorStationInfo`) | caches that are never emptied | look-ups by id and by name | a query that fails between two of one look-up | answers are those of the tables and the file |
| Query layer (`Query`, `QueryProcessor`, `Tdata`, `Dataset`, `Scale`, `Axis`) | series by time | select, combine, accumulate, scale | gaps, shifted time keys, rounding | a column shows its rows |
| Graphs (`meteodraw.cc`, `Graphics`, `GraphWindow`, `Frame`, `SunData`) | image files | check the age, construct, write | processes side by side, killed, rows arriving | images recent, of every graph |
| Labels and pages (`Level`, `Timelabel`, `Timestamp`, `meteolabel.cc`, `meteobrowser.php`) | a label | parse, write, next, previous, up, down | summer time, weeks at the turn of the year | links lead where they say |
| Dumping and migration (`ChunkDumper`, `support/`) | tables, loop variables | a chunk of time or of rows | rows arriving, unset variables, the hour that comes twice | each row copied once, and little lost in the new tables |
| XML outlet, command line tools, upload scripts, build | - | - | - | see section 6 |

They interact through: signals and `wait` (parent and child), the line
(child and console), the message queue (meteopoll and meteodequeue), the
tables (every process), the semaphore set (meteodraw processes) and files (map,
pid, image files). No program has threads.

## 2. The modules

| module | models | kind |
|---|---|---|
| `DrawSlots` | what `meteodraw -x` promises | abstract specification |
| `Sdata` | what the data path promises to readers of `sdata` | abstract specification |
| `Lock`, `LockProofs` | `Lock::setup`, `enter`, `leave` over System V semaphores | implements `DrawSlots`; proofs, with those of `ImageFiles`, `Axes`, `Columns` and `Images` |
| `RainRecorder` | the rain recorder in the polling loop | detailed |
| `Meteopoll`, `MeteopollProofs` | parent and child of meteopoll | detailed; proofs |
| `StationLink`, `LinkProofs` | child, line and console, composed | detailed; proofs |
| `Readers` | readers, tables of readers per station, calibration, conversion | pure operators |
| `Recorders` | recorders of a minute, `addWind` over the minutes; extends `Readers` | detailed |
| `RecorderProofs` | `Readers`, `Recorders` and `RainRecorder` | proofs |
| `DataPath`, `DataPathProofs` | packet to row, both sinks: loop, outlet, queue, dequeuer, server, composed | implements `Sdata`; proofs, with those of `Copying` |
| `Averager`, `AveragerProofs` | daemon and runs of meteoavg on the tables | detailed; proofs |
| `Host`, `HostProofs` | daemons with their pid file, meteopoll and meteomap with the map file | detailed; proofs |
| `Names`, `NamesProofs` | caches of names and of the configuration | detailed; proofs |
| `Copying` | meteodbdump, meteodbmigrate, meteofixtimestamps | detailed |
| `Calendar`, `Labels` | the C library's calendar, labels | pure operators |
| `GraphWindow`, `TimeAxis` | columns of a window; its ticks and areas, with `Labels` | pure operators |
| `Browser` | a reader who follows the links of the pages | composes the four; proofs with those of `Names` |
| `ImageFiles` | meteodraw processes and the files they write | detailed |
| `Axes` | the ticks of an axis | pure operators |
| `TimeSeries` | queries and series of values by time | pure operators |
| `Columns` | a query for a window, and what columns are to show; extends `GraphWindow` and `TimeSeries` | pure operators |
| `Series` | expressions and scales; extends `TimeSeries` and `Axes` | pure operators |
| `Images` | what the processes draw | composes `ImageFiles`, `Columns` and `Series` |
| `MC*` | instances for TLC | |

### Lock

One step is one system call. `LockFile` is `fcntl(F_SETLKW)`; `FindSet`,
`CreateSet`, `SetQueue`, `SetRun` are the `semget` and the two `SETVAL` of
`setup()`; `EnterQueue` and `EnterRun` the two `semop` of `enter()`, `Leave`
the one of `leave()`. The kernel's part is `ProcessEnds`: undo values applied,
record lock dropped. `LockFileRefused` is the early return of `setup()` that
leaves `id` unassigned: it may hold anything, also the id of the set. `Crash`
ends a process at the points in `CrashAt`.

`DrawSlots` knows only who waits and who draws. `ImplementsSlots` is the
refinement, with `waiting <- Holders \ Runners`, `running <- Runners`.

### RainRecorder

`RainUpdate` is `RainRecorder::update` inside `SensorStation::update`,
`UpdateFails` the exception of a reader that finds the invalid pattern,
`RainNewMinute` is `sendOutlet` and `reset`, `NewChild` a new process with a new
recorder, whose `startvalue` is uninitialised. `Tick` and `Midnight` are the
station. The account (`seen`, `lossy`, `reported`, `dropped`) is not in the
code: it compares what fell with what was sent. Rain is counted in ticks, as
calibration and units are linear.

### Meteopoll

The parent's `clpid = fork()` is two steps, `Fork` and `Assign`, and so are
the child's, because a signal handler can run in between. A child is "fresh"
until its own `clpid` is 0, "booting" until it has reset its signal
dispositions, "connecting" until `alarm()` is first called, and then "polling"
or "hung". `HandleTerm`, `HandleHup` and `HandledTerm` are the three ways in
which `kill_child` runs; `kill(0, ...)` reaches the process group.

### StationLink

A step of the child is what happens between two waits in `select()`:
`Connect`, `OpenSerial`, `OpenTcp`, `DrainReads`, `SendNewline`,
`WakeAnswered`, `Ask`, `Reply`, `SendLoop`, `AwaitAck`, `ExpectPacket`,
`ReadPacket` and their time-outs. Bytes are kinds of bytes that carry the
number of the command they answer, so that "taken for the wrong answer" can be
said. The console sleeps, wakes, obeys or does not (`Hears`, `SendPacket`,
`ConsoleSleeps`); its faults (`ConsoleFails`, `LineFault`, a late answer) are
counted. Time passes only where somebody waits: `air` holds the answers under
way with the seconds they still need, `since` the seconds since `alarm()`.
`ConsoleFails` covers loss of power and a line that babbles. A child that dies
leaves the console as it is; the next one meets what it left.
The ghosts `woke`, `verdict` and `misread` record what was read and how.

What a child takes for a calibration or a packet need not be one if the line
lost a byte. The two kinds of station differ: a Vantage Pro is woken up before
each command, so that only noise between the end of `drain(10)` and the reply
deceives it; an old station is asked at once, and takes the last bytes of a
packet that an earlier LOOP left, if those before them were lost. `misread` holds
"noise" and "loss" for this, and both are forgotten with the child.

### Readers and Recorders

A reader returns the set of what it reads: one value, or none for an
exception. `ReadersOf` is the table of the station classes, `Calibrated` and
`Converted` what is done to the number. `Recorders` runs one field through
minutes: `Packet` is `SensorStation::update` with `Station::readValue`,
`Unreadable` its catch, `PacketAfterSetBack` the same with a clock that was
set back, `NewMinute` is `sendOutlet` and `reset`. Running means are computed
as in the code, anew from the old mean at each packet, but in exact rational
numbers, and compared with the sum of all readings times their time. The
variable `table` holds what `Averager::addWind` sums over the rows.

### DataPath

Time is counted in minutes. A recorder is the set of packets in its value, so
that "averaged twice", "forgotten" and "in the wrong minute" can be said
without arithmetic. `Packet` is the whole of `SensorStation::update` and the
test for a new minute, with `Station::sendOutlets` filling the batch;
`SendToQueue`, `PollConnect`, `PollInsert` and `PollQueryFails` send its rows
one by one through either sink; `FlushDone` is `Station::reset` and the
assignment to `minute`. `Receive` takes a message off the queue and only then
`DeqConnect`, `Perform` or `PerformFails` deals with it. `conn[p]` is the
static handle `rwmysql` of process p: the number of the server incarnation it
was made for. `AlarmAllows` is the alarm: a second minute cannot begin before
the next packet has been dealt with, because the child would be killed first.
`SetBack` sets the clock of the machine back.

`Sdata` knows neither children nor batches, connections or sinks. Rows that
were sent are stored in their order, a reading is in one of them only, no two
have the same key while the clock runs forward, and a row is lost by a fault
only, one row by each; after the server went away or the clock was set back,
rows may be lost without one. `ImplementsSdata` is the refinement: `coming` is the
message in the dequeuer's hand before those of the queue, `stored` the table,
`faults` counts children that died, dequeuers that crashed and messages that
were refused, and `forward` and `steady` say that there was no set-back and no
outage. An insert at once, by the direct sink, is `Send` with nothing coming.

### Averager

An average is the set of readings it was made of. `jobs[p]` holds the averages
a process has still to compute and `todo[p]` the fields of the current one;
both kinds of process use the same `Begin`, `Insert`, `InsertNothing`,
`Refused` and `Finish`. `Begin` is `have()` together with the `delete` of
`-a`, and every insert is a step. The query processor of an `Averager` ignores
errors of inserts and deletes (`Averager.cc:37`, `QueryProcessor.cc:432-443`):
an insert that finds its key in `avg` is logged and the next field follows
(`Refused`), and so it is with one that fails for any other reason (`Failed`)
and with the `delete` (`BeginUnremoved`). Only a select that fails ends a
process, as a signal does (`Killed`). `excused` is not in the code: it is the
history of one average, `Watched`, since it was last begun. The daemon's sleep
is `NextEvent`, `Interrupted` and `WakeUp`.

### Host

A step is a system call on the pid file: `Stat`, `ReadOld`, `Probe` (which
goes on whatever it finds, but for `OldIsAnothers`), `CreatePidfile` (the
opening, which empties the file), `WritePid`, and, only in the programs that
unwind their `Daemon`, `Compare` and `Unlink`. `Ends` is an exit or a signal at any
place. `StrangerComes` takes a free pid for another user's program. `OpenMap`
is the construction of a `Mapfile` in a new child, `Publish` the clearing, the
additions and the single write of `Station::update`, `OpenForReading` and
`ReadMap` are meteomap.

### Names

A map is a set of entries, its two sides are filled separately as in the code,
and `Find` that misses gives no answer, where the code reads through `end()`.
Each request is one action with a flag for a failing query. `Truth` is what
the tables and the file say, without any map. Tables and file do not change
while a process runs.

### Copying

One program (`program`) over one table; each action is one chunk. `Arrives`
adds a row with the present time while meteodbdump reads. A variable that was
not set has any value of `Uninitialized`. `written` counts how often a row was
read to be written. `Local`, `Unix` and `local2time` are the clock of the
machine, of MySQL, and the `mktime` of meteofixtimestamps, which leaves out the
seconds and the hour of summer time.

meteofixtimestamps inserts the rows of a chunk (`copying`) one by one
(`CopyRow`) into a table to which the new version of meteopoll and meteoavg has
been writing since before it was started, and goes on doing so (`NewRow`;
`support/How_to_migrate`, steps 3 to 5). Whoever comes second with a key is
refused; `stored` are the old rows that came first, `fresh` the new ones,
`refused` those of the new version that did not. A row of interval `i` gets its
key `Behind[i]` before it is made: in the new version averages have the
beginning of their interval.

### Calendar, Labels, GraphWindow, TimeAxis, Browser

`Calendar` is `localtime`, `mktime` and `strftime` of the C library for
Central Europe. `Labels` computes labels as `Timelabel.cc` does: rounds of
reduction to the middle of a period, mean lengths subtracted, weeks guessed
from the first Wednesday. `GraphWindow` is the grid of columns and what is
drawn in them; `TimeAxis` finds ticks and areas on it. `Browser` has one variable, the label shown: a reader may follow any
link or area of the page, so that all labels of the horizon are reached.

### ImageFiles, Axes, TimeSeries, Columns, Series, Images

`ImageFiles` has processes that check the age of a file, construct the graph
(reading the tables), open the file, which empties it, and close it;
exceptions are caught per graph, and a process may be killed in between. What
an image is is left open (`Drawn`). `asof` and `writers` of a file are ghosts: when its
data was read, and by which processes it was written; so is `missed`, the
graphs of a process that met an exception.

`TimeSeries` makes series, constants or values at time keys, of the rows of a
query (`perform`) and of other series (`apply2`, `accumulate`). `Columns` asks
for those of a window, and says what its columns are meant to show (`Shown`).
`Series` evaluates the expressions of the configuration (`processNode`) and the
scales; `Axes` has the ticks. The nodes of all expressions are the constant
`Nodes`, a finite set in which a node's elements lie deeper (`NodesAssumption`):
`processNode` is a recursive function over it, `NodeOf` what it computes from the
values of the elements. Functions of real numbers are a parameter.
`Images` puts the graphs of a configuration into `ImageFiles`: `Drawn` is
`DrawnGraphics` for all jobs, times and contents of the tables, which
`ImagesAssumption` says and the run's configuration provides. It also says what
a configuration and a table are (`Described`, `Keyed`, `IsRow`, `OnGrid`).

## 3. The runs

All are expected to pass.

| run | instance | shows |
|---|---|---|
| `lock_all` | 3 processes, 2 queue slots, 1 run slot, all modes, death anywhere but between the SETVALs | `SlotsAccounted`, the refinement `ImplementsSlots`, and that a waiter leaves the queue (`WaiterLeavesQueue`) |
| `rain_account` | counter of 4 values, 7 ticks | `NoPhantomRain`, `LossConfinedToWraps` |
| `poll_all` | 2 pids that are used again | `OneChild`, `OnlyTermEndsUnlessEarly`; live: `ChildReplaced`, `HungChildEnds`, `TermEndsAll` |
| `link` | both kinds of station, 3 wake-ups, 2 calibration reads, LOOPs of 2 packets, 2 faults | `WakeupByTheBook`, `CalibrationIsOurs`, `PacketIsOurs`; live: `WatchedDrainEnds`, `PacketsAgain` |
| `recorders` | 20 sensors of all stations and readers, 4 packets, 2 minutes | `MeanIsWeighted`, `ExtremesHold`, `WindIsVectorSum`, `MinutesAddUp`, `ReadingsPossible` |
| `host` | 3 pids, 2 fields, 3 starts, 2 packets | `NamesLastDaemon`, `MapIsOnePacket` |
| `path` | both sinks, 2 recorders, 2 packets, 2 minutes, queue of 2, any two of: a death, a crash, an outage, a set-back | `ReadingsUsedOnce`, `MinuteRows`, `LossBounded`, the refinement `ImplementsSdata`; live: `StoredAfterRecovery` |
| `avg_table` | the daemon and 2 runs on one average of 2 fields; one kill, failing insert or failing delete | `LostOnlyByFailure`, `DaemonSeesAll`, `DaemonComputesOnce` |
| `names` | 2 stations, 2 sensors, 2 fields, each request with and without a failing query | `CachesAreTrue` |
| `copying` | every table of 5 times and 2 intervals, chunks of 2, 2 rows of the new version | `RowsCopiedOnce`, `FixLosesAnHour` |
| `browser` | all labels of 2005 to 2009 | `LinksLeadOn`, `GraphShowsPeriod`, `OneAreaPerPeriod` |
| `images` | 2 processes, 3 graphs, 2 intervals, one kill, one row arriving | `ColumnsShowTheirRows`, `DerivedFromRows`, `TicksFitScale`, `ImagesAreRecent` |

### Bounds

They bound counters the code does not have, or that grow for ever.

* `Lock`: one process more than queue slots and two more than run slots gives
  a refused, a waiting and a drawing process at the same time; processes are
  started again without limit. Symmetry is not used because of liveness.
* `RainRecorder`: `CounterSize = 4` with up to 3 ticks between two packets
  lets the counter wrap anywhere, meet the invalid pattern (its top value),
  and be cleared and overtake its old value in one interval; `MaxFallen = 7`
  is nearly two rounds. `Garbage` is a value below and one above.
* `Meteopoll` has no bound but two pids: one for the child that ended and one
  for its successor, which may have the same pid.
* `StationLink`: `Iterations = 3` is the code's; `LoopCount = 2` has a last
  packet and one before it, `Reads = 2` a reply that can be taken for that of
  another read. An answer is late by 7 seconds (`Late`): more than a read
  waits (6), less than `drain(10)`, and at most what the theorems assume. Two
  faults let one happen while the other is being overcome.
* `Recorders`: two readings make a mean, a third changes it, a fourth falls
  into the next minute; gaps of 1 and 2 give unequal weights, a set-back of 4
  is longer than a minute of the model has. `Short = 1` makes one gap too
  short for the wind's mean. The sensors have every reader, each unit that
  is converted, and fields whose class, unit or reader is missing.
* `Host`: three pids let two daemons overlap while a third is a stranger or
  starts; `MaxStarts = 3` lets a pid be used again. Pids and fields are
  interchangeable (symmetry). `MaxPackets = 2` tells an old field from a new.
* `DataPath`: two minutes give two flushes, so keys of successive flushes and
  of successive children meet; two fields give batches that can be cut in
  half, and with four rows a queue of two fills up. `MaxFaults = 2` allows any pair of
  faults, among them a crash during an outage and a death after the clock was
  set back. `Plain` has one field that sends without a reading.
* `Averager`: the unit of time is scaled so that `Base = 2` (300 s) and
  `Delay = 1` (30 s); what matters is `Delay < Base` and a moment on each side
  of it. `MaxTime = 3` covers one event of the daemon and the time after;
  two runs and the daemon are all that can meet over two fields. `Watched`
  is the one average of that time; the proofs are about any. `MaxFaults = 1`
  lets any one process fail while the others go on as they should. The two runs are
  interchangeable and the properties are invariants, so the run uses symmetry.
* `Names`: two sensors of the same name at different stations, one without
  fields in the file, ids and names that no table has, an XPath that is none;
  the caches only grow, so all states are reached without a bound.
* `Copying`: a minute is 2, an hour and a chunk 4. Times 8 and 9 are of one
  minute, the others of different ones. Summer is 2 to 7 of the machine's time,
  local times 6 to 11: so rows of the summer are moved by the hour, 8 to 11 is
  the hour that comes twice, and a table may begin before, in or after it.
  `Behind` is 3 for averages. Chunks of 2 rows
  end on a row, between rows and between rows of one time; -1, 0, 2 and 9 are
  before and within the table. `MaxCopies = 2` is enough to see a row twice,
  `MaxNew = 2` to have one row of the new version refused and one inserted.
* `Browser`: one leap year, one year with 53 weeks, and years that begin on
  five different days of the week. 2004 is outside: its week 27 is written
  with the year before (section 5). The theorems about the pages are for all years
  that are not like it; `TheoremsApply` has TLC evaluate what they assume.
* `Images`: windows of four columns, values that make scales with one and with
  many ticks; one station with a console, whose rows show the daylight, and one
  without, for which it is computed whatever the configuration says
  (`SunData.cc:19-34`); two processes are all that can mix in one file; times 15 to 19
  are longer than the longest interval and the time to draw.

`CHECK_DEADLOCK FALSE` is used where a behaviour may end: `Meteopoll` (the
daemon has ended), `Copying` (the program is done), and `DataPath`,
`Recorders`, `Images` (the bounds are used up). The others can always go on,
and TLC checks that they do.

### Fairness

* `Lock`: a process that was started goes on (weak fairness of its steps), and
  a sleeper in `semop` is not passed over for ever (strong fairness of
  `EnterRun`), since Linux wakes sleepers of a semaphore in their order of
  arrival. Nobody has to die or to start.
* `Meteopoll`: both processes are scheduled, signals are delivered, an armed
  alarm goes off. The station need not answer and a child may connect for
  ever, since no alarm is armed before the first packet is awaited.
* `StationLink`: the child is scheduled, a time-out of `select()` and an armed
  alarm come, what is under way arrives, a console in a LOOP sends its
  packets and a babbling one babbles. The console need not come back
  (`ConsoleReturns` is not fair): `PacketsAgain` says what happens if it does.
* `DataPath`: meteodequeue's loop goes on, somebody starts it again, the server
  comes back. Nothing is assumed of meteopoll or the station.
* The other modules have safety properties only.

## 4. What is proved

All theorems are of the form `Spec => []P` (or an action property, or a
refinement) for all constants that satisfy the module's `ASSUME`, which TLC
evaluates in each run. `TypeCorrect` is `Spec => []TypeOK`.

| module | theorems | how |
|---|---|---|
| `LockProofs` | `TypeCorrect`, `LimitsHold`, `NoSlotLeaks`, `Refinement` | The limits alone are not inductive: a step that gives back a slot must know that the undo value matches the control point (`UndoMatchesHolders`), that the initialisation is done by one process (`SetupIsExclusive`) before anyone holds a slot (`NothingBeforeSetval`). `NoSlotLeaks` assumes that nobody dies between the SETVALs. |
| `LockProofs` (image files) | `ImagesStayRecent` | `DrawerInv`: of the images a process has to make, each is still to do, was missed, or is recent; one that is not old by its `ctime` was begun from data at most `MaxDraw` older than that (`FileInv`), whichever process wrote it. |
| `LockProofs` (axes) | `TicksFitEveryScale` | Powers of ten, a fifth and a half of them: the step that is chosen makes at most `maxtickcount` intervals (`StepIs`). The rest is rounding. |
| `LockProofs` (columns) | `ColumnsShowRows`, `DifferenceOfRows`, `TotalOfRows` | The time of a column is on the window's grid and has that column (`ColumnAndTime`), and each time on the grid has one (`TimeHasColumn`); so the keys of a series and the columns with rows correspond one to one (`SeriesOfSelect`), the times of a query and the columns that are kept too (`TimesOfQuery`), and a sum over keys is one over columns (`SumOfImage`). |
| `LockProofs` (images) | `ImagesShowTheirRows`, `DerivedRowsAreShown`, `TicksAlwaysFit` | `TablesInv`: what is in the tables is always one of `Tables`, and an image just opened was drawn without an exception from what is in them now (`LatestMade`). A name keeps its series while data elements are added (`NamesStay`), so each is computed from the selects as they were queried (`ElementIs`, `SelectIs`, `DerivedIs`). For the ticks, all series of a data set are finitely many integers (`DataSetIsSeries`, by the depth of nodes), so scales are made of integers, with a range that is not negative (`ScaleIs`). |
| `RecorderProofs` | `TypeCorrect`, `MeanCorrect`, `ExtremesCorrect`, `WindCorrect`, `MinutesCorrect`, `ReadingsCorrect` | First what each reader and converter can return (`ByteReads` and the like). Then `MeanInv`: the mean is the sum of all readings times their time, over that time, unless the clock was set back; `SumInv`, `SquareInv`: the sum is as long as any bound of the readings allows, for which the squares need the inequality of Cauchy and Schwarz (`SumIsNotLonger`); `ClockInv`, `ExtremesInv`, `GustInv`, and `TotalInv` for the sums over the minutes. |
| `RecorderProofs` (rain) | `RainTypeCorrect`, `NoRainInvented`, `RainLostOnlyAtWraps` | The counter is known relative to the last sample (`CounterFollows`): without a restart it is the last value plus the ticks since, after one it is at most those ticks. |
| `MeteopollProofs` | `TypeCorrect`, `AtMostOneChild`, `TermIsPassedOn`, `DaemonSurvives` | `ChildPlace` ties the parent's control point to the one child that may exist; `ZeroExitIsEarly` says that exit status 0 comes only from a child that ran the parent's handler. |
| `LinkProofs` | `TypeCorrect`, `WakeupFollowsTheBook` | A wake-up that runs has no verdict yet (`WakeupInv`), one that is called for calibration has reads left (`Asking`), and a console in a LOOP has packets left (`LoopingHasPackets`): the last two are what keeps the counters in range. |
| | `CalibrationCorrect`, `PacketCorrect` | `LineInv` says what may be on the line at each point of the child's program: when `drain(5)` ends, at most what an old station refuses (`AtDrain`); after a newline, its answer with noise behind it (`AtAnswer`); before a command silence (`AtAsk`), after it the reply or what the line made of it (`AtReply`); in a LOOP, packets of this LOOP in their order (`Current`, `InTurn`). Assumes `DrainedDelays`, see below. |
| `HostProofs` | `TypeCorrect`, `LastDaemonIsNamed`, `MapHasOnePacket` | `UnlinksItsOwn`: who is about to remove the file has found its own pid in it; `NoneIsLost`: nobody is between opening and writing while the file is about to go. For the map, data under construction is of one packet, and what meteomap opened stays there (`OpenedIsThere`). |
| `DataPathProofs` | `TypeCorrect`, `RowsOfMinutes`, `ReadingsAreUsedOnce`, `LossIsBounded`, `TableGrowsInOrder`, `TableIsServed` | A conjunction of parts, each proved from `TypeOK`, `Shape` and the parts before: `KeyInv` (the loop's minute is not behind any timekey in use), `MinuteInv` (with the alarm), `ReadingInv` and `ForgottenInv` (what recorders and rows share), `OrderInv` (table, hand and queue are in order), `PlaceInv` (no row in two places), `ServerInv`, and `LossInv`, an account of the rows lost by cardinalities for each sink (`DirectLossStep`). `TableIsServed` is the refinement: a row that is sent follows those before it by `KeyInv` and `ReadingInv`, the queue is stored head first, and `Perform` fails only after an outage or a set-back (`PerformSucceeds`). |
| `DataPathProofs` (copying) | `CopiesAreComplete`, `FixLosesOnlyAnHour` | `ByTimeInv`: before the place where the loop is everything but the first row was written, once, and nothing behind it; `MigrateInv` the same by keys. Chunks of rows need no induction: what a chunk leaves out is behind its last row (`ChunkIsComplete`). `FixInv`: an old row that was inserted has its key in the new table, and rows of the new version are made after all old ones; two rows of one key are then of one minute, and made within the hour that `local2time` may move the old one (`MeetsWithinAnHour`). |
| `AveragerProofs` | `TypeCorrect`, `DaemonMissesNothing`, `DaemonNeverRefused`, `AveragesAreKept` | `PunctualInv`: every average of the daemon ended at least `Delay` ago; `OnceInv`: averages in the table end before the slot it waits for; what is lost only by a failure is inductive with `WorkInv` (only a process at work has fields to do), and `Kept` says which steps can touch a field that has its row or is to get it: removals that begin the average anew, the insert of this field, and deaths. |
| `NamesProofs` | `NothingIsMistaken` | What a cache holds is in the tables or the file (`FieldsTrue`, `FqFieldsTrue`, `SensorsTrue`, `ConfigTrue`), and the two sides of each pair of maps agree. The keys of the tables (`TablesAssumption`, the unique keys of `db/meteo.sql`) make the answer the only one. |
| `NamesProofs` (pages) | `PagesHaveLabels`, `LinksAreTrue`, `GraphsShowTheirPeriods`, `AreasArePeriods` | From the calendar upwards: a day is in one year (`YearIs`), month (`InMonthIs`) and week; what `localtime` shows of a time (`ClockIs`, `FieldsAre`); noon of a day is more than three hours from any change of the clock, so that the rounds of `normalize` end after two, at noon of the middle day (`TwoRounds`, `Normalized`); the week of a Wednesday and the year it is written with (`WeekIs`, `StringYearIs`). Hence every `Timelabel` is written as the label of a period (`LabelsAreLabels`), and the invariant `LabelInv`: so is that of the page shown. A label alone, without it, may be of a week that no year has. The neighbours are found by mean lengths, which lead from the middle of a period into the next one (`NeighboursAre`). For the areas, ticks are where a day, week or month begins (`TicksOfWindow`), in the order of their days (`TicksInOrder`), and each part of a period has exactly one between its ends (`OneAreaInGraph`). |

`SlotLimits` (`LimitsHold`), `TermReachesKnownChild` (`TermIsPassedOn`) and
`StoredInOrder` (`TableGrowsInOrder`) are proved and, being weaker than or implied by what the runs check, are not
checked by a run of their own; neither are the type invariants. The
strengthened invariants were checked on the instances of the runs before they
were proved.

`CalibrationCorrect` and `PacketCorrect` assume `DrainedDelays`: no answer is
later than the 3 seconds the parent sleeps before the next child and the 5
seconds of silence for which that child drains the line. The code does not
exclude longer delays; an answer 15 seconds late to a child that was killed is
taken for a calibration by its successor (TLC finds it with `Late = {15}`).
Nothing else is assumed of faults, whose number is arbitrary. With two faults,
as in the run, no old station is deceived; with three it is: the child dies in
a LOOP, the line loses the beginning of a packet, and the rest passes for a
reply. This is why both properties make an exception for bytes lost since the
child was forked.

The theorems about images assume `ImagesAssumption` and `NodesAssumption`: unique keys,
as in `db/meteo.sql`; rows on the grid of the graphs' windows, which averages
always are, and rows of minutes if the offset of the station is a multiple of a
minute; names of data that are no names of selects or of other data; functions
applied to series, since a constant leaves its times unset (`Tdata.h:28`); axes with
a positive step and number of ticks. A graph without them is
drawn by the code as well, but not as a reader would expect. `TicksAlwaysFit`
also assumes that a formula of physics gives a number or throws
(`FormulasAreNumbers`). Sums, powers, data sets and expressions are recursive
functions here; what they compute is proved without an induction theorem, from
the fact that a set of numbers has a least one (`LeastNumber`).

The theorems about pages are for every clock of the station's start and the
present, any set of years and any length of browsing, by the rules of Central
Europe for summer time, which `Calendar` has for all years. `LinksAreTrue` and
`AreasArePeriods` assume that no year shown has an odd week (`NoOddYear`): a
leap year with the 30th of June on a Wednesday, which are 2004, 2032 and so on.
`GraphsShowTheirPeriods` and `AreasArePeriods` assume images of 400 columns:
the script, too, takes this width for granted when it tells the first and last
day of a page (`meteobrowser.php:91-124`), and a narrower image would not show
all of a month. `AreasArePeriods` assumes an offset that puts the grid of columns
on the full hours of winter time, like the 3600 of
`conf/meteo-60.xml:66`; with another
one midnight is in no column, and there are no areas.

Only model-checked:

* liveness (`WaiterLeavesQueue`, `ChildReplaced`, `HungChildEnds`,
  `TermEndsAll`, `WatchedDrainEnds`, `PacketsAgain`, `StoredAfterRecovery`),
  which needs fairness and `ENABLED`, out of the prover's reach.

The theorems rest on these readings of the environment:

* a handler installed by `signal()` stays installed and interrupted system
  calls are restarted (BSD and glibc); SIGINT is like SIGTERM; no stranger has
  a pid that once was a child's;
* the destructor of the message queue, which would remove it, is not run:
  both programs leave by `exit()` or a signal;
* a packet belongs to the minute the loop reads off the clock after it;
* which data sinks can be made does not change, so that every child chooses the
  same from the preferences (`newDatasink`); field ids order the batch;
* `avg` and `sdata` are changed by nothing but the modelled programs, and one
  statement is atomic; a single `write` or `read` of the map file is too;
* pids have the same number of digits, so that two daemons that write the pid
  file at once leave one of the two pids and not a mixture.

## 5. Where the code and its documents differ

None of these has a run of its own: the models have the code as it is, and the
properties say what holds of it. Line numbers without a directory are in
`lib/`.

Supervision, link, data path:

* `Lock.cc:99`: a creator that dies between `semget` and `SETVAL` leaves a set
  that every later process takes as initialised (the comment at 58 speaks of
  the missing atomic constructor). `LimitsHold` and `Refinement` hold even so.
* `src/meteopoll.cc:275`: a SIGTERM between `fork()` and the assignment of
  `clpid` goes to the previous child or to nobody (`man/meteopoll.1:150-152`);
  `TermReachesKnownChild` and `TermEndsAll` make this exception.
* `src/meteopoll.cc:72`: a SIGHUP before there is a child, or in a child that has
  the parent's handler, ends the daemon (`man/meteopoll.1:154-156`).
* `src/meteopoll.cc:64`, 126: `clpid` is stale while the parent sleeps; the
  alarm is first armed after the connection and the first `startLoop`.
* `VantagePro::wakeup` takes an answer to a fourth attempt for a failure.
* `QueryProcessor.cc:50`: the handle is never renewed, although the comment
  at 204 and `man/meteodequeue.1:18-23` expect a server that is restarted; it
  works if the client library reconnects by itself. Line 91 asks for the error
  of a handle that is closed.
* `db/meteo.sql:148-150` calls `timekey` the beginning of the interval; the
  loop uses the minute in which the interval ended.
* `Datasink.cc:84-89` builds default preferences and passes an empty list;
  meteopoll without `-b` writes rows to the debug log only
  (`src/meteopoll.cc:256`). After a preference for `mysql` no other is tried
  (`man/meteopoll.1:57-62`), since the connection is made by the first row.

Readings and recorders:

* `RainRecorder::update` loses the tick that wraps a counter that runs over;
  its comment says as much (`LossConfinedToWraps` allows for it).
* `Recorder.h:62`: `getValue` is not virtual, so the map file shows the rain
  counter and not the rain of the minute, and no wind (`NEWS:9-15`,
  `man/meteopoll.1:93-95`). `man/meteomap.1:21` says the map has 8 k; it has 2.
* `BasicRecorder.cc:113`: a bare recorder without a reading sends 0.0.
  `MinmaxRecorder::getMax` returns the mean; `WindRecorder` does not count the
  first sample of a minute; `storeminmax` is always false. `RecorderFactory`
  has no recorder for `LevelValue`.
* `WMII.cc:58` and its like in GroWeather and Health read a humidity calibration of one byte
  as two without sign; Health clips at the bottom with 100. Energy has slope
  0 for a temperature, and inside and outside exchanged. The temperature
  calibration of GroWeather is not divided by ten. Wind calibrations are read
  and not applied. A station whose table of readers lacks a field to calibrate does not start.
* `VantagePro.cc:78-81` does not divide the calibration of an extra temperature
  by ten, as it does for every other temperature; a rain collector of unknown
  type (50) is only logged.
* The nibble reader compares unsigned numbers with the pattern of signed ones,
  and rejects 0xfff too; `TimeReader::value` ignores `valid()`.
* Factors of `PressureConverter` are not inverse to each other (0.8%);
  `TemperatureConverter` throws for F to K, and not for an unknown unit from
  K; `LeafwetnessConverter` does not know the unit "index" that readers and
  database use; `WindSpeed::setUnit` uses the converter of temperatures; a
  converted value keeps the unit it had.

Daemons:

* `Pidfile.cc:94`: a process that is found alive does not stop the new one,
  which overwrites its file; a stale pid that another user has got does.
* `Daemon.cc:109` may remove the file of a daemon that starts between its look
  and its `unlink`; only meteoavg and meteodequeue run this destructor at all.

Averages:

* `Averager.cc:129`: `<=` puts the reading at the boundary into two averages
  (`man/meteo.sql.5:130-136`: "not including").
* `src/meteoavg.cc:55`: a daemon back from work in the 30 s after a multiple
  of 300 skips that event (comment at 35-37). `-r n` computes n + 1 intervals
  (line 253). An average of which an insert failed, or which a kill left in
  part, is completed by nothing but a run with `-a` (`Averager.cc:355`).

Tables, dumps, migration:

* meteodbmigrate never copies the oldest record; averages begin at the first
  key of `stationdata`, and lose rows of one timekey at the end of a chunk;
  their `intval` is taken from another column (`support/meteodbmigrate.cc:384`),
  which `MigrateAverages` leaves out, as it does the offset added to keys (253);
  the end of an empty chunk is not set (271, 346).
* meteofixtimestamps puts rows of the summer one hour late (36, 55), where they
  may meet rows of the new version, and the later insert is only reported
  (161-163). Rows of one minute become one (49). It loses the last row if it is
  at the end of a day, and its option `-b` cannot be given. If the old table
  ends in the hour that comes twice, its loop, which counts in unix time, may
  end with a local time before the last rows, and these are not copied (252):
  `NothingBetweenIsLost` is false for such tables and excepts them.
* meteodbdump "dumps all data tables" (`man/meteodbdump.1`), but not a last
  row with which a chunk would begin, nor a table of one row.
* longitude and latitude of Altendorf look exchanged in `db/meteo.sql`.

Labels and graphs:

* `Timelabel.cc:243`: week 27 of a leap year with its Wednesday in June (2004,
  2032) is written with the year before; the label after w200426 is w200327, and
  `LinksLeadOn` is violated if 2004 is in the horizon. `OddWeekIs` proves that
  there are no others.
* `man/meteolabel.1:57-62` exchanges previous and next. `Timestamp.cc:57` puts
  time stamps of the summer one hour late, and labels of hours shift each time
  they are parsed in summer. `Timelabel(datestring, level)` lacks the -1900 and -1 of `mktime`.
* The graph of a week lacks the evening of the ISO week's Sunday. A zone
  without midnight on the day of change would lose the area of that day.
* `src/meteodraw.cc:83`: the flag for labels is inverted, so that without
  `-i` and `-L` nothing is drawn.
* The nodes `sum` and `mult` of a graph never return (`Dataset.cc:209-236`);
  a constant as second operand is exchanged with the first (`Tdata.cc:98-103`);
  the exception for different intervals is made and not thrown (115);
  "intersection" is the union (119-123); series derived at an interval of 60
  lose columns if the station has an offset; an average of nothing is 0, its
  extremes are plus and minus 10000000.
* `Scale.cc:94`, 111 are overwritten at once; an axis may have one tick more
  than `maxtickcount`; a side without an axis for the interval takes one that
  is tagged for another. The wind chill in Celsius converts `tempF`.
* Images are written in place (`Frame.cc:241`), and averages that came later
  than a fresh image wait for the next one.

## 6. Not modelled

* `Lock` in the build without System V semaphores (file locks only), and the
  Unix domain socket in place of the message queue.
* The foreground mode of meteopoll, command line options, the fork and session
  handling of `Daemon`, failures of system calls that the code only reports.
* `FileChannel`, the option `crc=off`, failing writes to the console.
* The wind averages of the daemon as inserts (their arithmetic is in
  `Recorders`), `meteoavg -n`, and its loop over several sensors, which
  repeats what is modelled with other keys.
* What a failed `fork` of meteopoll does to `clpid`: it is -1 for the moment until
  `exit()`, and a signal then would be passed on to every process of the user.
* The second acknowledgement of `DavisStation::startLoop`, "OK" between empty
  lines; the total of the console that `RainRecorder::sendOutlet` sends as well;
  a map that does not fit into its buffer of 2048 bytes or is written in part
  (`Mapfile.cc:83-94`).
* File and debug sinks; the XML outlet, which writes what the map file holds
  as text.
* `meteolast`, `meteosensors` and `meteosunriset` read the database once and
  print. (`meteolast` asks for the newest row and then for its fields, without
  a transaction, and prints no wind direction.)
* The scripts in `wunderground/`: Perl that reads the old tables.
* Floating point formulas (`Sun`, `Dewpoint`, `Heatindex`, `Windchill`),
  colours, texts and pixels of images; number formats.
* `Configuration::getGraph*` and `Field::isWind`, which no program calls.

## 7. Plan

The models follow the importance of a part for the data; all parts with state
or arithmetic of their own have one. What is left, in this order:

1. The wind averages as four inserts in `Averager`, with the averages already
   proved.
2. `Host` composed with `Meteopoll`, so that parent and child of one daemon
   are told apart in the pid file as well.
3. The nearest record of `meteolast`, as two queries against an inserting daemon.
