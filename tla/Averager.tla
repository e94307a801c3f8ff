------------------------------ MODULE Averager ------------------------------
(***************************************************************************)
(* The table avg and the processes that fill it: the daemon meteoavg,      *)
(* which wakes up shortly after every multiple of its shortest interval,   *)
(* and runs of meteoavg on the command line, for a range of times and with *)
(* or without -a.  They share the tables sdata and avg and nothing else;   *)
(* every query is a step of its own.                                       *)
(*                                                                         *)
(* An average is the set of the readings it was computed from.  One sensor *)
(* station is modelled: the averagers deal with one after the other in the *)
(* same way.  Fields are numbered in the order of getAverages().           *)
(*                                                                         *)
(* The query processor ignores errors of inserts and of deletes: they are  *)
(* logged and the next query follows.  An error of a select is an          *)
(* exception nobody handles before main().                                 *)
(***************************************************************************)
EXTENDS Integers, FiniteSets

CONSTANTS Daemon, Runs,   \* the processes
          Fields,         \* the fields to be averaged, in their order
          Base, Delay,    \* 300 and 30 seconds
          Intervals,      \* 300, 1800, 7200 and 86400 seconds
          Offset,         \* column offset of the station
          Watched,        \* any average: the one whose history is kept
          MaxTime, MaxData, MaxJobs, MaxRuns, MaxFaults \* bounds

ASSUME AveragerAssumption ==
  /\ Daemon \notin Runs
  /\ Fields \subseteq Nat
  /\ Base \in Nat \ {0} /\ Delay \in Nat /\ Delay < Base
  /\ Intervals \subseteq Nat \ {0}
  /\ Offset \in Int
  /\ Watched \in [tk : Int, intval : Intervals]
  /\ {MaxTime, MaxData, MaxJobs, MaxRuns, MaxFaults} \subseteq Nat

VARIABLES now,      \* the time
          sdata,    \* keys of the rows of sdata
          late,     \* a row came later than the daemon allows for
          pc,       \* "down", "sleep", "check", "work"
          next,     \* when the daemon wakes up
          replace,  \* replace[p]: the option -a
          jobs,     \* jobs[p]: the averages p has still to compute
          todo,     \* todo[p]: fields of the current one still to compute
          avg,      \* rows of avg
          excused,  \* fields of the average Watched that need no row: it was
                    \* never begun, or since it was begun last there were no
                    \* readings, the insert failed or the process was killed
          manual,   \* runs on the command line
          faults    \* inserts and deletes that failed, processes killed

processes == <<pc, next, replace, jobs, todo>>
history == <<excused, manual, faults>>
vars == <<now, sdata, late, processes, avg, history>>

Procs == Runs \cup {Daemon}
Reading == [tk : Nat, field : Fields]
Job == [tk : Int, intval : Intervals]

Init ==
  /\ now = 0 /\ sdata = {} /\ late = FALSE
  /\ pc = [p \in Procs |-> "down"] /\ next = 0
  /\ replace = [p \in Procs |-> FALSE]
  /\ jobs = [p \in Procs |-> {}] /\ todo = [p \in Procs |-> {}]
  /\ avg = {} /\ excused = Fields /\ manual = 0 /\ faults = 0

-----------------------------------------------------------------------------
(* Time and the readings                                                   *)

Tick ==
  /\ now < MaxTime
  /\ now' = now + 1
  /\ UNCHANGED <<sdata, late, processes, avg, history>>

Store(r) ==
  /\ r \notin sdata
  /\ Cardinality(sdata) < MaxData
  /\ r.tk <= now
  /\ sdata' = sdata \cup {r}
  /\ late' = (late \/ now >= r.tk + Delay)
  /\ UNCHANGED <<now, processes, avg, history>>

-----------------------------------------------------------------------------
(* The daemon                                                              *)

\* the last multiple of the shortest interval
Slot(t) == t - (t % Base)

\* mutant of NextEvent: thirty seconds after the beginning of this interval
NextEventHere == Slot(now) + Delay

NextEvent == Slot(now) + Base + Delay

StartDaemon ==
  /\ pc[Daemon] = "down"
  /\ pc' = [pc EXCEPT ![Daemon] = "sleep"]
  /\ next' = NextEvent
  /\ UNCHANGED <<now, sdata, late, replace, jobs, todo, avg, history>>

\* sleep() returns early; it is called again with what is left
Interrupted ==
  /\ pc[Daemon] = "sleep"
  /\ now < next
  /\ next' = NextEvent
  /\ UNCHANGED <<now, sdata, late, pc, replace, jobs, todo, avg, history>>

\* mutant of DueJobs: the time key is the end of the interval
DueJobsByEnd(t) == {[tk |-> t + Offset, intval |-> i] : i \in Intervals}

\* The averages of the intervals that end at time t
DueJobs(t) == {[tk |-> t + Offset - i, intval |-> i] : i \in Intervals}

WakeUp ==
  /\ pc[Daemon] = "sleep"
  /\ now >= next
  /\ pc' = [pc EXCEPT ![Daemon] = "check"]
  /\ jobs' = [jobs EXCEPT ![Daemon] = DueJobs(Slot(next))]
  /\ UNCHANGED <<now, sdata, late, next, replace, todo, avg, history>>

BackToSleep ==
  /\ pc[Daemon] = "check" /\ jobs[Daemon] = {}
  /\ pc' = [pc EXCEPT ![Daemon] = "sleep"]
  /\ next' = NextEvent
  /\ UNCHANGED <<now, sdata, late, replace, jobs, todo, avg, history>>

-----------------------------------------------------------------------------
(* meteoavg -i intval [ -a ] from to; -r gives to as from + r * intval     *)

JobsInRange(i, from, to) ==
  {[tk |-> t + Offset, intval |-> i] :
     t \in {u \in (from - ((from + Offset) % i)) .. to : (u + Offset) % i = 0}}

StartRun(p, i, from, to, all) ==
  /\ pc[p] = "down"
  /\ manual < MaxRuns
  /\ Cardinality(JobsInRange(i, from, to)) <= MaxJobs
  /\ pc' = [pc EXCEPT ![p] = "check"]
  /\ jobs' = [jobs EXCEPT ![p] = JobsInRange(i, from, to)]
  /\ replace' = [replace EXCEPT ![p] = all]
  /\ manual' = manual + 1
  /\ UNCHANGED <<now, sdata, late, next, todo, avg, excused, faults>>

-----------------------------------------------------------------------------
(* Averager, for either kind of process                                    *)

\* The daemon goes through the intervals, a run through the times.
IsFirst(j, J) ==
  /\ j \in J
  /\ \A k \in J : j.intval < k.intval \/ (j.intval = k.intval /\ j.tk <= k.tk)

Of(j) == {r \in avg : r.tk = j.tk /\ r.intval = j.intval}
HasRow(j, f) == \E r \in Of(j) : r.field = f

\* Averager::add passes over time keys that are not divisible.
Divisible(j) == j.tk % j.intval = 0

\* Averager::have is asked by a run without -a only.
Have(p, j) == p # Daemon /\ ~replace[p] /\ Of(j) # {}

Skip(p) ==
  /\ pc[p] = "check"
  /\ \E j \in jobs[p] :
        /\ IsFirst(j, jobs[p])
        /\ Have(p, j) \/ ~Divisible(j)
        /\ jobs' = [jobs EXCEPT ![p] = @ \ {j}]
  /\ UNCHANGED <<now, sdata, late, pc, next, replace, todo, avg, history>>

Removed(p, j) == IF replace[p] THEN Of(j) ELSE {}

Begins(p, j) ==
  /\ pc[p] = "check" /\ IsFirst(j, jobs[p])
  /\ ~Have(p, j) /\ Divisible(j)
  /\ pc' = [pc EXCEPT ![p] = "work"]
  /\ todo' = [todo EXCEPT ![p] = Fields]
  /\ excused' = IF j = Watched THEN {} ELSE excused
  /\ UNCHANGED <<now, sdata, late, next, replace, jobs, manual>>

Begin(p) ==
  /\ \E j \in jobs[p] : Begins(p, j) /\ avg' = avg \ Removed(p, j)
  /\ UNCHANGED faults

\* The delete of -a fails: the old rows stay.
BeginUnremoved(p) ==
  /\ replace[p]
  /\ faults < MaxFaults
  /\ \E j \in jobs[p] : Begins(p, j)
  /\ faults' = faults + 1
  /\ UNCHANGED avg

\* The readings the query selects: the class groupinfo and addGeneric, with
\* "b.timekey >= %ld and b.timekey <= %ld"
Selected(j, f) ==
  {r.tk : r \in {s \in sdata : /\ s.field = f
                               /\ s.tk >= j.tk - Offset
                               /\ s.tk <= j.tk - Offset + j.intval}}

IsNext(f, p) == f \in todo[p] /\ \A g \in todo[p] : f <= g

Insert(p) ==
  /\ pc[p] = "work"
  /\ \E j \in jobs[p], f \in todo[p] :
        /\ IsFirst(j, jobs[p]) /\ IsNext(f, p)
        /\ Selected(j, f) # {}
        /\ ~HasRow(j, f)
        /\ avg' = avg \cup {[tk |-> j.tk, intval |-> j.intval, field |-> f,
                             used |-> Selected(j, f), by |-> p]}
        /\ todo' = [todo EXCEPT ![p] = @ \ {f}]
  /\ UNCHANGED <<now, sdata, late, pc, next, replace, jobs, history>>

\* "group by" makes no row of no readings
InsertNothing(p) ==
  /\ pc[p] = "work"
  /\ \E j \in jobs[p], f \in todo[p] :
        /\ IsFirst(j, jobs[p]) /\ IsNext(f, p)
        /\ Selected(j, f) = {}
        /\ excused' = IF j = Watched THEN excused \cup {f} ELSE excused
        /\ todo' = [todo EXCEPT ![p] = @ \ {f}]
  /\ UNCHANGED <<now, sdata, late, pc, next, replace, jobs, avg, manual,
                 faults>>

Finish(p) ==
  /\ pc[p] = "work" /\ todo[p] = {}
  /\ pc' = [pc EXCEPT ![p] = "check"]
  /\ \E j \in jobs[p] :
        /\ IsFirst(j, jobs[p])
        /\ jobs' = [jobs EXCEPT ![p] = @ \ {j}]
  /\ UNCHANGED <<now, sdata, late, next, replace, todo, avg, history>>

Ends(p) ==
  /\ pc' = [pc EXCEPT ![p] = "down"]
  /\ jobs' = [jobs EXCEPT ![p] = {}]
  /\ todo' = [todo EXCEPT ![p] = {}]
  /\ replace' = [replace EXCEPT ![p] = FALSE]

WorksOn(p, j) == pc[p] = "work" /\ IsFirst(j, jobs[p])

EndRun(p) ==
  /\ p # Daemon
  /\ pc[p] = "check" /\ jobs[p] = {}
  /\ Ends(p)
  /\ UNCHANGED <<now, sdata, late, next, avg, history>>

\* mutant of Refused: errors are not ignored, main() exits
RefusedEnds(p) ==
  /\ pc[p] = "work"
  /\ \E j \in jobs[p], f \in todo[p] :
        /\ IsFirst(j, jobs[p]) /\ IsNext(f, p)
        /\ Selected(j, f) # {} /\ HasRow(j, f)
  /\ Ends(p)
  /\ UNCHANGED <<now, sdata, late, next, avg, history>>

\* The row exists: the insert fails on the primary key.  This is logged, and
\* the next field follows.
Refused(p) ==
  /\ pc[p] = "work"
  /\ \E j \in jobs[p], f \in todo[p] :
        /\ IsFirst(j, jobs[p]) /\ IsNext(f, p)
        /\ Selected(j, f) # {} /\ HasRow(j, f)
        /\ todo' = [todo EXCEPT ![p] = @ \ {f}]
  /\ UNCHANGED <<now, sdata, late, pc, next, replace, jobs, avg, history>>

\* The insert fails for another reason, as the connection is lost: the same
Failed(p) ==
  /\ pc[p] = "work"
  /\ faults < MaxFaults
  /\ \E j \in jobs[p], f \in todo[p] :
        /\ IsFirst(j, jobs[p]) /\ IsNext(f, p)
        /\ todo' = [todo EXCEPT ![p] = @ \ {f}]
        /\ excused' = IF j = Watched THEN excused \cup {f} ELSE excused
  /\ faults' = faults + 1
  /\ UNCHANGED <<now, sdata, late, pc, next, replace, jobs, avg, manual>>

\* A signal, or an exception: a select of have() or of the description of a
\* sensor fails.
Killed(p) ==
  /\ pc[p] # "down"
  /\ faults < MaxFaults
  /\ Ends(p)
  /\ faults' = faults + 1
  /\ excused' = IF WorksOn(p, Watched) THEN excused \cup todo[p] ELSE excused
  /\ UNCHANGED <<now, sdata, late, next, avg, manual>>

-----------------------------------------------------------------------------
DaemonNext == StartDaemon \/ Interrupted \/ WakeUp \/ BackToSleep

RunNext(p) ==
  \/ \E i \in Intervals, from, to \in 0..MaxTime, all \in BOOLEAN :
        StartRun(p, i, from, to, all)
  \/ EndRun(p)

AveragerNext(p) ==
  \/ Skip(p) \/ Begin(p) \/ BeginUnremoved(p) \/ Insert(p) \/ InsertNothing(p)
  \/ Refused(p) \/ Failed(p) \/ Finish(p) \/ Killed(p)

Next ==
  \/ Tick
  \/ \E t \in 0..MaxTime, f \in Fields : Store([tk |-> t, field |-> f])
  \/ DaemonNext
  \/ \E p \in Runs : RunNext(p)
  \/ \E p \in Procs : AveragerNext(p)

Spec == Init /\ [][Next]_vars

-----------------------------------------------------------------------------
(* Properties                                                              *)

TypeOK ==
  /\ now \in Nat /\ sdata \subseteq Reading /\ late \in BOOLEAN
  /\ pc \in [Procs -> {"down", "sleep", "check", "work"}]
  /\ next \in Int
  /\ replace \in [Procs -> BOOLEAN]
  /\ jobs \in [Procs -> SUBSET Job]
  /\ todo \in [Procs -> SUBSET Fields]
  /\ avg \subseteq [tk : Int, intval : Intervals, field : Fields,
                    used : (SUBSET Nat) \ {{}}, by : Procs]
  /\ excused \subseteq Fields /\ manual \in Nat /\ faults \in Nat
  /\ \A r \in avg : Divisible(r)

Pending(j, f) == \E p \in Procs : WorksOn(p, j) /\ f \in todo[p]

\* However the daemon and the runs collide, with removals by -a, failures and
\* deaths: a field of an average that was begun has its row, is still to be
\* inserted by a living process, had no readings, or the insert of this very
\* field failed or its process was killed before it, since the average was
\* last begun.  The insert of a row that exists costs no other field.
LostOnlyByFailure ==
  \A f \in Fields : HasRow(Watched, f) \/ Pending(Watched, f) \/ f \in excused

\* The daemon waits long enough: if every row of sdata is stored within
\* Delay, its averages miss none ("that gives us the assurance that the data
\* in the sdata table will be ready", meteoavg.cc).
DaemonSeesAll ==
  ~late => \A r \in avg : r.by = Daemon => r.used = Selected(r, r.field)

\* Unless meteoavg is used on the command line, the daemon computes nothing
\* twice, whatever interrupts or restarts it: it never asks for the insert of
\* a row that exists, which would be an error in the log.
DaemonComputesOnce ==
  manual = 0 =>
    \A j \in jobs[Daemon], f \in todo[Daemon] :
       WorksOn(Daemon, j) => ~HasRow(j, f)

=============================================================================
