--------------------------- MODULE AveragerProofs ---------------------------
(***************************************************************************)
(* Proofs about Averager, for every number of processes and of fields.     *)
(***************************************************************************)
EXTENDS Averager, TLAPS

-----------------------------------------------------------------------------
(* Arithmetic of the slots                                                 *)

LEMMA ModRange ==
  ASSUME NEW a \in Int, NEW b \in Nat \ {0}
  PROVE  a % b \in 0..(b - 1)
  OBVIOUS

\* The remainder of a multiple of b plus d is d.
LEMMA ModOfMultiple ==
  ASSUME NEW b \in Nat \ {0}, NEW a \in Int, NEW d \in 0..(b - 1)
  PROVE  (a - (a % b) + b + d) % b = d
<1>1. a \div b \in Int /\ a % b \in Int /\ a = b * (a \div b) + (a % b)
  BY SMT
<1>2. PICK k \in Int : k = (a \div b) + 1
  BY <1>1
<1>3. b * k = b * (a \div b) + b
  BY <1>1, <1>2, SMT
<1>4. a - (a % b) + b + d = b * k + d
  BY <1>1, <1>3, SMT
<1>5. (b * k + d) % b = d
  BY SMT
<1> QED BY <1>4, <1>5

\* The slot that is current at t, and that of the event the daemon waits for
LEMMA SlotBounds ==
  ASSUME NEW t \in Int
  PROVE  Slot(t) \in Int /\ Slot(t) <= t /\ t < Slot(t) + Base
  BY ModRange, AveragerAssumption, SMT DEF Slot

LEMMA SlotOfEvent ==
  ASSUME now \in Nat
  PROVE  NextEvent \in Int /\ Slot(NextEvent) = Slot(now) + Base
<1>1. now % Base \in Int
  BY ModRange, AveragerAssumption
<1>2. (now - (now % Base) + Base + Delay) % Base = Delay
  <2>1. Delay \in 0..(Base - 1) /\ Base \in Nat \ {0} /\ now \in Int
    BY AveragerAssumption
  <2> QED BY <2>1, ModOfMultiple
<1> QED BY <1>1, <1>2, AveragerAssumption DEF NextEvent, Slot

-----------------------------------------------------------------------------
(* The average a process works on                                          *)

LEMMA FirstUnique ==
  ASSUME NEW J \in SUBSET Job, NEW j, NEW k, IsFirst(j, J), IsFirst(k, J)
  PROVE  j = k
<1>1. j \in Job /\ k \in Job
  BY DEF IsFirst
<1>2. j.intval \in Nat /\ k.intval \in Nat /\ j.tk \in Int /\ k.tk \in Int
  BY <1>1, AveragerAssumption DEF Job
<1>3. j.intval = k.intval /\ j.tk = k.tk
  BY <1>2 DEF IsFirst
<1> QED BY <1>1, <1>3 DEF Job

\* What a step may do to a process: nothing, leave it without a current
\* average, begin one, or deal with the next field of the current one.
Quiet(q) == pc'[q] = pc[q] /\ jobs'[q] = jobs[q] /\ todo'[q] = todo[q]

NextField(q) ==
  /\ pc[q] = "work" /\ pc'[q] = "work" /\ jobs'[q] = jobs[q]
  /\ \E f \in todo[q] : todo'[q] = todo[q] \ {f}

Started(q) == \E j \in jobs[q] : Begins(q, j)

LEMMA StepOfProcess ==
  ASSUME TypeOK, [Next]_vars, NEW q \in Procs
  PROVE  Quiet(q) \/ pc'[q] # "work" \/ Started(q) \/ NextField(q)
<1> USE DEF TypeOK, Quiet, processes
<1>1. CASE Tick \/ UNCHANGED vars
  BY <1>1 DEF Tick, vars
<1>2. ASSUME NEW r, Store(r) PROVE Quiet(q)
  BY <1>2 DEF Store
<1>3. CASE DaemonNext
  BY <1>3 DEF DaemonNext, StartDaemon, Interrupted, WakeUp, BackToSleep
<1>4. ASSUME NEW p \in Runs, RunNext(p) PROVE Quiet(q) \/ pc'[q] # "work"
  BY <1>4 DEF RunNext, StartRun, EndRun, Ends, Procs
<1>5. ASSUME NEW p \in Procs, AveragerNext(p)
      PROVE  Quiet(q) \/ pc'[q] # "work" \/ Started(q) \/ NextField(q)
  <2>1. CASE p # q
    BY <1>5, <2>1 DEF AveragerNext, Skip, Begin, BeginUnremoved, Begins, Insert,
                      InsertNothing, Finish, Refused, Failed, Killed, Ends
  <2>2. CASE p = q
    <3>1. CASE Skip(p) \/ Finish(p) \/ Killed(p)
      BY <2>2, <3>1 DEF Skip, Finish, Killed, Ends
    <3>2. CASE Insert(p) \/ InsertNothing(p) \/ Refused(p) \/ Failed(p)
      BY <2>2, <3>2 DEF Insert, InsertNothing, Refused, Failed, NextField
    <3>3. CASE Begin(p) \/ BeginUnremoved(p)
      BY <2>2, <3>3 DEF Begin, BeginUnremoved, Started
    <3> QED BY <1>5, <2>2, <3>1, <3>2, <3>3 DEF AveragerNext
  <2> QED BY <2>1, <2>2
<1> QED BY <1>1, <1>2, <1>3, <1>4, <1>5 DEF Next

-----------------------------------------------------------------------------
(* Type correctness; add() is called for divisible time keys only.         *)

WorkInv ==
  \A p \in Procs : \A j \in jobs[p] : WorksOn(p, j) => Divisible(j)

LEMMA JobTypes ==
  ASSUME TypeOK, NEW i \in Intervals, NEW from \in Int, NEW to \in Int
  PROVE  /\ JobsInRange(i, from, to) \subseteq Job
         /\ DueJobs(Slot(next)) \subseteq Job
<1>1. Slot(next) \in Int
  BY SlotBounds DEF TypeOK
<1>2. from - ((from + Offset) % i) \in Int
  BY ModRange, AveragerAssumption
<1> QED BY <1>1, <1>2, AveragerAssumption DEF JobsInRange, DueJobs, Job

LEMMA TypeInit == Init => TypeOK
<1> SUFFICES ASSUME Init PROVE TypeOK
  OBVIOUS
<1>1. replace \in [Procs -> BOOLEAN] /\ late \in BOOLEAN
  BY Zenon DEF Init
<1> QED BY <1>1 DEF Init, TypeOK

LEMMA WorkNext ==
  ASSUME TypeOK, WorkInv, [Next]_vars
  PROVE  WorkInv'
<1> SUFFICES ASSUME NEW p \in Procs, NEW j \in jobs'[p], WorksOn(p, j)'
             PROVE  Divisible(j)
  BY DEF WorkInv, Divisible
<1>1. pc'[p] = "work" /\ IsFirst(j, jobs'[p])
  BY DEF WorksOn, IsFirst
<1>2. CASE Quiet(p) \/ NextField(p)
  BY <1>1, <1>2 DEF Quiet, NextField, WorkInv, WorksOn
<1>3. CASE Started(p)
  <2>1. PICK k \in jobs[p] : IsFirst(k, jobs[p]) /\ Divisible(k)
    BY <1>3 DEF Started, Begins
  <2>2. jobs'[p] = jobs[p] /\ jobs[p] \in SUBSET Job
    BY <1>3 DEF Started, Begins, TypeOK
  <2> QED BY <1>1, <2>1, <2>2, FirstUnique
<1> QED BY <1>1, <1>2, <1>3, StepOfProcess

LEMMA TypeNext ==
  ASSUME TypeOK, WorkInv, [Next]_vars
  PROVE  TypeOK'
<1> USE DEF TypeOK, processes, history
<1>1. CASE Tick
  BY <1>1 DEF Tick, Divisible
<1>2. ASSUME NEW t \in 0..MaxTime, NEW f \in Fields,
             Store([tk |-> t, field |-> f])
      PROVE  TypeOK'
  <2>1. [tk |-> t, field |-> f] \in Reading
    BY <1>2 DEF Reading
  <2>2. late' \in BOOLEAN
    BY <1>2, Zenon DEF Store
  <2> QED BY <1>2, <2>1, <2>2 DEF Store, Divisible
<1>3. CASE DaemonNext
  <2>1. NextEvent \in Int
    BY SlotOfEvent
  <2>2. DueJobs(Slot(next)) \in SUBSET Job
    BY JobTypes, AveragerAssumption DEF DueJobs, Job, Slot, ModRange
  <2> QED BY <1>3, <2>1, <2>2
        DEF DaemonNext, StartDaemon, Interrupted, WakeUp, BackToSleep,
            Divisible
<1>4. ASSUME NEW p \in Runs, RunNext(p) PROVE TypeOK'
  <2>1. ASSUME NEW i \in Intervals, NEW from \in 0..MaxTime,
               NEW to \in 0..MaxTime, NEW all \in BOOLEAN,
               StartRun(p, i, from, to, all)
        PROVE  TypeOK'
    <3>1. JobsInRange(i, from, to) \in SUBSET Job
      BY JobTypes
    <3>2. replace' \in [Procs -> BOOLEAN]
      BY <2>1, Zenon DEF StartRun
    <3> QED BY <2>1, <3>1, <3>2 DEF StartRun, Divisible
  <2>2. CASE EndRun(p)
    <3>1. replace' \in [Procs -> BOOLEAN]
      BY <2>2, Zenon DEF EndRun, Ends
    <3> QED BY <2>2, <3>1 DEF EndRun, Ends, Divisible
  <2> QED BY <1>4, <2>1, <2>2 DEF RunNext
<1>5. ASSUME NEW p \in Procs, AveragerNext(p) PROVE TypeOK'
  <2>1. CASE Skip(p)
    BY <2>1 DEF Skip, Divisible
  <2>2. CASE Begin(p) \/ BeginUnremoved(p)
    <3>1. avg' \subseteq avg /\ faults' \in Nat
      BY <2>2 DEF Begin, BeginUnremoved
    <3>2. PICK j \in jobs[p] : Begins(p, j)
      BY <2>2 DEF Begin, BeginUnremoved
    <3> QED BY <3>1, <3>2 DEF Begins, Divisible
  <2>3. CASE Insert(p)
    <3>1. PICK j \in jobs[p], f \in todo[p] :
            /\ IsFirst(j, jobs[p]) /\ Selected(j, f) # {}
            /\ avg' = avg \cup {[tk |-> j.tk, intval |-> j.intval, field |-> f,
                                 used |-> Selected(j, f), by |-> p]}
            /\ todo' = [todo EXCEPT ![p] = @ \ {f}]
      BY <2>3 DEF Insert
    <3>2. Selected(j, f) \subseteq Nat
      BY DEF Selected, Reading
    <3>3. Divisible(j)
      BY <2>3, <3>1 DEF Insert, WorkInv, WorksOn
    <3>4. todo' \in [Procs -> SUBSET Fields]
      BY <3>1
    <3> DEFINE row == [tk |-> j.tk, intval |-> j.intval, field |-> f,
                       used |-> Selected(j, f), by |-> p]
    <3>5. row \in [tk : Int, intval : Intervals, field : Fields,
                   used : (SUBSET Nat) \ {{}}, by : Procs]
      BY <3>1, <3>2 DEF Job
    <3>6. Divisible(row)
      BY <3>3 DEF Divisible
    <3>7. avg' = avg \cup {row}
      BY <3>1
    <3> HIDE DEF row
    <3> QED BY <2>3, <3>4, <3>5, <3>6, <3>7 DEF Insert, Divisible
  <2>4. CASE InsertNothing(p) \/ Refused(p) \/ Failed(p)
    BY <2>4 DEF InsertNothing, Refused, Failed, Divisible
  <2>5. CASE Finish(p)
    BY <2>5 DEF Finish, Divisible
  <2>6. CASE Killed(p)
    <3>1. replace' \in [Procs -> BOOLEAN]
      BY <2>6, Zenon DEF Killed, Ends
    <3> QED BY <2>6, <3>1 DEF Killed, Ends, Divisible
  <2> QED BY <1>5, <2>1, <2>2, <2>3, <2>4, <2>5, <2>6 DEF AveragerNext
<1>6. CASE UNCHANGED vars
  BY <1>6 DEF vars, Divisible
<1> QED BY <1>1, <1>2, <1>3, <1>4, <1>5, <1>6 DEF Next

TypeInv == TypeOK /\ WorkInv

LEMMA TypeInvariance == Spec => []TypeInv
<1>1. Init => TypeInv
  BY TypeInit DEF TypeInv, WorkInv, WorksOn, Init
<1>2. TypeInv /\ [Next]_vars => TypeInv'
  BY TypeNext, WorkNext DEF TypeInv
<1> QED BY <1>1, <1>2, PTL DEF Spec

\* Every variable keeps its type, and every row of avg has a time key that
\* is divisible by its interval.
THEOREM TypeCorrect == Spec => []TypeOK
  BY TypeInvariance, PTL DEF TypeInv

-----------------------------------------------------------------------------
(* The daemon                                                              *)

End(r) == r.tk - Offset + r.intval

\* The daemon is late enough for what it computes.
PunctualInv ==
  /\ pc[Daemon] = "sleep" => next = Slot(next) + Delay
  /\ pc[Daemon] \in {"check", "work"} =>
        \A j \in jobs[Daemon] : End(j) + Delay <= now
  /\ \A r \in avg : r.by = Daemon => End(r) + Delay <= now

\* Without runs all averages are the daemon's, and those of the interval it
\* waits for or works on are not there yet.
OnceInv ==
  manual = 0 =>
    /\ \A p \in Runs : pc[p] = "down"
    /\ \A r \in avg : r.by = Daemon
    /\ pc[Daemon] = "sleep" => \A r \in avg : End(r) < Slot(next)
    /\ pc[Daemon] \in {"check", "work"} =>
          \A j \in jobs[Daemon] : \A f \in Fields : HasRow(j, f) =>
             WorksOn(Daemon, j) /\ f \notin todo[Daemon]

DaemonInv == TypeInv /\ PunctualInv /\ DaemonSeesAll /\ OnceInv

LEMMA EndType ==
  ASSUME TypeOK, NEW r, r \in avg \/ \E p \in Procs : r \in jobs[p]
  PROVE  End(r) \in Int
<1>1. r.tk \in Int /\ r.intval \in Intervals
  BY DEF TypeOK, Job
<1>2. r.intval \in Nat
  BY <1>1, AveragerAssumption
<1>3. Offset \in Int
  BY AveragerAssumption
<1>4. r.tk - Offset \in Int
  BY <1>1, <1>3
<1> QED BY <1>2, <1>4 DEF End

LEMMA NextEventFacts ==
  ASSUME TypeOK
  PROVE  /\ NextEvent = Slot(NextEvent) + Delay
         /\ now < Slot(NextEvent)
<1> QED BY SlotOfEvent, SlotBounds, AveragerAssumption DEF TypeOK, NextEvent

LEMMA DueJobsEnd ==
  ASSUME TypeOK
  PROVE  \A j \in DueJobs(Slot(next)) : End(j) = Slot(next)
<1> SUFFICES ASSUME NEW j \in DueJobs(Slot(next)) PROVE End(j) = Slot(next)
  OBVIOUS
<1>1. Slot(next) \in Int
  BY SlotBounds DEF TypeOK
<1>2. PICK i \in Intervals : j = [tk |-> Slot(next) + Offset - i, intval |-> i]
  BY DEF DueJobs
<1>3. j.tk = Slot(next) + Offset - i /\ j.intval = i
  BY <1>2
<1>4. i \in Int /\ Offset \in Int
  BY AveragerAssumption
<1> HIDE DEF Slot
<1> QED BY <1>1, <1>3, <1>4 DEF End

LEMMA PunctualNext ==
  ASSUME TypeOK, PunctualInv, [Next]_vars
  PROVE  PunctualInv'
<1> USE AveragerAssumption DEF TypeOK, PunctualInv, processes, Procs
<1>1. CASE Tick
  BY <1>1, EndType DEF Tick, End
<1>2. ASSUME NEW r, Store(r) PROVE PunctualInv'
  BY <1>2 DEF Store, End, Slot
<1>3. CASE StartDaemon \/ Interrupted \/ BackToSleep
  BY <1>3, NextEventFacts DEF StartDaemon, Interrupted, BackToSleep, End, Slot
<1>4. CASE WakeUp
  <2>1. \A j \in DueJobs(Slot(next)) : End(j) = Slot(next)
    BY DueJobsEnd
  <2>2. next = Slot(next) + Delay /\ next <= now
    BY <1>4 DEF WakeUp
  <2> QED BY <1>4, <2>1, <2>2 DEF WakeUp, End
<1>5. ASSUME NEW p \in Runs, RunNext(p) PROVE PunctualInv'
  BY <1>5 DEF RunNext, StartRun, EndRun, Ends, End, Slot
<1>6. ASSUME NEW p \in Procs, AveragerNext(p) PROVE PunctualInv'
  <2>1. CASE Skip(p) \/ Finish(p)
    BY <1>6, <2>1 DEF Skip, Finish, End, Slot
  <2>5. CASE InsertNothing(p) \/ Refused(p) \/ Failed(p)
    BY <1>6, <2>5 DEF InsertNothing, Refused, Failed, End, Slot
  <2>2. CASE Begin(p) \/ BeginUnremoved(p)
    BY <1>6, <2>2 DEF Begin, BeginUnremoved, Begins, End, Slot
  <2>3. CASE Insert(p)
    <3>1. PICK j \in jobs[p], f \in todo[p] :
            avg' = avg \cup {[tk |-> j.tk, intval |-> j.intval, field |-> f,
                              used |-> Selected(j, f), by |-> p]}
      BY <2>3 DEF Insert
    <3>2. ASSUME NEW r \in avg', r.by = Daemon PROVE End(r) + Delay <= now
      BY <2>3, <3>1, <3>2 DEF Insert, End
    <3> QED BY <2>3, <3>2 DEF Insert, End, Slot
  <2>4. CASE Killed(p)
    BY <1>6, <2>4 DEF Killed, Ends, End, Slot
  <2> QED BY <1>6, <2>1, <2>2, <2>3, <2>4, <2>5 DEF AveragerNext
<1>7. CASE UNCHANGED vars
  BY <1>7 DEF vars, End, Slot
<1> QED BY <1>1, <1>2, <1>3, <1>4, <1>5, <1>6, <1>7 DEF Next, DaemonNext

LEMMA SeesAllNext ==
  ASSUME TypeOK, PunctualInv, DaemonSeesAll, [Next]_vars
  PROVE  DaemonSeesAll'
<1> USE DEF DaemonSeesAll, processes, Selected
<1>1. ASSUME NEW s, Store(s), s \in Reading, ~late', NEW r \in avg, r.by = Daemon
      PROVE  s.tk > End(r)
  <2>1. ~(now >= s.tk + Delay)
    BY <1>1, Zenon DEF Store
  <2> QED BY <1>1, <2>1, EndType, AveragerAssumption DEF PunctualInv, TypeOK, Reading
<1>2. ASSUME NEW s, Store(s), s \in Reading PROVE DaemonSeesAll'
  <2> SUFFICES ASSUME ~late', NEW r \in avg', r.by = Daemon
               PROVE  r.used = Selected(r, r.field)'
    OBVIOUS
  <2>1. ~late /\ r \in avg
    BY <1>2, Zenon DEF Store
  <2>2. sdata' = sdata \cup {s} /\ s.tk \in Nat
    BY <1>2 DEF Store, Reading
  <2>3. s.tk > End(r) /\ End(r) \in Int
    BY <1>1, <1>2, <2>1, EndType
  <2>4. ~(s.tk <= r.tk - Offset + r.intval)
    BY <2>2, <2>3 DEF End
  <2> QED BY <2>1, <2>2, <2>4
<1>3. ASSUME NEW p \in Procs, Insert(p) PROVE DaemonSeesAll'
  BY <1>3 DEF Insert
<1>4. ASSUME NEW p \in Procs, Begin(p) PROVE DaemonSeesAll'
  BY <1>4 DEF Begin, Begins
<1>5. ASSUME sdata' = sdata, late' = late, avg' = avg PROVE DaemonSeesAll'
  BY <1>5
<1>6. CASE Tick \/ DaemonNext \/ UNCHANGED vars
  BY <1>5, <1>6 DEF Tick, DaemonNext, StartDaemon, Interrupted, WakeUp,
                    BackToSleep, vars
<1>7. ASSUME NEW p \in Runs, RunNext(p) PROVE DaemonSeesAll'
  BY <1>5, <1>7 DEF RunNext, StartRun, EndRun
<1>8. ASSUME NEW p \in Procs, AveragerNext(p) PROVE DaemonSeesAll'
  BY <1>3, <1>4, <1>5, <1>8
     DEF AveragerNext, Skip, BeginUnremoved, Begins, InsertNothing, Finish,
         Refused, Failed, Killed
<1>9. ASSUME NEW t \in 0..MaxTime, NEW f \in Fields,
             Store([tk |-> t, field |-> f])
      PROVE  DaemonSeesAll'
  BY <1>2, <1>9 DEF Reading
<1> QED BY <1>6, <1>7, <1>8, <1>9 DEF Next

\* Rows of the same average end at the same time.
LEMMA RowEnd ==
  ASSUME NEW j, NEW f, HasRow(j, f)
  PROVE  \E r \in avg : r.tk = j.tk /\ r.intval = j.intval /\ End(r) = End(j)
  BY DEF HasRow, Of, End

LEMMA OnceNext ==
  ASSUME TypeOK, PunctualInv, OnceInv, [Next]_vars
  PROVE  OnceInv'
<1> SUFFICES ASSUME manual' = 0 PROVE OnceInv'
  BY DEF OnceInv
<1>m. ASSUME manual = 0
      PROVE  /\ \A p \in Runs : pc[p] = "down"
             /\ \A r \in avg : r.by = Daemon
  BY <1>m DEF OnceInv
<1>s. ASSUME manual = 0, UNCHANGED <<pc, next, jobs, todo, avg>> PROVE OnceInv'
  BY <1>s DEF OnceInv, HasRow, Of, WorksOn, IsFirst, Slot, End
<1>e. ASSUME manual = 0, NEW r \in avg PROVE End(r) + Delay <= now /\ End(r) \in Int
  BY <1>e, <1>m, EndType DEF PunctualInv
<1>1. CASE Tick \/ UNCHANGED vars
  BY <1>1, <1>s DEF Tick, vars, processes, history
<1>2. ASSUME NEW r, Store(r) PROVE OnceInv'
  BY <1>2, <1>s DEF Store, processes, history
<1>3. CASE StartDaemon \/ Interrupted \/ BackToSleep
  <2>1. manual = 0 /\ avg' = avg /\ next' = NextEvent
    BY <1>3 DEF StartDaemon, Interrupted, BackToSleep, history
  <2>2. \A r \in avg : End(r) < Slot(next')
    BY <1>e, <2>1, NextEventFacts, SlotBounds, SlotOfEvent, AveragerAssumption
       DEF TypeOK
  <2>3. pc'[Daemon] = "sleep" /\ \A p \in Runs : pc'[p] = "down"
    BY <1>3, <1>m, <2>1, AveragerAssumption
       DEF StartDaemon, Interrupted, BackToSleep, TypeOK, Procs
  <2> QED BY <1>m, <2>1, <2>2, <2>3 DEF OnceInv, End, Slot
<1>4. CASE WakeUp
  <2>1. manual = 0 /\ avg' = avg /\ next' = next /\ todo' = todo
    BY <1>4 DEF WakeUp, history
  <2>2. pc'[Daemon] = "check" /\ jobs'[Daemon] = DueJobs(Slot(next))
        /\ \A p \in Runs : pc'[p] = "down"
    BY <1>4, <1>m, <2>1, AveragerAssumption DEF WakeUp, TypeOK, Procs
  <2>3. \A j \in DueJobs(Slot(next)) : End(j) = Slot(next)
    BY DueJobsEnd
  <2>4. \A r \in avg : End(r) < Slot(next)
    BY <1>4, <2>1 DEF WakeUp, OnceInv
  <2>5. \A j \in DueJobs(Slot(next)), f \in Fields : ~HasRow(j, f)
    BY <1>e, <2>1, <2>3, <2>4, RowEnd, SlotBounds DEF TypeOK
  <2>6. \A j, f : HasRow(j, f)' <=> HasRow(j, f)
    BY <2>1 DEF HasRow, Of
  <2> QED BY <1>m, <2>1, <2>2, <2>5, <2>6 DEF OnceInv
<1>5. ASSUME NEW p \in Runs, RunNext(p) PROVE OnceInv'
  <2>1. CASE \E i \in Intervals, from, to \in 0..MaxTime, all \in BOOLEAN :
               StartRun(p, i, from, to, all)
    BY <2>1 DEF StartRun, TypeOK
  <2>2. CASE EndRun(p)
    BY <2>2, <1>m DEF EndRun, history
  <2> QED BY <1>5, <2>1, <2>2 DEF RunNext
<1>6. ASSUME NEW p \in Procs, AveragerNext(p) PROVE OnceInv'
  <2>1. manual = 0
    BY <1>6 DEF AveragerNext, Skip, Begin, BeginUnremoved, Begins, Insert,
                InsertNothing, Finish, Refused, Failed, Killed, history
  <2>2. p = Daemon /\ pc[p] # "down"
    BY <1>6, <1>m, <2>1 DEF AveragerNext, Skip, Begin, BeginUnremoved, Begins,
                            Insert, InsertNothing, Finish, Refused, Failed,
                            Killed, Procs
  <2>3. \A q \in Runs : pc'[q] = "down"
    BY <1>6, <1>m, <2>1, <2>2, AveragerAssumption
       DEF AveragerNext, Skip, Begin, BeginUnremoved, Begins, Insert,
           InsertNothing, Finish, Refused, Failed, Killed, Ends, TypeOK, Procs
  <2>5. CASE Killed(p)
    BY <2>1, <2>2, <2>3, <2>5, <1>m DEF Killed, Ends, OnceInv, TypeOK
  <2>d. jobs[Daemon] \in SUBSET Job /\ todo[Daemon] \in SUBSET Fields
    BY <2>2 DEF TypeOK
  <2>o. pc[Daemon] \in {"check", "work"} =>
          \A j \in jobs[Daemon] : \A f \in Fields : HasRow(j, f) =>
             WorksOn(Daemon, j) /\ f \notin todo[Daemon]
    BY <2>1 DEF OnceInv
  <2> DEFINE Q(j, f) == HasRow(j, f) => WorksOn(Daemon, j) /\ f \notin todo[Daemon]
  <2>w. ASSUME pc'[Daemon] \in {"check", "work"}, \A r \in avg' : r.by = Daemon,
               \A j \in jobs'[Daemon], f \in Fields : HasRow(j, f)' =>
                  WorksOn(Daemon, j)' /\ f \notin todo'[Daemon]
        PROVE  OnceInv'
    BY <2>3, <2>w DEF OnceInv
  <2>6. CASE Skip(p) \/ Finish(p)
    <3>1. avg' = avg /\ todo' = todo /\ pc'[Daemon] = "check"
          /\ pc[Daemon] \in {"check", "work"}
      BY <2>2, <2>6 DEF Skip, Finish, TypeOK
    <3>2. PICK j \in jobs[Daemon] : /\ IsFirst(j, jobs[Daemon])
                                    /\ jobs'[Daemon] = jobs[Daemon] \ {j}
      BY <2>2, <2>6 DEF Skip, Finish, TypeOK
    <3>3. ASSUME NEW k \in jobs'[Daemon], NEW f \in Fields PROVE ~HasRow(k, f)
      BY <2>d, <2>o, <3>1, <3>2, FirstUnique DEF WorksOn
    <3>4. \A k, f : HasRow(k, f)' <=> HasRow(k, f)
      BY <3>1 DEF HasRow, Of
    <3> QED BY <2>1, <1>m, <2>w, <3>1, <3>3, <3>4
  <2>7. CASE Begin(p) \/ BeginUnremoved(p)
    <3>1. avg' \subseteq avg /\ pc[Daemon] = "check" /\ pc'[Daemon] = "work"
          /\ jobs'[Daemon] = jobs[Daemon]
      BY <2>2, <2>7 DEF Begin, BeginUnremoved, Begins, TypeOK
    <3>2. ASSUME NEW k \in jobs[Daemon], NEW f \in Fields PROVE ~HasRow(k, f)'
      <4>1. ~HasRow(k, f)
        BY <2>o, <3>1 DEF WorksOn
      <4> QED BY <3>1, <4>1 DEF HasRow, Of
    <3> QED BY <2>1, <1>m, <2>w, <3>1, <3>2
  <2>8. CASE InsertNothing(p) \/ Refused(p) \/ Failed(p)
    <3>1. avg' = avg /\ pc[Daemon] = "work" /\ pc'[Daemon] = "work"
          /\ jobs'[Daemon] = jobs[Daemon] /\ todo'[Daemon] \subseteq todo[Daemon]
      BY <2>2, <2>8 DEF InsertNothing, Refused, Failed, TypeOK
    <3>2. \A k, f : HasRow(k, f)' <=> HasRow(k, f)
      BY <3>1 DEF HasRow, Of
    <3>3. \A k : WorksOn(Daemon, k)' <=> WorksOn(Daemon, k)
      BY <3>1 DEF WorksOn, IsFirst
    <3> QED BY <2>1, <1>m, <2>o, <2>w, <3>1, <3>2, <3>3
  <2>9. CASE Insert(p)
    <3>1. PICK j \in jobs[Daemon], f \in todo[Daemon] :
            /\ IsFirst(j, jobs[Daemon])
            /\ avg' = avg \cup {[tk |-> j.tk, intval |-> j.intval, field |-> f,
                                 used |-> Selected(j, f), by |-> Daemon]}
            /\ todo' = [todo EXCEPT ![Daemon] = @ \ {f}]
      BY <2>2, <2>9 DEF Insert
    <3>2. pc[Daemon] = "work" /\ pc' = pc /\ jobs' = jobs
          /\ todo'[Daemon] = todo[Daemon] \ {f}
      BY <2>2, <2>9, <3>1 DEF Insert, TypeOK
    <3>3. \A k : WorksOn(Daemon, k)' <=> WorksOn(Daemon, k)
      BY <3>2 DEF WorksOn, IsFirst
    <3>4. ASSUME NEW k \in jobs[Daemon], NEW g \in Fields, HasRow(k, g)'
          PROVE  WorksOn(Daemon, k) /\ g \notin todo'[Daemon]
      <4>1. HasRow(k, g) \/ (k.tk = j.tk /\ k.intval = j.intval /\ g = f)
        BY <3>1, <3>4 DEF HasRow, Of
      <4>2. CASE HasRow(k, g)
        BY <2>o, <3>2, <4>2
      <4>3. CASE k.tk = j.tk /\ k.intval = j.intval /\ g = f
        <5>1. k = j
          BY <2>d, <4>3 DEF Job
        <5> QED BY <3>1, <3>2, <4>3, <5>1 DEF WorksOn
      <4> QED BY <4>1, <4>2, <4>3
    <3> QED BY <2>1, <1>m, <2>w, <3>1, <3>2, <3>3, <3>4
  <2> QED BY <1>6, <2>5, <2>6, <2>7, <2>8, <2>9 DEF AveragerNext
<1> QED BY <1>1, <1>2, <1>3, <1>4, <1>5, <1>6 DEF Next, DaemonNext

LEMMA DaemonInvariance == Spec => []DaemonInv
<1>1. Init => DaemonInv
  <2> SUFFICES ASSUME Init PROVE DaemonInv
    OBVIOUS
  <2>1. TypeInv
    BY TypeInit DEF TypeInv, WorkInv, WorksOn, Init
  <2> QED BY <2>1, AveragerAssumption
          DEF Init, DaemonInv, PunctualInv, DaemonSeesAll, OnceInv, Procs
<1>2. DaemonInv /\ [Next]_vars => DaemonInv'
  BY TypeNext, WorkNext, PunctualNext, SeesAllNext, OnceNext
     DEF DaemonInv, TypeInv
<1> QED BY <1>1, <1>2, PTL DEF Spec

\* If every reading is stored within Delay, no average of the daemon misses
\* one.
THEOREM DaemonMissesNothing == Spec => []DaemonSeesAll
  BY DaemonInvariance, PTL DEF DaemonInv

\* Left alone, the daemon never computes an average twice, whatever
\* interrupts, kills and restarts it.
THEOREM DaemonNeverRefused == Spec => []DaemonComputesOnce
<1>1. DaemonInv => DaemonComputesOnce
  BY DEF DaemonInv, TypeInv, TypeOK, OnceInv, DaemonComputesOnce, WorksOn, Procs
<1> QED BY <1>1, DaemonInvariance, PTL

-----------------------------------------------------------------------------
(* No average is lost but by a failure.                                    *)

Work(p) == pc[p] = "work" /\ todo[p] # {}

\* What a step that leaves the working processes and the rows alone keeps
LEMMA Kept ==
  ASSUME LostOnlyByFailure, \A p \in Procs : Work(p) => Quiet(p),
         avg' = avg, excused' = excused
  PROVE  LostOnlyByFailure'
<1>1. \A f : HasRow(Watched, f)' <=> HasRow(Watched, f)
  BY DEF HasRow, Of
<1>2. \A f : Pending(Watched, f) => Pending(Watched, f)'
  BY DEF Work, Quiet, WorksOn, IsFirst, Pending
<1> QED BY <1>1, <1>2 DEF LostOnlyByFailure

\* After the start of Watched all its fields are pending.
LEMMA BeginKeeps ==
  ASSUME TypeOK, LostOnlyByFailure, NEW p \in Procs,
         Begin(p) \/ BeginUnremoved(p)
  PROVE  LostOnlyByFailure'
<1>1. PICK j \in jobs[p] : Begins(p, j) /\ avg \ Of(j) \subseteq avg'
  BY DEF Begin, BeginUnremoved, Removed
<1>2. IsFirst(j, jobs[p]) /\ jobs' = jobs /\ pc[p] = "check"
      /\ pc'[p] = "work" /\ todo'[p] = Fields
      /\ \A q \in Procs \ {p} : pc'[q] = pc[q] /\ todo'[q] = todo[q]
  BY <1>1 DEF Begins, TypeOK
<1>3. CASE j = Watched
  BY <1>2, <1>3 DEF LostOnlyByFailure, Pending, WorksOn, IsFirst
<1>4. CASE j # Watched
  <2>1. j \in Job /\ Watched \in Job
    BY <1>1, AveragerAssumption DEF TypeOK, Job
  <2>2. ~(j.tk = Watched.tk /\ j.intval = Watched.intval)
    BY <1>4, <2>1 DEF Job
  <2>3. \A f : HasRow(Watched, f) => HasRow(Watched, f)'
    BY <1>1, <2>2 DEF HasRow, Of
  <2>4. \A f : Pending(Watched, f) => Pending(Watched, f)'
    BY <1>2 DEF Pending, WorksOn, IsFirst
  <2>5. excused' = excused
    BY <1>1, <1>4 DEF Begins
  <2> QED BY <2>3, <2>4, <2>5 DEF LostOnlyByFailure
<1> QED BY <1>3, <1>4

Passes(p) == Insert(p) \/ InsertNothing(p) \/ Refused(p) \/ Failed(p)

\* A field that leaves todo has a row or an excuse.
LEMMA FieldKeeps ==
  ASSUME TypeOK, LostOnlyByFailure, NEW p \in Procs, Passes(p)
  PROVE  LostOnlyByFailure'
<1>1. PICK j \in jobs[p], f \in todo[p] :
        /\ IsFirst(j, jobs[p])
        /\ todo' = [todo EXCEPT ![p] = @ \ {f}]
        /\ j = Watched => HasRow(j, f)' \/ f \in excused'
  <2>1. CASE Insert(p)
    <3>1. PICK j \in jobs[p], f \in todo[p] :
            /\ IsFirst(j, jobs[p])
            /\ todo' = [todo EXCEPT ![p] = @ \ {f}]
            /\ avg' = avg \cup {[tk |-> j.tk, intval |-> j.intval, field |-> f,
                                 used |-> Selected(j, f), by |-> p]}
      BY <2>1 DEF Insert
    <3> DEFINE row == [tk |-> j.tk, intval |-> j.intval, field |-> f,
                       used |-> Selected(j, f), by |-> p]
    <3>2. row.tk = j.tk /\ row.intval = j.intval /\ row.field = f /\ row \in avg'
      BY <3>1
    <3> HIDE DEF row
    <3>3. HasRow(j, f)'
      BY <3>2 DEF HasRow, Of
    <3> QED BY <3>1, <3>3
  <2>2. CASE InsertNothing(p) \/ Failed(p)
    BY <2>2 DEF InsertNothing, Failed
  <2>3. CASE Refused(p)
    BY <2>3 DEF Refused, HasRow, Of
  <2> QED BY <2>1, <2>2, <2>3 DEF Passes
<1>2. pc' = pc /\ jobs' = jobs /\ avg \subseteq avg' /\ excused \subseteq excused'
      /\ pc[p] = "work"
  <2>1. CASE Insert(p)
    BY <2>1 DEF Insert, history
  <2>2. CASE InsertNothing(p) \/ Refused(p) \/ Failed(p)
    BY <2>2 DEF InsertNothing, Refused, Failed, history
  <2> QED BY <2>1, <2>2 DEF Passes
<1>3. \A q, k : WorksOn(q, k)' <=> WorksOn(q, k)
  BY <1>2 DEF WorksOn, IsFirst
<1>4. \A g : HasRow(Watched, g) => HasRow(Watched, g)'
  BY <1>2 DEF HasRow, Of
<1>5. \A k : WorksOn(p, k) => k = j
  BY <1>1, FirstUnique DEF WorksOn, TypeOK
<1>6. ASSUME NEW g \in Fields, Pending(Watched, g)
      PROVE  Pending(Watched, g)' \/ HasRow(Watched, g)' \/ g \in excused'
  <2>1. PICK q \in Procs : WorksOn(q, Watched) /\ g \in todo[q]
    BY <1>6 DEF Pending
  <2>2. CASE q = p /\ g = f
    BY <2>1, <2>2, <1>1, <1>5
  <2>3. CASE ~(q = p /\ g = f)
    BY <2>1, <2>3, <1>1, <1>3 DEF Pending, TypeOK
  <2> QED BY <2>2, <2>3
<1> QED BY <1>2, <1>4, <1>6 DEF LostOnlyByFailure

\* A kill excuses what the process had still to do.
LEMMA KillKeeps ==
  ASSUME TypeOK, LostOnlyByFailure, NEW p \in Procs, Killed(p)
  PROVE  LostOnlyByFailure'
<1>1. /\ avg' = avg /\ excused \subseteq excused'
      /\ WorksOn(p, Watched) => todo[p] \subseteq excused'
  BY DEF Killed
<1>2. \A q \in Procs \ {p} : Quiet(q)
  BY DEF Killed, Ends, TypeOK, Quiet
<1>3. \A f : HasRow(Watched, f)' <=> HasRow(Watched, f)
  BY <1>1 DEF HasRow, Of
<1>4. \A f : Pending(Watched, f) => Pending(Watched, f)' \/ f \in excused'
  BY <1>1, <1>2 DEF Pending, Quiet, WorksOn, IsFirst
<1> QED BY <1>1, <1>3, <1>4 DEF LostOnlyByFailure

LEMMA LostNext ==
  ASSUME TypeOK, LostOnlyByFailure, [Next]_vars
  PROVE  LostOnlyByFailure'
<1>1. CASE Tick \/ UNCHANGED vars
  BY <1>1, Kept DEF Tick, vars, processes, history, Quiet
<1>2. ASSUME NEW r, Store(r) PROVE LostOnlyByFailure'
  BY <1>2, Kept DEF Store, processes, history, Quiet
<1>3. CASE DaemonNext
  <2>1. avg' = avg /\ excused' = excused
    BY <1>3 DEF DaemonNext, StartDaemon, Interrupted, WakeUp, BackToSleep, history
  <2>2. \A p \in Procs : Work(p) => Quiet(p)
    BY <1>3 DEF DaemonNext, StartDaemon, Interrupted, WakeUp, BackToSleep, Work,
                Quiet, TypeOK
  <2> QED BY <2>1, <2>2, Kept
<1>4. ASSUME NEW p \in Runs, RunNext(p) PROVE LostOnlyByFailure'
  <2>1. avg' = avg /\ excused' = excused
    BY <1>4 DEF RunNext, StartRun, EndRun, history
  <2>2. \A q \in Procs : Work(q) => Quiet(q)
    BY <1>4 DEF RunNext, StartRun, EndRun, Ends, Work, Quiet, TypeOK
  <2> QED BY <2>1, <2>2, Kept
<1>5. ASSUME NEW p \in Procs, AveragerNext(p) PROVE LostOnlyByFailure'
  <2>1. CASE Skip(p) \/ Finish(p)
    <3>1. avg' = avg /\ excused' = excused
      BY <2>1 DEF Skip, Finish, history
    <3>2. \A q \in Procs : Work(q) => Quiet(q)
      BY <2>1 DEF Skip, Finish, Work, Quiet, TypeOK
    <3> QED BY <3>1, <3>2, Kept
  <2> QED BY <1>5, <2>1, BeginKeeps, FieldKeeps, KillKeeps
          DEF AveragerNext, Passes
<1> QED BY <1>1, <1>2, <1>3, <1>4, <1>5 DEF Next

\* However many processes collide on an average: each of its fields has its
\* row, is pending, had no readings, or is one whose own insert failed or
\* whose process was killed before it.
THEOREM AveragesAreKept == Spec => []LostOnlyByFailure
<1>1. Init => LostOnlyByFailure
  BY DEF Init, LostOnlyByFailure
<1>2. TypeInv /\ LostOnlyByFailure /\ [Next]_vars => LostOnlyByFailure'
  BY LostNext DEF TypeInv
<1> QED BY <1>1, <1>2, TypeInvariance, PTL DEF Spec
=============================================================================
