-------------------------------- MODULE Lock --------------------------------
(***************************************************************************)
(* lib/Lock.cc, built with System V semaphores, as meteodraw uses it: a    *)
(* set of two semaphores, number 0 counting free queue slots and number 1  *)
(* free run slots.  setup() serialises the creation of the set with a      *)
(* record lock on the lock file; enter() takes a queue slot without        *)
(* waiting and then a run slot; leave() gives back both in one semop.      *)
(* Every semop carries SEM_UNDO, so the kernel gives back the slots of a   *)
(* process that ends in any other way.                                     *)
(*                                                                         *)
(* One step of the model is one system call that other processes can see.  *)
(***************************************************************************)
EXTENDS Integers, FiniteSets

CONSTANTS Procs,         \* process slots: each may run meteodraw many times
          MaxProcesses,  \* /meteo/graphs/@queued
          MaxRunning,    \* /meteo/graphs/@running
          Modes,         \* "none": no -x; "block": enter(true);
                         \* "nowait": enter(false), offered by the class
          CrashAt,       \* the control points at which a process may die
          FcntlFails,    \* whether the record lock may be refused (ENOLCK)
          NoProc

SEMVMX == 32767          \* largest value semctl(SETVAL) accepts

ASSUME LockAssumption ==
  /\ IsFiniteSet(Procs)
  /\ NoProc \notin Procs
  /\ MaxProcesses \in 0..SEMVMX
  /\ MaxRunning \in 0..SEMVMX
  /\ Modes \subseteq {"none", "block", "nowait"}
  /\ FcntlFails \in BOOLEAN

VARIABLES pc,            \* where each process is
          mode,          \* how each process uses the lock
          flock,         \* holder of the record lock on the lock file
          made,          \* the semaphore set exists
          queueSem,      \* semaphore 0: free queue slots
          runSem,        \* semaphore 1: free run slots
          adjQueue,      \* per process SEM_UNDO adjustment of semaphore 0
          adjRun         \* per process SEM_UNDO adjustment of semaphore 1

semVars == <<made, queueSem, runSem, adjQueue, adjRun>>
vars == <<pc, mode, flock, semVars>>

Points == {"start", "locked", "created", "queueset", "ready", "noid",
           "queued", "running", "left", "exited"}

Goto(p, point) == pc' = [pc EXCEPT ![p] = point]

Init ==
  /\ pc = [p \in Procs |-> "exited"]
  /\ mode \in [Procs -> Modes]
  /\ flock = NoProc
  /\ made = FALSE
  /\ queueSem = 0 /\ runSem = 0
  /\ adjQueue = [p \in Procs |-> 0]
  /\ adjRun = [p \in Procs |-> 0]

(***************************************************************************)
(* A process ends: the kernel applies its undo adjustments, and closing    *)
(* its files drops the record lock.                                        *)
(***************************************************************************)
ProcessEnds(p) ==
  /\ Goto(p, "exited")
  /\ queueSem' = queueSem + adjQueue[p]
  /\ runSem' = runSem + adjRun[p]
  /\ adjQueue' = [adjQueue EXCEPT ![p] = 0]
  /\ adjRun' = [adjRun EXCEPT ![p] = 0]
  /\ flock' = IF flock = p THEN NoProc ELSE flock
  /\ UNCHANGED <<mode, made>>

\* A browser request or a cron job starts meteodraw again.
Spawn(p) ==
  /\ pc[p] = "exited"
  /\ Goto(p, "start")
  /\ mode' \in {[mode EXCEPT ![p] = m] : m \in Modes}
  /\ UNCHANGED <<flock, semVars>>

-----------------------------------------------------------------------------
(* Lock::setup                                                             *)

\* fcntl(F_SETLKW) on the lock file
LockFile(p) ==
  /\ pc[p] = "start"
  /\ flock = NoProc
  /\ flock' = p
  /\ Goto(p, "locked")
  /\ UNCHANGED <<mode, semVars>>

\* the record lock is refused: setup() returns and id is never assigned, so
\* it is whatever the memory held: no valid id, or by chance that of the set
LockFileRefused(p) ==
  /\ FcntlFails
  /\ pc[p] = "start"
  /\ \/ Goto(p, "noid")
     \/ made /\ Goto(p, "ready")
  /\ UNCHANGED <<mode, flock, semVars>>

\* the set is there already: the initialisation is skipped
FindSet(p) ==
  /\ pc[p] = "locked"
  /\ made
  /\ flock' = NoProc
  /\ Goto(p, "ready")
  /\ UNCHANGED <<mode, semVars>>

\* semget(IPC_CREAT): a new set counts 0 on both semaphores
CreateSet(p) ==
  /\ pc[p] = "locked"
  /\ ~made
  /\ made' = TRUE
  /\ Goto(p, "created")
  /\ UNCHANGED <<mode, flock, queueSem, runSem, adjQueue, adjRun>>

\* semctl(id, 0, SETVAL): also clears all adjustments of that semaphore
SetQueue(p) ==
  /\ pc[p] = "created"
  /\ queueSem' = MaxProcesses
  /\ adjQueue' = [q \in Procs |-> 0]
  /\ Goto(p, "queueset")
  /\ UNCHANGED <<mode, flock, made, runSem, adjRun>>

\* mutant of SetRun: max and queue exchanged in the call of setup()
SetRunSwapped(p) ==
  /\ pc[p] = "queueset"
  /\ runSem' = MaxProcesses
  /\ adjRun' = [q \in Procs |-> 0]
  /\ flock' = NoProc
  /\ Goto(p, "ready")
  /\ UNCHANGED <<mode, made, queueSem, adjQueue>>

\* semctl(id, 1, SETVAL), then the file is closed
SetRun(p) ==
  /\ pc[p] = "queueset"
  /\ runSem' = MaxRunning
  /\ adjRun' = [q \in Procs |-> 0]
  /\ flock' = NoProc
  /\ Goto(p, "ready")
  /\ UNCHANGED <<mode, made, queueSem, adjQueue>>

-----------------------------------------------------------------------------
(* Lock::enter and Lock::leave                                             *)

\* without -x meteodraw draws and ends without taking the lock
DrawUnlocked(p) ==
  /\ pc[p] \in {"ready", "noid"}
  /\ mode[p] = "none"
  /\ Goto(p, "left")
  /\ UNCHANGED <<mode, flock, semVars>>

\* mutant of EnterQueue: no SEM_UNDO on semaphore 0
EnterQueueNoUndo(p) ==
  /\ pc[p] = "ready"
  /\ mode[p] # "none"
  /\ queueSem > 0
  /\ queueSem' = queueSem - 1
  /\ Goto(p, "queued")
  /\ UNCHANGED <<mode, flock, made, runSem, adjQueue, adjRun>>

\* semop -1 on semaphore 0 with IPC_NOWAIT | SEM_UNDO
EnterQueue(p) ==
  /\ pc[p] = "ready"
  /\ mode[p] # "none"
  /\ queueSem > 0
  /\ queueSem' = queueSem - 1
  /\ adjQueue' = [adjQueue EXCEPT ![p] = @ + 1]
  /\ Goto(p, "queued")
  /\ UNCHANGED <<mode, flock, made, runSem, adjRun>>

\* no queue slot, or no valid id: enter() returns false, meteodraw throws
\* "lock failed" and exits without drawing
EnterRefused(p) ==
  /\ mode[p] # "none"
  /\ \/ pc[p] = "ready" /\ queueSem = 0
     \/ pc[p] = "noid"
  /\ ProcessEnds(p)

\* mutant of EnterRun: no SEM_UNDO on semaphore 1
EnterRunNoUndo(p) ==
  /\ pc[p] = "queued"
  /\ runSem > 0
  /\ runSem' = runSem - 1
  /\ Goto(p, "running")
  /\ UNCHANGED <<mode, flock, made, queueSem, adjQueue, adjRun>>

\* semop -1 on semaphore 1, SEM_UNDO; without IPC_NOWAIT it waits
EnterRun(p) ==
  /\ pc[p] = "queued"
  /\ runSem > 0
  /\ runSem' = runSem - 1
  /\ adjRun' = [adjRun EXCEPT ![p] = @ + 1]
  /\ Goto(p, "running")
  /\ UNCHANGED <<mode, flock, made, queueSem, adjQueue>>

\* enter(false) without a run slot throws while it holds its queue slot
EnterRunRefused(p) ==
  /\ pc[p] = "queued"
  /\ mode[p] = "nowait"
  /\ runSem = 0
  /\ ProcessEnds(p)

\* one semop gives back both slots
Leave(p) ==
  /\ pc[p] = "running"
  /\ queueSem' = queueSem + 1
  /\ runSem' = runSem + 1
  /\ adjQueue' = [adjQueue EXCEPT ![p] = @ - 1]
  /\ adjRun' = [adjRun EXCEPT ![p] = @ - 1]
  /\ Goto(p, "left")
  /\ UNCHANGED <<mode, flock, made>>

Exit(p) == pc[p] = "left" /\ ProcessEnds(p)

\* killed, or an exception in setup() or while drawing ends the process
Crash(p) ==
  /\ pc[p] \in CrashAt \ {"exited"}
  /\ ProcessEnds(p)

Proceed(p) ==
  \/ LockFile(p) \/ FindSet(p) \/ CreateSet(p) \/ SetQueue(p) \/ SetRun(p)
  \/ DrawUnlocked(p) \/ EnterQueue(p) \/ EnterRefused(p)
  \/ EnterRun(p) \/ EnterRunRefused(p) \/ Leave(p) \/ Exit(p)

Next == \E p \in Procs :
  Spawn(p) \/ Proceed(p) \/ LockFileRefused(p) \/ Crash(p)

Spec == Init /\ [][Next]_vars

(***************************************************************************)
(* A process that has started keeps running: drawing takes finite time.    *)
(* The kernel wakes the processes sleeping in semop in the order they      *)
(* arrived when a slot is given back, so a sleeper is not passed over for  *)
(* ever.  Nothing forces a new meteodraw to be started or one to die.      *)
(***************************************************************************)
FairSpec ==
  /\ Spec
  /\ \A p \in Procs : WF_vars(Proceed(p)) /\ SF_vars(EnterRun(p))

-----------------------------------------------------------------------------
Holders == {p \in Procs : pc[p] \in {"queued", "running"}}
Runners == {p \in Procs : pc[p] = "running"}

TypeOK ==
  /\ pc \in [Procs -> Points]
  /\ mode \in [Procs -> Modes]
  /\ flock \in Procs \cup {NoProc}
  /\ made \in BOOLEAN
  /\ queueSem \in 0..MaxProcesses
  /\ runSem \in 0..MaxRunning
  /\ adjQueue \in [Procs -> {0, 1}]
  /\ adjRun \in [Procs -> {0, 1}]

(***************************************************************************)
(* Never more than MaxProcesses processes admitted, nor more than          *)
(* MaxRunning drawing with -x, whatever dies wherever: the limits that     *)
(* Lock::enter exists for, although creation of the set, the two semops of *)
(* enter() and the undo of a dead process interleave freely.               *)
(***************************************************************************)
SlotLimits ==
  /\ Cardinality(Holders) <= MaxProcesses
  /\ Cardinality(Runners) <= MaxRunning

(***************************************************************************)
(* No slot leaks and none is given back twice: whenever the set exists and *)
(* nobody is inside setup(), free and held slots add up to the configured  *)
(* numbers.  It is what the comment at lib/Lock.cc:58 claims for the       *)
(* construction of the set, and what SEM_UNDO is for afterwards.           *)
(***************************************************************************)
SlotsAccounted ==
  made /\ flock = NoProc =>
    /\ queueSem + Cardinality(Holders) = MaxProcesses
    /\ runSem + Cardinality(Runners) = MaxRunning

(***************************************************************************)
(* A meteodraw that waits in enter(true) gets out of the queue: the        *)
(* blocking semop on semaphore 1 returns, or the process dies.             *)
(***************************************************************************)
WaiterLeavesQueue ==
  \A p \in Procs : pc[p] = "queued" ~> pc[p] # "queued"

(***************************************************************************)
(* The two semaphores, their undo adjustments and the file lock implement  *)
(* the slots of DrawSlots.                                                 *)
(***************************************************************************)
Slots == INSTANCE DrawSlots WITH waiting <- Holders \ Runners,
                                 running <- Runners

ImplementsSlots == Slots!Spec
=============================================================================
