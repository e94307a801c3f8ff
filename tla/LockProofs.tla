----------------------------- MODULE LockProofs -----------------------------
(***************************************************************************)
(* The processes of meteodraw: their lock, for every number of processes,  *)
(* every configured limit and every set of points at which processes die,  *)
(* in the second part, the image files they write, in the third the ticks  *)
(* of the axes, in the fourth the columns of the windows they draw and in  *)
(* the fifth the images themselves, for every configuration of graphs and  *)
(* whatever rows the tables hold.                                          *)
(*                                                                         *)
(* What a recursive function computes (the powers of ten of Axis, a sum,   *)
(* the data sets of a graph, the values of the nodes of an expression) is  *)
(* proved with LeastNumber: of a set of numbers one is the least, be they  *)
(* indices, cardinalities or depths.                                       *)
(*                                                                         *)
(* SlotLimits is not inductive: it says nothing of the semaphores that     *)
(* guard the slots.  IInv adds what ties the three descriptions of a slot  *)
(* together: the control point of its holder, the undo adjustment the      *)
(* kernel keeps for it and the count of the semaphore.                     *)
(***************************************************************************)
EXTENDS Lock, Images, TLAPS, FiniteSetTheorems, WellFoundedInduction

\* A process holds a slot exactly if the kernel would give it back.
UndoMatchesHolders ==
  \A p \in Procs :
    /\ adjQueue[p] = IF p \in Holders THEN 1 ELSE 0
    /\ adjRun[p] = IF p \in Runners THEN 1 ELSE 0

\* Whoever is between fcntl and close in setup() owns the record lock.
SetupIsExclusive ==
  \A p \in Procs : pc[p] \in {"locked", "created", "queueset"} => flock = p

\* Before SETVAL a semaphore counts 0 and nobody holds one of its slots.
NothingBeforeSetval ==
  /\ ~made => /\ queueSem = 0 /\ runSem = 0 /\ Holders = {}
              /\ \A p \in Procs : pc[p] \notin {"created", "queueset"}
  /\ \A p \in Procs : pc[p] = "created" => queueSem = 0 /\ Holders = {}
  /\ \A p \in Procs :
       pc[p] \in {"created", "queueset"} => runSem = 0 /\ Runners = {}

\* Free and held slots never exceed the configured numbers.
SlotsBounded ==
  /\ queueSem + Cardinality(Holders) <= MaxProcesses
  /\ runSem + Cardinality(Runners) <= MaxRunning

IInv ==
  /\ TypeOK
  /\ UndoMatchesHolders
  /\ SetupIsExclusive
  /\ NothingBeforeSetval
  /\ SlotsBounded

\* Apart from a set whose initialisation is under way or was cut short,
\* free and held slots add up exactly.
SlotsExact ==
  made =>
    /\ \/ \E p \in Procs : pc[p] = "created"
       \/ queueSem + Cardinality(Holders) = MaxProcesses
    /\ \/ \E p \in Procs : pc[p] \in {"created", "queueset"}
       \/ runSem + Cardinality(Runners) = MaxRunning

-----------------------------------------------------------------------------
(* What one process entering or leaving a slot does to the counts.         *)

\* The sets of holders are finite, so that their cardinalities are numbers.
LEMMA HoldersFinite ==
  /\ IsFiniteSet(Holders) /\ Cardinality(Holders) \in Nat
  /\ IsFiniteSet(Runners) /\ Cardinality(Runners) \in Nat
<1>1. Holders \in SUBSET Procs /\ Runners \in SUBSET Procs
  BY DEF Holders, Runners
<1>2. IsFiniteSet(Holders) /\ IsFiniteSet(Runners)
  BY <1>1, FS_Subset, LockAssumption DEF LockAssumption
<1> QED
  BY <1>2, FS_CardinalityType

\* A process that moves from one point to another changes the set of
\* holders and the set of runners by at most itself.
LEMMA MoveOne ==
  ASSUME TypeOK, NEW p \in Procs, NEW point, Goto(p, point)
  PROVE  /\ pc' = [pc EXCEPT ![p] = point]
         /\ Holders' = IF point \in {"queued", "running"}
                         THEN Holders \cup {p} ELSE Holders \ {p}
         /\ Runners' = IF point = "running"
                         THEN Runners \cup {p} ELSE Runners \ {p}
         /\ Cardinality(Holders') =
              Cardinality(Holders)
              + (IF point \in {"queued", "running"} THEN 1 ELSE 0)
              - (IF p \in Holders THEN 1 ELSE 0)
         /\ Cardinality(Runners') =
              Cardinality(Runners)
              + (IF point = "running" THEN 1 ELSE 0)
              - (IF p \in Runners THEN 1 ELSE 0)
<1>1. pc' = [pc EXCEPT ![p] = point]
  BY DEF Goto
<1>2. Holders' = IF point \in {"queued", "running"}
                   THEN Holders \cup {p} ELSE Holders \ {p}
  BY <1>1 DEF Holders, TypeOK
<1>3. Runners' = IF point = "running"
                   THEN Runners \cup {p} ELSE Runners \ {p}
  BY <1>1 DEF Runners, TypeOK
<1>4. /\ Cardinality(Holders \cup {p}) =
           IF p \in Holders THEN Cardinality(Holders)
                            ELSE Cardinality(Holders) + 1
      /\ Cardinality(Runners \cup {p}) =
           IF p \in Runners THEN Cardinality(Runners)
                            ELSE Cardinality(Runners) + 1
  BY HoldersFinite, FS_AddElement
<1>5. /\ Cardinality(Holders \ {p}) =
           IF p \in Holders THEN Cardinality(Holders) - 1
                            ELSE Cardinality(Holders)
      /\ Cardinality(Runners \ {p}) =
           IF p \in Runners THEN Cardinality(Runners) - 1
                            ELSE Cardinality(Runners)
  BY HoldersFinite, FS_RemoveElement
<1>6. Cardinality(Holders') =
         Cardinality(Holders)
         + (IF point \in {"queued", "running"} THEN 1 ELSE 0)
         - (IF p \in Holders THEN 1 ELSE 0)
  BY <1>2, <1>4, <1>5, HoldersFinite
<1>7. Cardinality(Runners') =
         Cardinality(Runners)
         + (IF point = "running" THEN 1 ELSE 0)
         - (IF p \in Runners THEN 1 ELSE 0)
  BY <1>3, <1>4, <1>5, HoldersFinite
<1> QED
  BY <1>1, <1>2, <1>3, <1>6, <1>7

-----------------------------------------------------------------------------
(* The inductive invariant.                                                *)

LEMMA InitEstablishesIInv == Init => IInv
<1> SUFFICES ASSUME Init PROVE IInv
  OBVIOUS
<1>1. Holders = {} /\ Runners = {}
  BY DEF Init, Holders, Runners
<1>2. TypeOK
  <2>1. made \in BOOLEAN
    BY Zenon DEF Init
  <2>2. queueSem \in 0..MaxProcesses /\ runSem \in 0..MaxRunning
    BY LockAssumption DEF Init, LockAssumption
  <2>3. /\ pc \in [Procs -> Points] /\ mode \in [Procs -> Modes]
        /\ flock \in Procs \cup {NoProc}
        /\ adjQueue \in [Procs -> {0, 1}] /\ adjRun \in [Procs -> {0, 1}]
    BY DEF Init, Points
  <2> QED
    BY <2>1, <2>2, <2>3 DEF TypeOK
<1>3. UndoMatchesHolders /\ SetupIsExclusive /\ NothingBeforeSetval
  BY <1>1 DEF Init, UndoMatchesHolders, SetupIsExclusive, NothingBeforeSetval
<1>4. SlotsBounded
  BY <1>1, FS_EmptySet, LockAssumption DEF Init, SlotsBounded, LockAssumption
<1> QED
  BY <1>2, <1>3, <1>4 DEF IInv

\* The kernel's undo at the end of a process: what it gives back is what
\* the process held.
LEMMA EndKeepsIInv ==
  ASSUME IInv, NEW p \in Procs, ProcessEnds(p)
  PROVE  IInv'
<1>1. TypeOK /\ Goto(p, "exited")
  BY DEF IInv, ProcessEnds
<1>2. /\ pc' = [pc EXCEPT ![p] = "exited"]
      /\ Holders' = Holders \ {p}
      /\ Runners' = Runners \ {p}
      /\ Cardinality(Holders') =
           Cardinality(Holders) - (IF p \in Holders THEN 1 ELSE 0)
      /\ Cardinality(Runners') =
           Cardinality(Runners) - (IF p \in Runners THEN 1 ELSE 0)
  BY <1>1, MoveOne, HoldersFinite
<1>3. /\ adjQueue[p] = IF p \in Holders THEN 1 ELSE 0
      /\ adjRun[p] = IF p \in Runners THEN 1 ELSE 0
  BY DEF IInv, UndoMatchesHolders
<1>4. /\ queueSem' + Cardinality(Holders') = queueSem + Cardinality(Holders)
      /\ runSem' + Cardinality(Runners') = runSem + Cardinality(Runners)
      /\ Cardinality(Holders') \in Nat /\ Cardinality(Runners') \in Nat
      /\ queueSem' \in Nat /\ runSem' \in Nat
  <2>1. queueSem' = queueSem + adjQueue[p] /\ runSem' = runSem + adjRun[p]
    BY DEF ProcessEnds
  <2>2. Cardinality(Holders') \in Nat /\ Cardinality(Runners') \in Nat
    BY <1>1, <1>2, HoldersFinite, FS_RemoveElement, FS_CardinalityType
  <2> QED
    BY <1>1, <1>2, <1>3, <2>1, <2>2, HoldersFinite DEF TypeOK
<1>5. SlotsBounded'
  BY <1>4 DEF IInv, SlotsBounded
<1>6. TypeOK'
  BY <1>1, <1>2, <1>4, <1>5, LockAssumption
  DEF TypeOK, SlotsBounded, ProcessEnds, Points, LockAssumption
<1>7. UndoMatchesHolders'
  BY <1>1, <1>2 DEF IInv, UndoMatchesHolders, ProcessEnds, TypeOK
<1>8. SetupIsExclusive'
  BY <1>1, <1>2 DEF IInv, SetupIsExclusive, ProcessEnds, TypeOK
<1>9. NothingBeforeSetval'
  BY <1>1, <1>2, <1>3 DEF IInv, NothingBeforeSetval, ProcessEnds, TypeOK,
                           Holders, Runners
<1> QED
  BY <1>5, <1>6, <1>7, <1>8, <1>9 DEF IInv

\* A new process starts with nothing.
LEMMA SpawnKeepsIInv ==
  ASSUME IInv, NEW p \in Procs, Spawn(p)
  PROVE  IInv'
<1>1. TypeOK
  BY DEF IInv
<1>2. /\ pc' = [pc EXCEPT ![p] = "start"]
      /\ Holders' = Holders /\ Runners' = Runners
  BY <1>1 DEF Spawn, Goto, TypeOK, Holders, Runners
<1>3. SlotsBounded'
  BY <1>1, <1>2, HoldersFinite, LockAssumption
  DEF IInv, SlotsBounded, NothingBeforeSetval, TypeOK, Spawn, semVars,
      LockAssumption
<1>4. TypeOK'
  BY <1>1, <1>2, <1>3, HoldersFinite, LockAssumption
  DEF TypeOK, SlotsBounded, Spawn, semVars, Points, LockAssumption
<1>5. UndoMatchesHolders'
  BY <1>1, <1>2
  DEF IInv, UndoMatchesHolders, NothingBeforeSetval, Spawn, semVars, TypeOK
<1>6. SetupIsExclusive'
  BY <1>1, <1>2, LockAssumption
  DEF IInv, SetupIsExclusive, Spawn, TypeOK, LockAssumption
<1>7. NothingBeforeSetval'
  BY <1>1, <1>2, LockAssumption
  DEF IInv, NothingBeforeSetval, SetupIsExclusive, Spawn, semVars, TypeOK,
      Holders, Runners, LockAssumption
<1> QED
  BY <1>3, <1>4, <1>5, <1>6, <1>7 DEF IInv

\* fcntl(F_SETLKW) grants the record lock to one process at a time.
LEMMA LockFileKeepsIInv ==
  ASSUME IInv, NEW p \in Procs, LockFile(p)
  PROVE  IInv'
<1>1. TypeOK
  BY DEF IInv
<1>2. /\ pc' = [pc EXCEPT ![p] = "locked"]
      /\ Holders' = Holders /\ Runners' = Runners
  BY <1>1 DEF LockFile, Goto, TypeOK, Holders, Runners
<1>3. SlotsBounded'
  BY <1>1, <1>2, HoldersFinite, LockAssumption
  DEF IInv, SlotsBounded, NothingBeforeSetval, TypeOK, LockFile, semVars,
      LockAssumption
<1>4. TypeOK'
  BY <1>1, <1>2, <1>3, HoldersFinite, LockAssumption
  DEF TypeOK, SlotsBounded, LockFile, semVars, Points, LockAssumption
<1>5. UndoMatchesHolders'
  BY <1>1, <1>2
  DEF IInv, UndoMatchesHolders, NothingBeforeSetval, LockFile, semVars,
      TypeOK
<1>6. SetupIsExclusive'
  BY <1>1, <1>2, LockAssumption
  DEF IInv, SetupIsExclusive, LockFile, TypeOK, LockAssumption
<1>7. NothingBeforeSetval'
  BY <1>1, <1>2, LockAssumption
  DEF IInv, NothingBeforeSetval, SetupIsExclusive, LockFile, semVars,
      TypeOK, Holders, Runners, LockAssumption
<1> QED
  BY <1>3, <1>4, <1>5, <1>6, <1>7 DEF IInv

\* The set exists: the lock file is closed without touching it.
LEMMA FindSetKeepsIInv ==
  ASSUME IInv, NEW p \in Procs, FindSet(p)
  PROVE  IInv'
<1>1. TypeOK
  BY DEF IInv
<1>2. /\ pc' = [pc EXCEPT ![p] = "ready"]
      /\ Holders' = Holders /\ Runners' = Runners
  BY <1>1 DEF FindSet, Goto, TypeOK, Holders, Runners
<1>3. SlotsBounded'
  BY <1>1, <1>2, HoldersFinite, LockAssumption
  DEF IInv, SlotsBounded, NothingBeforeSetval, TypeOK, FindSet, semVars,
      LockAssumption
<1>4. TypeOK'
  BY <1>1, <1>2, <1>3, HoldersFinite, LockAssumption
  DEF TypeOK, SlotsBounded, FindSet, semVars, Points, LockAssumption
<1>5. UndoMatchesHolders'
  BY <1>1, <1>2
  DEF IInv, UndoMatchesHolders, NothingBeforeSetval, FindSet, semVars,
      TypeOK
<1>6. SetupIsExclusive'
  BY <1>1, <1>2, LockAssumption
  DEF IInv, SetupIsExclusive, FindSet, TypeOK, LockAssumption
<1>7. NothingBeforeSetval'
  BY <1>1, <1>2, LockAssumption
  DEF IInv, NothingBeforeSetval, SetupIsExclusive, FindSet, semVars, TypeOK,
      Holders, Runners, LockAssumption
<1> QED
  BY <1>3, <1>4, <1>5, <1>6, <1>7 DEF IInv

\* semget(IPC_CREAT): both semaphores of the new set count 0.
LEMMA CreateSetKeepsIInv ==
  ASSUME IInv, NEW p \in Procs, CreateSet(p)
  PROVE  IInv'
<1>1. TypeOK
  BY DEF IInv
<1>2. /\ pc' = [pc EXCEPT ![p] = "created"]
      /\ Holders' = Holders /\ Runners' = Runners
  BY <1>1 DEF CreateSet, Goto, TypeOK, Holders, Runners
<1>3. SlotsBounded'
  BY <1>1, <1>2, HoldersFinite, LockAssumption
  DEF IInv, SlotsBounded, NothingBeforeSetval, TypeOK, CreateSet, semVars,
      LockAssumption
<1>4. TypeOK'
  BY <1>1, <1>2, <1>3, HoldersFinite, LockAssumption
  DEF TypeOK, SlotsBounded, CreateSet, semVars, Points, LockAssumption
<1>5. UndoMatchesHolders'
  BY <1>1, <1>2
  DEF IInv, UndoMatchesHolders, NothingBeforeSetval, CreateSet, semVars,
      TypeOK
<1>6. SetupIsExclusive'
  BY <1>1, <1>2, LockAssumption
  DEF IInv, SetupIsExclusive, CreateSet, TypeOK, LockAssumption
<1>7. NothingBeforeSetval'
  BY <1>1, <1>2, LockAssumption
  DEF IInv, NothingBeforeSetval, SetupIsExclusive, CreateSet, semVars,
      TypeOK, Holders, Runners, LockAssumption
<1> QED
  BY <1>3, <1>4, <1>5, <1>6, <1>7 DEF IInv

\* semctl(id, 0, SETVAL): no process can hold a queue slot yet.
LEMMA SetQueueKeepsIInv ==
  ASSUME IInv, NEW p \in Procs, SetQueue(p)
  PROVE  IInv'
<1>1. TypeOK
  BY DEF IInv
<1>2. /\ pc' = [pc EXCEPT ![p] = "queueset"]
      /\ Holders' = Holders /\ Runners' = Runners
  BY <1>1 DEF SetQueue, Goto, TypeOK, Holders, Runners
<1>3. SlotsBounded'
  BY <1>1, <1>2, HoldersFinite, FS_EmptySet, LockAssumption
  DEF IInv, SlotsBounded, NothingBeforeSetval, TypeOK, SetQueue, semVars,
      LockAssumption
<1>4. TypeOK'
  BY <1>1, <1>2, <1>3, HoldersFinite, LockAssumption
  DEF TypeOK, SlotsBounded, SetQueue, semVars, Points, LockAssumption
<1>5. UndoMatchesHolders'
  BY <1>1, <1>2
  DEF IInv, UndoMatchesHolders, NothingBeforeSetval, SetQueue, semVars,
      TypeOK
<1>6. SetupIsExclusive'
  BY <1>1, <1>2, LockAssumption
  DEF IInv, SetupIsExclusive, SetQueue, TypeOK, LockAssumption
<1>7. NothingBeforeSetval'
  BY <1>1, <1>2, LockAssumption
  DEF IInv, NothingBeforeSetval, SetupIsExclusive, SetQueue, semVars,
      TypeOK, Holders, Runners, LockAssumption
<1> QED
  BY <1>3, <1>4, <1>5, <1>6, <1>7 DEF IInv

\* semctl(id, 1, SETVAL): no process can hold a run slot yet.
LEMMA SetRunKeepsIInv ==
  ASSUME IInv, NEW p \in Procs, SetRun(p)
  PROVE  IInv'
<1>1. TypeOK
  BY DEF IInv
<1>2. /\ pc' = [pc EXCEPT ![p] = "ready"]
      /\ Holders' = Holders /\ Runners' = Runners
  BY <1>1 DEF SetRun, Goto, TypeOK, Holders, Runners
<1>3. SlotsBounded'
  BY <1>1, <1>2, HoldersFinite, FS_EmptySet, LockAssumption
  DEF IInv, SlotsBounded, NothingBeforeSetval, TypeOK, SetRun, semVars,
      LockAssumption
<1>4. TypeOK'
  BY <1>1, <1>2, <1>3, HoldersFinite, LockAssumption
  DEF TypeOK, SlotsBounded, SetRun, semVars, Points, LockAssumption
<1>5. UndoMatchesHolders'
  BY <1>1, <1>2
  DEF IInv, UndoMatchesHolders, NothingBeforeSetval, SetRun, semVars,
      TypeOK
<1>6. SetupIsExclusive'
  BY <1>1, <1>2, LockAssumption
  DEF IInv, SetupIsExclusive, SetRun, TypeOK, LockAssumption
<1>7. NothingBeforeSetval'
  BY <1>1, <1>2, LockAssumption
  DEF IInv, NothingBeforeSetval, SetupIsExclusive, SetRun, semVars, TypeOK,
      Holders, Runners, LockAssumption
<1> QED
  BY <1>3, <1>4, <1>5, <1>6, <1>7 DEF IInv

\* Drawing without -x.
LEMMA DrawUnlockedKeepsIInv ==
  ASSUME IInv, NEW p \in Procs, DrawUnlocked(p)
  PROVE  IInv'
<1>1. TypeOK
  BY DEF IInv
<1>2. /\ pc' = [pc EXCEPT ![p] = "left"]
      /\ Holders' = Holders /\ Runners' = Runners
  BY <1>1 DEF DrawUnlocked, Goto, TypeOK, Holders, Runners
<1>3. SlotsBounded'
  BY <1>1, <1>2, HoldersFinite, LockAssumption
  DEF IInv, SlotsBounded, NothingBeforeSetval, TypeOK, DrawUnlocked,
      semVars, LockAssumption
<1>4. TypeOK'
  BY <1>1, <1>2, <1>3, HoldersFinite, LockAssumption
  DEF TypeOK, SlotsBounded, DrawUnlocked, semVars, Points, LockAssumption
<1>5. UndoMatchesHolders'
  BY <1>1, <1>2
  DEF IInv, UndoMatchesHolders, NothingBeforeSetval, DrawUnlocked, semVars,
      TypeOK
<1>6. SetupIsExclusive'
  BY <1>1, <1>2, LockAssumption
  DEF IInv, SetupIsExclusive, DrawUnlocked, TypeOK, LockAssumption
<1>7. NothingBeforeSetval'
  BY <1>1, <1>2, LockAssumption
  DEF IInv, NothingBeforeSetval, SetupIsExclusive, DrawUnlocked, semVars,
      TypeOK, Holders, Runners, LockAssumption
<1> QED
  BY <1>3, <1>4, <1>5, <1>6, <1>7 DEF IInv

\* setup() returns early with an unassigned id.
LEMMA LockFileRefusedKeepsIInv ==
  ASSUME IInv, NEW p \in Procs, LockFileRefused(p)
  PROVE  IInv'
<1>1. TypeOK
  BY DEF IInv
<1>2. /\ pc' \in {[pc EXCEPT ![p] = "noid"], [pc EXCEPT ![p] = "ready"]}
      /\ Holders' = Holders /\ Runners' = Runners
  BY <1>1 DEF LockFileRefused, Goto, TypeOK, Holders, Runners
<1>3. SlotsBounded'
  BY <1>1, <1>2, HoldersFinite, LockAssumption
  DEF IInv, SlotsBounded, NothingBeforeSetval, TypeOK, LockFileRefused,
      semVars, LockAssumption
<1>4. TypeOK'
  BY <1>1, <1>2, <1>3, HoldersFinite, LockAssumption
  DEF TypeOK, SlotsBounded, LockFileRefused, semVars, Points, LockAssumption
<1>5. UndoMatchesHolders'
  BY <1>1, <1>2
  DEF IInv, UndoMatchesHolders, NothingBeforeSetval, LockFileRefused,
      semVars, TypeOK
<1>6. SetupIsExclusive'
  BY <1>1, <1>2, LockAssumption
  DEF IInv, SetupIsExclusive, LockFileRefused, TypeOK, LockAssumption
<1>7. NothingBeforeSetval'
  BY <1>1, <1>2, LockAssumption
  DEF IInv, NothingBeforeSetval, SetupIsExclusive, LockFileRefused, semVars,
      TypeOK, Holders, Runners, LockAssumption
<1> QED
  BY <1>3, <1>4, <1>5, <1>6, <1>7 DEF IInv

\* A queue slot moves from the semaphore to the process and its adjustment.
LEMMA EnterQueueKeepsIInv ==
  ASSUME IInv, NEW p \in Procs, EnterQueue(p)
  PROVE  IInv'
<1>1. TypeOK
  BY DEF IInv
<1>2. /\ pc' = [pc EXCEPT ![p] = "queued"]
      /\ Holders' = Holders \cup {p} /\ Runners' = Runners
      /\ Cardinality(Holders') = Cardinality(Holders) + 1
      /\ Cardinality(Runners') = Cardinality(Runners)
      /\ Cardinality(Holders') \in Nat /\ Cardinality(Runners') \in Nat
  <2>1. Goto(p, "queued")
    BY DEF EnterQueue
  <2>2. p \notin Holders /\ p \notin Runners
    BY DEF EnterQueue, Holders, Runners
  <2>3. IsFiniteSet(Holders') /\ IsFiniteSet(Runners')
    BY <1>1, <2>1, MoveOne, HoldersFinite, FS_AddElement, FS_RemoveElement
  <2>4. pc' = [pc EXCEPT ![p] = "queued"]
    BY <2>1 DEF Goto
  <2>5. Holders' = Holders \cup {p} /\ Runners' = Runners
    BY <1>1, <2>2, <2>4 DEF TypeOK, Holders, Runners
  <2>6. /\ Cardinality(Holders') = Cardinality(Holders) + 1
        /\ Cardinality(Runners') = Cardinality(Runners)
    BY <1>1, <2>1, <2>2, MoveOne, HoldersFinite
  <2>7. Cardinality(Holders') \in Nat /\ Cardinality(Runners') \in Nat
    BY <2>3, FS_CardinalityType
  <2> QED
    BY <2>4, <2>5, <2>6, <2>7
<1>3. adjQueue' = [adjQueue EXCEPT ![p] = 1] /\ adjRun' = adjRun
  <2>1. adjQueue[p] = 0 /\ adjRun[p] = 0
    BY DEF IInv, UndoMatchesHolders, EnterQueue, Holders, Runners
  <2> QED
    BY <1>1, <2>1 DEF EnterQueue, TypeOK
<1>4. SlotsBounded'
  BY <1>1, <1>2, HoldersFinite, LockAssumption
  DEF IInv, SlotsBounded, NothingBeforeSetval, TypeOK, EnterQueue, semVars,
      LockAssumption
<1>5. TypeOK'
  BY <1>1, <1>2, <1>3, <1>4, HoldersFinite, LockAssumption
  DEF TypeOK, SlotsBounded, EnterQueue, semVars, Points, LockAssumption
<1>6. UndoMatchesHolders'
  BY <1>1, <1>2, <1>3
  DEF IInv, UndoMatchesHolders, NothingBeforeSetval, EnterQueue, semVars,
      TypeOK
<1>7. SetupIsExclusive'
  BY <1>1, <1>2, LockAssumption
  DEF IInv, SetupIsExclusive, EnterQueue, TypeOK, LockAssumption
<1>8. NothingBeforeSetval'
  BY <1>1, <1>2, LockAssumption
  DEF IInv, NothingBeforeSetval, SetupIsExclusive, EnterQueue, semVars,
      TypeOK, Holders, Runners, LockAssumption
<1> QED
  BY <1>4, <1>5, <1>6, <1>7, <1>8 DEF IInv

\* A run slot moves from the semaphore to the process and its adjustment.
LEMMA EnterRunKeepsIInv ==
  ASSUME IInv, NEW p \in Procs, EnterRun(p)
  PROVE  IInv'
<1>1. TypeOK
  BY DEF IInv
<1>2. /\ pc' = [pc EXCEPT ![p] = "running"]
      /\ Holders' = Holders /\ Runners' = Runners \cup {p}
      /\ Cardinality(Holders') = Cardinality(Holders)
      /\ Cardinality(Runners') = Cardinality(Runners) + 1
      /\ Cardinality(Holders') \in Nat /\ Cardinality(Runners') \in Nat
  <2>1. Goto(p, "running")
    BY DEF EnterRun
  <2>2. p \in Holders /\ p \notin Runners
    BY DEF EnterRun, Holders, Runners
  <2>3. IsFiniteSet(Holders') /\ IsFiniteSet(Runners')
    BY <1>1, <2>1, MoveOne, HoldersFinite, FS_AddElement, FS_RemoveElement
  <2>4. pc' = [pc EXCEPT ![p] = "running"]
    BY <2>1 DEF Goto
  <2>5. Holders' = Holders /\ Runners' = Runners \cup {p}
    BY <1>1, <2>2, <2>4 DEF TypeOK, Holders, Runners
  <2>6. /\ Cardinality(Holders') = Cardinality(Holders)
        /\ Cardinality(Runners') = Cardinality(Runners) + 1
    BY <1>1, <2>1, <2>2, MoveOne, HoldersFinite
  <2>7. Cardinality(Holders') \in Nat /\ Cardinality(Runners') \in Nat
    BY <2>3, FS_CardinalityType
  <2> QED
    BY <2>4, <2>5, <2>6, <2>7
<1>3. adjQueue' = adjQueue /\ adjRun' = [adjRun EXCEPT ![p] = 1]
  <2>1. adjQueue[p] = 1 /\ adjRun[p] = 0
    BY DEF IInv, UndoMatchesHolders, EnterRun, Holders, Runners
  <2> QED
    BY <1>1, <2>1 DEF EnterRun, TypeOK
<1>4. SlotsBounded'
  BY <1>1, <1>2, HoldersFinite, LockAssumption
  DEF IInv, SlotsBounded, NothingBeforeSetval, TypeOK, EnterRun, semVars,
      LockAssumption
<1>5. TypeOK'
  BY <1>1, <1>2, <1>3, <1>4, HoldersFinite, LockAssumption
  DEF TypeOK, SlotsBounded, EnterRun, semVars, Points, LockAssumption
<1>6. UndoMatchesHolders'
  BY <1>1, <1>2, <1>3
  DEF IInv, UndoMatchesHolders, NothingBeforeSetval, EnterRun, semVars,
      TypeOK
<1>7. SetupIsExclusive'
  BY <1>1, <1>2, LockAssumption
  DEF IInv, SetupIsExclusive, EnterRun, TypeOK, LockAssumption
<1>8. NothingBeforeSetval'
  BY <1>1, <1>2, LockAssumption
  DEF IInv, NothingBeforeSetval, SetupIsExclusive, EnterRun, semVars,
      TypeOK, Holders, Runners, LockAssumption
<1> QED
  BY <1>4, <1>5, <1>6, <1>7, <1>8 DEF IInv

\* Both slots move back to the semaphores.
LEMMA LeaveKeepsIInv ==
  ASSUME IInv, NEW p \in Procs, Leave(p)
  PROVE  IInv'
<1>1. TypeOK
  BY DEF IInv
<1>2. /\ pc' = [pc EXCEPT ![p] = "left"]
      /\ Holders' = Holders \ {p} /\ Runners' = Runners \ {p}
      /\ Cardinality(Holders') = Cardinality(Holders) - 1
      /\ Cardinality(Runners') = Cardinality(Runners) - 1
      /\ Cardinality(Holders') \in Nat /\ Cardinality(Runners') \in Nat
  <2>1. Goto(p, "left")
    BY DEF Leave
  <2>2. p \in Holders /\ p \in Runners
    BY DEF Leave, Holders, Runners
  <2>3. IsFiniteSet(Holders') /\ IsFiniteSet(Runners')
    BY <1>1, <2>1, MoveOne, HoldersFinite, FS_AddElement, FS_RemoveElement
  <2>4. pc' = [pc EXCEPT ![p] = "left"]
    BY <2>1 DEF Goto
  <2>5. Holders' = Holders \ {p} /\ Runners' = Runners \ {p}
    BY <1>1, <2>2, <2>4 DEF TypeOK, Holders, Runners
  <2>6. /\ Cardinality(Holders') = Cardinality(Holders) - 1
        /\ Cardinality(Runners') = Cardinality(Runners) - 1
    BY <1>1, <2>1, <2>2, MoveOne, HoldersFinite
  <2>7. Cardinality(Holders') \in Nat /\ Cardinality(Runners') \in Nat
    BY <2>3, FS_CardinalityType
  <2> QED
    BY <2>4, <2>5, <2>6, <2>7
<1>3. /\ adjQueue' = [adjQueue EXCEPT ![p] = 0]
      /\ adjRun' = [adjRun EXCEPT ![p] = 0]
  <2>1. adjQueue[p] = 1 /\ adjRun[p] = 1
    BY DEF IInv, UndoMatchesHolders, Leave, Holders, Runners
  <2> QED
    BY <1>1, <2>1 DEF Leave, TypeOK
<1>4. SlotsBounded'
  BY <1>1, <1>2, HoldersFinite, LockAssumption
  DEF IInv, SlotsBounded, NothingBeforeSetval, TypeOK, Leave, semVars,
      LockAssumption
<1>5. TypeOK'
  BY <1>1, <1>2, <1>3, <1>4, HoldersFinite, LockAssumption
  DEF TypeOK, SlotsBounded, Leave, semVars, Points, LockAssumption
<1>6. UndoMatchesHolders'
  BY <1>1, <1>2, <1>3
  DEF IInv, UndoMatchesHolders, NothingBeforeSetval, Leave, semVars, TypeOK
<1>7. SetupIsExclusive'
  BY <1>1, <1>2, LockAssumption
  DEF IInv, SetupIsExclusive, Leave, TypeOK, LockAssumption
<1>8. NothingBeforeSetval'
  BY <1>1, <1>2, LockAssumption
  DEF IInv, NothingBeforeSetval, SetupIsExclusive, Leave, semVars, TypeOK,
      Holders, Runners, LockAssumption
<1> QED
  BY <1>4, <1>5, <1>6, <1>7, <1>8 DEF IInv

LEMMA StepKeepsIInv ==
  ASSUME IInv, [Next]_vars
  PROVE  IInv'
<1>1. ASSUME NEW p \in Procs,
             Spawn(p) \/ Proceed(p) \/ LockFileRefused(p) \/ Crash(p)
      PROVE  IInv'
  <2>1. CASE Spawn(p)
    BY <2>1, SpawnKeepsIInv
  <2>2. CASE LockFile(p)
    BY <2>2, LockFileKeepsIInv
  <2>3. CASE LockFileRefused(p)
    BY <2>3, LockFileRefusedKeepsIInv
  <2>4. CASE FindSet(p)
    BY <2>4, FindSetKeepsIInv
  <2>5. CASE CreateSet(p)
    BY <2>5, CreateSetKeepsIInv
  <2>6. CASE SetQueue(p)
    BY <2>6, SetQueueKeepsIInv
  <2>7. CASE SetRun(p)
    BY <2>7, SetRunKeepsIInv
  <2>8. CASE DrawUnlocked(p)
    BY <2>8, DrawUnlockedKeepsIInv
  <2>9. CASE EnterQueue(p)
    BY <2>9, EnterQueueKeepsIInv
  <2>10. CASE EnterRun(p)
    BY <2>10, EnterRunKeepsIInv
  <2>11. CASE Leave(p)
    BY <2>11, LeaveKeepsIInv
  <2>12. CASE EnterRefused(p)
    BY <2>12, EndKeepsIInv DEF EnterRefused
  <2>13. CASE EnterRunRefused(p)
    BY <2>13, EndKeepsIInv DEF EnterRunRefused
  <2>14. CASE Exit(p)
    BY <2>14, EndKeepsIInv DEF Exit
  <2>15. CASE Crash(p)
    BY <2>15, EndKeepsIInv DEF Crash
  <2> QED
    BY <1>1, <2>1, <2>2, <2>3, <2>4, <2>5, <2>6, <2>7, <2>8,
       <2>9, <2>10, <2>11, <2>12, <2>13, <2>14, <2>15
    DEF Proceed
<1>2. CASE UNCHANGED vars
  BY <1>2 DEF vars, semVars, IInv, TypeOK, UndoMatchesHolders,
              SetupIsExclusive, NothingBeforeSetval, SlotsBounded,
              Holders, Runners
<1> QED
  BY <1>1, <1>2 DEF Next

\* The conjunction that ties control points, undo adjustments and semaphore
\* counts together holds throughout, wherever processes die.
THEOREM Invariance == Spec => []IInv
<1>1. Init => IInv
  BY InitEstablishesIInv
<1>2. IInv /\ [Next]_vars => IInv'
  BY StepKeepsIInv
<1> QED
  BY <1>1, <1>2, PTL DEF Spec

-----------------------------------------------------------------------------
(* The theorems about the lock.                                            *)

\* The semaphores stay within 0 and their configured values, and no undo
\* adjustment exceeds one slot.
THEOREM TypeCorrect == Spec => []TypeOK
<1>1. IInv => TypeOK
  BY DEF IInv
<1> QED
  BY <1>1, Invariance, PTL

\* Lock::enter and the undo of dead processes keep the numbers of admitted
\* and of drawing processes within the configured limits, for any number of
\* processes and even if creators of the set die between its SETVALs.
THEOREM LimitsHold == Spec => []SlotLimits
<1>1. IInv => SlotLimits
  BY HoldersFinite, LockAssumption
  DEF IInv, SlotsBounded, SlotLimits, TypeOK, LockAssumption
<1> QED
  BY <1>1, Invariance, PTL

-----------------------------------------------------------------------------
(* No slot leaks, provided that no creator of the set dies inside setup(). *)

\* Taking and giving a slot, and dying, leave the sums alone.
LEMMA SumsKept ==
  ASSUME IInv, NEW p \in Procs,
         \/ Spawn(p) \/ LockFile(p) \/ LockFileRefused(p) \/ FindSet(p)
         \/ DrawUnlocked(p) \/ EnterQueue(p) \/ EnterRun(p) \/ Leave(p)
         \/ ProcessEnds(p)
  PROVE  /\ queueSem' + Cardinality(Holders') = queueSem + Cardinality(Holders)
         /\ runSem' + Cardinality(Runners') = runSem + Cardinality(Runners)
         /\ made' = made
<1>1. TypeOK
  BY DEF IInv
<1>2. CASE \/ Spawn(p) \/ LockFile(p) \/ LockFileRefused(p) \/ FindSet(p)
           \/ DrawUnlocked(p)
  <2>1. Holders' = Holders /\ Runners' = Runners
    BY <1>1, <1>2 DEF Spawn, LockFile, LockFileRefused, FindSet, DrawUnlocked,
                      Goto, TypeOK, Holders, Runners
  <2>2. UNCHANGED semVars
    BY <1>2 DEF Spawn, LockFile, LockFileRefused, FindSet, DrawUnlocked
  <2> QED
    BY <2>1, <2>2 DEF semVars
<1>3. CASE EnterQueue(p)
  <2>1. Goto(p, "queued") /\ p \notin Holders /\ p \notin Runners
    BY <1>3 DEF EnterQueue, Holders, Runners
  <2>2. /\ Cardinality(Holders') = Cardinality(Holders) + 1
        /\ Cardinality(Runners') = Cardinality(Runners)
    BY <1>1, <2>1, MoveOne, HoldersFinite
  <2> QED
    BY <1>1, <1>3, <2>2, HoldersFinite, LockAssumption
    DEF EnterQueue, TypeOK, LockAssumption
<1>4. CASE EnterRun(p)
  <2>1. Goto(p, "running") /\ p \in Holders /\ p \notin Runners
    BY <1>4 DEF EnterRun, Holders, Runners
  <2>2. /\ Cardinality(Holders') = Cardinality(Holders)
        /\ Cardinality(Runners') = Cardinality(Runners) + 1
    BY <1>1, <2>1, MoveOne, HoldersFinite
  <2> QED
    BY <1>1, <1>4, <2>2, HoldersFinite, LockAssumption
    DEF EnterRun, TypeOK, LockAssumption
<1>5. CASE Leave(p)
  <2>1. Goto(p, "left") /\ p \in Holders /\ p \in Runners
    BY <1>5 DEF Leave, Holders, Runners
  <2>2. /\ Cardinality(Holders') = Cardinality(Holders) - 1
        /\ Cardinality(Runners') = Cardinality(Runners) - 1
    BY <1>1, <2>1, MoveOne, HoldersFinite
  <2> QED
    BY <1>1, <1>5, <2>2, HoldersFinite, LockAssumption
    DEF Leave, TypeOK, LockAssumption
<1>6. CASE ProcessEnds(p)
  <2>1. /\ queueSem' = queueSem + (IF p \in Holders THEN 1 ELSE 0)
        /\ runSem' = runSem + (IF p \in Runners THEN 1 ELSE 0)
    BY <1>6 DEF ProcessEnds, IInv, UndoMatchesHolders
  <2>2. /\ Cardinality(Holders') =
             Cardinality(Holders) - (IF p \in Holders THEN 1 ELSE 0)
        /\ Cardinality(Runners') =
             Cardinality(Runners) - (IF p \in Runners THEN 1 ELSE 0)
    BY <1>1, <1>6, MoveOne, HoldersFinite DEF ProcessEnds
  <2> QED
    BY <1>1, <1>6, <2>1, <2>2, HoldersFinite, LockAssumption
    DEF ProcessEnds, TypeOK, LockAssumption
<1> QED
  BY <1>2, <1>3, <1>4, <1>5, <1>6

\* A process other than an interrupted creator keeps the sums exact.
LEMMA SumsExactKept ==
  ASSUME IInv, SlotsExact, NEW p \in Procs,
         pc[p] \notin {"created", "queueset"},
         NEW point, Goto(p, point),
         queueSem' + Cardinality(Holders') = queueSem + Cardinality(Holders),
         runSem' + Cardinality(Runners') = runSem + Cardinality(Runners),
         made' = made
  PROVE  SlotsExact'
<1>1. \A q \in Procs : pc[q] \in {"created", "queueset"} => pc'[q] = pc[q]
  BY DEF Goto, IInv, TypeOK
<1> QED
  BY <1>1 DEF SlotsExact

LEMMA StepKeepsExact ==
  ASSUME CrashAt \cap {"created", "queueset"} = {},
         IInv, SlotsExact, [Next]_vars
  PROVE  SlotsExact'
<1>1. ASSUME NEW p \in Procs, CreateSet(p)
      PROVE  SlotsExact'
  <2>1. pc'[p] = "created"
    BY <1>1 DEF CreateSet, Goto, IInv, TypeOK
  <2> QED
    BY <2>1 DEF SlotsExact
<1>2. ASSUME NEW p \in Procs, SetQueue(p)
      PROVE  SlotsExact'
  <2>1. pc'[p] = "queueset" /\ Holders' = Holders
    BY <1>2 DEF SetQueue, Goto, IInv, TypeOK, Holders
  <2>2. queueSem' = MaxProcesses /\ Cardinality(Holders') = 0
    BY <1>2, <2>1, FS_EmptySet DEF SetQueue, IInv, NothingBeforeSetval
  <2> QED
    BY <2>1, <2>2, LockAssumption DEF SlotsExact, LockAssumption
<1>3. ASSUME NEW p \in Procs, SetRun(p)
      PROVE  SlotsExact'
  <2>1. Holders' = Holders /\ Runners' = Runners
    BY <1>3 DEF SetRun, Goto, IInv, TypeOK, Holders, Runners
  <2>2. runSem' = MaxRunning /\ Cardinality(Runners') = 0
    BY <1>3, <2>1, FS_EmptySet DEF SetRun, IInv, NothingBeforeSetval
  <2>3. made /\ \A q \in Procs : pc[q] # "created"
    BY <1>3 DEF SetRun, IInv, NothingBeforeSetval, SetupIsExclusive
  <2>4. queueSem' + Cardinality(Holders') = MaxProcesses
    BY <1>3, <2>1, <2>3 DEF SlotsExact, SetRun
  <2> QED
    BY <2>2, <2>4, LockAssumption DEF SlotsExact, LockAssumption
<1>4. ASSUME NEW p \in Procs,
             \/ Spawn(p) \/ LockFile(p) \/ LockFileRefused(p) \/ FindSet(p)
             \/ DrawUnlocked(p) \/ EnterQueue(p) \/ EnterRun(p) \/ Leave(p)
      PROVE  SlotsExact'
  <2>1. pc[p] \notin {"created", "queueset"} /\ \E point : Goto(p, point)
    BY <1>4 DEF Spawn, LockFile, LockFileRefused, FindSet, DrawUnlocked,
                EnterQueue, EnterRun, Leave
  <2> QED
    BY <1>4, <2>1, SumsKept, SumsExactKept
<1>5. ASSUME NEW p \in Procs,
             EnterRefused(p) \/ EnterRunRefused(p) \/ Exit(p) \/ Crash(p)
      PROVE  SlotsExact'
  <2>1. pc[p] \notin {"created", "queueset"} /\ ProcessEnds(p)
    BY <1>5 DEF EnterRefused, EnterRunRefused, Exit, Crash
  <2> QED
    BY <2>1, SumsKept, SumsExactKept DEF ProcessEnds
<1>6. CASE UNCHANGED vars
  BY <1>6 DEF vars, semVars, SlotsExact, Holders, Runners
<1> QED
  BY <1>1, <1>2, <1>3, <1>4, <1>5, <1>6 DEF Next, Proceed

\* If nobody dies between semget(IPC_CREAT) and the second SETVAL, no
\* sequence of entries, exits and deaths leaks a slot or returns one twice.
\* The run lock_setup_crash shows that the assumption is needed.
THEOREM NoSlotLeaks ==
  ASSUME CrashAt \cap {"created", "queueset"} = {}
  PROVE  Spec => []SlotsAccounted
<1>1. Init => SlotsExact
  BY DEF Init, SlotsExact
<1>2. IInv /\ SlotsExact /\ [Next]_vars => SlotsExact'
  BY StepKeepsExact
<1>3. IInv /\ SlotsExact => SlotsAccounted
  BY LockAssumption
  DEF IInv, SetupIsExclusive, SlotsExact, SlotsAccounted, LockAssumption
<1> QED
  BY <1>1, <1>2, <1>3, Invariance, PTL DEF Spec

-----------------------------------------------------------------------------
(* The lock implements DrawSlots.                                          *)

\* Whatever the kernel or leave() gives back is a release of the slots.
LEMMA EndIsRelease ==
  ASSUME TypeOK, NEW p \in Procs, NEW point, Goto(p, point),
         point \notin {"queued", "running"}
  PROVE  [Slots!Next]_(Slots!slotVars)
<1>1. Holders' = Holders \ {p} /\ Runners' = Runners \ {p}
  BY DEF Goto, TypeOK, Holders, Runners
<1>2. CASE p \in Holders
  <2>1. Slots!Release(p)
    BY <1>1, <1>2 DEF Slots!Release, Holders, Runners
  <2> QED
    BY <2>1 DEF Slots!Next
<1>3. CASE p \notin Holders
  <2>1. Holders' = Holders /\ Runners' = Runners
    BY <1>1, <1>3 DEF Holders, Runners
  <2> QED
    BY <2>1 DEF Slots!slotVars
<1> QED
  BY <1>2, <1>3

\* The cardinality that DrawSlots uses is the one used here.
LEMMA SameCardinality ==
  ASSUME NEW S
  PROVE  Slots!Cardinality(S) = Cardinality(S)
BY DEF Slots!Cardinality, Cardinality, Slots!IsFiniteSet, IsFiniteSet

LEMMA StepRefines ==
  ASSUME IInv, [Next]_vars
  PROVE  [Slots!Next]_(Slots!slotVars)
<1>1. TypeOK
  BY DEF IInv
<1>2. ASSUME NEW p \in Procs, EnterQueue(p)
      PROVE  [Slots!Next]_(Slots!slotVars)
  <2>1. p \notin Holders /\ p \notin Runners
    BY <1>2 DEF EnterQueue, Holders, Runners
  <2>2. Holders' = Holders \cup {p} /\ Runners' = Runners
    BY <1>1, <1>2 DEF EnterQueue, Goto, TypeOK, Holders, Runners
  <2>3. Cardinality(Holders) < MaxProcesses
    BY <1>1, <1>2, HoldersFinite, LockAssumption
    DEF EnterQueue, IInv, SlotsBounded, TypeOK, LockAssumption
  <2>4. (Holders \ Runners) \cup Runners = Holders
    BY DEF Holders, Runners
  <2>5. (Holders \ Runners)' = (Holders \ Runners) \cup {p}
    BY <2>1, <2>2
  <2>6. p \notin (Holders \ Runners) \cup Runners
    BY <2>1
  <2>7. Cardinality((Holders \ Runners) \cup Runners) < MaxProcesses
    BY <2>3, <2>4
  <2>8. Slots!Admit(p)
    BY <2>2, <2>5, <2>6, <2>7, SameCardinality DEF Slots!Admit
  <2> QED
    BY <2>8 DEF Slots!Next
<1>3. ASSUME NEW p \in Procs, EnterRun(p)
      PROVE  [Slots!Next]_(Slots!slotVars)
  <2>1. p \in Holders /\ p \notin Runners
    BY <1>3 DEF EnterRun, Holders, Runners
  <2>2. Holders' = Holders /\ Runners' = Runners \cup {p}
    BY <1>1, <1>3 DEF EnterRun, Goto, TypeOK, Holders, Runners
  <2>3. Cardinality(Runners) < MaxRunning
    BY <1>1, <1>3, HoldersFinite, LockAssumption
    DEF EnterRun, IInv, SlotsBounded, TypeOK, LockAssumption
  <2>4. (Holders \ Runners)' = (Holders \ Runners) \ {p}
    BY <2>1, <2>2
  <2>5. p \in Holders \ Runners
    BY <2>1
  <2>6. Slots!Start(p)
    BY <2>2, <2>3, <2>4, <2>5, SameCardinality DEF Slots!Start
  <2> QED
    BY <2>6 DEF Slots!Next
<1>4. ASSUME NEW p \in Procs,
             \/ Spawn(p) \/ LockFile(p) \/ LockFileRefused(p) \/ FindSet(p)
             \/ CreateSet(p) \/ SetQueue(p) \/ SetRun(p) \/ DrawUnlocked(p)
             \/ Leave(p) \/ EnterRefused(p) \/ EnterRunRefused(p)
             \/ Exit(p) \/ Crash(p)
      PROVE  [Slots!Next]_(Slots!slotVars)
  <2>1. \E point : Goto(p, point) /\ point \notin {"queued", "running"}
    BY <1>4 DEF Spawn, LockFile, LockFileRefused, FindSet, CreateSet,
                SetQueue, SetRun, DrawUnlocked, Leave, EnterRefused,
                EnterRunRefused, Exit, Crash, ProcessEnds
  <2> QED
    BY <1>1, <2>1, EndIsRelease
<1>5. CASE UNCHANGED vars
  BY <1>5 DEF vars, Slots!slotVars, Holders, Runners
<1> QED
  BY <1>2, <1>3, <1>4, <1>5 DEF Next, Proceed

\* The semaphores, their undo adjustments and the record lock together are
\* an implementation of the slots that man/meteo.xml.5 describes.
THEOREM Refinement == Spec => ImplementsSlots
<1>1. Init => Slots!Init
  BY DEF Init, Slots!Init, Holders, Runners
<1>2. IInv /\ [Next]_vars => [Slots!Next]_(Slots!slotVars)
  BY StepRefines
<1> QED
  BY <1>1, <1>2, Invariance, PTL DEF Spec, ImplementsSlots, Slots!Spec

-----------------------------------------------------------------------------
(***************************************************************************)
(* The files that processes of meteodraw leave, for any number of          *)
(* processes, graphs and command lines and whatever rows arrive.           *)
(***************************************************************************)
JobSet == UNION {Range(Jobs(r)) : r \in Requests}

DrawerType ==
  [pc : {"idle", "next", "query", "open", "write", "done"},
   request : Requests \cup {NoRequest}, started : Nat, todo : Seq(JobSet),
   imgold : BOOLEAN, asof : Nat, missed : SUBSET JobSet]
FileType ==
  [state : {"absent", "partial", "whole", "mixed"}, ctime : Nat, asof : Nat,
   writers : SUBSET Drawers]

DrawTypeOK ==
  now \in Nat /\ file \in [Files -> FileType] /\ drawer \in [Drawers -> DrawerType]

\* The time of a whole file is that of its data but for the time to draw
FileInv ==
  \A f \in Files :
    /\ file[f].ctime <= now
    /\ file[f].state = "whole" => file[f].ctime <= file[f].asof + MaxDraw

\* What ImagesAreRecent promises process d of the file of job j
Recent(d, j) ==
  /\ file[j.file].state # "absent"
  /\ file[j.file].state = "whole" =>
       file[j.file].asof >= drawer[d].started - j.interval - MaxDraw

\* Of its jobs, a process has done, missed or still to do each
DrawerInv(d) ==
  drawer[d].pc # "idle" =>
    /\ drawer[d].request \in Requests /\ drawer[d].started <= now
    /\ \A j \in Range(Jobs(drawer[d].request)) :
         j \in Range(drawer[d].todo) \/ j \in drawer[d].missed \/ Recent(d, j)
    /\ drawer[d].pc \in {"query", "open", "write"} => drawer[d].todo # <<>>
    /\ drawer[d].pc = "query" /\ ~drawer[d].imgold =>
         Recent(d, Head(drawer[d].todo))
    /\ drawer[d].pc \in {"open", "write"} =>
         now <= drawer[d].asof + MaxDraw
    /\ drawer[d].pc = "done" => drawer[d].todo = <<>>

DrawInv == DrawTypeOK /\ FileInv /\ \A d \in Drawers : DrawerInv(d)

USE ImageFilesAssumption DEF ImageFilesAssumption

-----------------------------------------------------------------------------
(* The jobs of a command line                                              *)

LEMMA SeqOfFunction ==
  ASSUME NEW T, NEW n \in Nat, NEW f \in [1..n -> T]
  PROVE  f \in Seq(T)
  OBVIOUS

LEMMA FunctionOfSeq ==
  ASSUME NEW T, NEW s \in Seq(T)
  PROVE  Len(s) \in Nat /\ s \in [1..Len(s) -> T]
  OBVIOUS

LEMMA FirstAndRest ==
  ASSUME NEW S, NEW s \in Seq(S), s # <<>>
  PROVE  /\ Head(s) \in S /\ Head(s) \in Range(s) /\ Tail(s) \in Seq(S)
         /\ \A x \in Range(s) : x = Head(s) \/ x \in Range(Tail(s))
<1>1. Len(s) \in Nat \ {0} /\ DOMAIN s = 1..Len(s) /\ Head(s) = s[1]
  OBVIOUS
<1>2. /\ Tail(s) \in Seq(S) /\ Len(Tail(s)) = Len(s) - 1
      /\ \A i \in 1..(Len(s) - 1) : Tail(s)[i] = s[i + 1]
      /\ DOMAIN Tail(s) = 1..(Len(s) - 1)
  OBVIOUS
<1>3. Head(s) \in S /\ Head(s) \in Range(s)
  BY <1>1 DEF Range
<1>4. ASSUME NEW x \in Range(s), x # Head(s)
      PROVE  x \in Range(Tail(s))
  <2>1. PICK i \in 1..Len(s) : x = s[i]
    BY <1>1 DEF Range
  <2>2. i # 1
    BY <1>1, <1>4, <2>1
  <2>3. i - 1 \in 1..(Len(s) - 1) /\ Tail(s)[i - 1] = s[i]
    BY <1>1, <1>2, <2>2
  <2> QED BY <1>2, <2>1, <2>3 DEF Range
<1> QED BY <1>2, <1>3, <1>4

\* k of n times m things is one of the n
LEMMA Quotients ==
  ASSUME NEW n \in Nat, NEW m \in Nat, NEW k \in 1..(n * m)
  PROVE  ((k - 1) \div m) + 1 \in 1..n /\ ((k - 1) % m) + 1 \in 1..m
<1>1. m > 0 /\ n * m \in Nat
  <2>1. CASE m = 0
    BY <2>1
  <2> QED BY <2>1
<1> DEFINE q == (k - 1) \div m
           r == (k - 1) % m
<1>2. q \in Int /\ r \in 0..(m - 1) /\ k - 1 = q * m + r
  BY <1>1
<1> HIDE DEF q, r
<1>3. q >= 0
  <2>1. CASE q <= -1
    <3>1. q * m <= (-1) * m
      BY <1>1, <1>2, <2>1
    <3> QED BY <1>1, <1>2, <3>1
  <2> QED BY <1>2, <2>1
<1>4. q < n
  <2>1. CASE n <= q
    <3>1. n * m <= q * m
      BY <1>1, <1>2, <2>1
    <3> QED BY <1>1, <1>2, <3>1
  <2> QED BY <1>2, <2>1
<1> QED BY <1>1, <1>2, <1>3, <1>4 DEF q, r

LEMMA JobsOf ==
  ASSUME NEW r \in Requests
  PROVE  /\ Jobs(r) \in Seq(JobSet)
         /\ \A j \in Range(Jobs(r)) :
              /\ j.interval \in Nat /\ j.interval # 0 /\ j.file \in Files
              /\ j.graph \in Graphs /\ j.end \in Int \cup {AtStart}
<1> DEFINE n == Len(r.graphs)
           targets == Targets(r)
           m == Len(targets)
<1>1. /\ r.graphs \in Seq(Graphs) /\ r.intervals \in Seq(Nat \ {0})
      /\ r.labels \in Seq([interval : Nat \ {0}, time : Int])
  OBVIOUS
<1> DEFINE Target == [interval : Nat \ {0}, time : Int \cup {AtStart}]
<1>2. targets \in Seq(Target)
  <2> DEFINE intervals == readintervals(r, r.labels = <<>>)
  <2>1. intervals \in Seq(Nat \ {0})
    <3> DEFINE P == Nat \ {0}
    <3>1. 300 \in P /\ 1800 \in P /\ 7200 \in P /\ 86400 \in P
      OBVIOUS
    <3> HIDE DEF P
    <3>2. <<300, 1800, 7200, 86400>> \in Seq(P)
      BY <3>1
    <3>3. r.intervals \in Seq(P)
      BY <1>1 DEF P
    <3>4. intervals \in Seq(P)
      BY <3>2, <3>3 DEF readintervals
    <3> QED BY <3>4 DEF P
  <2>2. CASE r.labels # <<>>
    <3>1. targets = r.labels
      BY <2>2 DEF Targets
    <3>2. \A x \in [interval : Nat \ {0}, time : Int] : x \in Target
      OBVIOUS
    <3>3. Len(r.labels) \in Nat
          /\ r.labels \in [1..Len(r.labels) -> [interval : Nat \ {0}, time : Int]]
      BY <1>1, FunctionOfSeq
    <3> HIDE DEF targets, Target
    <3>4. r.labels \in [1..Len(r.labels) -> Target]
      BY <3>2, <3>3
    <3> QED BY <3>1, <3>3, <3>4, SeqOfFunction
  <2>3. CASE r.labels = <<>>
    <3>1. targets = [i \in DOMAIN intervals |->
                       [interval |-> intervals[i], time |-> AtStart]]
      BY <2>3 DEF Targets
    <3> HIDE DEF intervals, targets
    <3>2. Len(intervals) \in Nat /\ DOMAIN intervals = 1..Len(intervals)
          /\ \A i \in 1..Len(intervals) : intervals[i] \in Nat \ {0}
      BY <2>1
    <3>3. \A i \in 1..Len(intervals) :
            [interval |-> intervals[i], time |-> AtStart] \in Target
      BY <3>2
    <3> HIDE DEF Target
    <3>4. targets \in [1..Len(intervals) -> Target]
      BY <3>1, <3>2, <3>3
    <3> QED BY <3>2, <3>4, SeqOfFunction
  <2> QED BY <2>2, <2>3
<1>3. n \in Nat /\ m \in Nat /\ m * n \in Nat
  <2>1. n \in Nat /\ m \in Nat
    BY <1>1, <1>2
  <2> HIDE DEF n, m
  <2> QED BY <2>1
<1>4. Jobs(r) = [k \in 1..(m * n) |->
                   JobOf(r.graphs[((k - 1) % n) + 1], targets[((k - 1) \div n) + 1])]
  BY DEF Jobs
<1>5. ASSUME NEW k \in 1..(m * n)
      PROVE  /\ Jobs(r)[k] \in JobSet /\ Jobs(r)[k].interval \in Nat \ {0}
             /\ Jobs(r)[k].graph \in Graphs /\ Jobs(r)[k].end \in Int \cup {AtStart}
  <2>1. ((k - 1) \div n) + 1 \in 1..m
    <3> HIDE DEF m, n
    <3> QED BY <1>3, Quotients
  <2>2. /\ targets[((k - 1) \div n) + 1].interval \in Nat \ {0}
        /\ targets[((k - 1) \div n) + 1].time \in Int \cup {AtStart}
    <3> DEFINE i == ((k - 1) \div n) + 1
    <3>1. i \in 1..Len(targets)
      BY <2>1
    <3> HIDE DEF targets, i
    <3>2. targets[i] \in Target
      <4> HIDE DEF Target
      <4> QED BY <1>2, <3>1, FunctionOfSeq
    <3>3. targets[i].interval \in Nat \ {0} /\ targets[i].time \in Int \cup {AtStart}
      BY <3>2
    <3> QED BY <3>3 DEF i
  <2>3. Jobs(r)[k] = JobOf(r.graphs[((k - 1) % n) + 1],
                           targets[((k - 1) \div n) + 1])
    <3> HIDE DEF m, n, targets
    <3> QED BY <1>4
  <2>4. Jobs(r)[k].interval \in Nat \ {0} /\ Jobs(r)[k].end \in Int \cup {AtStart}
    <3> HIDE DEF m, n, targets
    <3> QED BY <2>2, <2>3 DEF JobOf
  <2>6. Jobs(r)[k].graph \in Graphs
    <3>1. ((k - 1) % n) + 1 \in 1..n
      <4> HIDE DEF m, n
      <4> QED BY <1>3, Quotients
    <3>2. r.graphs[((k - 1) % n) + 1] \in Graphs
      BY <1>1, <3>1
    <3> HIDE DEF m, n, targets
    <3> QED BY <2>3, <3>2 DEF JobOf
  <2>5. Jobs(r)[k] \in Range(Jobs(r))
    <3> HIDE DEF m, n, targets
    <3> QED BY <1>4 DEF Range
  <2> QED BY <2>4, <2>5, <2>6 DEF JobSet
<1>6. DOMAIN Jobs(r) = 1..(m * n)
  BY <1>4
<1> HIDE DEF m, n, targets
<1>7. Jobs(r) \in Seq(JobSet)
  <2>1. Jobs(r) \in [1..(m * n) -> JobSet]
    BY <1>4, <1>5
  <2> QED BY <1>3, <2>1
<1>8. \A j \in Range(Jobs(r)) :
        /\ j.interval \in Nat \ {0} /\ j \in JobSet
        /\ j.graph \in Graphs /\ j.end \in Int \cup {AtStart}
  BY <1>5, <1>6 DEF Range
<1>9. \A j \in JobSet : j.file \in Files
  BY DEF Files, JobSet
<1> QED BY <1>7, <1>8, <1>9

-----------------------------------------------------------------------------
(* What a step leaves alone                                                *)

\* A file that is there stays there, and what is drawn into it is of now
FilesGoOn ==
  \A f \in Files :
    /\ file[f].state # "absent" => file'[f].state # "absent"
    /\ file'[f].state = "whole" =>
         \/ file[f].state = "whole" /\ file'[f].asof = file[f].asof
         \/ now - MaxDraw <= file'[f].asof

LEMMA RecentStays ==
  ASSUME DrawTypeOK, DrawTypeOK', FilesGoOn, NEW d \in Drawers, NEW j,
         j.file \in Files, j.interval \in Nat, drawer[d].started <= now,
         drawer'[d].started = drawer[d].started, Recent(d, j)
  PROVE  Recent(d, j)'
<1> DEFINE f == j.file
<1>1. /\ f \in Files /\ file[f].asof \in Nat /\ file'[f].asof \in Nat
      /\ drawer[d].started \in Nat /\ now \in Nat
  BY DEF DrawTypeOK, FileType, DrawerType
<1>2. /\ file'[f].state # "absent"
      /\ file'[f].state = "whole" =>
           \/ file[f].state = "whole" /\ file'[f].asof = file[f].asof
           \/ now - MaxDraw <= file'[f].asof
  BY <1>1 DEF FilesGoOn, Recent
<1>3. file'[f].state = "whole" =>
        file'[f].asof >= drawer[d].started - j.interval - MaxDraw
  BY <1>1, <1>2 DEF Recent
<1> QED BY <1>2, <1>3 DEF Recent

LEMMA OthersGoOn ==
  ASSUME DrawInv, DrawTypeOK', FilesGoOn, now <= now',
         NEW e \in Drawers, drawer'[e] = drawer[e],
         drawer[e].pc \in {"open", "write"} => now' <= drawer[e].asof + MaxDraw
  PROVE  DrawerInv(e)'
<1>1. DrawTypeOK /\ DrawerInv(e)
  BY DEF DrawInv
<1>2. SUFFICES ASSUME drawer[e].pc # "idle" PROVE DrawerInv(e)'
  BY DEF DrawerInv
<1>3. /\ drawer[e].request \in Requests /\ drawer[e].started <= now
      /\ \A j \in Range(Jobs(drawer[e].request)) :
           j \in Range(drawer[e].todo) \/ j \in drawer[e].missed \/ Recent(e, j)
      /\ drawer[e].pc \in {"query", "open", "write"} => drawer[e].todo # <<>>
      /\ drawer[e].pc = "query" /\ ~drawer[e].imgold =>
           Recent(e, Head(drawer[e].todo))
      /\ drawer[e].pc = "done" => drawer[e].todo = <<>>
  BY <1>1, <1>2 DEF DrawerInv
<1>4. drawer[e].started <= now'
  <2>1. drawer[e].started \in Nat /\ now \in Nat /\ now' \in Nat
    BY <1>1 DEF DrawTypeOK, DrawerType
  <2> QED BY <1>3, <2>1
<1>5. ASSUME NEW j \in JobSet, Recent(e, j)
      PROVE  Recent(e, j)'
  <2>1. PICK r \in Requests : j \in Range(Jobs(r))
    BY DEF JobSet
  <2>2. j.file \in Files /\ j.interval \in Nat
    BY <2>1, JobsOf
  <2> QED BY <1>1, <1>3, <1>5, <2>2, RecentStays
<1>6. \A j \in Range(Jobs(drawer[e].request)) :
        j \in Range(drawer[e].todo) \/ j \in drawer[e].missed \/ Recent(e, j)'
  BY <1>3, <1>5 DEF JobSet
<1>7. drawer[e].pc = "query" /\ ~drawer[e].imgold =>
        Recent(e, Head(drawer[e].todo))'
  <2>1. ASSUME drawer[e].pc = "query", ~drawer[e].imgold
        PROVE  Recent(e, Head(drawer[e].todo))'
    <3>1. drawer[e].todo \in Seq(JobSet) /\ drawer[e].todo # <<>>
      BY <1>1, <1>3, <2>1 DEF DrawTypeOK, DrawerType
    <3>2. Head(drawer[e].todo) \in JobSet
      BY <3>1, FirstAndRest
    <3> QED BY <1>3, <1>5, <2>1, <3>2
  <2> QED BY <2>1
<1> QED BY <1>3, <1>4, <1>6, <1>7 DEF DrawerInv

\* Process d moves
LEMMA Moved ==
  ASSUME drawer \in [Drawers -> DrawerType], NEW d \in Drawers, NEW new,
         Moves(d, new)
  PROVE  /\ drawer'[d] = new /\ \A e \in Drawers \ {d} : drawer'[e] = drawer[e]
         /\ new \in DrawerType => drawer' \in [Drawers -> DrawerType]
  BY DEF Moves

\* A step of a process that leaves the files
LEMMA FilesStay ==
  ASSUME DrawInv, NEW d \in Drawers, NEW new \in DrawerType, Moves(d, new),
         UNCHANGED <<now, file>>, DrawerInv(d)'
  PROVE  DrawInv'
<1>1. DrawTypeOK' /\ FilesGoOn /\ FileInv'
  BY Moved DEF DrawInv, DrawTypeOK, FilesGoOn, FileInv
<1>2. ASSUME NEW e \in Drawers \ {d}
      PROVE  DrawerInv(e)'
  <2>1. drawer'[e] = drawer[e]
    BY Moved DEF DrawInv, DrawTypeOK
  <2>2. now <= now'
    BY DEF DrawInv, DrawTypeOK
  <2>3. drawer[e].pc \in {"open", "write"} => now' <= drawer[e].asof + MaxDraw
    BY DEF DrawInv, DrawerInv
  <2> QED BY <1>1, <2>1, <2>2, <2>3, OthersGoOn
<1> QED BY <1>1, <1>2 DEF DrawInv

-----------------------------------------------------------------------------
(* The steps of a process                                                  *)

LEMMA TheJob ==
  ASSUME DrawTypeOK, NEW d \in Drawers, drawer[d].todo # <<>>
  PROVE  /\ Job(d) \in JobSet /\ Job(d).file \in Files /\ Job(d).interval \in Nat
         /\ Tail(drawer[d].todo) \in Seq(JobSet)
         /\ \A j \in Range(drawer[d].todo) :
              j = Job(d) \/ j \in Range(Tail(drawer[d].todo))
<1>1. drawer[d].todo \in Seq(JobSet)
  BY DEF DrawTypeOK, DrawerType
<1>2. Job(d) \in JobSet
  BY <1>1, FirstAndRest DEF Job
<1>3. PICK r \in Requests : Job(d) \in Range(Jobs(r))
  BY <1>2 DEF JobSet
<1> QED BY <1>1, <1>2, <1>3, JobsOf, FirstAndRest DEF Job

\* A job that is done or missed is not to be done any more
LEMMA JobDone ==
  ASSUME DrawInv, DrawTypeOK', FilesGoOn, now' = now, NEW d \in Drawers,
         drawer[d].pc # "idle", drawer[d].todo # <<>>,
         drawer'[d].pc = "next", drawer'[d].request = drawer[d].request,
         drawer'[d].started = drawer[d].started,
         drawer'[d].todo = Tail(drawer[d].todo),
         drawer[d].missed \subseteq drawer'[d].missed,
         NEW job, job = Job(d), job \in drawer'[d].missed \/ Recent(d, job)'
  PROVE  DrawerInv(d)'
<1>1. DrawTypeOK /\ DrawerInv(d)
  BY DEF DrawInv
<1>2. drawer[d].request \in Requests /\ drawer[d].started <= now
  BY <1>1 DEF DrawerInv
<1>3. ASSUME NEW j \in Range(Jobs(drawer[d].request))
      PROVE  j \in Range(drawer'[d].todo) \/ j \in drawer'[d].missed \/ Recent(d, j)'
  <2>1. j.file \in Files /\ j.interval \in Nat
    BY <1>2, JobsOf
  <2>2. j \in Range(drawer[d].todo) \/ j \in drawer[d].missed \/ Recent(d, j)
    BY <1>1 DEF DrawerInv
  <2>3. CASE Recent(d, j)
    BY <1>1, <1>2, <2>1, <2>3, RecentStays
  <2>4. CASE j \in drawer[d].missed
    BY <2>4
  <2>5. CASE j \in Range(drawer[d].todo)
    <3>1. j = job \/ j \in Range(Tail(drawer[d].todo))
      BY <1>1, <2>5, TheJob
    <3> QED BY <3>1
  <2> QED BY <2>2, <2>3, <2>4, <2>5
<1> QED BY <1>2, <1>3 DEF DrawerInv

LEMMA StartStep == ASSUME DrawInv, NEW d \in Drawers, Start(d) PROVE DrawInv'
<1>1. PICK r \in Requests :
        Moves(d, [Idle EXCEPT !.pc = "next", !.request = r, !.started = now,
                              !.todo = Jobs(r)])
  BY DEF Start
<1> DEFINE new == [Idle EXCEPT !.pc = "next", !.request = r, !.started = now,
                               !.todo = Jobs(r)]
<1>2. UNCHANGED <<now, file>> /\ now \in Nat /\ Jobs(r) \in Seq(JobSet)
  BY JobsOf DEF Start, DrawInv, DrawTypeOK
<1>3. /\ new.pc = "next" /\ new.request = r /\ new.started = now
      /\ new.todo = Jobs(r)
  BY DEF Idle
<1>4. new \in DrawerType
  <2>1. Idle \in DrawerType
    <3>1. <<>> \in Seq(JobSet) /\ {} \in SUBSET JobSet
      OBVIOUS
    <3> QED BY <3>1 DEF Idle, DrawerType
  <2>2. r \in Requests \cup {NoRequest}
    OBVIOUS
  <2> QED BY <1>2, <2>1, <2>2 DEF DrawerType
<1>5. drawer'[d] = new
  BY <1>1, Moved DEF DrawInv, DrawTypeOK
<1>6. DrawerInv(d)'
  <2>1. /\ drawer'[d].pc = "next" /\ drawer'[d].request = r
        /\ drawer'[d].started = now /\ drawer'[d].todo = Jobs(r)
    BY <1>3, <1>5
  <2>2. now <= now'
    BY <1>2
  <2> QED BY <1>2, <2>1, <2>2 DEF DrawerInv
<1> HIDE DEF new
<1> QED BY <1>1, <1>2, <1>4, <1>6, FilesStay DEF new

LEMMA CheckAgeStep ==
  ASSUME DrawInv, NEW d \in Drawers, CheckAge(d) PROVE DrawInv'
<1> DEFINE old == imageIsOld(Job(d).file, Job(d).interval)
           new == [drawer[d] EXCEPT !.pc = "query", !.imgold = old]
<1>1. /\ drawer[d].pc = "next" /\ drawer[d].todo # <<>> /\ Moves(d, new)
      /\ UNCHANGED <<now, file>>
  BY DEF CheckAge
<1>2. DrawTypeOK /\ FileInv /\ DrawerInv(d) /\ drawer[d] \in DrawerType
  BY DEF DrawInv, DrawTypeOK
<1>3. old \in BOOLEAN
  BY DEF imageIsOld
<1>4. /\ new \in DrawerType /\ new.pc = "query" /\ new.imgold = old
      /\ new.request = drawer[d].request /\ new.started = drawer[d].started
      /\ new.todo = drawer[d].todo /\ new.missed = drawer[d].missed
  <2> HIDE DEF old
  <2> QED BY <1>2, <1>3 DEF DrawerType
<1>5. drawer'[d] = new
  BY <1>1, Moved DEF DrawInv, DrawTypeOK
<1>6. \A j : Recent(d, j)' <=> Recent(d, j)
  <2> HIDE DEF new
  <2> QED BY <1>1, <1>4, <1>5 DEF Recent
<1>7. ASSUME ~old PROVE Recent(d, Job(d))
  <2> DEFINE f == Job(d).file
  <2>1. f \in Files /\ Job(d).interval \in Nat
    BY <1>1, <1>2, TheJob
  <2>2. file[f].state # "absent" /\ ~(now - file[f].ctime > Job(d).interval)
    BY <1>7 DEF imageIsOld
  <2>3. /\ file[f].ctime \in Nat /\ file[f].asof \in Nat /\ now \in Nat
        /\ drawer[d].started \in Nat /\ drawer[d].started <= now
        /\ file[f].state = "whole" => file[f].ctime <= file[f].asof + MaxDraw
    BY <1>1, <1>2, <2>1 DEF DrawTypeOK, FileType, DrawerType, FileInv, DrawerInv
  <2>4. file[f].state = "whole" =>
          file[f].asof >= drawer[d].started - Job(d).interval - MaxDraw
    <3> HIDE DEF f
    <3> QED BY <2>1, <2>2, <2>3
  <2> QED BY <2>2, <2>4 DEF Recent
<1>8. DrawerInv(d)'
  <2>1. /\ drawer[d].request \in Requests /\ drawer[d].started <= now
        /\ \A j \in Range(Jobs(drawer[d].request)) :
             j \in Range(drawer[d].todo) \/ j \in drawer[d].missed \/ Recent(d, j)
    BY <1>1, <1>2 DEF DrawerInv
  <2> HIDE DEF new, old
  <2> QED BY <1>1, <1>4, <1>5, <1>6, <1>7, <2>1 DEF DrawerInv, Job
<1> HIDE DEF new
<1> QED BY <1>1, <1>4, <1>8, FilesStay DEF new

LEMMA DoneStep == ASSUME DrawInv, NEW d \in Drawers, Done(d) PROVE DrawInv'
<1> DEFINE new == [drawer[d] EXCEPT !.pc = "done"]
<1>1. /\ drawer[d].pc = "next" /\ drawer[d].todo = <<>> /\ Moves(d, new)
      /\ UNCHANGED <<now, file>>
  BY DEF Done
<1>2. DrawerInv(d) /\ drawer[d] \in DrawerType
  BY DEF DrawInv, DrawTypeOK
<1>3. /\ new \in DrawerType /\ new.pc = "done"
      /\ new.request = drawer[d].request /\ new.started = drawer[d].started
      /\ new.todo = drawer[d].todo /\ new.missed = drawer[d].missed
  BY <1>2 DEF DrawerType
<1>4. drawer'[d] = new
  BY <1>1, Moved DEF DrawInv, DrawTypeOK
<1> HIDE DEF new
<1>5. \A j : Recent(d, j)' <=> Recent(d, j)
  BY <1>1, <1>3, <1>4 DEF Recent
<1>6. DrawerInv(d)'
  BY <1>1, <1>2, <1>3, <1>4, <1>5 DEF DrawerInv
<1> QED BY <1>1, <1>3, <1>6, FilesStay DEF new

LEMMA ConstructStep ==
  ASSUME DrawInv, NEW d \in Drawers, Construct(d) PROVE DrawInv'
<1>1. drawer[d].pc = "query" /\ UNCHANGED <<now, file>>
  BY DEF Construct
<1>2. /\ DrawTypeOK /\ DrawerInv(d) /\ drawer[d] \in DrawerType /\ now \in Nat
      /\ drawer[d].todo # <<>>
  BY <1>1 DEF DrawInv, DrawTypeOK, DrawerInv
<1>3. CASE Drawing(d)
  <2> DEFINE new == [drawer[d] EXCEPT !.pc = "open", !.asof = now]
  <2>1. Moves(d, new)
    BY <1>3 DEF Construct
  <2>2. /\ new \in DrawerType /\ new.pc = "open" /\ new.asof = now
        /\ new.request = drawer[d].request /\ new.started = drawer[d].started
        /\ new.todo = drawer[d].todo /\ new.missed = drawer[d].missed
    BY <1>2 DEF DrawerType
  <2>3. drawer'[d] = new
    BY <2>1, Moved DEF DrawInv, DrawTypeOK
  <2> HIDE DEF new
  <2>4. \A j : Recent(d, j)' <=> Recent(d, j)
    BY <1>1, <2>2, <2>3 DEF Recent
  <2>5. now <= now + MaxDraw
    BY <1>2
  <2>6. DrawerInv(d)'
    BY <1>1, <1>2, <2>2, <2>3, <2>4, <2>5 DEF DrawerInv
  <2> QED BY <1>1, <2>1, <2>2, <2>6, FilesStay DEF new
<1>4. CASE ~Drawing(d)
  <2>1. Moves(d, Continue(d))
    BY <1>4 DEF Construct
  <2>2. /\ Continue(d) \in DrawerType /\ Continue(d).pc = "next"
        /\ Continue(d).request = drawer[d].request
        /\ Continue(d).started = drawer[d].started
        /\ Continue(d).todo = Tail(drawer[d].todo)
        /\ Continue(d).missed = drawer[d].missed
    BY <1>2, TheJob DEF DrawerType, Continue
  <2>3. drawer'[d] = Continue(d)
    BY <2>1, Moved DEF DrawInv, DrawTypeOK
  <2>4. DrawTypeOK' /\ FilesGoOn
    BY <1>1, <1>2, <2>1, <2>2, Moved DEF DrawTypeOK, FilesGoOn
  <2>5. Recent(d, Job(d))
    BY <1>1, <1>2, <1>4 DEF Drawing, DrawerInv, Job
  <2>6. ASSUME NEW job, job = Job(d) PROVE Recent(d, job)'
    BY <1>1, <2>2, <2>3, <2>5, <2>6 DEF Recent
  <2>7. DrawerInv(d)'
    BY <1>1, <1>2, <2>2, <2>3, <2>4, <2>6, JobDone
  <2> QED BY <1>1, <2>1, <2>2, <2>7, FilesStay
<1> QED BY <1>3, <1>4

LEMMA CaughtStep ==
  ASSUME DrawInv, NEW d \in Drawers, Fails(d) \/ Trouble(d) PROVE DrawInv'
<1>1. /\ drawer[d].pc \in {"query", "open"} /\ Moves(d, Caught(d))
      /\ UNCHANGED <<now, file>>
  BY DEF Fails, Trouble
<1>2. DrawTypeOK /\ DrawerInv(d) /\ drawer[d] \in DrawerType /\ drawer[d].todo # <<>>
  BY <1>1 DEF DrawInv, DrawTypeOK, DrawerInv
<1>3. /\ Caught(d) \in DrawerType /\ Caught(d).pc = "next"
      /\ Caught(d).request = drawer[d].request
      /\ Caught(d).started = drawer[d].started
      /\ Caught(d).todo = Tail(drawer[d].todo)
      /\ Caught(d).missed = drawer[d].missed \cup {Job(d)}
  BY <1>2, TheJob DEF DrawerType, Caught, Continue
<1>4. drawer'[d] = Caught(d)
  BY <1>1, Moved DEF DrawInv, DrawTypeOK
<1>5. DrawTypeOK' /\ FilesGoOn
  BY <1>1, <1>2, <1>3, Moved DEF DrawTypeOK, FilesGoOn
<1>6. DrawerInv(d)'
  BY <1>1, <1>2, <1>3, <1>4, <1>5, JobDone
<1> QED BY <1>1, <1>3, <1>6, FilesStay

\* One file and one process change
LEMMA FileChanges ==
  ASSUME DrawInv, NEW d \in Drawers, NEW new \in DrawerType, Moves(d, new),
         now' = now, NEW f \in Files, NEW written \in FileType,
         file' = [file EXCEPT ![f] = written],
         written.state # "absent", written.ctime = now,
         written.state = "whole" => now <= written.asof + MaxDraw,
         DrawTypeOK' /\ FilesGoOn => DrawerInv(d)'
  PROVE  DrawInv'
<1>1. DrawTypeOK /\ FileInv /\ now \in Nat
  BY DEF DrawInv, DrawTypeOK
<1>2. /\ file' \in [Files -> FileType] /\ file'[f] = written
      /\ \A g \in Files \ {f} : file'[g] = file[g]
  BY <1>1 DEF DrawTypeOK
<1>3. DrawTypeOK'
  BY <1>1, <1>2, Moved DEF DrawTypeOK
<1>4. written.asof \in Nat
  BY DEF FileType
<1>5. FilesGoOn
  BY <1>1, <1>2, <1>4 DEF FilesGoOn
<1>6. FileInv'
  BY <1>1, <1>2, <1>4 DEF FileInv
<1>7. ASSUME NEW e \in Drawers \ {d}
      PROVE  DrawerInv(e)'
  <2>1. drawer'[e] = drawer[e]
    BY <1>1, Moved DEF DrawTypeOK
  <2>2. drawer[e].pc \in {"open", "write"} => now' <= drawer[e].asof + MaxDraw
    BY DEF DrawInv, DrawerInv
  <2> QED BY <1>1, <1>3, <1>5, <2>1, <2>2, OthersGoOn
<1>8. DrawerInv(d)'
  BY <1>3, <1>5
<1> QED BY <1>3, <1>6, <1>7, <1>8 DEF DrawInv

LEMMA OpenFileStep ==
  ASSUME DrawInv, NEW d \in Drawers, OpenFile(d) PROVE DrawInv'
<1> DEFINE f == Job(d).file
           state == IF file[f].writers = {} THEN "partial" ELSE "mixed"
           written == [file[f] EXCEPT !.state = state, !.ctime = now,
                                      !.writers = @ \cup {d}]
           new == [drawer[d] EXCEPT !.pc = "write"]
<1>1. drawer[d].pc = "open" /\ Moves(d, new) /\ now' = now
  BY DEF OpenFile
<1>2. /\ DrawTypeOK /\ DrawerInv(d) /\ drawer[d] \in DrawerType /\ now \in Nat
      /\ drawer[d].todo # <<>>
  BY <1>1 DEF DrawInv, DrawTypeOK, DrawerInv
<1>3. f \in Files /\ file[f] \in FileType
  BY <1>2, TheJob DEF DrawTypeOK
<1>4. /\ written \in FileType /\ written.state # "absent" /\ written.state # "whole"
      /\ written.ctime = now
  <2>1. state \in {"partial", "mixed"}
    OBVIOUS
  <2> HIDE DEF state, f
  <2> QED BY <1>2, <1>3, <2>1 DEF FileType
<1>5. file' = [file EXCEPT ![f] = written]
  BY <1>3 DEF OpenFile
<1>6. /\ new \in DrawerType /\ new.pc = "write" /\ new.asof = drawer[d].asof
      /\ new.request = drawer[d].request /\ new.started = drawer[d].started
      /\ new.todo = drawer[d].todo /\ new.missed = drawer[d].missed
  BY <1>2 DEF DrawerType
<1>7. drawer'[d] = new
  BY <1>1, Moved DEF DrawInv, DrawTypeOK
<1> HIDE DEF f, state, written, new
<1>8. ASSUME DrawTypeOK', FilesGoOn PROVE DrawerInv(d)'
  <2>1. /\ drawer[d].request \in Requests /\ drawer[d].started <= now
        /\ now <= drawer[d].asof + MaxDraw
    BY <1>1, <1>2 DEF DrawerInv
  <2>2. ASSUME NEW j \in Range(Jobs(drawer[d].request)), Recent(d, j)
        PROVE  Recent(d, j)'
    <3>1. j.file \in Files /\ j.interval \in Nat
      BY <2>1, JobsOf
    <3> QED BY <1>2, <1>6, <1>7, <1>8, <2>1, <2>2, <3>1, RecentStays
  <2>3. \A j \in Range(Jobs(drawer[d].request)) :
          j \in Range(drawer[d].todo) \/ j \in drawer[d].missed \/ Recent(d, j)'
    BY <1>1, <1>2, <2>2 DEF DrawerInv
  <2> QED BY <1>1, <1>2, <1>6, <1>7, <2>1, <2>3 DEF DrawerInv
<1> QED BY <1>1, <1>3, <1>4, <1>5, <1>6, <1>8, FileChanges DEF new

LEMMA CloseFileStep ==
  ASSUME DrawInv, NEW d \in Drawers, CloseFile(d) PROVE DrawInv'
<1> DEFINE f == Job(d).file
           state == IF file[f].state = "partial" THEN "whole" ELSE "mixed"
           written == [file[f] EXCEPT !.state = state, !.asof = drawer[d].asof,
                                      !.ctime = now, !.writers = @ \ {d}]
<1>1. drawer[d].pc = "write" /\ Moves(d, Continue(d)) /\ now' = now
  BY DEF CloseFile
<1>2. /\ DrawTypeOK /\ DrawerInv(d) /\ drawer[d] \in DrawerType /\ now \in Nat
      /\ drawer[d].todo # <<>> /\ drawer[d].asof \in Nat /\ drawer[d].started \in Nat
  BY <1>1 DEF DrawInv, DrawTypeOK, DrawerInv, DrawerType
<1>3. f \in Files /\ file[f] \in FileType /\ Job(d).interval \in Nat
  BY <1>2, TheJob DEF DrawTypeOK
<1>4. /\ written \in FileType /\ written.state # "absent"
      /\ written.ctime = now /\ written.asof = drawer[d].asof
  <2>1. state \in {"whole", "mixed"}
    OBVIOUS
  <2> HIDE DEF state, f
  <2> QED BY <1>2, <1>3, <2>1 DEF FileType
<1>5. file' = [file EXCEPT ![f] = written]
  BY <1>3 DEF CloseFile
<1>6. /\ Continue(d) \in DrawerType /\ Continue(d).pc = "next"
      /\ Continue(d).request = drawer[d].request
      /\ Continue(d).started = drawer[d].started
      /\ Continue(d).todo = Tail(drawer[d].todo)
      /\ Continue(d).missed = drawer[d].missed
  BY <1>2, TheJob DEF DrawerType, Continue
<1>7. drawer'[d] = Continue(d)
  BY <1>1, Moved DEF DrawInv, DrawTypeOK
<1>8. drawer[d].started <= now /\ now <= drawer[d].asof + MaxDraw
  BY <1>1, <1>2 DEF DrawerInv
<1>9. file'[f] = written
  BY <1>2, <1>3, <1>5 DEF DrawTypeOK
<1> HIDE DEF state, written
<1>10. ASSUME NEW job, job = Job(d) PROVE Recent(d, job)'
  <2>1. job.file = f /\ job.interval \in Nat
    BY <1>3, <1>10
  <2>2. drawer[d].asof >= drawer[d].started - job.interval - MaxDraw
    BY <1>2, <1>8, <2>1
  <2>3. drawer'[d].started = drawer[d].started
    BY <1>6, <1>7
  <2> HIDE DEF f
  <2>4. /\ file'[job.file].state # "absent"
        /\ file'[job.file].asof >= drawer'[d].started - job.interval - MaxDraw
    BY <1>4, <1>9, <2>1, <2>2, <2>3
  <2> QED BY <2>4 DEF Recent
<1>11. ASSUME DrawTypeOK', FilesGoOn PROVE DrawerInv(d)'
  BY <1>1, <1>2, <1>6, <1>7, <1>10, <1>11, JobDone
<1> HIDE DEF f
<1> QED BY <1>1, <1>3, <1>4, <1>5, <1>6, <1>8, <1>11, FileChanges

LEMMA KillStep == ASSUME DrawInv, NEW d \in Drawers, Kill(d) PROVE DrawInv'
<1>1. drawer' = [drawer EXCEPT ![d] = Idle] /\ now' = now
      /\ file' = [f \in Files |-> [file[f] EXCEPT !.writers = @ \ {d}]]
  BY DEF Kill
<1>2. DrawTypeOK /\ FileInv /\ now \in Nat /\ drawer \in [Drawers -> DrawerType]
  BY DEF DrawInv, DrawTypeOK
<1>3. Idle \in DrawerType /\ Idle.pc = "idle"
  <2>1. <<>> \in Seq(JobSet) /\ {} \in SUBSET JobSet
    OBVIOUS
  <2> QED BY <2>1 DEF Idle, DrawerType
<1>4. \A f \in Files : /\ file'[f] \in FileType /\ file'[f].state = file[f].state
                       /\ file'[f].asof = file[f].asof
                       /\ file'[f].ctime = file[f].ctime
  <2> SUFFICES ASSUME NEW f \in Files
               PROVE  /\ file'[f] \in FileType /\ file'[f].state = file[f].state
                      /\ file'[f].asof = file[f].asof
                      /\ file'[f].ctime = file[f].ctime
    OBVIOUS
  <2>1. file[f] \in FileType
    BY <1>2 DEF DrawTypeOK
  <2>2. file'[f] = [file[f] EXCEPT !.writers = @ \ {d}]
    BY <1>1
  <2> QED BY <2>1, <2>2 DEF FileType
<1>5. DrawTypeOK' /\ FilesGoOn /\ FileInv'
  <2>1. file' \in [Files -> FileType]
    BY <1>1, <1>4
  <2>2. drawer' \in [Drawers -> DrawerType]
    BY <1>1, <1>2, <1>3
  <2> QED BY <1>1, <1>2, <1>4, <2>1, <2>2 DEF DrawTypeOK, FilesGoOn, FileInv
<1>6. ASSUME NEW e \in Drawers
      PROVE  DrawerInv(e)'
  <2>1. CASE e = d
    BY <1>1, <1>2, <1>3, <2>1 DEF DrawerInv
  <2>2. CASE e # d
    <3>1. drawer'[e] = drawer[e]
      BY <1>1, <1>2, <2>2
    <3>2. drawer[e].pc \in {"open", "write"} => now' <= drawer[e].asof + MaxDraw
      BY <1>1 DEF DrawInv, DrawerInv
    <3> QED BY <1>1, <1>2, <1>5, <3>1, <3>2, OthersGoOn
  <2> QED BY <2>1, <2>2
<1> QED BY <1>5, <1>6 DEF DrawInv

LEMMA TickStep == ASSUME DrawInv, Tick PROVE DrawInv'
<1>1. /\ now' = now + 1 /\ UNCHANGED <<file, drawer>>
      /\ \A d \in Drawers : drawer[d].pc \in {"open", "write"}
                              => now < drawer[d].asof + MaxDraw
  BY DEF Tick
<1>2. DrawTypeOK /\ FileInv /\ now \in Nat
  BY DEF DrawInv, DrawTypeOK
<1>3. DrawTypeOK' /\ FilesGoOn
  BY <1>1, <1>2 DEF DrawTypeOK, FilesGoOn
<1>4. FileInv'
  <2>1. \A f \in Files : file[f].ctime \in Nat
    BY <1>2 DEF DrawTypeOK, FileType
  <2> QED BY <1>1, <1>2, <2>1 DEF FileInv
<1>5. ASSUME NEW e \in Drawers
      PROVE  DrawerInv(e)'
  <2>1. drawer[e].asof \in Nat
    BY <1>2 DEF DrawTypeOK, DrawerType
  <2>2. drawer[e].pc \in {"open", "write"} => now' <= drawer[e].asof + MaxDraw
    BY <1>1, <1>2, <2>1
  <2> QED BY <1>1, <1>2, <1>3, <2>2, OthersGoOn
<1> QED BY <1>3, <1>4, <1>5 DEF DrawInv

LEMMA DrawInductive == ASSUME DrawInv, [DrawNext]_drawVars PROVE DrawInv'
<1>1. CASE \E d \in Drawers :
             \/ Start(d) \/ CheckAge(d) \/ Done(d) \/ Construct(d) \/ Fails(d)
             \/ OpenFile(d) \/ Trouble(d) \/ CloseFile(d) \/ Kill(d)
  BY <1>1, StartStep, CheckAgeStep, DoneStep, ConstructStep, CaughtStep,
     OpenFileStep, CloseFileStep, KillStep
<1>2. CASE Tick
  BY <1>2, TickStep
<1>3. CASE UNCHANGED drawVars
  <2>1. now' = now /\ file' = file /\ drawer' = drawer
    BY <1>3 DEF drawVars
  <2> QED BY <2>1 DEF DrawInv, DrawTypeOK, FileInv, DrawerInv, Recent
<1> QED BY <1>1, <1>2, <1>3 DEF DrawNext

LEMMA DrawInitInv == ASSUME DrawInit PROVE DrawInv
<1>1. /\ now = Begin /\ file = [f \in Files |-> NoFile]
      /\ drawer = [d \in Drawers |-> Idle]
  BY DEF DrawInit
<1>2. Idle \in DrawerType /\ Idle.pc = "idle"
  <2>1. <<>> \in Seq(JobSet) /\ {} \in SUBSET JobSet
    OBVIOUS
  <2> QED BY <2>1 DEF Idle, DrawerType
<1>3. NoFile \in FileType /\ NoFile.ctime = 0 /\ NoFile.state = "absent"
  BY DEF NoFile, FileType
<1>4. DrawTypeOK
  BY <1>1, <1>2, <1>3 DEF DrawTypeOK
<1>5. FileInv
  BY <1>1, <1>3 DEF FileInv
<1>6. \A d \in Drawers : DrawerInv(d)
  BY <1>1, <1>2 DEF DrawerInv
<1> QED BY <1>4, <1>5, <1>6 DEF DrawInv

(***************************************************************************)
(* However many processes of meteodraw run side by side and are killed, a  *)
(* process that ends leaves a file for each graph it could draw, and what  *)
(* is whole of them is recent.                                             *)
(***************************************************************************)
THEOREM ImagesStayRecent == DrawSpec => []ImagesAreRecent
<1>1. ASSUME DrawInv PROVE ImagesAreRecent
  <2> SUFFICES ASSUME NEW d \in Drawers, drawer[d].pc = "done",
                      NEW j \in Range(Jobs(drawer[d].request)),
                      j \notin drawer[d].missed
               PROVE  Recent(d, j)
    BY DEF ImagesAreRecent, Recent
  <2>1. /\ drawer[d].todo = <<>>
        /\ j \in Range(drawer[d].todo) \/ j \in drawer[d].missed \/ Recent(d, j)
    BY <1>1 DEF DrawInv, DrawerInv
  <2>2. Range(<<>>) = {}
    BY DEF Range
  <2> QED BY <2>1, <2>2
<1> QED BY <1>1, DrawInitInv, DrawInductive, PTL DEF DrawSpec
-----------------------------------------------------------------------------
(* Induction over numbers and over finite sets, and sums                   *)

HIDE ImageFilesAssumption

\* A set of numbers has a least one.
LEMMA LeastNumber ==
  ASSUME NEW T \in SUBSET Nat, T # {}
  PROVE  \E m \in T : \A k \in T : ~(k < m)
<1> DEFINE R == OpToRel(<, Nat)
<1>1. IsWellFoundedOn(R, Nat)
  BY NatLessThanWellFounded
<1>2. \A x, y \in Nat : x < y => <<x, y>> \in R
  BY DEF OpToRel
<1> HIDE DEF R
<1>3. \E x \in T : \A y \in T : ~(<<y, x>> \in R)
  BY <1>1, WFMin
<1> QED BY <1>2, <1>3

\* Induction over a set of numbers
LEMMA SetInduction ==
  ASSUME NEW n \in Nat, NEW T, 0 \in T,
         \A k \in 0..(n - 1) : k \in T => k + 1 \in T
  PROVE  \A k \in 0..n : k \in T
<1> DEFINE U == {k \in 0..n : k \notin T}
<1> SUFFICES ASSUME U # {} PROVE FALSE
  OBVIOUS
<1>1. U \in SUBSET Nat
  OBVIOUS
<1>2. \A k : k \in U <=> k \in 0..n /\ k \notin T
  OBVIOUS
<1> HIDE DEF U
<1>3. PICK m \in U : \A k \in U : ~(k < m)
  BY <1>1, LeastNumber
<1>4. m \in 0..n /\ m # 0
  BY <1>2, <1>3
<1>5. m - 1 \in 0..(n - 1) /\ m - 1 < m /\ m - 1 \in 0..n
  BY <1>4
<1>6. m - 1 \in T
  BY <1>2, <1>3, <1>5
<1>7. (m - 1) + 1 \in T
  BY <1>5, <1>6
<1>8. (m - 1) + 1 = m
  BY <1>4
<1> QED BY <1>2, <1>3, <1>7, <1>8

LEMMA WithoutOne ==
  ASSUME NEW s, IsFiniteSet(s), NEW x \in s
  PROVE  /\ IsFiniteSet(s \ {x}) /\ Cardinality(s) \in Nat \ {0}
         /\ Cardinality(s \ {x}) = Cardinality(s) - 1
<1>1. IsFiniteSet(s \ {x}) /\ Cardinality(s \ {x}) = Cardinality(s) - 1
  BY FS_RemoveElement
<1>2. Cardinality(s) \in Nat /\ Cardinality(s) # 0
  BY FS_CardinalityType, FS_EmptySet
<1> QED BY <1>1, <1>2

\* Induction over the subsets of a finite set
LEMMA FiniteInduction ==
  ASSUME NEW S, IsFiniteSet(S), NEW T, {} \in T,
         \A s \in SUBSET S : s # {} /\ (\A x \in s : s \ {x} \in T) => s \in T
  PROVE  \A s \in SUBSET S : s \in T
<1> DEFINE N == Cardinality(S)
           K == {k \in 0..N : \A s \in SUBSET S : Cardinality(s) <= k => s \in T}
<1>1. N \in Nat
  BY FS_CardinalityType
<1>2. ASSUME NEW s \in SUBSET S
      PROVE  /\ IsFiniteSet(s) /\ Cardinality(s) \in Nat /\ Cardinality(s) <= N
             /\ Cardinality(s) = 0 => s = {}
  <2>1. IsFiniteSet(s) /\ Cardinality(s) <= N
    BY FS_Subset
  <2> QED BY <2>1, FS_CardinalityType, FS_EmptySet
<1> HIDE DEF N
<1>3. 0 \in K
  <2>1. ASSUME NEW s \in SUBSET S, Cardinality(s) <= 0 PROVE s \in T
    <3>1. s = {}
      BY <1>2, <2>1
    <3> QED BY <3>1
  <2> QED BY <1>1, <2>1
<1>4. ASSUME NEW k \in 0..(N - 1), k \in K PROVE k + 1 \in K
  <2>1. k + 1 \in 0..N /\ k \in Nat
    BY <1>1
  <2>2. ASSUME NEW s \in SUBSET S, Cardinality(s) <= k + 1 PROVE s \in T
    <3>1. ASSUME NEW x \in s PROVE s \ {x} \in T
      <4>1. s \ {x} \in SUBSET S /\ Cardinality(s \ {x}) = Cardinality(s) - 1
        BY <1>2, WithoutOne
      <4>2. Cardinality(s \ {x}) <= k
        BY <1>2, <2>1, <2>2, <4>1
      <4> QED BY <1>4, <4>1, <4>2
    <3> QED BY <3>1
  <2> QED BY <2>1, <2>2
<1> HIDE DEF K
<1>5. N \in K
  <2>1. \A k \in 0..N : k \in K
    BY <1>1, <1>3, <1>4, SetInduction
  <2> QED BY <1>1, <2>1
<1> QED BY <1>2, <1>5 DEF K

Picked(s) == CHOOSE x \in s : TRUE

\* iter of MapThenFoldSet
IsIter(iter, f, S) ==
  iter = [s \in SUBSET S |-> IF s = {} THEN 0
                             ELSE f[Picked(s)] + iter[s \ {Picked(s)}]]

LEMMA IterExists ==
  ASSUME NEW f, NEW S, IsFiniteSet(S)
  PROVE  \E iter : IsIter(iter, f, S)
<1> DEFINE N == Cardinality(S)
           E(k) == {s \in SUBSET S : Cardinality(s) <= k}
           body(g, s) == IF s = {} THEN 0 ELSE f[Picked(s)] + g[s \ {Picked(s)}]
           T == {k \in 0..N : \E g : g = [s \in E(k) |-> body(g, s)]}
<1>1. N \in Nat
  BY FS_CardinalityType
<1>c. ASSUME NEW s \in SUBSET S
      PROVE  /\ Cardinality(s) \in Nat /\ Cardinality(s) <= N
             /\ Cardinality(s) = 0 <=> s = {}
  <2>1. IsFiniteSet(s) /\ Cardinality(s) <= N
    BY FS_Subset
  <2> QED BY <2>1, FS_CardinalityType, FS_EmptySet
<1> HIDE DEF N
<1>2. ASSUME NEW s \in SUBSET S, s # {}
      PROVE  /\ s \ {Picked(s)} \in SUBSET S
             /\ Cardinality(s \ {Picked(s)}) = Cardinality(s) - 1
  <2>1. IsFiniteSet(s)
    BY FS_Subset
  <2>2. Picked(s) \in s
    BY <1>2 DEF Picked
  <2> QED BY <2>1, <2>2, WithoutOne
<1>e. \A k, s : s \in E(k) <=> s \in SUBSET S /\ Cardinality(s) <= k
  OBVIOUS
<1> HIDE DEF E
<1>3. 0 \in T
  <2> DEFINE g == [s \in E(0) |-> 0]
  <2>1. \A s \in E(0) : s = {}
    BY <1>c, <1>e
  <2>2. g = [s \in E(0) |-> body(g, s)]
    <3>1. \A s \in E(0) : body(g, s) = 0
      BY <2>1
    <3> HIDE DEF body
    <3> QED BY <3>1
  <2>3. 0 \in 0..N
    BY <1>1
  <2> HIDE DEF g, body
  <2> QED BY <2>2, <2>3
<1>4. ASSUME NEW k \in 0..(N - 1), k \in T PROVE k + 1 \in T
  <2>1. PICK g : g = [s \in E(k) |-> body(g, s)]
    BY <1>4
  <2> DEFINE val(s) == IF Cardinality(s) = k + 1 THEN body(g, s) ELSE g[s]
             h == [s \in E(k + 1) |-> val(s)]
  <2>2. k + 1 \in 0..N /\ k \in Nat
    BY <1>1
  <2>3. \A s \in E(k + 1) : h[s] = val(s)
    OBVIOUS
  <2>4. h = [s \in E(k + 1) |-> val(s)]
    OBVIOUS
  <2> HIDE DEF h
  <2>5. ASSUME NEW s \in E(k + 1) PROVE val(s) = body(h, s)
    <3>1. s \in SUBSET S /\ Cardinality(s) <= k + 1 /\ Cardinality(s) \in Nat
      BY <1>c, <1>e
    <3>2. body(h, s) = body(g, s)
      <4>1. CASE s = {}
        BY <4>1
      <4>2. CASE s # {}
        <5> DEFINE r == s \ {Picked(s)}
        <5>1. r \in SUBSET S /\ Cardinality(r) = Cardinality(s) - 1
          BY <1>2, <3>1, <4>2
        <5>2. r \in E(k + 1) /\ Cardinality(r) # k + 1
          BY <1>e, <2>2, <3>1, <5>1
        <5>3. h[r] = g[r]
          BY <2>3, <5>2
        <5> HIDE DEF r
        <5>4. h[s \ {Picked(s)}] = g[s \ {Picked(s)}]
          BY <5>3 DEF r
        <5> QED BY <4>2, <5>4
      <4> QED BY <4>1, <4>2
    <3>3. CASE Cardinality(s) = k + 1
      BY <3>2, <3>3
    <3>4. CASE Cardinality(s) # k + 1
      <4>1. s \in E(k)
        BY <1>e, <2>2, <3>1, <3>4
      <4>2. g[s] = body(g, s)
        <5> HIDE DEF body
        <5> QED BY <2>1, <4>1
      <4> QED BY <3>2, <3>4, <4>2
    <3> QED BY <3>3, <3>4
  <2> HIDE DEF val, body
  <2>6. h = [s \in E(k + 1) |-> body(h, s)]
    BY <2>4, <2>5
  <2> QED BY <2>2, <2>6
<1> HIDE DEF T
<1>5. N \in T
  <2>1. \A k \in 0..N : k \in T
    BY <1>1, <1>3, <1>4, SetInduction
  <2> QED BY <1>1, <2>1
<1>6. PICK g : g = [s \in E(N) |-> body(g, s)]
  BY <1>5 DEF T
<1>7. E(N) = SUBSET S
  BY <1>c, <1>e
<1> QED BY <1>6, <1>7 DEF IsIter

LEMMA SumIsIter ==
  ASSUME NEW f, NEW S, IsFiniteSet(S)
  PROVE  \E iter : IsIter(iter, f, S) /\ SumOver(f, S) = iter[S]
<1> DEFINE P(iter) == iter = [s \in SUBSET S |->
                                IF s = {} THEN 0
                                ELSE f[CHOOSE x \in s : TRUE]
                                       + iter[s \ {CHOOSE x \in s : TRUE}]]
<1>1. \E iter : P(iter)
  <2>1. PICK iter : IsIter(iter, f, S)
    BY IterExists
  <2>2. P(iter)
    BY <2>1 DEF IsIter, Picked
  <2> HIDE DEF P
  <2> QED BY <2>2
<1>2. P(CHOOSE iter : P(iter))
  <2> HIDE DEF P
  <2> QED BY <1>1
<1>3. SumOver(f, S) = (CHOOSE iter : P(iter))[S]
  BY DEF SumOver, MapThenSumSet, MapThenFoldSet
<1>4. \A iter : P(iter) => IsIter(iter, f, S)
  BY DEF IsIter, Picked
<1> HIDE DEF P
<1> QED BY <1>2, <1>3, <1>4

\* What is picked first does not matter.
LEMMA IterAdds ==
  ASSUME NEW S, IsFiniteSet(S), NEW f, \A x \in S : f[x] \in Int,
         NEW iter, IsIter(iter, f, S)
  PROVE  \A s \in SUBSET S :
           /\ iter[s] \in Int
           /\ \A x \in s : iter[s] = f[x] + iter[s \ {x}]
<1> DEFINE T == {s \in SUBSET S : iter[s] \in Int}
           U == {s \in SUBSET S : \A x \in s : iter[s] = f[x] + iter[s \ {x}]}
<1>1. \A s \in SUBSET S : iter[s] = IF s = {} THEN 0
                                    ELSE f[Picked(s)] + iter[s \ {Picked(s)}]
  BY DEF IsIter
<1>2. ASSUME NEW s \in SUBSET S, s # {}
      PROVE  Picked(s) \in s /\ iter[s] = f[Picked(s)] + iter[s \ {Picked(s)}]
  BY <1>1, <1>2 DEF Picked
<1>3. \A s \in SUBSET S : s \in T
  <2>1. {} \in T
    BY <1>1
  <2>2. ASSUME NEW s \in SUBSET S, s # {}, \A x \in s : s \ {x} \in T
        PROVE  s \in T
    <3> DEFINE p == Picked(s)
    <3>1. p \in s /\ iter[s] = f[p] + iter[s \ {p}]
      BY <1>2, <2>2
    <3> HIDE DEF p
    <3>2. iter[s \ {p}] \in Int /\ f[p] \in Int
      BY <2>2, <3>1
    <3> QED BY <3>1, <3>2
  <2> HIDE DEF T
  <2> QED BY <2>1, <2>2, FiniteInduction
<1>4. \A s \in SUBSET S : s \in U
  <2>1. {} \in U
    OBVIOUS
  <2>2. ASSUME NEW s \in SUBSET S, s # {}, \A x \in s : s \ {x} \in U
        PROVE  s \in U
    <3> DEFINE p == Picked(s)
    <3>1. p \in s /\ iter[s] = f[p] + iter[s \ {p}]
      BY <1>2, <2>2
    <3> HIDE DEF p
    <3>2. ASSUME NEW x \in s, x # p PROVE iter[s] = f[x] + iter[s \ {x}]
      <4> DEFINE r == (s \ {p}) \ {x}
      <4>1. r = (s \ {x}) \ {p}
        OBVIOUS
      <4>2. iter[s \ {p}] = f[x] + iter[r]
        BY <2>2, <3>1, <3>2
      <4>3. iter[s \ {x}] = f[p] + iter[(s \ {x}) \ {p}]
        BY <2>2, <3>1, <3>2
      <4>4. r \in SUBSET S /\ f[x] \in Int /\ f[p] \in Int
        BY <3>1
      <4>5. iter[r] \in Int
        BY <1>3, <4>4
      <4> HIDE DEF r
      <4> QED BY <3>1, <4>1, <4>2, <4>3, <4>4, <4>5
    <3> QED BY <3>1, <3>2
  <2> HIDE DEF U
  <2> QED BY <2>1, <2>2, FiniteInduction
<1> QED BY <1>3, <1>4

\* The sum over a finite set is that over the rest and one of its elements.
LEMMA SumAdds ==
  ASSUME NEW S, IsFiniteSet(S), NEW f, \A x \in S : f[x] \in Int
  PROVE  /\ SumOver(f, S) \in Int
         /\ S = {} => SumOver(f, S) = 0
         /\ \A x \in S : SumOver(f, S) = f[x] + SumOver(f, S \ {x})
<1>1. PICK iter : IsIter(iter, f, S) /\ SumOver(f, S) = iter[S]
  BY SumIsIter
<1>2. \A s \in SUBSET S :
        /\ iter[s] \in Int
        /\ \A x \in s : iter[s] = f[x] + iter[s \ {x}]
  <2>1. IsIter(iter, f, S)
    BY <1>1
  <2> QED BY <2>1, IterAdds
<1>3. iter[{}] = 0
  BY <1>1 DEF IsIter
<1>4. ASSUME NEW x \in S PROVE SumOver(f, S \ {x}) = iter[S \ {x}]
  <2> DEFINE R == S \ {x}
  <2>1. IsFiniteSet(R) /\ R \in SUBSET S
    BY FS_Subset
  <2> HIDE DEF R
  <2>2. PICK it : IsIter(it, f, R) /\ SumOver(f, R) = it[R]
    BY <2>1, SumIsIter
  <2>3. \A s \in SUBSET R :
          /\ it[s] \in Int
          /\ \A y \in s : it[s] = f[y] + it[s \ {y}]
    <3>1. IsIter(it, f, R) /\ \A y \in R : f[y] \in Int
      BY <2>1, <2>2
    <3> QED BY <2>1, <3>1, IterAdds
  <2>4. it[{}] = 0
    BY <2>2 DEF IsIter
  <2> DEFINE T == {s \in SUBSET R : it[s] = iter[s]}
  <2>5. {} \in T
    BY <1>3, <2>4
  <2>6. ASSUME NEW s \in SUBSET R, s # {}, \A y \in s : s \ {y} \in T
        PROVE  s \in T
    <3>1. PICK y \in s : TRUE
      BY <2>6
    <3>2. it[s] = f[y] + it[s \ {y}] /\ iter[s] = f[y] + iter[s \ {y}]
      BY <1>2, <2>1, <2>3
    <3>3. it[s \ {y}] = iter[s \ {y}]
      BY <2>6
    <3> QED BY <3>2, <3>3
  <2> HIDE DEF T
  <2>7. \A s \in SUBSET R : s \in T
    BY <2>1, <2>5, <2>6, FiniteInduction
  <2>8. R \in T
    BY <2>7
  <2> QED BY <2>2, <2>8 DEF T, R
<1>5. S \in SUBSET S
  OBVIOUS
<1> QED BY <1>1, <1>2, <1>3, <1>4, <1>5

\* A sum over other names of the same values
LEMMA SumOfImage ==
  ASSUME NEW S, IsFiniteSet(S), NEW g, \A x \in S : g[x] \in Int,
         NEW f, NEW key, \A x \in S : f[key[x]] = g[x],
         \A x, y \in S : key[x] = key[y] => x = y
  PROVE  SumOver(f, {key[x] : x \in S}) = SumOver(g, S)
<1> DEFINE image(s) == {key[x] : x \in s}
           T == {s \in SUBSET S : SumOver(f, image(s)) = SumOver(g, s)}
<1>1. ASSUME NEW s \in SUBSET S
      PROVE  /\ IsFiniteSet(s) /\ IsFiniteSet(image(s))
             /\ \A k \in image(s) : f[k] \in Int
  <2>1. IsFiniteSet(s)
    BY FS_Subset
  <2>2. IsFiniteSet(image(s))
    <3> DEFINE h == [x \in s |-> key[x]]
    <3>1. h \in Surjection(s, image(s))
      BY DEF Surjection
    <3> HIDE DEF h, image
    <3> QED BY <2>1, <3>1, FS_Surjection
  <2> QED BY <2>1, <2>2
<1>2. {} \in T
  <2>1. SumOver(g, {}) = 0
    BY FS_EmptySet, SumAdds
  <2>2. SumOver(f, {}) = 0
    BY FS_EmptySet, SumAdds
  <2>3. image({}) = {}
    OBVIOUS
  <2> HIDE DEF image
  <2> QED BY <2>1, <2>2, <2>3
<1>3. ASSUME NEW s \in SUBSET S, s # {}, \A x \in s : s \ {x} \in T
      PROVE  s \in T
  <2>1. PICK x \in s : TRUE
    BY <1>3
  <2>2. SumOver(g, s) = g[x] + SumOver(g, s \ {x})
    BY <1>1, SumAdds
  <2>3. key[x] \in image(s) /\ image(s \ {x}) = image(s) \ {key[x]}
    OBVIOUS
  <2>4. IsFiniteSet(image(s)) /\ \A k \in image(s) : f[k] \in Int
    BY <1>1
  <2> HIDE DEF image
  <2>5. SumOver(f, image(s)) = f[key[x]] + SumOver(f, image(s) \ {key[x]})
    BY <2>3, <2>4, SumAdds
  <2>6. SumOver(f, image(s \ {x})) = SumOver(g, s \ {x})
    BY <1>3, <2>1
  <2> QED BY <2>2, <2>3, <2>5, <2>6
<1> HIDE DEF T
<1>4. \A s \in SUBSET S : s \in T
  BY <1>2, <1>3, FiniteInduction
<1>5. S \in T
  BY <1>4
<1> QED BY <1>5 DEF T

\* A finite set of integers has a greatest and a least element.
LEMMA GreatestAndLeast ==
  ASSUME NEW S \in SUBSET Int, IsFiniteSet(S), S # {}
  PROVE  /\ Max(S) \in S /\ \A x \in S : x <= Max(S)
         /\ Min(S) \in S /\ \A x \in S : Min(S) <= x
<1> DEFINE T == {s \in SUBSET S : s # {} =>
                   /\ \E m \in s : \A x \in s : m >= x
                   /\ \E m \in s : \A x \in s : m <= x}
<1>1. {} \in T
  OBVIOUS
<1>2. ASSUME NEW s \in SUBSET S, s # {}, \A x \in s : s \ {x} \in T
      PROVE  s \in T
  <2>1. PICK y \in s : TRUE
    BY <1>2
  <2>2. CASE s = {y}
    BY <2>2
  <2>3. CASE s # {y}
    <3> DEFINE r == s \ {y}
    <3>1. r \in SUBSET S /\ r # {} /\ y \in Int /\ \A x \in s : x = y \/ x \in r
      BY <2>1, <2>3
    <3>2. /\ \E m \in r : \A x \in r : m >= x
          /\ \E m \in r : \A x \in r : m <= x
      BY <1>2, <2>1, <3>1
    <3>3. PICK m \in r : \A x \in r : m >= x
      BY <3>2
    <3>4. PICK n \in r : \A x \in r : n <= x
      BY <3>2
    <3>5. m \in s /\ n \in s /\ \A x \in s : x \in Int
      OBVIOUS
    <3> HIDE DEF r
    <3>6. \E k \in s : \A x \in s : k >= x
      <4>1. CASE m >= y
        BY <3>1, <3>3, <3>5, <4>1
      <4>2. CASE y >= m
        <5>1. \A x \in r : y >= x
          BY <3>1, <3>3, <3>5, <4>2
        <5> QED BY <2>1, <3>1, <3>5, <5>1
      <4> QED BY <3>1, <3>5, <4>1, <4>2
    <3>7. \E k \in s : \A x \in s : k <= x
      <4>1. CASE n <= y
        BY <3>1, <3>4, <3>5, <4>1
      <4>2. CASE y <= n
        <5>1. \A x \in r : y <= x
          BY <3>1, <3>4, <3>5, <4>2
        <5> QED BY <2>1, <3>1, <3>5, <5>1
      <4> QED BY <3>1, <3>5, <4>1, <4>2
    <3> QED BY <3>6, <3>7
  <2> QED BY <2>2, <2>3
<1> HIDE DEF T
<1>3. \A s \in SUBSET S : s \in T
  BY <1>1, <1>2, FiniteInduction
<1>4. S \in T
  BY <1>3
<1>5. /\ \E m \in S : \A x \in S : m >= x
      /\ \E m \in S : \A x \in S : m <= x
  BY <1>4 DEF T
<1>6. /\ Max(S) \in S /\ \A x \in S : Max(S) >= x
      /\ Min(S) \in S /\ \A x \in S : Min(S) <= x
  BY <1>5 DEF Max, Min
<1>7. \A x \in S : x \in Int
  OBVIOUS
<1> QED BY <1>6, <1>7

-----------------------------------------------------------------------------
(***************************************************************************)
(* The ticks of their axes, for every axis and every scale.                *)
(***************************************************************************)

\* power in StepBase
ArePowers(f, n) == f = [k \in 0..n |-> IF k = 0 THEN 1 ELSE 10 * f[k - 1]]

LEMMA PowersExist ==
  ASSUME NEW n \in Nat PROVE \E f : ArePowers(f, n)
<1> DEFINE T == {k \in 0..n : \E f : ArePowers(f, k)}
<1>1. 0 \in T
  <2> DEFINE f == [i \in 0..0 |-> 1]
  <2>1. f = [i \in 0..0 |-> IF i = 0 THEN 1 ELSE 10 * f[i - 1]]
    <3>1. \A i \in 0..0 : i = 0
      OBVIOUS
    <3> QED BY <3>1
  <2> HIDE DEF f
  <2> QED BY <2>1 DEF ArePowers
<1>2. ASSUME NEW k \in 0..(n - 1), k \in T PROVE k + 1 \in T
  <2>1. PICK f : f = [i \in 0..k |-> IF i = 0 THEN 1 ELSE 10 * f[i - 1]]
    BY <1>2 DEF ArePowers
  <2> DEFINE val(i) == IF i = k + 1 THEN 10 * f[k] ELSE f[i]
             g == [i \in 0..(k + 1) |-> val(i)]
  <2>2. k + 1 \in 0..n /\ k \in Nat
    OBVIOUS
  <2>3. \A i \in 0..(k + 1) : g[i] = val(i)
    OBVIOUS
  <2>4. g = [i \in 0..(k + 1) |-> val(i)]
    OBVIOUS
  <2> HIDE DEF g
  <2>5. ASSUME NEW i \in 0..(k + 1) PROVE val(i) = IF i = 0 THEN 1 ELSE 10 * g[i - 1]
    <3>1. CASE i = 0
      BY <2>1, <2>2, <3>1
    <3>2. CASE i # 0
      <4>1. i - 1 \in 0..k /\ i - 1 # k + 1 /\ i - 1 \in 0..(k + 1)
        BY <2>2, <3>2
      <4>2. g[i - 1] = f[i - 1]
        BY <2>3, <4>1
      <4>3. CASE i = k + 1
        <5>1. i - 1 = k
          BY <2>2, <4>3
        <5> QED BY <3>2, <4>2, <4>3, <5>1
      <4>4. CASE i # k + 1
        <5>1. i \in 0..k
          BY <2>2, <4>4
        <5>2. f[i] = 10 * f[i - 1]
          BY <2>1, <3>2, <5>1
        <5> QED BY <3>2, <4>2, <4>4, <5>2
      <4> QED BY <4>3, <4>4
    <3> QED BY <3>1, <3>2
  <2> HIDE DEF val
  <2>6. g = [i \in 0..(k + 1) |-> IF i = 0 THEN 1 ELSE 10 * g[i - 1]]
    BY <2>4, <2>5
  <2> QED BY <2>2, <2>6 DEF ArePowers
<1> HIDE DEF T
<1>3. \A k \in 0..n : k \in T
  BY <1>1, <1>2, SetInduction
<1>4. n \in 0..n
  OBVIOUS
<1> QED BY <1>3, <1>4 DEF T

LEMMA PowersGrow ==
  ASSUME NEW n \in Nat, NEW f, ArePowers(f, n)
  PROVE  \A k \in 0..n : /\ f[k] \in Nat /\ k < f[k]
                         /\ f[k] = 1 \/ \E m \in Nat \ {0} : f[k] = 10 * m
<1> DEFINE T == {k \in 0..n : /\ f[k] \in Nat /\ k < f[k]
                              /\ f[k] = 1 \/ \E m \in Nat \ {0} : f[k] = 10 * m}
<1>1. \A k \in 0..n : f[k] = IF k = 0 THEN 1 ELSE 10 * f[k - 1]
  BY DEF ArePowers
<1>2. 0 \in T
  BY <1>1
<1>3. ASSUME NEW k \in 0..(n - 1), k \in T PROVE k + 1 \in T
  <2>1. k \in Nat /\ k + 1 \in 0..n /\ k + 1 # 0 /\ (k + 1) - 1 = k
    OBVIOUS
  <2>2. f[k + 1] = 10 * f[k]
    BY <1>1, <2>1
  <2>3. f[k] \in Nat \ {0} /\ k < f[k]
    BY <1>3, <2>1
  <2> QED BY <2>1, <2>2, <2>3
<1> HIDE DEF T
<1>4. \A k \in 0..n : k \in T
  BY <1>2, <1>3, SetInduction
<1> QED BY <1>4 DEF T

\* There is a least power that is enough.
LEMMA StepBaseIs ==
  ASSUME NEW range \in Nat, NEW step \in Nat \ {0}, NEW count \in Nat \ {0}
  PROVE  /\ range <= step * count * StepBase(range, step, count)
         /\ \/ StepBase(range, step, count) = 1
            \/ \E m \in Nat \ {0} : StepBase(range, step, count) = 10 * m
<1> DEFINE power == CHOOSE f : ArePowers(f, range)
           Enough(n) == range <= step * count * power[n]
           Least(n) == Enough(n) /\ \A m \in 0..(n - 1) : ~Enough(m)
           exponent == CHOOSE n \in 0..range : Least(n)
<1>1. ArePowers(power, range)
  <2>1. \E f : ArePowers(f, range)
    BY PowersExist
  <2> QED BY <2>1
<1>2. StepBase(range, step, count) = power[exponent]
  BY DEF StepBase, ArePowers
<1> HIDE DEF power
<1>3. \A n \in 0..range : /\ power[n] \in Nat /\ n < power[n]
                          /\ \/ power[n] = 1
                             \/ \E m \in Nat \ {0} : power[n] = 10 * m
  BY <1>1, PowersGrow
<1>4. Enough(range)
  <2> DEFINE c == step * count
             p == power[range]
  <2>1. c \in Nat /\ c >= 1 /\ p \in Nat /\ p >= range
    <3>1. range \in 0..range
      OBVIOUS
    <3> QED BY <1>3, <3>1
  <2> HIDE DEF c, p
  <2>2. c * p >= p
    BY <2>1
  <2> QED BY <2>1, <2>2 DEF c, p
<1> DEFINE T == {n \in 0..range : Enough(n)}
<1>5. \E n \in 0..range : Least(n)
  <2>1. range \in T /\ T \in SUBSET Nat
    BY <1>4
  <2>2. \A n : n \in T <=> n \in 0..range /\ Enough(n)
    OBVIOUS
  <2> HIDE DEF T, Enough
  <2>3. PICK n \in T : \A k \in T : ~(k < n)
    BY <2>1, LeastNumber
  <2>4. n \in 0..range /\ Enough(n)
    BY <2>2
  <2>5. ASSUME NEW m \in 0..(n - 1) PROVE ~Enough(m)
    <3>1. m \in 0..range /\ m < n
      BY <2>4
    <3> QED BY <2>2, <2>3, <3>1
  <2> QED BY <2>4, <2>5
<1>6. exponent \in 0..range /\ Enough(exponent)
  <2> HIDE DEF Enough
  <2> QED BY <1>5
<1> HIDE DEF exponent
<1> QED BY <1>2, <1>3, <1>6

\* A step that is made smaller does not make too many
LEMMA StepIs ==
  ASSUME NEW x, NEW range \in Nat, x.step \in Nat \ {0}, x.maxtickcount \in Nat \ {0}
  PROVE  Step(x, range) \in Nat \ {0} /\ range <= x.maxtickcount * Step(x, range)
<1> DEFINE base == StepBase(range, x.step, x.maxtickcount)
           count == x.maxtickcount
           large == x.step * base
           fifth == IF base > 1 /\ 5 * range < count * large THEN large \div 5 ELSE large
           final == IF base > 1 /\ 2 * range < count * fifth THEN fifth \div 2 ELSE fifth
<1>1. Step(x, range) = final
  BY DEF Step
<1>2. /\ range <= x.step * count * base
      /\ base = 1 \/ \E m \in Nat \ {0} : base = 10 * m
  BY StepBaseIs
<1> HIDE DEF base
<1>3. CASE base = 1
  BY <1>1, <1>2, <1>3
<1>4. ASSUME NEW m \in Nat \ {0}, base = 10 * m
      PROVE  final \in Nat \ {0} /\ range <= count * final
  <2> DEFINE u == x.step * m
             w == count * u
  <2>1. u \in Nat \ {0} /\ large = 10 * u
    BY <1>4
  <2>2. /\ w \in Nat /\ count * (10 * u) = 10 * w /\ count * (5 * u) = 5 * w
        /\ count * (2 * u) = 2 * w /\ count * u = w
    BY <2>1
  <2>3. range <= 10 * w
    BY <1>2, <1>4
  <2>4. base > 1
    BY <1>4
  <2> HIDE DEF u, w, large
  <2>5. fifth = IF 5 * range < 10 * w THEN 2 * u ELSE 10 * u
    BY <2>1, <2>2, <2>4
  <2>6. CASE 5 * range < 10 * w
    <3>1. fifth = 2 * u
      BY <2>5, <2>6
    <3> HIDE DEF fifth
    <3>2. final = IF 2 * range < 2 * w THEN u ELSE 2 * u
      BY <2>1, <2>2, <2>4, <3>1
    <3> QED BY <2>1, <2>2, <2>6, <3>2
  <2>7. CASE ~(5 * range < 10 * w)
    <3>1. fifth = 10 * u
      BY <2>5, <2>7
    <3> HIDE DEF fifth
    <3>2. final = IF 2 * range < 10 * w THEN 5 * u ELSE 10 * u
      BY <2>1, <2>2, <2>4, <3>1
    <3> QED BY <2>1, <2>2, <2>3, <3>2
  <2> QED BY <2>6, <2>7
<1> QED BY <1>1, <1>2, <1>3, <1>4

\* Rounding towards minus infinity
LEMMA Rounding ==
  ASSUME NEW a \in Int, NEW s \in Nat \ {0}
  PROVE  /\ a \div s \in Int
         /\ s * (a \div s) <= a /\ a < s * (a \div s) + s
  OBVIOUS

LEMMA Multiple ==
  ASSUME NEW k \in Int, NEW s \in Nat \ {0} PROVE (s * k) \div s = k
<1> DEFINE q == (s * k) \div s
<1>1. q \in Int /\ s * q <= s * k /\ s * k < s * q + s
  <2>1. s * k \in Int
    OBVIOUS
  <2> QED BY <2>1, Rounding
<1> HIDE DEF q
<1>2. ~(q >= k + 1)
  <2> SUFFICES ASSUME q >= k + 1 PROVE FALSE
    OBVIOUS
  <2>1. s * q >= s * (k + 1)
    BY <1>1
  <2> QED BY <1>1, <2>1
<1>3. ~(q <= k - 1)
  <2> SUFFICES ASSUME q <= k - 1 PROVE FALSE
    OBVIOUS
  <2>1. s * q <= s * (k - 1)
    BY <1>1
  <2> QED BY <1>1, <2>1
<1> QED BY <1>1, <1>2, <1>3 DEF q

LEMMA MultipleMod ==
  ASSUME NEW k \in Int, NEW s \in Nat \ {0} PROVE (s * k) % s = 0
<1>1. s * k \in Int /\ (s * k) \div s = k
  BY Multiple
<1>2. s * k = s * ((s * k) \div s) + ((s * k) % s) /\ (s * k) % s \in Int
  BY <1>1, SMT
<1> QED BY <1>1, <1>2

\* Of multiples, rounding down to one keeps those below and those above.
LEMMA RoundedDown ==
  ASSUME NEW s \in Int, NEW i \in Nat \ {0}, NEW k \in Int, k % i = 0
  PROVE  /\ s - i < k <=> s - (s % i) <= k
         /\ k <= s <=> k <= s - (s % i)
<1> DEFINE p == s \div i
           m == s % i
           q == k \div i
<1>1. p \in Int /\ m \in Int /\ s = i * p + m /\ 0 <= m /\ m < i
  BY SMT
<1>2. q \in Int /\ k = i * q
  <2>1. q \in Int /\ k = i * q + (k % i)
    BY SMT
  <2> QED BY <2>1
<1> HIDE DEF p, m, q
<1>3. i * p \in Int /\ i * q \in Int
  BY <1>1, <1>2
<1>4. q >= p => k >= i * p
  BY <1>1, <1>2
<1>5. q <= p - 1 => k <= i * p - i
  <2> SUFFICES ASSUME q <= p - 1 PROVE k <= i * p - i
    OBVIOUS
  <2>1. i * q <= i * (p - 1)
    BY <1>1, <1>2
  <2>2. i * (p - 1) = i * p - i
    BY <1>1
  <2> QED BY <1>2, <2>1, <2>2
<1>6. q >= p + 1 => k >= i * p + i
  <2> SUFFICES ASSUME q >= p + 1 PROVE k >= i * p + i
    OBVIOUS
  <2>1. i * q >= i * (p + 1)
    BY <1>1, <1>2
  <2>2. i * (p + 1) = i * p + i
    BY <1>1
  <2> QED BY <1>2, <2>1, <2>2
<1>7. q <= p => k <= i * p
  BY <1>1, <1>2
<1>8. s - m = i * p
  BY <1>1, <1>3
<1>9. s - i < k <=> s - m <= k
  BY <1>1, <1>2, <1>3, <1>4, <1>5, <1>8
<1>10. k <= s <=> k <= s - m
  BY <1>1, <1>2, <1>3, <1>6, <1>7, <1>8
<1> QED BY <1>9, <1>10 DEF m

(***************************************************************************)
(* Whatever the scale, an axis has a tick at every multiple of its step    *)
(* that is in it and at no other, and a dynamic axis has at most one more  *)
(* than maxtickcount.                                                      *)
(***************************************************************************)
THEOREM TicksFitEveryScale ==
  ASSUME NEW x, NEW sc, x.step \in Nat \ {0}, x.first \in Int, x.last \in Int,
         x.origin \in Int \cup {None}, x.maxtickcount \in Nat \ {0},
         sc.b \in Int, sc.range \in Nat
  PROVE  TicksFit(x, sc, Axis(x, sc))
<1> SUFFICES ASSUME x.type # "static" PROVE TicksFit(x, sc, Axis(x, sc))
  BY DEF TicksFit
<1> DEFINE s == IF x.type = "dynamic" THEN Step(x, sc.range) ELSE x.step
           o == Or(x.origin, x.first - (x.first \div x.step) * x.step)
           q == (o - sc.b) \div s
           p == (sc.b + sc.range - o) \div s
           axis == Axis(x, sc)
<1>1. /\ axis.first = o - s * q /\ axis.last = o + s * p /\ axis.step = s
  BY DEF Axis
<1>2. s \in Nat \ {0} /\ (x.type = "dynamic" => sc.range <= x.maxtickcount * s)
  BY StepIs
<1>3. o \in Int
  <2>1. x.first \div x.step \in Int
    BY Rounding
  <2>2. x.first - (x.first \div x.step) * x.step \in Int
    BY <2>1
  <2> QED BY <2>2 DEF Or
<1> HIDE DEF s, o, axis
<1>4. /\ q \in Int /\ s * q <= o - sc.b /\ o - sc.b < s * q + s
      /\ p \in Int /\ s * p <= sc.b + sc.range - o
      /\ sc.b + sc.range - o < s * p + s
  <2>1. o - sc.b \in Int /\ sc.b + sc.range - o \in Int
    BY <1>3
  <2> QED BY <1>2, <2>1, Rounding
<1> HIDE DEF q, p
<1>5. s * q \in Int /\ s * p \in Int
  BY <1>2, <1>4
<1>6. /\ axis.first - axis.step < sc.b /\ sc.b <= axis.first
      /\ axis.last <= sc.b + sc.range /\ sc.b + sc.range < axis.last + axis.step
  BY <1>1, <1>2, <1>3, <1>4, <1>5
<1>7. ASSUME x.type = "dynamic"
      PROVE  Cardinality(AxisTicks(axis)) <= x.maxtickcount + 1
  <2> DEFINE k == p + q
             tick == [n \in 0..k |-> axis.first + n * axis.step]
  <2>1. axis.last - axis.first = s * k
    BY <1>1, <1>2, <1>3, <1>4, <1>5
  <2>2. (axis.last - axis.first) \div axis.step = k
    BY <1>1, <1>2, <1>4, <2>1, Multiple
  <2>3. k <= x.maxtickcount
    <3>1. s * k <= x.maxtickcount * s /\ k \in Int
      BY <1>2, <1>3, <1>4, <1>5, <1>7
    <3> HIDE DEF k
    <3>2. CASE k >= x.maxtickcount + 1
      <4>1. s * k >= s * (x.maxtickcount + 1)
        BY <1>2, <3>1, <3>2
      <4> QED BY <1>2, <3>1, <4>1
    <3> QED BY <3>1, <3>2
  <2>4. AxisTicks(axis) = {axis.first + n * axis.step : n \in 0..k}
    BY <2>2 DEF AxisTicks
  <2>5. tick \in Surjection(0..k, AxisTicks(axis))
    <3> HIDE DEF k
    <3> QED BY <2>4 DEF Surjection
  <2>6. /\ IsFiniteSet(0..k)
        /\ Cardinality(0..k) = IF 0 > k THEN 0 ELSE k + 1
    <3>1. k \in Int /\ 0 \in Int
      BY <1>4
    <3> HIDE DEF k
    <3>2. IsFiniteSet(0..k) /\ Cardinality(0..k) = IF 0 > k THEN 0 ELSE k - 0 + 1
      BY <3>1, FS_Interval
    <3> QED BY <3>1, <3>2
  <2>7. /\ IsFiniteSet(AxisTicks(axis))
        /\ Cardinality(AxisTicks(axis)) <= Cardinality(0..k)
    <3> HIDE DEF k, tick
    <3> QED BY <2>5, <2>6, FS_Surjection
  <2>8. Cardinality(AxisTicks(axis)) \in Nat
    BY <2>7, FS_CardinalityType
  <2>9. k \in Int
    BY <1>4
  <2> HIDE DEF k
  <2> QED BY <2>3, <2>6, <2>7, <2>8, <2>9
<1> QED BY <1>6, <1>7 DEF TicksFit, axis
-----------------------------------------------------------------------------
(***************************************************************************)
(* The columns that a row is drawn in, for every window and table.         *)
(***************************************************************************)

IsWindow(w) ==
  /\ w.width \in Nat /\ w.offset \in Int /\ w.interval \in Nat \ {0}
  /\ \E e \in Int : w = EndingAt(w.width, w.offset, w.interval, e)

\* The grid of a window: multiples of the interval, shifted by the offset
LEMMA WindowGrid ==
  ASSUME NEW w, IsWindow(w)
  PROVE  /\ w.width \in Nat /\ w.offset \in Int /\ w.interval \in Nat \ {0}
         /\ w.starttime \in Int /\ w.endtime = w.starttime + w.interval * w.width
         /\ \E k \in Int : w.starttime + w.offset = w.interval * k
<1> DEFINE width == w.width
           offset == w.offset
           interval == w.interval
<1>0. width \in Nat /\ offset \in Int /\ interval \in Nat \ {0}
  BY DEF IsWindow
<1>e. PICK e \in Int : w = EndingAt(width, offset, interval, e)
  BY DEF IsWindow
<1> DEFINE r == [offset |-> offset, interval |-> interval]
           end == reduceTime(r, e)
           q == (e + offset) \div interval
           m == (e + offset) % interval
<1>1. w.endtime = end /\ w.starttime = end - width * interval
  <2> HIDE DEF width, offset, interval
  <2> QED BY <1>e DEF EndingAt
<1> HIDE DEF width, offset, interval
<1>2. end = e - m
  BY DEF reduceTime
<1>3. q \in Int /\ e + offset = interval * q + m /\ m \in Int
  BY <1>0, SMT
<1> HIDE DEF end, q, m
<1>4. end \in Int /\ end + offset = interval * q /\ interval * q \in Int
  BY <1>0, <1>2, <1>3
<1>5. width * interval = interval * width /\ interval * width \in Int
  BY <1>0, SMT
<1>6. interval * (q - width) = interval * q - interval * width
  BY <1>0, <1>3, SMT
<1>7. q - width \in Int
  BY <1>0, <1>3
<1>8. w.starttime + offset = interval * (q - width)
  BY <1>0, <1>1, <1>3, <1>4, <1>5, <1>6
<1>9. w.starttime \in Int /\ w.endtime = w.starttime + interval * width
  BY <1>1, <1>4, <1>5
<1> QED BY <1>0, <1>7, <1>8, <1>9 DEF width, offset, interval

\* The time of a column is on the grid, and it has that column.
LEMMA ColumnAndTime ==
  ASSUME NEW w, IsWindow(w),
         NEW n \in 0..w.width
  PROVE  LET t == getTimeFromIndex(w, n) IN
           /\ t \in Int /\ w.starttime <= t /\ t <= w.endtime
           /\ reduceTime(w, t) = t /\ getIndexFromTime(w, t) = n
<1> DEFINE t == getTimeFromIndex(w, n)
<1> DEFINE width == w.width
           offset == w.offset
           interval == w.interval
<1>0. width \in Nat /\ offset \in Int /\ interval \in Nat \ {0}
  BY WindowGrid
<1>1. w.starttime \in Int /\ w.endtime = w.starttime + interval * width
  BY WindowGrid
<1>2. PICK k \in Int : w.starttime + offset = interval * k
  BY WindowGrid
<1> HIDE DEF width, offset, interval
<1>3. n \in 0..width /\ n \in Int /\ n * interval = interval * n /\ interval * n \in Int
  <2>1. n \in 0..width
    BY DEF width
  <2> QED BY <1>0, <2>1
<1>4. t = w.starttime + interval * n
  BY <1>0, <1>1, <1>3 DEF getTimeFromIndex, width, offset, interval
<1> HIDE DEF t
<1>5. 0 <= interval * n /\ interval * n <= interval * width
  <2>1. interval * (width - n) = interval * width - interval * n
    BY <1>0, <1>3
  <2>2. width - n \in Nat
    BY <1>0, <1>3
  <2>3. interval * (width - n) >= 0
    BY <1>0, <2>2
  <2> QED BY <1>0, <2>1, <2>3, <1>3
<1>6. t \in Int /\ w.starttime <= t /\ t <= w.endtime
  BY <1>0, <1>1, <1>3, <1>4, <1>5
<1>7. (t + offset) % interval = 0
  <2>1. interval * (k + n) = interval * k + interval * n
    BY <1>0, <1>2, <1>3
  <2>2. t + offset = interval * (k + n)
    BY <1>0, <1>1, <1>2, <1>4, <2>1
  <2>3. k + n \in Int
    BY <1>0, <1>2, <1>3
  <2>4. (interval * (k + n)) % interval = 0
    BY <1>0, <2>3, MultipleMod
  <2> QED BY <1>0, <2>2, <2>4
<1>8. reduceTime(w, t) = t
  BY <1>0, <1>1, <1>6, <1>7 DEF reduceTime, width, offset, interval
<1>9. getIndexFromTime(w, t) = (interval * n) \div interval
  BY <1>0, <1>1, <1>3, <1>4, <1>6, <1>8 DEF getIndexFromTime, width, offset, interval
<1>10. getIndexFromTime(w, t) = n
  BY <1>0, <1>3, <1>9, Multiple
<1> QED BY <1>0, <1>6, <1>8, <1>10 DEF t, width, offset, interval

\* Every time on the grid, from the start to the end, is that of a column.
LEMMA TimeHasColumn ==
  ASSUME NEW w, IsWindow(w),
         NEW t \in Int, reduceTime(w, t) = t, w.starttime <= t, t <= w.endtime
  PROVE  \E n \in 0..w.width : t = getTimeFromIndex(w, n)
<1> DEFINE width == w.width
           offset == w.offset
           interval == w.interval
<1>0. width \in Nat /\ offset \in Int /\ interval \in Nat \ {0}
  BY WindowGrid
<1>1. w.starttime \in Int /\ w.endtime = w.starttime + interval * width
  BY WindowGrid
<1>2. PICK k \in Int : w.starttime + offset = interval * k
  BY WindowGrid
<1> HIDE DEF width, offset, interval
<1> DEFINE q == (t + offset) \div interval
           r == (t + offset) % interval
<1>3. q \in Int /\ t + offset = interval * q + r /\ r \in Int
  BY <1>0, SMT
<1>4. reduceTime(w, t) = t - r
  BY DEF reduceTime, width, offset, interval
<1> HIDE DEF q, r
<1>a. r = 0
  BY <1>3, <1>4
<1>5. q - k \in Int /\ interval * (q - k) = interval * q - interval * k
      /\ interval * q \in Int /\ interval * k \in Int
  BY <1>0, <1>2, <1>3
<1> DEFINE n == q - k
<1>6. t = w.starttime + interval * n
  BY <1>0, <1>1, <1>2, <1>3, <1>a, <1>5
<1>7. n \in Int /\ interval * n \in Int
  BY <1>0, <1>5
<1> HIDE DEF n
<1>8. 0 <= interval * n /\ interval * n <= interval * width
  BY <1>0, <1>1, <1>6, <1>7
<1>9. ~(n < 0)
  <2> SUFFICES ASSUME n <= 0 - 1 PROVE FALSE
    BY <1>7
  <2>1. interval * n <= interval * (0 - 1)
    BY <1>0, <1>7
  <2>2. interval * (0 - 1) = 0 - interval
    BY <1>0
  <2> QED BY <1>0, <1>7, <1>8, <2>1, <2>2
<1>10. ~(n > width)
  <2> SUFFICES ASSUME n >= width + 1 PROVE FALSE
    BY <1>0, <1>7
  <2>1. interval * n >= interval * (width + 1)
    BY <1>0, <1>7
  <2>2. interval * (width + 1) = interval * width + interval
    BY <1>0
  <2> QED BY <1>0, <1>7, <1>8, <2>1, <2>2
<1>11. n \in 0..width
  BY <1>0, <1>7, <1>9, <1>10
<1>12. n * interval = interval * n
  BY <1>0, <1>7
<1> QED BY <1>0, <1>1, <1>6, <1>11, <1>12 DEF getTimeFromIndex, width, offset, interval

\* The rows of a table: integers, one for each key, and on the grid of the window.
\* Keys of minutes are multiples of a minute and those of averages of their interval,
\* in the time of the station (meteopoll.cc, Averager.cc).
StoredRows(rows, w) ==
  /\ \E Names : rows \subseteq [intval : Nat, tk : Int, field : Names, value : Int]
  /\ Keyed(rows) /\ OnGrid(rows, w)

\* The series of a select has what the columns are meant to show, under their keys.
LEMMA SeriesOfSelect ==
  ASSUME NEW w, IsWindow(w), NEW rows, StoredRows(rows, w),
         NEW selects, Selectable(selects), NEW j \in DOMAIN selects
  PROVE  LET d == Queried(rows, selects, w)[selects[j].name]
             shown == Shown(rows, w, selects[j].field)
             Key(n) == getTimeFromIndex(w, n) + w.offset
         IN  /\ d = Tdata(w.interval, w.starttime + queried(w), w.endtime + queried(w),
                          d.data)
             /\ DOMAIN shown \subseteq 0..w.width
             /\ DOMAIN d.data = {Key(n) : n \in DOMAIN shown}
             /\ \A n \in DOMAIN shown : d.data[Key(n)] = shown[n] /\ shown[n] \in Int
<1> DEFINE s == w.starttime + queried(w)
           e == w.endtime + queried(w)
           name == selects[j].name
           field == selects[j].field
           d == Queried(rows, selects, w)[name]
           shown == Shown(rows, w, field)
           T(n) == getTimeFromIndex(w, n)
           Key(n) == T(n) + w.offset
           shift(r) == [r EXCEPT !.tk = IF w.interval = Raw THEN @ + w.offset ELSE @]
           Col(n) == {r \in rows : r.field = field /\ r.intval = w.interval
                                     /\ r.tk = T(n) + queried(w)}
           Of == {r \in Rows(rows, w.interval, s, e, w.offset) :
                    \E l \in DOMAIN selects :
                      selects[l].name = name /\ selects[l].field = r.field}
           ser == [k \in {r.tk : r \in Of} |-> (CHOOSE r \in Of : r.tk = k).value]
<1>1. d = Tdata(w.interval, s, e, ser)
  BY DEF Queried, perform
<1>2. d.data = ser /\ d = Tdata(w.interval, s, e, d.data)
  BY <1>1 DEF Tdata
<1>3. /\ DOMAIN shown = {n \in 0..w.width : Col(n) # {}}
      /\ \A n \in DOMAIN shown : shown[n] = (CHOOSE r \in Col(n) : TRUE).value
  BY DEF Shown
<1>4. /\ w.width \in Nat /\ w.offset \in Int /\ w.interval \in Nat \ {0}
      /\ w.starttime \in Int /\ w.endtime \in Int /\ queried(w) \in Int
  BY WindowGrid DEF queried
<1>5. PICK Names : rows \subseteq [intval : Nat, tk : Int, field : Names, value : Int]
  BY DEF StoredRows
<1>6. \A r \in rows : /\ shift(r).field = r.field /\ shift(r).value = r.value
                      /\ shift(r).tk = r.tk - queried(w) + w.offset
  BY <1>4, <1>5 DEF queried
<1>7. Rows(rows, w.interval, s, e, w.offset) =
        {shift(r) : r \in {q \in rows : q.intval = w.interval /\ s <= q.tk /\ q.tk <= e}}
  BY DEF Rows
<1>8. \A r \in Rows(rows, w.interval, s, e, w.offset) :
        (\E l \in DOMAIN selects :
           selects[l].name = name /\ selects[l].field = r.field) <=> r.field = field
  BY DEF Selectable
<1> HIDE DEF s, e, name, field, d, shown, shift
<1>9. \A n \in 0..w.width :
        /\ T(n) \in Int /\ w.starttime <= T(n) /\ T(n) <= w.endtime
        /\ getIndexFromTime(w, T(n)) = n
  BY ColumnAndTime
<1> HIDE DEF T
\* a row of a column is in the series under the column's key
<1>10. ASSUME NEW n \in 0..w.width, NEW r \in Col(n)
       PROVE  shift(r) \in Of /\ shift(r).tk = Key(n)
  <2>1. r \in rows /\ r.field = field /\ r.intval = w.interval /\ r.tk = T(n) + queried(w)
    OBVIOUS
  <2>2. s <= r.tk /\ r.tk <= e
    BY <1>4, <1>9, <2>1 DEF s, e
  <2>3. shift(r) \in Rows(rows, w.interval, s, e, w.offset)
    BY <1>7, <2>1, <2>2
  <2>4. shift(r).field = field /\ shift(r).tk = Key(n)
    BY <1>4, <1>6, <1>9, <2>1
  <2> QED BY <1>8, <2>3, <2>4
\* and every row of the series is one of a column
<1>11. ASSUME NEW x \in Of
       PROVE  \E n \in 0..w.width : \E r \in Col(n) : x = shift(r) /\ x.tk = Key(n)
  <2>1. PICK r \in rows : /\ r.intval = w.interval /\ s <= r.tk /\ r.tk <= e
                          /\ x = shift(r)
    BY <1>7
  <2>2. r.field = field
    BY <1>6, <1>8, <2>1
  <2> DEFINE t == r.tk - queried(w)
  <2>3. r.tk \in Int
    BY <1>5
  <2>4. t \in Int /\ w.starttime <= t /\ t <= w.endtime
    BY <1>4, <2>1, <2>3 DEF s, e
  <2>5. reduceTime(w, t) = t
    BY <2>1 DEF StoredRows, OnGrid
  <2>6. PICK n \in 0..w.width : t = T(n)
    BY <2>4, <2>5, TimeHasColumn DEF T
  <2>7. r.tk = T(n) + queried(w)
    BY <1>4, <2>3, <2>6
  <2>8. r \in Col(n)
    BY <2>1, <2>2, <2>7
  <2>9. x.tk = Key(n)
    BY <1>6, <2>1, <2>6
  <2> QED BY <2>1, <2>8, <2>9
\* two columns have different keys, and a column one row
<1>12. \A m, n \in 0..w.width : Key(m) = Key(n) => m = n
  <2> TAKE m, n \in 0..w.width
  <2> HAVE Key(m) = Key(n)
  <2>1. T(m) = T(n)
    BY <1>4, <1>9
  <2> QED BY <1>9, <2>1
<1>13. \A n \in 0..w.width : \A q, r \in Col(n) : q = r
  BY DEF StoredRows, Keyed
<1>14. DOMAIN d.data = {Key(n) : n \in DOMAIN shown}
  <2>1. DOMAIN ser = {r.tk : r \in Of}
    OBVIOUS
  <2>2. ASSUME NEW k \in DOMAIN ser PROVE k \in {Key(n) : n \in DOMAIN shown}
    BY <1>3, <1>11, <2>2
  <2>3. ASSUME NEW n \in DOMAIN shown PROVE Key(n) \in DOMAIN ser
    <3>1. n \in 0..w.width /\ \E r \in Col(n) : TRUE
      BY <1>3
    <3> QED BY <1>10, <2>1, <3>1
  <2> HIDE DEF ser, Key
  <2>4. DOMAIN ser = {Key(n) : n \in DOMAIN shown}
    BY <2>2, <2>3
  <2> QED BY <1>2, <2>4
<1>15. ASSUME NEW n \in DOMAIN shown
       PROVE  d.data[Key(n)] = shown[n] /\ shown[n] \in Int
  <2>1. n \in 0..w.width /\ Col(n) # {}
    BY <1>3
  <2>2. PICK r \in Col(n) : r = CHOOSE q \in Col(n) : TRUE
    BY <2>1
  <2>3. shown[n] = r.value /\ r \in rows
    BY <1>3, <2>2
  <2> DEFINE x == CHOOSE q \in Of : q.tk = Key(n)
  <2>4. x \in Of /\ x.tk = Key(n)
    BY <1>10, <2>1
  <2>5. Key(n) \in {q.tk : q \in Of}
    BY <2>4
  <2>6. ser[Key(n)] = x.value
    BY <2>5
  <2> HIDE DEF x
  <2>7. PICK m \in 0..w.width : \E q \in Col(m) : x = shift(q) /\ x.tk = Key(m)
    BY <1>11, <2>4
  <2>8. m = n
    BY <1>12, <2>1, <2>4, <2>7
  <2>9. x = shift(r)
    BY <1>13, <2>1, <2>7, <2>8
  <2>10. x.value = r.value /\ r.value \in Int
    BY <1>5, <1>6, <2>3, <2>9
  <2> QED BY <1>2, <2>3, <2>6, <2>10
<1>16. DOMAIN shown \subseteq 0..w.width
  BY <1>3
<1> QED BY <1>2, <1>14, <1>15, <1>16 DEF d, shown, name, field, s, e, T

(***************************************************************************)
(* For every window, every query and every table with rows on the window's *)
(* grid: a histogram has the value of each row of its field in the column  *)
(* of the row's time and nothing else, and the columns shaded for want of  *)
(* data are all the others (Graphics.cc, Query.cc, GraphWindow.cc).        *)
(***************************************************************************)
THEOREM ColumnsShowRows ==
  ASSUME NEW w, IsWindow(w), NEW rows, StoredRows(rows, w),
         NEW selects, Selectable(selects), NEW j \in DOMAIN selects
  PROVE  LET data == Queried(rows, selects, w)[selects[j].name].data
             shown == Shown(rows, w, selects[j].field)
         IN  /\ ColumnsShow("histogram", Histogram(w, data), w, shown)
             /\ ColumnsShow("nodata", Nodata(w, data), w, shown)
<1> DEFINE data == Queried(rows, selects, w)[selects[j].name].data
           shown == Shown(rows, w, selects[j].field)
           T(n) == getTimeFromIndex(w, n)
           Key(n) == T(n) + w.offset
<1>1. /\ DOMAIN shown \subseteq 0..w.width
      /\ DOMAIN data = {Key(n) : n \in DOMAIN shown}
      /\ \A n \in DOMAIN shown : data[Key(n)] = shown[n]
  BY SeriesOfSelect
<1>2. w.offset \in Int
  BY WindowGrid
<1> HIDE DEF data, shown
<1>3. \A n \in 0..w.width : T(n) \in Int /\ getIndexFromTime(w, T(n)) = n
  BY ColumnAndTime
<1> HIDE DEF T
<1>4. \A n \in 0..w.width : Key(n) - w.offset = T(n)
  BY <1>2, <1>3
<1>5. \A n \in DOMAIN shown : getIndexFromTime(w, Key(n) - w.offset) = n
  BY <1>1, <1>3, <1>4
<1>6. \A m, n \in 0..w.width : Key(m) = Key(n) => m = n
  BY <1>3, <1>4
<1> HIDE DEF Key
<1>7. Histogram(w, data) = {<<getIndexFromTime(w, Key(n) - w.offset), data[Key(n)]>> :
                              n \in DOMAIN shown}
  BY <1>1 DEF Histogram
<1>8. Histogram(w, data) = Pairs(shown)
  BY <1>1, <1>5, <1>7 DEF Pairs
<1>9. Nodata(w, data) = {n \in 0..w.width : Key(n) \notin DOMAIN data}
  BY DEF Nodata, Key, T
<1>10. \A n \in 0..w.width : Key(n) \in DOMAIN data <=> n \in DOMAIN shown
  BY <1>1, <1>6
<1>11. Nodata(w, data) = 0..w.width \ DOMAIN shown
  BY <1>9, <1>10
<1> QED BY <1>8, <1>11 DEF ColumnsShow, data, shown

\* A column's time key is a multiple of the interval, so that rounding the times of
\* the query to multiples keeps it among them or not.
LEMMA KeptKeys ==
  ASSUME NEW w, IsWindow(w), NEW n \in 0..w.width
  PROVE  LET s == w.starttime + queried(w)
             e == w.endtime + queried(w)
             k == getTimeFromIndex(w, n) + w.offset
         IN  /\ k \in Int /\ k % w.interval = 0
             /\ n \in Kept(w) <=> s - (s % w.interval) <= k /\ k <= e - (e % w.interval)
<1> DEFINE s == w.starttime + queried(w)
           e == w.endtime + queried(w)
           k == getTimeFromIndex(w, n) + w.offset
<1>1. /\ w.offset \in Int /\ w.interval \in Nat \ {0} /\ queried(w) \in Int
      /\ w.starttime \in Int /\ w.endtime \in Int
  BY WindowGrid DEF queried
<1>2. /\ getTimeFromIndex(w, n) \in Int
      /\ reduceTime(w, getTimeFromIndex(w, n)) = getTimeFromIndex(w, n)
  BY ColumnAndTime
<1>3. k \in Int /\ k % w.interval \in Int /\ s \in Int /\ e \in Int
  <2>1. k \in Int /\ s \in Int /\ e \in Int
    BY <1>1, <1>2
  <2> HIDE DEF k
  <2> QED BY <1>1, <2>1
<1>4. k % w.interval = 0
  <2>1. getTimeFromIndex(w, n) = getTimeFromIndex(w, n) - (k % w.interval)
    BY <1>2 DEF reduceTime
  <2> HIDE DEF k
  <2> QED BY <1>2, <1>3, <2>1
<1>5. n \in Kept(w) <=> (s - w.interval < k /\ k <= e)
  BY DEF Kept
<1> HIDE DEF s, e, k
<1>6. s - w.interval < k <=> s - (s % w.interval) <= k
  BY <1>1, <1>3, <1>4, RoundedDown
<1>7. k <= e <=> k <= e - (e % w.interval)
  BY <1>1, <1>3, <1>4, RoundedDown
<1> QED BY <1>3, <1>4, <1>5, <1>6, <1>7 DEF s, e, k

(***************************************************************************)
(* Likewise, the difference of two selects is drawn in the columns that    *)
(* have rows of both fields and time keys among the times of the query,    *)
(* and is the difference of these rows' values (Dataset.cc, Tdata.cc).     *)
(***************************************************************************)
THEOREM DifferenceOfRows ==
  ASSUME NEW w, IsWindow(w), NEW rows, StoredRows(rows, w),
         NEW selects, Selectable(selects),
         NEW i \in DOMAIN selects, NEW j \in DOMAIN selects
  PROVE  LET a == Queried(rows, selects, w)[selects[i].name]
             b == Queried(rows, selects, w)[selects[j].name]
         IN  DifferenceShows(Histogram(w, apply2("diff", a, b).data), w,
                             Shown(rows, w, selects[i].field),
                             Shown(rows, w, selects[j].field))
<1> DEFINE a == Queried(rows, selects, w)[selects[i].name]
           b == Queried(rows, selects, w)[selects[j].name]
           f == Shown(rows, w, selects[i].field)
           g == Shown(rows, w, selects[j].field)
           s == w.starttime + queried(w)
           e == w.endtime + queried(w)
           T(n) == getTimeFromIndex(w, n)
           Key(n) == T(n) + w.offset
           both == DOMAIN f \cap DOMAIN g \cap Kept(w)
           keys == {k \in DOMAIN a.data \cap DOMAIN b.data :
                      s - (s % w.interval) <= k /\ k <= e - (e % w.interval)}
           h == [k \in keys |-> a.data[k] - b.data[k]]
<1>1. /\ a = Tdata(w.interval, s, e, a.data)
      /\ DOMAIN f \subseteq 0..w.width
      /\ DOMAIN a.data = {Key(n) : n \in DOMAIN f}
      /\ \A n \in DOMAIN f : a.data[Key(n)] = f[n] /\ f[n] \in Int
  BY SeriesOfSelect
<1>2. /\ b = Tdata(w.interval, s, e, b.data)
      /\ DOMAIN g \subseteq 0..w.width
      /\ DOMAIN b.data = {Key(n) : n \in DOMAIN g}
      /\ \A n \in DOMAIN g : b.data[Key(n)] = g[n] /\ g[n] \in Int
  BY SeriesOfSelect
<1>3. /\ w.width \in Nat /\ w.offset \in Int /\ w.interval \in Nat \ {0}
      /\ w.starttime \in Int /\ w.endtime \in Int /\ s \in Int /\ e \in Int
  BY WindowGrid DEF queried
<1>4. /\ ~a.constant /\ ~b.constant
      /\ a.start = s - (s % w.interval) /\ b.start = a.start
      /\ a.finish = e - (e % w.interval) /\ b.finish = a.finish
      /\ DOMAIN a = {"constant", "value", "interval", "start", "finish", "data"}
  <2> HIDE DEF a, b, s, e
  <2> QED BY <1>1, <1>2 DEF Tdata
<1>5. /\ a.start \in Int /\ a.finish \in Int
  <2> HIDE DEF a, b, s, e
  <2> QED BY <1>3, <1>4
<1> HIDE DEF a, b, f, g, s, e
<1>6. Min({a.start, b.start}) = a.start /\ Max({a.finish, b.finish}) = a.finish
  BY <1>4, <1>5, Z3 DEF Min, Max
<1>7. apply2("diff", a, b).data = Defined(h)
  BY <1>4, <1>6 DEF apply2, Binary
<1>8. \A n \in 0..w.width :
        T(n) \in Int /\ getIndexFromTime(w, T(n)) = n /\ reduceTime(w, T(n)) = T(n)
  BY ColumnAndTime
<1> HIDE DEF T
<1>9. \A n \in 0..w.width : Key(n) - w.offset = T(n) /\ Key(n) \in Int
  BY <1>3, <1>8
<1>10. \A m, n \in 0..w.width : Key(m) = Key(n) => m = n
  BY <1>8, <1>9
<1>11. ASSUME NEW n \in 0..w.width
       PROVE  n \in Kept(w) <=>
                s - (s % w.interval) <= Key(n) /\ Key(n) <= e - (e % w.interval)
  BY KeptKeys DEF s, e, Key, T
<1> HIDE DEF Key
<1>12. keys = {Key(n) : n \in both}
  <2>1. ASSUME NEW k \in keys PROVE \E n \in both : k = Key(n)
    <3>1. PICK m \in DOMAIN f : k = Key(m)
      BY <1>1
    <3>2. PICK n \in DOMAIN g : k = Key(n)
      BY <1>2
    <3>3. m = n
      BY <1>1, <1>2, <1>10, <3>1, <3>2
    <3>4. m \in Kept(w)
      BY <1>1, <1>11, <3>1
    <3> QED BY <3>1, <3>3, <3>4
  <2>2. ASSUME NEW n \in both PROVE Key(n) \in keys
    BY <1>1, <1>2, <1>11
  <2> QED BY <2>1, <2>2
<1>13. \A n \in both : h[Key(n)] = f[n] - g[n] /\ f[n] - g[n] \in Int
  BY <1>1, <1>2, <1>12
<1>14. DOMAIN h = {Key(n) : n \in both}
  BY <1>12
<1> HIDE DEF h, both
<1>15. \A k \in DOMAIN h : h[k] # Failed
  BY <1>13, <1>14, SeriesAssumption
<1>16. /\ DOMAIN Defined(h) = {Key(n) : n \in both}
       /\ \A n \in both : Defined(h)[Key(n)] = f[n] - g[n]
  BY <1>13, <1>14, <1>15 DEF Defined
<1>17. \A n \in both : getIndexFromTime(w, Key(n) - w.offset) = n
  BY <1>1, <1>8, <1>9 DEF both
<1> DEFINE d == Defined(h)
<1> HIDE DEF d
<1>18. Histogram(w, d) = {<<getIndexFromTime(w, Key(n) - w.offset), d[Key(n)]>> :
                            n \in both}
  BY <1>16 DEF Histogram, d
<1>19. Histogram(w, d) = {<<n, f[n] - g[n]>> : n \in both}
  BY <1>16, <1>17, <1>18 DEF d
<1> QED BY <1>7, <1>19 DEF DifferenceShows, d, both, a, b, f, g

-----------------------------------------------------------------------------
(* The data set of a graph                                                 *)

\* The data sets after each of the elements
IsRun(f, ds, elements, n) ==
  f = [k \in 0..n |-> IF k = 0 THEN ds ELSE addData(f[k - 1], elements[k])]

LEMMA RunExists ==
  ASSUME NEW ds, NEW elements, NEW n \in Nat
  PROVE  \E f : IsRun(f, ds, elements, n)
<1> DEFINE T == {k \in 0..n : \E f : IsRun(f, ds, elements, k)}
           step(f, k) == addData(f[k - 1], elements[k])
<1> HIDE DEF step
<1>1. \A k, f : IsRun(f, ds, elements, k) <=>
        f = [i \in 0..k |-> IF i = 0 THEN ds ELSE step(f, i)]
  BY DEF IsRun, step
<1>2. 0 \in T
  <2> DEFINE f == [i \in 0..0 |-> ds]
  <2>1. f = [i \in 0..0 |-> IF i = 0 THEN ds ELSE step(f, i)]
    <3>1. \A i \in 0..0 : i = 0
      OBVIOUS
    <3> HIDE DEF step
    <3> QED BY <3>1
  <2>2. 0 \in 0..n
    OBVIOUS
  <2> HIDE DEF f
  <2> QED BY <1>1, <2>1, <2>2
<1>3. ASSUME NEW k \in 0..(n - 1), k \in T PROVE k + 1 \in T
  <2>1. PICK f : f = [i \in 0..k |-> IF i = 0 THEN ds ELSE step(f, i)]
    BY <1>1, <1>3
  <2> DEFINE val(i) == IF i = k + 1 THEN step(f, k + 1) ELSE f[i]
             g == [i \in 0..(k + 1) |-> val(i)]
  <2>2. k + 1 \in 0..n /\ k \in Nat
    OBVIOUS
  <2>3. \A i \in 0..(k + 1) : g[i] = val(i)
    OBVIOUS
  <2>4. g = [i \in 0..(k + 1) |-> val(i)]
    OBVIOUS
  <2> HIDE DEF g
  <2>5. ASSUME NEW i \in 0..(k + 1)
        PROVE  val(i) = IF i = 0 THEN ds ELSE step(g, i)
    <3>1. CASE i = 0
      <4>1. i # k + 1 /\ i \in 0..k
        BY <2>2, <3>1
      <4> QED BY <2>1, <3>1, <4>1
    <3>2. CASE i # 0
      <4>1. i - 1 \in 0..k /\ i - 1 # k + 1 /\ i - 1 \in 0..(k + 1)
        BY <2>2, <3>2
      <4>2. g[i - 1] = f[i - 1]
        BY <2>3, <4>1
      <4>3. step(g, i) = step(f, i)
        BY <4>2 DEF step
      <4>4. CASE i = k + 1
        BY <3>2, <4>3, <4>4
      <4>5. CASE i # k + 1
        <5>1. i \in 0..k
          BY <2>2, <4>5
        <5> QED BY <2>1, <3>2, <4>3, <4>5, <5>1
      <4> QED BY <4>4, <4>5
    <3> QED BY <3>1, <3>2
  <2> HIDE DEF val
  <2>6. g = [i \in 0..(k + 1) |-> IF i = 0 THEN ds ELSE step(g, i)]
    BY <2>4, <2>5
  <2> QED BY <1>1, <2>2, <2>6
<1> HIDE DEF T
<1>4. \A k \in 0..n : k \in T
  BY <1>2, <1>3, SetInduction
<1>5. n \in 0..n
  OBVIOUS
<1> QED BY <1>4, <1>5 DEF T

LEMMA AllDataIsRun ==
  ASSUME NEW ds, NEW elements, Len(elements) \in Nat
  PROVE  \E f : /\ IsRun(f, ds, elements, Len(elements))
                /\ addAlldata(ds, elements) = f[Len(elements)]
<1> DEFINE P(f) == f = [n \in 0..Len(elements) |->
                      IF n = 0 THEN ds ELSE addData(f[n - 1], elements[n])]
<1>1. \E f : P(f)
  <2>1. PICK f : IsRun(f, ds, elements, Len(elements))
    BY RunExists
  <2>2. P(f)
    BY <2>1 DEF IsRun
  <2> HIDE DEF P
  <2> QED BY <2>2
<1>2. P(CHOOSE f : P(f))
  BY <1>1
<1>3. addAlldata(ds, elements) = (CHOOSE f : P(f))[Len(elements)]
  BY DEF addAlldata
<1> QED BY <1>2, <1>3 DEF IsRun

Untouched(elements, name, i, n) == \A k \in (i + 1)..n : elements[k].name # name

\* Data elements of other names leave a name in the data set.
LEMMA NamesStay ==
  ASSUME NEW ds, NEW elements, NEW n \in Nat, NEW f, IsRun(f, ds, elements, n),
         NEW i \in 0..n, NEW name, f[i] = Failed \/ name \in DOMAIN f[i],
         Untouched(elements, name, i, n), f[n] # Failed
  PROVE  f[i] # Failed /\ name \in DOMAIN f[n] /\ f[n][name] = f[i][name]
<1> DEFINE Same(s) == s # Failed => /\ f[i] # Failed /\ name \in DOMAIN s
                                    /\ s[name] = f[i][name]
           T == {k \in 0..n : k >= i => Same(f[k])}
<1>1. \A k \in 0..n : f[k] = IF k = 0 THEN ds ELSE addData(f[k - 1], elements[k])
  BY DEF IsRun
<1>2. 0 \in T
  <2>1. i = 0 => Same(f[0])
    OBVIOUS
  <2> HIDE DEF Same
  <2> QED BY <2>1
<1>3. ASSUME NEW k \in 0..(n - 1), k \in T PROVE k + 1 \in T
  <2>1. k + 1 \in 0..n /\ k + 1 # 0 /\ (k + 1) - 1 = k
    OBVIOUS
  <2>2. f[k + 1] = addData(f[k], elements[k + 1])
    BY <1>1, <2>1
  <2>3. CASE k + 1 = i
    BY <2>1, <2>3
  <2>4. CASE k + 1 < i
    BY <2>1, <2>4
  <2>5. CASE k + 1 > i
    <3>1. Same(f[k]) /\ k + 1 \in (i + 1)..n
      BY <1>3, <2>1, <2>5
    <3>5. elements[k + 1].name # name
      BY <3>1 DEF Untouched
    <3>2. SUFFICES ASSUME f[k + 1] # Failed
                   PROVE  /\ f[i] # Failed /\ name \in DOMAIN f[k + 1]
                          /\ f[k + 1][name] = f[i][name]
      BY <2>1
    <3> DEFINE e == elements[k + 1]
               s == f[k]
               d == processNode(s, e.node)
    <3>3. s # Failed /\ f[k + 1] = [m \in DOMAIN s \cup {e.name} |->
                                     IF m = e.name THEN d ELSE s[m]]
      BY <2>2, <3>2 DEF addData
    <3>4. e.name # name
      BY <3>5
    <3> HIDE DEF d, e
    <3> QED BY <3>1, <3>3, <3>4
  <2> QED BY <2>3, <2>4, <2>5
<1> HIDE DEF T
<1>4. n \in T
  <2>1. \A k \in 0..n : k \in T
    BY <1>2, <1>3, SetInduction
  <2> QED BY <2>1
<1> QED BY <1>4 DEF T

\* The selects are in s as they are in ds, which therefore could be queried.
SelectsAsIn(s, ds, elements) ==
  \A name : /\ \A i \in 1..Len(elements) : elements[i].name # name
            /\ ds = Failed \/ name \in DOMAIN ds
            => ds # Failed /\ name \in DOMAIN s /\ s[name] = ds[name]

\* They are there in the end,
LEMMA SelectsStay ==
  ASSUME NEW ds, NEW elements, Len(elements) \in Nat, NEW all,
         all = addAlldata(ds, elements), all # Failed
  PROVE  SelectsAsIn(all, ds, elements)
<1> DEFINE n == Len(elements)
<1>1. PICK f : IsRun(f, ds, elements, n) /\ all = f[n]
  BY AllDataIsRun
<1>2. n \in Nat /\ 0 \in 0..n /\ f[0] = ds
  BY <1>1 DEF IsRun
<1>3. ASSUME NEW name, \A i \in 1..n : elements[i].name # name,
             ds = Failed \/ name \in DOMAIN ds
      PROVE  ds # Failed /\ name \in DOMAIN all /\ all[name] = ds[name]
  <2>1. Untouched(elements, name, 0, n)
    BY <1>3 DEF Untouched
  <2> HIDE DEF n
  <2> QED BY <1>1, <1>2, <1>3, <2>1, NamesStay
<1> QED BY <1>3 DEF SelectsAsIn

\* and when an element is computed.
LEMMA ElementIs ==
  ASSUME NEW ds, NEW elements, Len(elements) \in Nat,
         \A i, j \in 1..Len(elements) : elements[i].name = elements[j].name => i = j,
         NEW k \in 1..Len(elements), NEW all, all = addAlldata(ds, elements), all # Failed
  PROVE  \E s : /\ s # Failed /\ processNode(s, elements[k].node) # Failed
                /\ elements[k].name \in DOMAIN all
                /\ all[elements[k].name] = processNode(s, elements[k].node)
                /\ SelectsAsIn(s, ds, elements)
<1> DEFINE n == Len(elements)
           e == elements[k]
<1>1. PICK f : IsRun(f, ds, elements, n) /\ all = f[n]
  BY AllDataIsRun
<1> HIDE DEF n
<1>2. /\ n \in Nat /\ k \in 1..n /\ k - 1 \in 0..n /\ k \in 0..n /\ k # 0
      /\ \A i \in (k + 1)..n : i \in 1..n /\ i # k
      /\ \A i \in 1..(k - 1) : i \in 1..n
  BY DEF n
<1>3. \A i, j \in 1..n : elements[i].name = elements[j].name => i = j
  BY DEF n
<1>4. f[k] = addData(f[k - 1], e) /\ f[0] = ds
  BY <1>1, <1>2 DEF IsRun
<1> HIDE DEF e
<1>5. f[k] = Failed \/ e.name \in DOMAIN f[k]
  BY <1>4 DEF addData
<1>6. \A i \in (k + 1)..n : elements[i].name # e.name
  BY <1>2, <1>3 DEF e
<1>7. f[n] # Failed
  BY <1>1
<1>8. f[k] # Failed /\ e.name \in DOMAIN f[n] /\ f[n][e.name] = f[k][e.name]
  <2> DEFINE name == e.name
  <2>1. f[k] = Failed \/ name \in DOMAIN f[k]
    BY <1>5
  <2>2. Untouched(elements, name, k, n)
    BY <1>6 DEF Untouched
  <2>3. n \in Nat /\ k \in 0..n /\ IsRun(f, ds, elements, n) /\ f[n] # Failed
    BY <1>1, <1>2, <1>7
  <2> HIDE DEF name
  <2>4. f[k] # Failed /\ name \in DOMAIN f[n] /\ f[n][name] = f[k][name]
    BY <2>1, <2>2, <2>3, NamesStay
  <2> QED BY <2>4 DEF name
<1> DEFINE s == f[k - 1]
           d == processNode(s, e.node)
<1>9. /\ s # Failed /\ d # Failed
      /\ f[k] = [m \in DOMAIN s \cup {e.name} |-> IF m = e.name THEN d ELSE s[m]]
  BY <1>4, <1>8 DEF addData
<1>10. f[k][e.name] = d
  <2> HIDE DEF d
  <2> QED BY <1>9
<1>11. ASSUME NEW name, \A i \in 1..n : elements[i].name # name,
              ds = Failed \/ name \in DOMAIN ds
       PROVE  ds # Failed /\ name \in DOMAIN s /\ s[name] = ds[name]
  <2>1. IsRun([i \in 0..(k - 1) |-> f[i]], ds, elements, k - 1)
    <3> DEFINE g == [i \in 0..(k - 1) |-> f[i]]
    <3>1. ASSUME NEW i \in 0..(k - 1)
          PROVE  f[i] = IF i = 0 THEN ds ELSE addData(g[i - 1], elements[i])
      <4>1. i \in 0..n /\ (i # 0 => i - 1 \in 0..(k - 1))
        BY <1>2
      <4>2. f[i] = IF i = 0 THEN ds ELSE addData(f[i - 1], elements[i])
        BY <1>1, <4>1 DEF IsRun
      <4> QED BY <4>1, <4>2
    <3>2. g = [i \in 0..(k - 1) |-> f[i]]
      OBVIOUS
    <3> HIDE DEF g
    <3>3. g = [i \in 0..(k - 1) |-> IF i = 0 THEN ds ELSE addData(g[i - 1], elements[i])]
      BY <3>1, <3>2
    <3> QED BY <3>3 DEF IsRun, g
  <2> DEFINE g == [i \in 0..(k - 1) |-> f[i]]
  <2>2. g[0] = ds /\ g[k - 1] = s /\ k - 1 \in Nat /\ 0 \in 0..(k - 1)
    BY <1>2, <1>4
  <2> HIDE DEF g, s
  <2>3. Untouched(elements, name, 0, k - 1)
    BY <1>2, <1>11 DEF Untouched
  <2>4. IsRun(g, ds, elements, k - 1)
    BY <2>1 DEF g
  <2>5. g[k - 1] # Failed
    BY <1>9, <2>2
  <2>6. g[0] = Failed \/ name \in DOMAIN g[0]
    BY <1>11, <2>2
  <2> HIDE DEF d
  <2> DEFINE m == k - 1
  <2>7. m \in Nat /\ 0 \in 0..m /\ g[0] = ds /\ g[m] = s
    BY <2>2
  <2>8. IsRun(g, ds, elements, m) /\ g[m] # Failed
        /\ Untouched(elements, name, 0, m)
    BY <2>3, <2>4, <2>5
  <2> HIDE DEF m
  <2>9. g[0] # Failed /\ name \in DOMAIN g[m] /\ g[m][name] = g[0][name]
    BY <2>6, <2>7, <2>8, NamesStay
  <2> QED BY <2>7, <2>9
<1> HIDE DEF s
<1>12. SelectsAsIn(s, ds, elements)
  BY <1>11 DEF SelectsAsIn, n
<1> QED BY <1>1, <1>8, <1>9, <1>10, <1>12 DEF n, e

-----------------------------------------------------------------------------
(* The value of an expression                                              *)

LEMMA SameArguments ==
  ASSUME NEW ds, NEW f, NEW g, NEW n, \A m \in Arguments(n) : f[m] = g[m]
  PROVE  NodeOf(ds, f, n) = NodeOf(ds, g, n)
<1>1. CASE n.tag = "function"
  <2>1. f[n.arg] = g[n.arg]
    BY <1>1 DEF Arguments
  <2> QED BY <1>1, <2>1 DEF NodeOf
<1>2. CASE n.tag \in {"function2", "diff", "quot"}
  <2>1. f[n.arg1] = g[n.arg1] /\ f[n.arg2] = g[n.arg2]
    BY <1>2 DEF Arguments
  <2> QED BY <1>2, <2>1 DEF NodeOf
<1>3. CASE n.tag \notin {"function", "function2", "diff", "quot"}
  BY <1>3 DEF NodeOf
<1> QED BY <1>1, <1>2, <1>3

LEMMA ValuesExist ==
  ASSUME NEW ds
  PROVE  \E value : value = [n \in Nodes |-> NodeOf(ds, value, n)]
<1> DEFINE depths == {Depth[n] : n \in Nodes}
           E(k) == {n \in Nodes : Depth[n] <= k}
           T(N) == {k \in 0..N : \E g : g = [n \in E(k) |-> NodeOf(ds, g, n)]}
<1>1. /\ IsFiniteSet(Nodes)
      /\ \A n \in Nodes : /\ Depth[n] \in Nat
                          /\ \A m \in Arguments(n) : m \in Nodes /\ Depth[m] < Depth[n]
  BY NodesAssumption
<1>2. PICK N \in Nat : \A n \in Nodes : Depth[n] <= N
  <2>1. CASE Nodes = {}
    BY <2>1
  <2>2. CASE Nodes # {}
    <3> DEFINE h == [n \in Nodes |-> Depth[n]]
    <3>1. h \in Surjection(Nodes, depths)
      BY DEF Surjection
    <3>2. depths \in SUBSET Int /\ depths # {} /\ depths \subseteq Nat
      BY <1>1, <2>2
    <3> HIDE DEF h, depths
    <3>3. IsFiniteSet(depths)
      BY <1>1, <3>1, FS_Surjection
    <3>4. Max(depths) \in Nat /\ \A x \in depths : x <= Max(depths)
      BY <3>2, <3>3, GreatestAndLeast
    <3> QED BY <3>4 DEF depths
  <2> QED BY <2>1, <2>2
<1>e. \A k, n : n \in E(k) <=> n \in Nodes /\ Depth[n] <= k
  OBVIOUS
<1> HIDE DEF E
<1>3. 0 \in T(N)
  <2> DEFINE g == [n \in E(0) |-> NodeOf(ds, ds, n)]
  <2>1. ASSUME NEW n \in E(0) PROVE NodeOf(ds, ds, n) = NodeOf(ds, g, n)
    <3>1. Arguments(n) = {}
      BY <1>1, <1>e
    <3> HIDE DEF g
    <3> QED BY <3>1, SameArguments
  <2>2. g = [n \in E(0) |-> NodeOf(ds, ds, n)]
    OBVIOUS
  <2>3. 0 \in 0..N
    OBVIOUS
  <2> HIDE DEF g
  <2> QED BY <2>1, <2>2, <2>3
<1>4. ASSUME NEW k \in 0..(N - 1), k \in T(N) PROVE k + 1 \in T(N)
  <2>1. PICK g : g = [n \in E(k) |-> NodeOf(ds, g, n)]
    BY <1>4
  <2> DEFINE h == [n \in E(k + 1) |-> IF n \in E(k) THEN g[n] ELSE NodeOf(ds, g, n)]
  <2>2. k + 1 \in 0..N /\ k \in Nat
    OBVIOUS
  <2>3. \A n \in E(k) : n \in E(k + 1)
    BY <1>1, <1>e, <2>2
  <2>4. \A n \in E(k) : h[n] = g[n]
    BY <2>3
  <2>5. ASSUME NEW n \in E(k + 1)
        PROVE  /\ NodeOf(ds, h, n) = NodeOf(ds, g, n)
               /\ n \in E(k) => g[n] = NodeOf(ds, g, n)
    <3>1. \A m \in Arguments(n) : m \in E(k)
      BY <1>1, <1>e, <2>2
    <3>2. \A m \in Arguments(n) : h[m] = g[m]
      BY <2>4, <3>1
    <3> HIDE DEF h
    <3> QED BY <2>1, <3>2, SameArguments
  <2>6. \A n \in E(k + 1) :
          (IF n \in E(k) THEN g[n] ELSE NodeOf(ds, g, n)) = NodeOf(ds, h, n)
    <3> HIDE DEF h
    <3> QED BY <2>5
  <2>7. h = [n \in E(k + 1) |-> IF n \in E(k) THEN g[n] ELSE NodeOf(ds, g, n)]
    OBVIOUS
  <2> HIDE DEF h
  <2>8. h = [n \in E(k + 1) |-> NodeOf(ds, h, n)]
    BY <2>6, <2>7
  <2> QED BY <2>2, <2>8
<1> HIDE DEF T
<1>5. N \in T(N)
  <2> DEFINE U == T(N)
  <2>1. 0 \in U /\ \A k \in 0..(N - 1) : k \in U => k + 1 \in U
    BY <1>3, <1>4
  <2> HIDE DEF U
  <2>2. \A k \in 0..N : k \in U
    BY <2>1, SetInduction
  <2> QED BY <2>2 DEF U
<1>6. PICK g : g = [n \in E(N) |-> NodeOf(ds, g, n)]
  BY <1>5 DEF T
<1>7. E(N) = Nodes
  BY <1>2, <1>e
<1> QED BY <1>6, <1>7

\* processNode of a node is that of its arguments
LEMMA NodeIs ==
  ASSUME NEW ds
  PROVE  \E value : /\ \A n \in Nodes : value[n] = NodeOf(ds, value, n)
                    /\ \A n : processNode(ds, n) = value[n]
<1> DEFINE P(value) == value = [n \in Nodes |-> NodeOf(ds, value, n)]
           v == CHOOSE value : P(value)
<1>1. \A n : processNode(ds, n) = v[n]
  BY DEF processNode
<1>2. P(v)
  <2>1. \E value : P(value)
    BY ValuesExist
  <2> HIDE DEF P
  <2> QED BY <2>1
<1> HIDE DEF v
<1>3. \A n \in Nodes : v[n] = NodeOf(ds, v, n)
  BY <1>2
<1> QED BY <1>1, <1>3

-----------------------------------------------------------------------------
(* Accumulated rows                                                        *)

\* The times of a query that have columns are the keys of the columns that are kept.
LEMMA TimesOfQuery ==
  ASSUME NEW w, IsWindow(w), NEW data
  PROVE  LET d == Tdata(w.interval, w.starttime + queried(w), w.endtime + queried(w), data)
             Key(n) == getTimeFromIndex(w, n) + w.offset
         IN  /\ \A n \in 0..w.width : n \in Kept(w) <=> Key(n) \in Times(d)
             /\ \A t \in Times(d) : \A n \in 0..w.width :
                  getIndexFromTime(w, t - w.offset) = n => t = Key(n)
<1> DEFINE s == w.starttime + queried(w)
           e == w.endtime + queried(w)
           i == w.interval
           d == Tdata(i, s, e, data)
           T(n) == getTimeFromIndex(w, n)
           Key(n) == T(n) + w.offset
           from == s - (s % i)
           to == e - (e % i)
<1>1. /\ w.offset \in Int /\ i \in Nat \ {0} /\ queried(w) \in Int
      /\ w.starttime \in Int /\ w.endtime \in Int /\ s \in Int /\ e \in Int
  BY WindowGrid DEF queried
<1>2. d.start = from /\ d.finish = to /\ d.interval = i
  BY DEF Tdata
<1>3. Times(d) = {from + m * i : m \in 0..((to - from) \div i)}
  <2> HIDE DEF d, from, to, i
  <2> QED BY <1>2 DEF Times
<1> HIDE DEF d
<1>4. \A n \in 0..w.width :
        /\ Key(n) \in Int /\ Key(n) % i = 0
        /\ n \in Kept(w) <=> from <= Key(n) /\ Key(n) <= to
  BY KeptKeys
<1>5. \A n \in 0..w.width :
        /\ T(n) \in Int /\ T(n) = w.starttime + n * i /\ getIndexFromTime(w, T(n)) = n
  <2>1. \A n \in 0..w.width : T(n) = w.starttime + n * i
    BY DEF getTimeFromIndex
  <2> QED BY <2>1, ColumnAndTime
<1>p. PICK p \in Int : from = i * p
  <2>1. s \div i \in Int /\ s = i * (s \div i) + (s % i) /\ s % i \in Int
    <3> HIDE DEF s, i
    <3> QED BY <1>1, SMT
  <2> DEFINE p == s \div i
  <2>2. p \in Int /\ s = i * p + (s % i) /\ s % i \in Int
    BY <2>1
  <2> HIDE DEF p, s, i
  <2>3. from = i * p
    <3>1. i * p \in Int
      BY <1>1, <2>2
    <3> QED BY <1>1, <2>2, <3>1
  <2> QED BY <2>2, <2>3
<1>q. PICK q \in Int : to = i * q
  <2>1. e \div i \in Int /\ e = i * (e \div i) + (e % i) /\ e % i \in Int
    <3> HIDE DEF e, i
    <3> QED BY <1>1, SMT
  <2> DEFINE q == e \div i
  <2>2. q \in Int /\ e = i * q + (e % i) /\ e % i \in Int
    BY <2>1
  <2> HIDE DEF q, e, i
  <2>3. to = i * q
    <3>1. i * q \in Int
      BY <1>1, <2>2
    <3> QED BY <1>1, <2>2, <3>1
  <2> QED BY <2>2, <2>3
<1>g. PICK g \in Int : w.starttime + w.offset = i * g
  BY WindowGrid
<1> HIDE DEF from, to, s, e, i, T, Key
<1>6. i * p \in Int /\ i * q \in Int /\ i * (q - p) = i * q - i * p
  BY <1>1, <1>p, <1>q
<1>7. (to - from) \div i = q - p
  <2>1. to - from = i * (q - p) /\ q - p \in Int
    BY <1>p, <1>q, <1>6
  <2> QED BY <1>1, <2>1, Multiple
\* the times are the multiples between
<1>8. Times(d) = {i * m : m \in p..q}
  <2>1. ASSUME NEW m \in 0..(q - p)
        PROVE  from + m * i = i * (p + m) /\ p + m \in p..q
    <3>1. i * (p + m) = i * p + i * m /\ i * m = m * i /\ i * m \in Int
      BY <1>1
    <3> QED BY <1>p, <1>6, <3>1
  <2>2. ASSUME NEW m \in p..q
        PROVE  i * m = from + (m - p) * i /\ m - p \in 0..(q - p)
    <3>1. i * (m - p) = i * m - i * p /\ i * (m - p) = (m - p) * i /\ i * m \in Int
      BY <1>1
    <3> QED BY <1>p, <1>6, <3>1
  <2>3. Times(d) = {from + m * i : m \in 0..(q - p)}
    BY <1>3, <1>7
  <2>4. ASSUME NEW t \in Times(d) PROVE \E m \in p..q : t = i * m
    BY <2>1, <2>3
  <2>5. ASSUME NEW m \in p..q PROVE i * m \in Times(d)
    BY <2>2, <2>3
  <2> QED BY <2>4, <2>5
<1>9. ASSUME NEW n \in 0..w.width PROVE n \in Kept(w) <=> Key(n) \in Times(d)
  <2>1. /\ Key(n) \in Int /\ Key(n) % i = 0
        /\ n \in Kept(w) <=> from <= Key(n) /\ Key(n) <= to
    BY <1>4
  <2> DEFINE m == Key(n) \div i
  <2>2. m \in Int /\ Key(n) = i * m /\ i * m \in Int
    BY <1>1, <2>1, SMT
  <2> HIDE DEF m
  <2>3. i * p <= i * m <=> p <= m
    <3>1. ASSUME p <= m PROVE i * p <= i * m
      BY <1>1, <2>2, <3>1
    <3>2. ASSUME m <= p - 1 PROVE i * m < i * p
      <4>1. i * m <= i * (p - 1)
        BY <1>1, <2>2, <3>2
      <4>2. i * (p - 1) = i * p - i
        BY <1>1
      <4> QED BY <1>1, <1>6, <2>2, <4>1, <4>2
    <3> QED BY <1>6, <2>2, <3>1, <3>2
  <2>4. i * m <= i * q <=> m <= q
    <3>1. ASSUME m <= q PROVE i * m <= i * q
      BY <1>1, <2>2, <3>1
    <3>2. ASSUME q <= m - 1 PROVE i * q < i * m
      <4>1. i * q <= i * (m - 1)
        BY <1>1, <2>2, <3>2
      <4>2. i * (m - 1) = i * m - i
        BY <1>1, <2>2
      <4> QED BY <1>1, <1>6, <2>2, <4>1, <4>2
    <3> QED BY <1>6, <2>2, <3>1, <3>2
  <2>5. n \in Kept(w) <=> m \in p..q
    BY <1>p, <1>q, <2>1, <2>2, <2>3, <2>4
  <2>6. ASSUME Key(n) \in Times(d) PROVE m \in p..q
    <3>1. PICK l \in p..q : Key(n) = i * l
      BY <1>8, <2>6
    <3>2. (i * l) \div i = l /\ (i * m) \div i = m
      BY <1>1, <2>2, Multiple
    <3> QED BY <2>2, <3>1, <3>2
  <2> QED BY <1>8, <2>2, <2>5, <2>6
<1>10. ASSUME NEW t \in Times(d), NEW n \in 0..w.width,
              getIndexFromTime(w, t - w.offset) = n
       PROVE  t = Key(n)
  <2>1. PICK m \in p..q : t = i * m
    BY <1>8
  <2>2. i * m \in Int /\ i * g \in Int /\ i * (m - g) = i * m - i * g
    BY <1>1
  <2>3. (t - w.offset) + w.offset = i * m
    BY <1>1, <2>1, <2>2
  <2>4. (i * m) % i = 0
    BY <1>1, MultipleMod
  <2>5. reduceTime(w, t - w.offset) = t - w.offset
    BY <1>1, <2>1, <2>2, <2>3, <2>4 DEF reduceTime, i
  <2>6. (t - w.offset) - w.starttime = i * (m - g)
    BY <1>1, <1>g, <2>1, <2>2
  <2>7. (i * (m - g)) \div i = m - g
    BY <1>1, Multiple
  <2>8. n = m - g
    BY <1>10, <2>5, <2>6, <2>7 DEF getIndexFromTime, i
  <2>9. n * i = i * (m - g)
    BY <1>1, <2>8
  <2>10. Key(n) = (w.starttime + i * (m - g)) + w.offset
    BY <1>5, <2>9 DEF Key
  <2> QED BY <1>1, <1>g, <2>1, <2>2, <2>10
<1> QED BY <1>9, <1>10 DEF Key, T, d, s, e, i

(***************************************************************************)
(* Likewise, an accumulated select has, in each column whose time key is   *)
(* among the times of the query, the sum of the values of all rows in such *)
(* columns up to it (Dataset.cc, Tdata.cc).                                *)
(***************************************************************************)
THEOREM TotalOfRows ==
  ASSUME NEW w, IsWindow(w), NEW rows, StoredRows(rows, w),
         NEW selects, Selectable(selects), NEW j \in DOMAIN selects
  PROVE  LET d == Queried(rows, selects, w)[selects[j].name]
         IN  TotalShows(Histogram(w, accumulate(d).data), w,
                        Shown(rows, w, selects[j].field))
<1> DEFINE d == Queried(rows, selects, w)[selects[j].name]
           a == Shown(rows, w, selects[j].field)
           T(n) == getTimeFromIndex(w, n)
           Key(n) == T(n) + w.offset
           total == accumulate(d).data
           below(n) == {m \in DOMAIN a \cap Kept(w) : m <= n}
<1>1. /\ d = Tdata(w.interval, w.starttime + queried(w), w.endtime + queried(w), d.data)
      /\ DOMAIN a \subseteq 0..w.width
      /\ DOMAIN d.data = {Key(n) : n \in DOMAIN a}
      /\ \A n \in DOMAIN a : d.data[Key(n)] = a[n] /\ a[n] \in Int
  BY SeriesOfSelect
<1>2. w.width \in Nat /\ w.offset \in Int /\ w.interval \in Nat \ {0} /\ w.starttime \in Int
  BY WindowGrid
<1> HIDE DEF d, a
<1>3. /\ \A n \in 0..w.width : n \in Kept(w) <=> Key(n) \in Times(d)
      /\ \A t \in Times(d) : \A n \in 0..w.width :
           getIndexFromTime(w, t - w.offset) = n => t = Key(n)
  BY <1>1, TimesOfQuery
<1>4. \A n \in 0..w.width :
        /\ T(n) \in Int /\ T(n) = w.starttime + n * w.interval
        /\ getIndexFromTime(w, T(n)) = n
  <2>1. \A n \in 0..w.width : T(n) = w.starttime + n * w.interval
    BY DEF getTimeFromIndex
  <2> QED BY <2>1, ColumnAndTime
<1>5. /\ DOMAIN total = Times(d)
      /\ \A t \in Times(d) :
           total[t] = SumOver(d.data, {k \in DOMAIN d.data \cap Times(d) : k <= t})
  <2>1. "data" \in DOMAIN d
    BY <1>1 DEF Tdata
  <2>2. total = [t \in Times(d) |->
                   SumOver(d.data, {k \in DOMAIN d.data \cap Times(d) : k <= t})]
    BY <2>1 DEF accumulate
  <2> QED BY <2>2
<1> HIDE DEF T
<1>6. \A n \in 0..w.width : Key(n) \in Int /\ Key(n) - w.offset = T(n)
  BY <1>2, <1>4
<1>7. ASSUME NEW m \in 0..w.width, NEW n \in 0..w.width
      PROVE  Key(m) <= Key(n) <=> m <= n
  <2> DEFINE i == w.interval
  <2>1. m \in Int /\ n \in Int /\ m * i \in Int /\ n * i \in Int /\ i \in Nat \ {0}
    BY <1>2
  <2>2. Key(m) <= Key(n) <=> m * i <= n * i
    BY <1>2, <1>4, <2>1
  <2> HIDE DEF i, Key
  <2>3. ASSUME m <= n PROVE m * i <= n * i
    BY <2>1, <2>3
  <2>4. ASSUME n <= m - 1 PROVE n * i < m * i
    <3>1. n * i <= (m - 1) * i
      BY <2>1, <2>4
    <3>2. (m - 1) * i = m * i - i
      BY <2>1
    <3> QED BY <2>1, <3>1, <3>2
  <2> QED BY <2>1, <2>2, <2>3, <2>4
<1> HIDE DEF Key, total
\* the sum over the keys up to that of a column is the sum over the columns
<1>8. ASSUME NEW n \in Kept(w)
      PROVE  n \in 0..w.width /\ total[Key(n)] = SumOver(a, below(n))
  <2>1. n \in 0..w.width /\ Key(n) \in Times(d)
    BY <1>3 DEF Kept
  <2> DEFINE keys == {k \in DOMAIN d.data \cap Times(d) : k <= Key(n)}
             key == [m \in 0..w.width |-> Key(m)]
  <2>2. total[Key(n)] = SumOver(d.data, keys)
    BY <1>5, <2>1
  <2>3. below(n) \subseteq 0..w.width /\ below(n) \subseteq DOMAIN a
    BY <1>1
  <2>4. IsFiniteSet(below(n))
    <3>1. IsFiniteSet(0..w.width)
      BY <1>2, FS_Interval
    <3> QED BY <2>3, <3>1, FS_Subset
  <2>5. keys = {key[m] : m \in below(n)}
    <3>1. ASSUME NEW k \in keys PROVE \E m \in below(n) : k = key[m]
      <4>1. PICK m \in DOMAIN a : k = Key(m)
        BY <1>1
      <4>2. m \in 0..w.width /\ m \in Kept(w) /\ m <= n
        BY <1>1, <1>3, <1>7, <2>1, <4>1
      <4> QED BY <4>1, <4>2
    <3>2. ASSUME NEW m \in below(n) PROVE key[m] \in keys
      <4>1. m \in DOMAIN a /\ m \in 0..w.width /\ m \in Kept(w) /\ m <= n
        BY <2>3
      <4> QED BY <1>1, <1>3, <1>7, <2>1, <4>1
    <3> QED BY <3>1, <3>2
  <2>6. \A m \in below(n) : a[m] \in Int /\ d.data[key[m]] = a[m]
    BY <1>1, <2>3
  <2>7. \A l, m \in below(n) : key[l] = key[m] => l = m
    <3> TAKE l, m \in below(n)
    <3>1. l \in 0..w.width /\ m \in 0..w.width
      BY <2>3
    <3>2. Key(l) = Key(m) => l <= m /\ m <= l
      BY <1>6, <1>7, <3>1
    <3> QED BY <3>1, <3>2
  <2> DEFINE S == below(n)
             data == d.data
  <2> HIDE DEF key, keys, S, data
  <2>8. /\ IsFiniteSet(S) /\ \A m \in S : a[m] \in Int
        /\ \A m \in S : data[key[m]] = a[m]
        /\ \A l, m \in S : key[l] = key[m] => l = m
    BY <2>4, <2>6, <2>7 DEF S, data
  <2>9. SumOver(data, {key[m] : m \in S}) = SumOver(a, S)
    BY <2>8, SumOfImage
  <2> QED BY <2>1, <2>2, <2>5, <2>9 DEF S, data
<1>9. Histogram(w, total) =
        {<<getIndexFromTime(w, t - w.offset), total[t]>> : t \in Times(d)}
  BY <1>5 DEF Histogram
<1>10. ASSUME NEW n \in Kept(w)
       PROVE  <<n, SumOver(a, below(n))>> \in
                {p \in Histogram(w, total) : p[1] \in 0..w.width}
  <2>1. /\ n \in 0..w.width /\ Key(n) \in Times(d)
        /\ getIndexFromTime(w, Key(n) - w.offset) = n
    BY <1>3, <1>4, <1>6, <1>8
  <2>2. <<n, total[Key(n)]>> \in Histogram(w, total)
    BY <1>9, <2>1
  <2> QED BY <1>8, <2>1, <2>2
<1>11. ASSUME NEW p \in Histogram(w, total), p[1] \in 0..w.width
       PROVE  p \in {<<n, SumOver(a, below(n))>> : n \in Kept(w)}
  <2>1. PICK t \in Times(d) : p = <<getIndexFromTime(w, t - w.offset), total[t]>>
    BY <1>9
  <2> DEFINE n == p[1]
  <2>2. n \in 0..w.width /\ getIndexFromTime(w, t - w.offset) = n /\ p = <<n, total[t]>>
    BY <1>11, <2>1
  <2> HIDE DEF n
  <2>3. t = Key(n) /\ n \in Kept(w)
    BY <1>3, <2>2
  <2> QED BY <1>8, <2>2, <2>3
<1> HIDE DEF below
<1>12. {p \in Histogram(w, total) : p[1] \in 0..w.width} =
         {<<n, SumOver(a, below(n))>> : n \in Kept(w)}
  BY <1>10, <1>11
<1> QED BY <1>12 DEF TotalShows, below, total, a, d

-----------------------------------------------------------------------------
(* The images, for every configuration                                     *)

\* The window of a graph
LEMMA WindowIs ==
  ASSUME NEW g, Described(g), NEW interval \in Nat \ {0}, NEW end \in Int, NEW a
  PROVE  LET w == Window(g, interval, end, a) IN
           /\ IsWindow(w) /\ w.width = g.width /\ w.offset = g.offset
           /\ w.interval = interval
<1> DEFINE e == IF a THEN end + interval * (g.width \div 2) ELSE end
           w == Window(g, interval, end, a)
<1>1. g.width \in Nat /\ g.offset \in Int
  BY DEF Described
<1>2. e \in Int
  <2>1. g.width \div 2 \in Int
    BY <1>1
  <2>2. interval * (g.width \div 2) \in Int
    BY <2>1
  <2> QED BY <2>2
<1>3. w = EndingAt(g.width, g.offset, interval, e)
  BY DEF Window
<1> HIDE DEF e, w
<1>4. w.width = g.width /\ w.offset = g.offset /\ w.interval = interval
  BY <1>3 DEF EndingAt
<1> QED BY <1>1, <1>2, <1>3, <1>4 DEF IsWindow, w

LEMMA TableIsStored ==
  ASSUME NEW w, NEW rows, Keyed(rows), \A r \in rows : IsRow(r), OnGrid(rows, w)
  PROVE  StoredRows(rows, w)
<1> DEFINE Names == {r.field : r \in rows}
<1>1. ASSUME NEW r \in rows
      PROVE  r \in [intval : Nat, tk : Int, field : Names, value : Int]
  <2>1. r.field \in Names
    OBVIOUS
  <2> HIDE DEF Names
  <2> QED BY <2>1 DEF IsRow
<1> HIDE DEF Names
<1> QED BY <1>1 DEF StoredRows

\* An image that has just been made could be drawn.
DrawerNow(d) ==
  /\ drawer[d].pc # "idle" => drawer[d].started \in Begin..Horizon
  /\ drawer[d].pc = "open" =>
       /\ drawer[d].asof <= now
       /\ drawer[d].asof = now => Image(d) # Exception

TablesInv ==
  now \in Begin..Horizon /\ table \in Tables /\ \A d \in Drawers : DrawerNow(d)

\* A step of one process leaves the others as they are.
LEMMA OneDraws ==
  ASSUME DrawTypeOK, TablesInv, NEW d \in Drawers, NEW new, Moves(d, new), now' = now,
         table' = table, DrawerNow(d)'
  PROVE  TablesInv'
<1>1. \A e \in Drawers : e # d => drawer'[e] = drawer[e]
  BY DEF Moves, DrawTypeOK
<1>2. \A e \in Drawers : e # d => DrawerNow(e)'
  BY <1>1 DEF TablesInv, DrawerNow, Image, Job
<1> QED BY <1>2 DEF TablesInv

LEMMA MovedTo ==
  ASSUME DrawTypeOK, NEW d \in Drawers, NEW new, Moves(d, new)
  PROVE  drawer'[d] = new
  BY DEF Moves, DrawTypeOK

LEMMA TablesStep ==
  ASSUME DrawInv, TablesInv, [DrawNext]_drawVars
  PROVE  TablesInv'
<1>1. DrawTypeOK
  BY DEF DrawInv
<1>2. ASSUME NEW d \in Drawers
      PROVE  drawer[d] \in DrawerType /\ DrawerNow(d)
  BY <1>1 DEF DrawTypeOK, TablesInv
<1>3. now \in Begin..Horizon
  BY DEF TablesInv
<1>4. ASSUME NEW d \in Drawers, Start(d) PROVE TablesInv'
  <2>1. PICK r \in Requests :
          Moves(d, [Idle EXCEPT !.pc = "next", !.request = r, !.started = now,
                                !.todo = Jobs(r)])
    BY <1>4 DEF Start
  <2>2. drawer'[d].pc = "next" /\ drawer'[d].started = now
    BY <1>1, <2>1, MovedTo DEF Idle
  <2>3. DrawerNow(d)'
    BY <1>3, <2>2 DEF DrawerNow
  <2> QED BY <1>1, <1>4, <2>1, <2>3, OneDraws DEF Start
<1>5. ASSUME NEW d \in Drawers, NEW new, Moves(d, new), now' = now, table' = table,
             drawer[d].pc # "idle", new.started = drawer[d].started, new.pc # "open"
      PROVE  TablesInv'
  <2>1. drawer'[d] = new
    BY <1>1, <1>5, MovedTo
  <2>2. DrawerNow(d)'
    BY <1>2, <1>5, <2>1 DEF DrawerNow
  <2> QED BY <1>1, <1>5, <2>2, OneDraws
<1>6. ASSUME NEW d \in Drawers
      PROVE  /\ Continue(d).started = drawer[d].started /\ Continue(d).pc = "next"
             /\ Caught(d).started = drawer[d].started /\ Caught(d).pc = "next"
  BY <1>2 DEF Continue, Caught, DrawerType
<1>7. ASSUME NEW d \in Drawers, CheckAge(d) PROVE TablesInv'
  <2> DEFINE new == [drawer[d] EXCEPT !.pc = "query",
                       !.imgold = imageIsOld(Job(d).file, Job(d).interval)]
  <2>1. new.started = drawer[d].started /\ new.pc = "query"
    BY <1>2 DEF DrawerType
  <2>2. Moves(d, new) /\ drawer[d].pc = "next" /\ now' = now /\ table' = table
    BY <1>7 DEF CheckAge
  <2> HIDE DEF new
  <2> QED BY <1>5, <2>1, <2>2
<1>8. ASSUME NEW d \in Drawers, Done(d) PROVE TablesInv'
  <2> DEFINE new == [drawer[d] EXCEPT !.pc = "done"]
  <2>1. new.started = drawer[d].started /\ new.pc = "done"
    BY <1>2 DEF DrawerType
  <2>2. Moves(d, new) /\ drawer[d].pc = "next" /\ now' = now /\ table' = table
    BY <1>8 DEF Done
  <2> HIDE DEF new
  <2> QED BY <1>5, <2>1, <2>2
<1>9. ASSUME NEW d \in Drawers, Construct(d) PROVE TablesInv'
  <2>1. drawer[d].pc = "query" /\ now' = now /\ table' = table
    BY <1>9 DEF Construct
  <2>2. CASE Drawing(d)
    <3> DEFINE new == [drawer[d] EXCEPT !.pc = "open", !.asof = now]
    <3>1. Image(d) # Exception /\ Moves(d, new)
      BY <1>9, <2>2 DEF Construct
    <3>2. /\ new.started = drawer[d].started /\ new.asof = now
          /\ new.todo = drawer[d].todo
      BY <1>2 DEF DrawerType
    <3> HIDE DEF new
    <3>3. drawer'[d] = new
      BY <1>1, <3>1, MovedTo
    <3>4. Image(d)' = Image(d)
      BY <2>1, <3>2, <3>3 DEF Image, Job
    <3>5. DrawerNow(d)'
      BY <1>2, <1>3, <2>1, <3>1, <3>2, <3>3, <3>4 DEF DrawerNow
    <3> QED BY <1>1, <2>1, <3>1, <3>5, OneDraws
  <2>3. CASE ~Drawing(d)
    <3>1. Moves(d, Continue(d))
      BY <1>9, <2>3 DEF Construct
    <3> QED BY <1>5, <1>6, <2>1, <3>1
  <2> QED BY <2>2, <2>3
<1>10. ASSUME NEW d \in Drawers, Fails(d) \/ Trouble(d) PROVE TablesInv'
  <2>1. /\ Moves(d, Caught(d)) /\ now' = now /\ table' = table
        /\ drawer[d].pc # "idle"
    BY <1>10 DEF Fails, Trouble
  <2> QED BY <1>5, <1>6, <2>1
<1>11. ASSUME NEW d \in Drawers, OpenFile(d) PROVE TablesInv'
  <2> DEFINE new == [drawer[d] EXCEPT !.pc = "write"]
  <2>1. new.started = drawer[d].started /\ new.pc = "write"
    BY <1>2 DEF DrawerType
  <2>2. Moves(d, new) /\ drawer[d].pc = "open" /\ now' = now /\ table' = table
    BY <1>11 DEF OpenFile
  <2> HIDE DEF new
  <2> QED BY <1>5, <2>1, <2>2
<1>12. ASSUME NEW d \in Drawers, CloseFile(d) PROVE TablesInv'
  <2>1. /\ Moves(d, Continue(d)) /\ now' = now /\ table' = table
        /\ drawer[d].pc = "write"
    BY <1>12 DEF CloseFile
  <2> QED BY <1>5, <1>6, <2>1
<1>13. ASSUME NEW d \in Drawers, Kill(d) PROVE TablesInv'
  <2>1. Moves(d, Idle) /\ now' = now /\ table' = table
    BY <1>13 DEF Kill, Moves
  <2>2. drawer'[d].pc = "idle"
    BY <1>1, <2>1, MovedTo DEF Idle
  <2>3. DrawerNow(d)'
    BY <2>2 DEF DrawerNow
  <2> QED BY <1>1, <2>1, <2>3, OneDraws
<1>14. CASE Tick
  <2>1. now' = now + 1 /\ now < Horizon /\ drawer' = drawer
    BY <1>14 DEF Tick
  <2>2. now' \in Begin..Horizon /\ now \in Nat
    BY <1>3, <2>1, ImageFilesAssumption DEF ImageFilesAssumption
  <2>3. table' \in Tables
    <3>1. PICK arrived \in SUBSET {x \in Feed : x.due = now + 1} :
            table' = table \cup {x.row : x \in arrived}
      BY <1>14 DEF Tick
    <3>2. PICK h \in Histories, before \in SUBSET Feed :
            table = h \cup {x.row : x \in before}
      BY DEF TablesInv, Tables
    <3> DEFINE all == before \cup arrived
    <3>3. all \in SUBSET Feed /\ table' = h \cup {x.row : x \in all}
      BY <3>1, <3>2
    <3> HIDE DEF all
    <3> QED BY <3>3 DEF Tables
  <2>4. ASSUME NEW d \in Drawers PROVE DrawerNow(d)'
    <3>1. drawer[d].asof \in Nat
      BY <1>2 DEF DrawerType
    <3>2. drawer[d].pc = "open" => drawer[d].asof <= now' /\ drawer[d].asof # now'
      BY <1>2, <2>1, <2>2, <3>1 DEF DrawerNow
    <3> QED BY <1>2, <2>1, <3>2 DEF DrawerNow
  <2> QED BY <2>2, <2>3, <2>4 DEF TablesInv
<1>15. CASE UNCHANGED drawVars
  <2>1. now' = now /\ table' = table /\ drawer' = drawer
    BY <1>15 DEF drawVars
  <2> QED BY <2>1 DEF TablesInv, DrawerNow, Image, Job
<1> QED BY <1>4, <1>7, <1>8, <1>9, <1>10, <1>11, <1>12, <1>13, <1>14, <1>15 DEF DrawNext

LEMMA TablesInit == ASSUME DrawInit PROVE TablesInv
<1>1. now \in Begin..Horizon
  BY ImageFilesAssumption DEF ImageFilesAssumption, DrawInit
<1>2. table \in Tables
  <2>1. table \in Histories
    BY DEF DrawInit
  <2> DEFINE none == {x \in Feed : FALSE}
  <2>2. none \in SUBSET Feed /\ table = table \cup {x.row : x \in none}
    OBVIOUS
  <2> HIDE DEF none
  <2> QED BY <2>1, <2>2 DEF Tables
<1>3. \A d \in Drawers : drawer[d].pc = "idle"
  BY DEF DrawInit, Idle
<1> QED BY <1>1, <1>2, <1>3 DEF TablesInv, DrawerNow

\* An image of graph g, its window and the data set that it was drawn from
Made(g, image, w, ds, interval) ==
  /\ Described(g) /\ IsWindow(w) /\ w.offset = g.offset /\ StoredRows(table, w)
  /\ ds = addAlldata(Queried(table, g.selects, w), g.data) /\ ds # Failed
  /\ image.window = w /\ image.sun = drawSun(g, w, table)
  /\ DOMAIN image.channels = DOMAIN g.channels
  /\ \A i \in DOMAIN g.channels :
       /\ image.channels[i] = drawChannel(w, ds, g.channels[i])
       /\ image.channels[i] # Failed
  /\ image.left = DrawnAxis(g, "left", interval, ds) /\ image.left # Failed
  /\ image.right = DrawnAxis(g, "right", interval, ds) /\ image.right # Failed

LEMMA GraphicsMade ==
  ASSUME NEW g, Described(g), Keyed(table), \A r \in table : IsRow(r),
         NEW interval \in Nat \ {0}, NEW end \in Int, NEW a,
         OnGrid(table, [interval |-> interval, offset |-> g.offset]),
         Graphics(g, interval, end, a, table) # Failed
  PROVE  \E w, ds : Made(g, Graphics(g, interval, end, a, table), w, ds, interval)
<1> DEFINE image == Graphics(g, interval, end, a, table)
           w == Window(g, interval, end, a)
           ds == addAlldata(Queried(table, g.selects, w), g.data)
           left == DrawnAxis(g, "left", interval, ds)
           right == DrawnAxis(g, "right", interval, ds)
           channels == drawChannels(w, ds, g.channels)
<1>1. /\ ds # Failed /\ Failed \notin {left, right} \cup Range(channels)
      /\ image = [window |-> w, left |-> left, right |-> right, channels |-> channels,
                  sun |-> drawSun(g, w, table)]
  <2>1. image = IF ds = Failed THEN Failed
                ELSE IF Failed \in {left, right} \cup Range(channels) THEN Failed
                ELSE [window |-> w, left |-> left, right |-> right,
                      channels |-> channels, sun |-> drawSun(g, w, table)]
    BY DEF Graphics
  <2> HIDE DEF ds, left, right, channels, w
  <2> QED BY <2>1
<1>2. channels = [i \in DOMAIN g.channels |-> drawChannel(w, ds, g.channels[i])]
  BY DEF drawChannels
<1>3. IsWindow(w) /\ w.offset = g.offset /\ w.interval = interval
  BY WindowIs
<1>4. /\ ds = addAlldata(Queried(table, g.selects, w), g.data)
      /\ left = DrawnAxis(g, "left", interval, ds)
      /\ right = DrawnAxis(g, "right", interval, ds)
  OBVIOUS
<1> HIDE DEF w
<1>5. OnGrid(table, w)
  BY <1>3 DEF OnGrid, queried, reduceTime
<1>6. StoredRows(table, w)
  BY <1>5, TableIsStored
<1> HIDE DEF image, ds, left, right, channels
<1>7. /\ image.window = w /\ image.channels = channels /\ image.left = left
      /\ image.right = right /\ image.sun = drawSun(g, w, table)
  BY <1>1
<1>8. /\ DOMAIN channels = DOMAIN g.channels
      /\ \A i \in DOMAIN g.channels :
           channels[i] = drawChannel(w, ds, g.channels[i]) /\ channels[i] # Failed
  BY <1>1, <1>2 DEF Range
<1>9. left # Failed /\ right # Failed
  BY <1>1
<1>10. Made(g, image, w, ds, interval)
  BY <1>1, <1>3, <1>4, <1>6, <1>7, <1>8, <1>9 DEF Made
<1> QED BY <1>10 DEF image

LEMMA LatestMade ==
  ASSUME DrawInv, TablesInv, NEW x \in Latest
  PROVE  \E w, ds, interval : Made(x.graph, x.image, w, ds, interval)
<1> PICK d \in Drawers : /\ drawer[d].pc = "open" /\ drawer[d].asof = now
                         /\ x = [graph |-> Graph(Job(d).graph), image |-> Image(d)]
  BY DEF Latest
<1> DEFINE j == Job(d)
           end == IF j.end = AtStart THEN drawer[d].started ELSE j.end
           g == Graph(j.graph)
<1>1. drawer[d].todo \in Seq(JobSet) /\ drawer[d].todo # <<>>
  BY DEF DrawInv, DrawTypeOK, DrawerType, DrawerInv
<1>2. j \in JobSet
  BY <1>1, FirstAndRest DEF Job
<1> HIDE DEF j
<1>3. PICK r \in Requests : j \in Range(Jobs(r))
  BY <1>2 DEF JobSet
<1>4. /\ j.interval \in Nat \ {0} /\ j.graph \in Graphs
      /\ j.end \in Int \cup {AtStart}
  BY <1>3, JobsOf
<1>5. drawer[d].started \in Begin..Horizon
  BY DEF TablesInv, DrawerNow
<1>6. end \in Int
  BY <1>4, <1>5, ImageFilesAssumption DEF ImageFilesAssumption
<1>7. table \in Tables /\ Image(d) # Exception
  BY DEF TablesInv, DrawerNow
<1>8. Image(d) = Graphics(g, j.interval, end, j.aligncenter, table)
  <2>1. Image(d) = Drawn(j.graph, j.interval, end, j.aligncenter, table)
    BY DEF Image, j
  <2>2. Drawn(j.graph, j.interval, end, j.aligncenter, table) =
          DrawnGraphics(j.graph, j.interval, end, j.aligncenter, table)
    BY <1>3, <1>5, <1>7, ImagesAssumption
  <2> QED BY <2>1, <2>2 DEF DrawnGraphics
<1>9. /\ Exception = Failed /\ Described(g) /\ Keyed(table)
      /\ \A q \in table : IsRow(q)
      /\ OnGrid(table, [interval |-> j.interval, offset |-> g.offset])
  BY <1>3, <1>4, <1>7, ImagesAssumption
<1>10. x.graph = g /\ x.image = Image(d)
  BY DEF g, j
<1> HIDE DEF end, g
<1>11. \E w, ds : Made(g, Image(d), w, ds, j.interval)
  BY <1>4, <1>6, <1>7, <1>8, <1>9, GraphicsMade
<1> QED BY <1>10, <1>11

\* The points of computed daylight
LEMMA SunShows ==
  ASSUME NEW g, Described(g), NEW w, IsWindow(w), w.offset = g.offset, NEW rows,
         SunComputed(g, w)
  PROVE  drawSun(g, w, rows) = {i \in 0..w.width : Daylight(getTimeFromIndex(w, i))}
<1> DEFINE T(i) == getTimeFromIndex(w, i)
<1>1. g.sun # None /\ compute(g.sun) /\ w.interval # 86400
      /\ g.sun.offset = w.offset /\ w.offset \in Int
  BY WindowGrid DEF SunComputed, Described
<1>2. drawSun(g, w, rows) =
        {getIndexFromTime(w, k - w.offset) : k \in computed(w, g.sun)}
  BY <1>1 DEF drawSun
<1>3. computed(w, g.sun) =
        {k \in {t + w.offset : t \in {T(i) : i \in 0..w.width}} : Daylight(k - w.offset)}
  BY <1>1 DEF computed, Grid
<1>4. \A i \in 0..w.width : T(i) \in Int /\ getIndexFromTime(w, T(i)) = i
  BY ColumnAndTime
<1> HIDE DEF T
<1>5. \A i \in 0..w.width : (T(i) + w.offset) - w.offset = T(i)
  BY <1>1, <1>4
<1>6. ASSUME NEW i \in 0..w.width, Daylight(T(i))
      PROVE  i \in drawSun(g, w, rows)
  <2> DEFINE k == T(i) + w.offset
  <2>1. k - w.offset = T(i)
    BY <1>5
  <2> HIDE DEF k
  <2>2. k \in computed(w, g.sun)
    BY <1>3, <1>6, <2>1 DEF k
  <2>3. getIndexFromTime(w, k - w.offset) = i
    BY <1>4, <2>1
  <2> QED BY <1>2, <2>2, <2>3
<1>7. ASSUME NEW i \in drawSun(g, w, rows)
      PROVE  i \in 0..w.width /\ Daylight(T(i))
  <2>1. PICK k \in computed(w, g.sun) : i = getIndexFromTime(w, k - w.offset)
    BY <1>2, <1>7
  <2>2. PICK n \in 0..w.width : k = T(n) + w.offset
    BY <1>3, <2>1
  <2>3. Daylight(k - w.offset)
    BY <1>3, <2>1
  <2>4. k - w.offset = T(n)
    BY <1>5, <2>2
  <2> QED BY <1>4, <2>1, <2>3, <2>4
<1> QED BY <1>6, <1>7 DEF T

\* s, the data set of an image at some time, has the selects of the query.
HasSelects(g, w, rows, s) ==
  Described(g) /\ SelectsAsIn(s, Queried(rows, g.selects, w), g.data)

\* What name stands for in s is the result of a query for its field.
IsQueried(g, w, rows, s, name) ==
  /\ Selectable(g.selects)
  /\ \E j \in DOMAIN g.selects :
       /\ FieldOf(g, name) = g.selects[j].field
       /\ getData(s, name) = Queried(rows, g.selects, w)[g.selects[j].name]

LEMMA SelectIs ==
  ASSUME NEW g, NEW w, NEW rows, NEW s, HasSelects(g, w, rows, s),
         NEW name, IsSelect(g, name)
  PROVE  IsQueried(g, w, rows, s, name)
<1> DEFINE q == Queried(rows, g.selects, w)
           j == CHOOSE i \in DOMAIN g.selects : g.selects[i].name = name
<1>1. /\ j \in DOMAIN g.selects /\ g.selects[j].name = name
      /\ FieldOf(g, name) = g.selects[j].field
  BY DEF IsSelect, FieldOf
<1> HIDE DEF j
<1>2. \A k \in 1..Len(g.data) : g.data[k].name # name
  <2>1. Described(g)
    BY DEF HasSelects
  <2>2. DOMAIN g.data = 1..Len(g.data)
    BY <2>1 DEF Described
  <2> QED BY <1>1, <2>1, <2>2 DEF Described
<1>3. q = Failed \/ name \in DOMAIN q
  <2>1. CASE Selectable(g.selects)
    <3>1. DOMAIN q = {g.selects[i].name : i \in DOMAIN g.selects}
      BY <2>1 DEF Queried, perform
    <3> HIDE DEF q
    <3> QED BY <1>1, <3>1
  <2>2. CASE ~Selectable(g.selects)
    BY <2>2 DEF Queried, perform
  <2> QED BY <2>1, <2>2
<1>4. SelectsAsIn(s, q, g.data)
  BY DEF HasSelects
<1> HIDE DEF q
<1>5. q # Failed /\ name \in DOMAIN s /\ s[name] = q[name]
  BY <1>2, <1>3, <1>4 DEF SelectsAsIn
<1>6. Selectable(g.selects)
  BY <1>5 DEF Queried, perform, q
<1>7. getData(s, name) = q[g.selects[j].name]
  BY <1>1, <1>5 DEF getData
<1> QED BY <1>1, <1>6, <1>7 DEF q, IsQueried

\* The columns of one channel
LEMMA ChannelShows ==
  ASSUME NEW g, Described(g), NEW w, IsWindow(w), NEW rows, StoredRows(rows, w),
         NEW ds, ds = addAlldata(Queried(rows, g.selects, w), g.data), ds # Failed,
         NEW c, drawChannel(w, ds, c) # Failed
  PROVE  LET x == drawChannel(w, ds, c) IN
           IsSelect(g, x.name) =>
             ColumnsShow(x.type, x.columns, w, Shown(rows, w, FieldOf(g, x.name)))
<1> DEFINE x == drawChannel(w, ds, c)
<1>1. /\ x.type = c.type /\ x.name = c.name
      /\ c.type = "histogram" => x.columns = Histogram(w, getData(ds, c.name).data)
      /\ c.type = "nodata" => x.columns = Nodata(w, getData(ds, c.name).data)
  BY DEF drawChannel, Element
<1> HIDE DEF x
<1> SUFFICES ASSUME IsSelect(g, c.name)
             PROVE  ColumnsShow(c.type, x.columns, w, Shown(rows, w, FieldOf(g, c.name)))
  BY <1>1 DEF x
<1>2. Len(g.data) \in Nat
  BY DEF Described
<1>3. HasSelects(g, w, rows, ds)
  BY <1>2, SelectsStay DEF HasSelects
<1>4. IsQueried(g, w, rows, ds, c.name)
  <2> DEFINE name == c.name
  <2>1. IsSelect(g, name)
    OBVIOUS
  <2> HIDE DEF name
  <2>2. IsQueried(g, w, rows, ds, name)
    BY <1>3, <2>1, SelectIs
  <2> QED BY <2>2 DEF name
<1>5. PICK j \in DOMAIN g.selects :
        /\ FieldOf(g, c.name) = g.selects[j].field
        /\ getData(ds, c.name) = Queried(rows, g.selects, w)[g.selects[j].name]
  BY <1>4 DEF IsQueried
<1>6. LET data == Queried(rows, g.selects, w)[g.selects[j].name].data
          shown == Shown(rows, w, g.selects[j].field)
      IN  /\ ColumnsShow("histogram", Histogram(w, data), w, shown)
          /\ ColumnsShow("nodata", Nodata(w, data), w, shown)
  BY <1>4, ColumnsShowRows DEF IsQueried
<1> QED BY <1>1, <1>5, <1>6 DEF ColumnsShow

(***************************************************************************)
(* Every image shows the rows that are in the tables when it is made, for  *)
(* every configuration and whatever the tables hold: a histogram has the   *)
(* value of each row in the column of the row's time, the columns shaded   *)
(* for want of data are the others, and points of computed daylight are in *)
(* the columns of times when the sun is up, however many processes draw    *)
(* while rows arrive (Query.cc, Dataset.cc, GraphWindow.cc, Graphics.cc).  *)
(***************************************************************************)
THEOREM ImagesShowTheirRows == DrawSpec => []ColumnsShowTheirRows
<1>1. ASSUME DrawInv, TablesInv PROVE ColumnsShowTheirRows
  <2> SUFFICES ASSUME NEW x \in Latest
               PROVE  LET g == x.graph
                          w == x.image.window
                      IN  /\ \A n \in DOMAIN x.image.channels :
                               LET c == x.image.channels[n] IN
                                 IsSelect(g, c.name) =>
                                   ColumnsShow(c.type, c.columns, w,
                                               Shown(table, w, FieldOf(g, c.name)))
                          /\ SunComputed(g, w) => x.image.sun =
                               {i \in 0..w.width : Daylight(getTimeFromIndex(w, i))}
    BY DEF ColumnsShowTheirRows
  <2>1. PICK w, ds, interval : Made(x.graph, x.image, w, ds, interval)
    BY <1>1, LatestMade
  <2> DEFINE g == x.graph
             image == x.image
  <2> HIDE DEF g, image
  <2>2. Made(g, image, w, ds, interval)
    BY <2>1 DEF g, image
  <2>3. ASSUME NEW n \in DOMAIN image.channels
        PROVE  LET c == image.channels[n] IN
                 IsSelect(g, c.name) =>
                   ColumnsShow(c.type, c.columns, w, Shown(table, w, FieldOf(g, c.name)))
    <3> DEFINE c == g.channels[n]
    <3>1. /\ image.channels[n] = drawChannel(w, ds, c) /\ drawChannel(w, ds, c) # Failed
          /\ Described(g) /\ IsWindow(w) /\ StoredRows(table, w)
          /\ ds = addAlldata(Queried(table, g.selects, w), g.data) /\ ds # Failed
      BY <2>2 DEF Made
    <3> HIDE DEF c
    <3> QED BY <3>1, ChannelShows
  <2>4. /\ SunComputed(g, w) =>
             image.sun = {i \in 0..w.width : Daylight(getTimeFromIndex(w, i))}
        /\ image.window = w
    BY <2>2, SunShows DEF Made
  <2> QED BY <2>3, <2>4 DEF g, image
<1> QED BY <1>1, DrawInitInv, DrawInductive, TablesInit, TablesStep, PTL DEF DrawSpec

LEMMA ValueIs ==
  ASSUME NEW ds, NEW value, NEW n, n.tag = "value"
  PROVE  NodeOf(ds, value, n) = getData(ds, n.name)
BY DEF NodeOf, Unfinished

\* What is computed of a difference and of an accumulation
LEMMA DerivedIs ==
  ASSUME NEW s, NEW n \in Nodes, processNode(s, n) # Failed
  PROVE  /\ n.tag = "diff" /\ n.arg1.tag = "value" /\ n.arg2.tag = "value" =>
              processNode(s, n) = apply2("diff", getData(s, n.arg1.name),
                                         getData(s, n.arg2.name))
         /\ n.tag = "function" /\ n.name = "accumulate" /\ n.arg.tag = "value" =>
              processNode(s, n) = accumulate(getData(s, n.arg.name))
<1>1. PICK value : /\ \A m \in Nodes : value[m] = NodeOf(s, value, m)
                   /\ \A m : processNode(s, m) = value[m]
  BY NodeIs
<1>2. \A m \in Arguments(n) : m \in Nodes
  BY NodesAssumption
<1>3. value[n] = NodeOf(s, value, n) /\ value[n] # Failed /\ value[n] = processNode(s, n)
  BY <1>1
<1>4. ASSUME NEW m \in Nodes, m.tag = "value" PROVE value[m] = getData(s, m.name)
  <2>1. value[m] = NodeOf(s, value, m)
    BY <1>1
  <2> QED BY <1>4, <2>1, ValueIs
<1>5. ASSUME n.tag = "diff", n.arg1.tag = "value", n.arg2.tag = "value"
      PROVE  value[n] = apply2("diff", getData(s, n.arg1.name), getData(s, n.arg2.name))
  <2>1. n.arg1 \in Nodes /\ n.arg2 \in Nodes
    BY <1>2, <1>5 DEF Arguments
  <2>2. /\ value[n.arg1] = getData(s, n.arg1.name)
        /\ value[n.arg2] = getData(s, n.arg2.name)
    BY <1>4, <1>5, <2>1
  <2>3. value[n] = binary(n, value[n.arg1], value[n.arg2])
    BY <1>3, <1>5 DEF NodeOf
  <2> QED BY <1>5, <2>2, <2>3 DEF binary
<1>6. ASSUME n.tag = "function", n.name = "accumulate", n.arg.tag = "value"
      PROVE  value[n] = accumulate(getData(s, n.arg.name))
  <2>1. n.arg \in Nodes
    BY <1>2, <1>6 DEF Arguments
  <2>2. value[n.arg] = getData(s, n.arg.name)
    BY <1>4, <1>6, <2>1
  <2>3. value[n] = function(n, value[n.arg])
    BY <1>3, <1>6 DEF NodeOf
  <2> QED BY <1>6, <2>2, <2>3 DEF function
<1> QED BY <1>3, <1>5, <1>6

(***************************************************************************)
(* In every image, for every configuration and whatever the tables hold,   *)
(* the difference of two selects is drawn in the columns that have rows of *)
(* both, and an accumulated select has the sum of the rows up to a column, *)
(* in all columns with time keys among the times of the query (Dataset.cc, *)
(* Tdata.cc).                                                              *)
(***************************************************************************)
THEOREM DerivedRowsAreShown == DrawSpec => []DerivedFromRows
<1>1. ASSUME DrawInv, TablesInv PROVE DerivedFromRows
  <2> SUFFICES ASSUME NEW x \in Latest, NEW i \in DOMAIN x.image.channels,
                      NEW k \in DOMAIN x.graph.data,
                      x.image.channels[i].type = "histogram",
                      x.image.channels[i].name = x.graph.data[k].name
               PROVE  LET g == x.graph
                          w == x.image.window
                          c == x.image.channels[i]
                          n == g.data[k].node
                          ShownOf(m) == Shown(table, w, FieldOf(g, m.name))
                      IN  /\ IsDifference(g, n) =>
                               DifferenceShows(c.columns, w, ShownOf(n.arg1),
                                               ShownOf(n.arg2))
                          /\ IsTotal(g, n) => TotalShows(c.columns, w, ShownOf(n.arg))
    BY DEF DerivedFromRows
  <2> DEFINE g == x.graph
             c == x.image.channels[i]
             e == g.data[k]
             n == e.node
  <2>1. PICK w, ds, interval : Made(g, x.image, w, ds, interval)
    BY <1>1, LatestMade
  <2> DEFINE q == Queried(table, g.selects, w)
             ShownOf(m) == Shown(table, w, FieldOf(g, m.name))
  <2>2. /\ x.image.window = w /\ Described(g) /\ IsWindow(w) /\ StoredRows(table, w)
        /\ ds = addAlldata(q, g.data) /\ ds # Failed
        /\ c = drawChannel(w, ds, g.channels[i]) /\ c # Failed
    BY <2>1 DEF Made
  <2> HIDE DEF q
  <2>3. /\ Len(g.data) \in Nat /\ DOMAIN g.data = 1..Len(g.data)
        /\ k \in 1..Len(g.data)
        /\ \A l, m \in 1..Len(g.data) : g.data[l].name = g.data[m].name => l = m
        /\ \A l \in 1..Len(g.data), m \in DOMAIN g.selects :
             g.data[l].name # g.selects[m].name
        /\ n \in Nodes
    <3>1. Len(g.data) \in Nat /\ DOMAIN g.data = 1..Len(g.data)
      BY <2>2 DEF Described
    <3> QED BY <2>2, <3>1 DEF Described
  <2> DEFINE elements == g.data
  <2> HIDE DEF g, c, e
  <2>4. PICK s : /\ s # Failed /\ processNode(s, n) # Failed
                 /\ e.name \in DOMAIN ds /\ ds[e.name] = processNode(s, n)
                 /\ SelectsAsIn(s, q, elements)
    <3> HIDE DEF elements
    <3>1. /\ Len(elements) \in Nat /\ k \in 1..Len(elements)
          /\ \A l, m \in 1..Len(elements) : elements[l].name = elements[m].name => l = m
          /\ ds = addAlldata(q, elements) /\ ds # Failed
      BY <2>2, <2>3 DEF elements
    <3>2. \E s : /\ s # Failed /\ processNode(s, elements[k].node) # Failed
                 /\ elements[k].name \in DOMAIN ds
                 /\ ds[elements[k].name] = processNode(s, elements[k].node)
                 /\ SelectsAsIn(s, q, elements)
      BY <3>1, ElementIs
    <3>3. e = elements[k]
      BY DEF e, elements
    <3> QED BY <3>2, <3>3
  <2>5. c.columns = Histogram(w, processNode(s, n).data)
    <3>1. c.type = "histogram" /\ c.name = e.name
      BY DEF c, e, g
    <3>2. /\ g.channels[i].type = "histogram" /\ g.channels[i].name = e.name
          /\ c.columns = Histogram(w, getData(ds, e.name).data)
      BY <2>2, <3>1 DEF drawChannel, Element
    <3> QED BY <2>4, <3>2 DEF getData
  <2>7. ASSUME NEW m, OfSelect(g, m)
        PROVE  /\ m.tag = "value" /\ Selectable(g.selects)
               /\ \E j \in DOMAIN g.selects :
                    /\ FieldOf(g, m.name) = g.selects[j].field
                    /\ getData(s, m.name) = Queried(table, g.selects, w)[g.selects[j].name]
    <3> DEFINE name == m.name
    <3>1. m.tag = "value" /\ IsSelect(g, name)
      BY <2>7 DEF OfSelect
    <3>2. HasSelects(g, w, table, s)
      BY <2>2, <2>4 DEF q, elements, HasSelects
    <3> HIDE DEF name
    <3>3. IsQueried(g, w, table, s, name)
      BY <3>1, <3>2, SelectIs
    <3> QED BY <3>1, <3>3 DEF name, IsQueried
  <2> DEFINE y == processNode(s, n)
  <2>8. ASSUME IsDifference(g, n)
        PROVE  DifferenceShows(c.columns, w, ShownOf(n.arg1), ShownOf(n.arg2))
    <3>1. n.tag = "diff" /\ OfSelect(g, n.arg1) /\ OfSelect(g, n.arg2)
      BY <2>8 DEF IsDifference
    <3>2. PICK j \in DOMAIN g.selects :
            /\ FieldOf(g, n.arg1.name) = g.selects[j].field
            /\ getData(s, n.arg1.name) = Queried(table, g.selects, w)[g.selects[j].name]
      BY <2>7, <3>1
    <3>3. PICK l \in DOMAIN g.selects :
            /\ FieldOf(g, n.arg2.name) = g.selects[l].field
            /\ getData(s, n.arg2.name) = Queried(table, g.selects, w)[g.selects[l].name]
      BY <2>7, <3>1
    <3>4. Selectable(g.selects) /\ n.arg1.tag = "value" /\ n.arg2.tag = "value"
      BY <2>7, <3>1
    <3>5. y = apply2("diff", Queried(table, g.selects, w)[g.selects[j].name],
                             Queried(table, g.selects, w)[g.selects[l].name])
      BY <2>3, <2>4, <3>1, <3>2, <3>3, <3>4, DerivedIs
    <3>6. DifferenceShows(
            Histogram(w,
              apply2("diff", Queried(table, g.selects, w)[g.selects[j].name],
                             Queried(table, g.selects, w)[g.selects[l].name]).data),
            w, Shown(table, w, g.selects[j].field), Shown(table, w, g.selects[l].field))
      BY <2>2, <3>4, DifferenceOfRows
    <3> HIDE DEF y
    <3>7. c.columns = Histogram(w, y.data)
      BY <2>5 DEF y
    <3> QED BY <3>2, <3>3, <3>5, <3>6, <3>7
  <2>9. ASSUME IsTotal(g, n)
        PROVE  TotalShows(c.columns, w, ShownOf(n.arg))
    <3>1. n.tag = "function" /\ n.name = "accumulate" /\ OfSelect(g, n.arg)
      BY <2>9 DEF IsTotal
    <3>2. PICK j \in DOMAIN g.selects :
            /\ FieldOf(g, n.arg.name) = g.selects[j].field
            /\ getData(s, n.arg.name) = Queried(table, g.selects, w)[g.selects[j].name]
      BY <2>7, <3>1
    <3>3. Selectable(g.selects) /\ n.arg.tag = "value"
      BY <2>7, <3>1
    <3>4. y = accumulate(Queried(table, g.selects, w)[g.selects[j].name])
      BY <2>3, <2>4, <3>1, <3>2, <3>3, DerivedIs
    <3>5. TotalShows(Histogram(w, accumulate(Queried(table, g.selects, w)
                                               [g.selects[j].name]).data),
                     w, Shown(table, w, g.selects[j].field))
      BY <2>2, <3>3, TotalOfRows
    <3> HIDE DEF y
    <3>6. c.columns = Histogram(w, y.data)
      BY <2>5 DEF y
    <3> QED BY <3>2, <3>4, <3>5, <3>6
  <2> QED BY <2>2, <2>8, <2>9 DEF g, c, e
<1> QED BY <1>1, DrawInitInv, DrawInductive, TablesInit, TablesStep, PTL DEF DrawSpec

-----------------------------------------------------------------------------
(* Series of integers, and the axes of the images                          *)

\* Formulas of integers are integers, or have no value.
FormulasAreNumbers ==
  \A f : \A a \in Int, b \in Int \cup {None} : Formula(f, a, b) \in Int \cup {Failed}

\* Finitely many integers at time keys
IsData(f) == IsFiniteSet(DOMAIN f) /\ \A k \in DOMAIN f : f[k] \in Int

IsSeries(d) ==
  /\ d = [constant |-> d.constant, value |-> d.value, interval |-> d.interval,
          start |-> d.start, finish |-> d.finish, data |-> d.data]
  /\ ~d.constant /\ d.interval \in Nat \ {0} /\ d.start \in Int /\ d.finish \in Int
  /\ IsData(d.data)

IsConstant(d) == \E v \in Int : d = Constant(v)

LEMMA DefinedIsData ==
  ASSUME NEW f, IsFiniteSet(DOMAIN f), \A k \in DOMAIN f : f[k] \in Int \cup {Failed}
  PROVE  IsData(Defined(f))
<1> DEFINE g == Defined(f)
           K == {j \in DOMAIN f : f[j] # Failed}
<1>1. g = [k \in K |-> f[k]]
  BY DEF Defined
<1>2. K \subseteq DOMAIN f
  OBVIOUS
<1>3. IsFiniteSet(K)
  BY <1>2, FS_Subset
<1>4. DOMAIN g = K /\ \A k \in K : g[k] \in Int
  BY <1>1
<1> QED BY <1>3, <1>4 DEF IsData

LEMMA TwoExtremes ==
  ASSUME NEW u \in Int, NEW v \in Int
  PROVE  Max({u, v}) \in {u, v} /\ Min({u, v}) \in {u, v}
<1>1. \E m \in {u, v} : \A x \in {u, v} : m >= x
  OBVIOUS
<1>2. \E m \in {u, v} : \A x \in {u, v} : m <= x
  OBVIOUS
<1> QED BY <1>1, <1>2 DEF Max, Min

LEMMA BinaryIsNumber ==
  ASSUME FormulasAreNumbers, NEW u \in Int, NEW v \in Int,
         NEW name \in {"diff", "quot", "max", "min", "atan2", "azi", "hypot", "dewpoint",
                       "heatindex", "windchill"}
  PROVE  Binary(name, u, v) \in Int \cup {Failed}
<1>1. CASE name = "diff"
  BY <1>1 DEF Binary
<1>2. CASE name = "quot"
  <2>1. v > 0 => u \div v \in Int
    BY Rounding
  <2>2. v < 0 => (-u) \div (-v) \in Int
    BY Rounding
  <2>3. Quotient(u, v) \in Int \cup {Failed}
    BY <2>1, <2>2 DEF Quotient
  <2> QED BY <1>2, <2>3 DEF Binary
<1>3. CASE name = "max"
  BY <1>3, TwoExtremes DEF Binary
<1>4. CASE name = "min"
  BY <1>4, TwoExtremes DEF Binary
<1>5. CASE name \in {"atan2", "azi", "hypot", "dewpoint", "heatindex", "windchill"}
  <2>1. Binary(name, u, v) = Formula(name, u, v)
    BY <1>5 DEF Binary
  <2> QED BY <2>1 DEF FormulasAreNumbers
<1> QED BY <1>1, <1>2, <1>3, <1>4, <1>5

LEMMA Apply2IsSeries ==
  ASSUME FormulasAreNumbers, NEW a, IsSeries(a) \/ IsConstant(a),
         NEW b, IsSeries(b) \/ IsConstant(b), IsSeries(a) \/ IsSeries(b),
         NEW name \in {"diff", "quot", "max", "min", "atan2", "azi", "hypot", "dewpoint",
                       "heatindex", "windchill"}
  PROVE  IsSeries(apply2(name, a, b))
<1> DEFINE F(u, v) == Binary(name, u, v)
<1>0. \A u, v \in Int : F(u, v) \in Int \cup {Failed}
  BY BinaryIsNumber
<1> HIDE DEF F
<1>1. /\ IsSeries(a) => ~a.constant
      /\ IsSeries(b) => ~b.constant
      /\ IsConstant(a) => a.constant /\ a.value \in Int
      /\ IsConstant(b) => b.constant /\ b.value \in Int
  BY DEF IsSeries, IsConstant, Constant
<1>2. CASE IsConstant(a) /\ IsSeries(b)
  <2> DEFINE f == [k \in DOMAIN b.data |-> F(a.value, b.data[k])]
  <2>1. apply2(name, a, b) = [b EXCEPT !.data = Defined(f)]
    BY <1>1, <1>2 DEF apply2, F
  <2>2. DOMAIN f = DOMAIN b.data /\ \A k \in DOMAIN f : f[k] \in Int \cup {Failed}
    BY <1>0, <1>1, <1>2 DEF IsSeries, IsData
  <2>3. IsFiniteSet(DOMAIN f)
    BY <1>2, <2>2 DEF IsSeries, IsData
  <2> HIDE DEF f
  <2>4. IsData(Defined(f))
    BY <2>2, <2>3, DefinedIsData
  <2> QED BY <1>2, <2>1, <2>4 DEF IsSeries
<1>3. CASE IsSeries(a) /\ IsConstant(b)
  <2> DEFINE f == [k \in DOMAIN a.data |-> F(b.value, a.data[k])]
  <2>1. apply2(name, a, b) = [a EXCEPT !.data = Defined(f)]
    BY <1>1, <1>3 DEF apply2, F
  <2>2. DOMAIN f = DOMAIN a.data /\ \A k \in DOMAIN f : f[k] \in Int \cup {Failed}
    BY <1>0, <1>1, <1>3 DEF IsSeries, IsData
  <2>3. IsFiniteSet(DOMAIN f)
    BY <1>3, <2>2 DEF IsSeries, IsData
  <2> HIDE DEF f
  <2>4. IsData(Defined(f))
    BY <2>2, <2>3, DefinedIsData
  <2> QED BY <1>3, <2>1, <2>4 DEF IsSeries
<1>4. CASE IsSeries(a) /\ IsSeries(b)
  <2> DEFINE from == Min({a.start, b.start})
             to == Max({a.finish, b.finish})
             keys == {k \in DOMAIN a.data \cap DOMAIN b.data : from <= k /\ k <= to}
             f == [k \in keys |-> F(a.data[k], b.data[k])]
  <2>1. apply2(name, a, b) = [a EXCEPT !.start = from, !.finish = to, !.data = Defined(f)]
    BY <1>1, <1>4 DEF apply2, F
  <2>2. keys \subseteq DOMAIN a.data /\ keys \subseteq DOMAIN b.data
    OBVIOUS
  <2> HIDE DEF from, to, keys
  <2>3. DOMAIN f = keys /\ \A k \in DOMAIN f : f[k] \in Int \cup {Failed}
    BY <1>0, <1>4, <2>2 DEF IsSeries, IsData
  <2>4. IsFiniteSet(DOMAIN f)
    BY <1>4, <2>2, <2>3, FS_Subset DEF IsSeries, IsData
  <2>5. from \in Int /\ to \in Int
    BY <1>4, TwoExtremes DEF IsSeries, from, to
  <2> HIDE DEF f
  <2>6. IsData(Defined(f))
    BY <2>3, <2>4, DefinedIsData
  <2> QED BY <1>4, <2>1, <2>5, <2>6 DEF IsSeries
<1> QED BY <1>2, <1>3, <1>4

LEMMA ApplyIsSeries ==
  ASSUME FormulasAreNumbers, NEW x, NEW d, IsSeries(d),
         x.name \in {"floor", "ceil"} => x.limit \in Int,
         x.name \in {"sqr", "sqrt", "sin", "cos", "tan", "floor", "ceil"}
  PROVE  IsSeries(apply(x, d))
<1> DEFINE F(v) == Unary(x.name, x.limit, v)
           f == [k \in DOMAIN d.data |-> F(d.data[k])]
<1>1. ASSUME NEW v \in Int PROVE F(v) \in Int \cup {Failed}
  <2>1. CASE x.name = "sqr"
    BY <2>1 DEF Unary
  <2>2. CASE x.name = "floor"
    <3>1. F(v) = Max({v, x.limit})
      BY <2>2 DEF Unary
    <3> QED BY <2>2, <3>1, TwoExtremes
  <2>3. CASE x.name = "ceil"
    <3>1. F(v) = Min({v, x.limit})
      BY <2>3 DEF Unary
    <3> QED BY <2>3, <3>1, TwoExtremes
  <2>4. CASE x.name \in {"sqrt", "sin", "cos", "tan"}
    <3>1. F(v) = Formula(x.name, v, None)
      BY <2>4 DEF Unary
    <3> QED BY <3>1 DEF FormulasAreNumbers
  <2> QED BY <2>1, <2>2, <2>3, <2>4
<1>2. apply(x, d) = [d EXCEPT !.constant = FALSE, !.data = Defined(f)]
  BY DEF apply
<1> HIDE DEF F
<1>3. DOMAIN f = DOMAIN d.data /\ \A k \in DOMAIN f : f[k] \in Int \cup {Failed}
  BY <1>1 DEF IsSeries, IsData
<1>4. IsFiniteSet(DOMAIN f)
  BY <1>3 DEF IsSeries, IsData
<1> HIDE DEF f
<1>5. IsData(Defined(f))
  BY <1>3, <1>4, DefinedIsData
<1> QED BY <1>2, <1>5 DEF IsSeries

LEMMA AccumulateIsSeries ==
  ASSUME NEW d, IsSeries(d)
  PROVE  IsSeries(accumulate(d))
<1> DEFINE n == (d.finish - d.start) \div d.interval
           point == [i \in 0..n |-> d.start + i * d.interval]
           K(t) == {k \in DOMAIN d.data \cap Times(d) : k <= t}
           f == [t \in Times(d) |-> SumOver(d.data, K(t))]
<1>1. accumulate(d) = [d EXCEPT !.data = f]
  BY DEF accumulate
<1>2. IsFiniteSet(Times(d))
  <2>1. n \in Int
    <3>1. d.finish - d.start \in Int /\ d.interval \in Nat \ {0}
      BY DEF IsSeries
    <3> QED BY <3>1, Rounding
  <2>2. Times(d) = {d.start + i * d.interval : i \in 0..n}
    BY DEF Times
  <2> HIDE DEF n
  <2>3. point \in Surjection(0..n, Times(d))
    BY <2>2 DEF Surjection
  <2>4. IsFiniteSet(0..n)
    BY <2>1, FS_Interval
  <2> HIDE DEF point
  <2> QED BY <2>3, <2>4, FS_Surjection
<1>3. ASSUME NEW t \in Times(d) PROVE SumOver(d.data, K(t)) \in Int
  <2> DEFINE S == K(t)
  <2>1. S \subseteq DOMAIN d.data
    OBVIOUS
  <2> HIDE DEF S
  <2>2. IsFiniteSet(S) /\ \A k \in S : d.data[k] \in Int
    BY <2>1, FS_Subset DEF IsSeries, IsData
  <2>3. SumOver(d.data, S) \in Int
    BY <2>2, SumAdds
  <2> QED BY <2>3 DEF S
<1> HIDE DEF K
<1>4. IsData(f)
  BY <1>2, <1>3 DEF IsData
<1> HIDE DEF f
<1> QED BY <1>1, <1>4 DEF IsSeries

\* A series is in a data set by each name.
AllSeries(s) == \A name \in DOMAIN s : IsSeries(s[name])

LEMMA NodeIsSeries ==
  ASSUME FormulasAreNumbers, NEW s, AllSeries(s), NEW value, NEW n \in Nodes,
         value[n] = NodeOf(s, value, n),
         \A m \in Arguments(n) : \/ value[m] = Failed
                                 \/ IF m.tag = "constant" THEN IsConstant(value[m])
                                    ELSE IsSeries(value[m])
  PROVE  \/ value[n] = Failed
         \/ IF n.tag = "constant" THEN IsConstant(value[n]) ELSE IsSeries(value[n])
<1> SUFFICES ASSUME value[n] # Failed
             PROVE  IF n.tag = "constant" THEN IsConstant(value[n])
                    ELSE IsSeries(value[n])
  OBVIOUS
<1>1. CASE n.tag = "value"
  <2>1. value[n] = getData(s, n.name)
    BY <1>1, ValueIs
  <2>2. IsSeries(value[n])
    BY <2>1 DEF getData, AllSeries
  <2> QED BY <1>1, <2>2
<1>2. CASE n.tag = "constant"
  <2>1. value[n] = Constant(n.value)
    BY <1>2 DEF NodeOf
  <2>2. n.value \in Int
    BY <1>2, NodesAssumption
  <2> QED BY <1>2, <2>1, <2>2 DEF IsConstant
<1>3. CASE n.tag = "function"
  <2>1. value[n.arg] # Failed /\ value[n] = function(n, value[n.arg])
    BY <1>3 DEF NodeOf
  <2>2. n.arg \in Arguments(n)
    BY <1>3 DEF Arguments
  <2>3. n.arg.tag # "constant" /\ n.limit \in Int \cup {None}
    BY <1>3, NodesAssumption
  <2> DEFINE d == value[n.arg]
  <2>4. IsSeries(d)
    BY <2>1, <2>2, <2>3
  <2> HIDE DEF d
  <2>5. CASE n.name = "accumulate"
    <3>1. value[n] = accumulate(d)
      BY <2>1, <2>5 DEF function, d
    <3> QED BY <1>3, <2>4, <3>1, AccumulateIsSeries
  <2>6. CASE n.name \in {"sqr", "sqrt", "sin", "cos", "tan"}
    <3>1. value[n] = apply(n, d)
      BY <2>1, <2>6 DEF function, d
    <3>2. IsSeries(apply(n, d))
      BY <2>4, <2>6, ApplyIsSeries
    <3> QED BY <1>3, <3>1, <3>2
  <2>7. CASE n.name \in {"floor", "ceil"}
    <3>1. value[n] = apply(n, d) /\ n.limit # None
      BY <2>1, <2>7 DEF function, d
    <3>2. IsSeries(apply(n, d))
      BY <2>3, <2>4, <2>7, <3>1, ApplyIsSeries
    <3> QED BY <1>3, <3>1, <3>2
  <2>8. CASE n.name \notin {"accumulate", "sqr", "sqrt", "sin", "cos", "tan", "floor",
                            "ceil"}
    BY <2>1, <2>8 DEF function
  <2> QED BY <2>5, <2>6, <2>7, <2>8
<1>4. CASE n.tag \in {"function2", "diff", "quot"}
  <2> DEFINE a == value[n.arg1]
             b == value[n.arg2]
  <2>1. a # Failed /\ b # Failed /\ value[n] = binary(n, a, b)
    BY <1>4 DEF NodeOf
  <2>2. n.arg1 \in Arguments(n) /\ n.arg2 \in Arguments(n)
    BY <1>4 DEF Arguments
  <2>3. n.arg1.tag # "constant" \/ n.arg2.tag # "constant"
    BY <1>4, NodesAssumption
  <2>4. /\ IsSeries(a) \/ IsConstant(a)
        /\ IsSeries(b) \/ IsConstant(b)
        /\ IsSeries(a) \/ IsSeries(b)
    BY <2>1, <2>2, <2>3
  <2> HIDE DEF a, b
  <2>5. CASE n.tag \in {"diff", "quot"}
    <3>1. value[n] = apply2(n.tag, a, b)
      BY <2>1, <2>5 DEF binary
    <3>2. IsSeries(apply2(n.tag, a, b))
      BY <2>4, <2>5, Apply2IsSeries
    <3> QED BY <1>4, <3>1, <3>2
  <2>6. CASE n.tag = "function2"
    <3>1. /\ n.name \in {"atan2", "azi", "hypot", "dewpoint", "heatindex", "windchill",
                         "max", "min"}
          /\ value[n] = apply2(n.name, a, b)
      BY <2>1, <2>6 DEF binary
    <3>2. IsSeries(apply2(n.name, a, b))
      BY <2>4, <3>1, Apply2IsSeries
    <3> QED BY <1>4, <3>1, <3>2
  <2> QED BY <1>4, <2>5, <2>6
<1>5. CASE n.tag \notin {"value", "constant", "function", "function2", "diff", "quot"}
  BY <1>5 DEF NodeOf
<1> QED BY <1>1, <1>2, <1>3, <1>4, <1>5

\* The value of every node of an expression, from its leaves up
LEMMA ProcessedIsSeries ==
  ASSUME FormulasAreNumbers, NEW s, AllSeries(s), NEW x \in Nodes, x.tag # "constant",
         processNode(s, x) # Failed
  PROVE  IsSeries(processNode(s, x))
<1>1. PICK value : /\ \A n \in Nodes : value[n] = NodeOf(s, value, n)
                   /\ \A n : processNode(s, n) = value[n]
  BY NodeIs
<1> DEFINE Good(n) == \/ value[n] = Failed
                      \/ IF n.tag = "constant" THEN IsConstant(value[n])
                         ELSE IsSeries(value[n])
           T == {Depth[n] : n \in {m \in Nodes : ~Good(m)}}
<1>2. ASSUME NEW n \in Nodes, \A m \in Arguments(n) : Good(m) PROVE Good(n)
  BY <1>1, <1>2, NodeIsSeries
<1>3. \A n \in Nodes : /\ Depth[n] \in Nat
                       /\ \A m \in Arguments(n) : m \in Nodes /\ Depth[m] < Depth[n]
  BY NodesAssumption
<1> HIDE DEF Good
<1>4. T = {}
  <2> SUFFICES ASSUME T # {} PROVE FALSE
    OBVIOUS
  <2>1. T \in SUBSET Nat
    BY <1>3
  <2>2. \A k : k \in T <=> \E n \in Nodes : ~Good(n) /\ k = Depth[n]
    OBVIOUS
  <2> HIDE DEF T
  <2>3. PICK k \in T : \A l \in T : ~(l < k)
    BY <2>1, LeastNumber
  <2>4. PICK n \in Nodes : ~Good(n) /\ k = Depth[n]
    BY <2>2
  <2>5. \A m \in Arguments(n) : Good(m)
    BY <1>3, <2>2, <2>3, <2>4
  <2> QED BY <1>2, <2>4, <2>5
<1>5. Good(x)
  BY <1>4
<1> QED BY <1>1, <1>5 DEF Good

\* What is in the data set of a graph are series.
LEMMA DataSetIsSeries ==
  ASSUME FormulasAreNumbers, NEW ds, ds = Failed \/ AllSeries(ds), NEW elements,
         Len(elements) \in Nat,
         \A i \in 1..Len(elements) :
           elements[i].node \in Nodes /\ elements[i].node.tag # "constant",
         NEW all, all = addAlldata(ds, elements), all # Failed
  PROVE  AllSeries(all)
<1> DEFINE n == Len(elements)
<1>1. PICK f : IsRun(f, ds, elements, n) /\ all = f[n]
  BY AllDataIsRun
<1>2. /\ n \in Nat
      /\ \A i \in 1..n : elements[i].node \in Nodes /\ elements[i].node.tag # "constant"
  OBVIOUS
<1> HIDE DEF n
<1> DEFINE T == {k \in 0..n : f[k] = Failed \/ AllSeries(f[k])}
<1>3. \A k \in 0..n : f[k] = IF k = 0 THEN ds ELSE addData(f[k - 1], elements[k])
  BY <1>1 DEF IsRun
<1>4. 0 \in T
  BY <1>2, <1>3
<1>5. ASSUME NEW k \in 0..(n - 1), k \in T PROVE k + 1 \in T
  <2>1. k + 1 \in 0..n /\ k + 1 \in 1..n /\ (k + 1) - 1 = k
    BY <1>2
  <2> DEFINE s == f[k]
             e == elements[k + 1]
             d == processNode(s, e.node)
  <2>2. f[k + 1] = addData(s, e)
    BY <1>3, <2>1
  <2>3. e.node \in Nodes /\ e.node.tag # "constant"
    BY <1>2, <2>1
  <2>4. s = Failed \/ AllSeries(s)
    BY <1>5
  <2> HIDE DEF s, e
  <2>5. s # Failed /\ d # Failed => IsSeries(d)
    BY <2>3, <2>4, ProcessedIsSeries
  <2> HIDE DEF d
  <2>6. f[k + 1] = IF s = Failed \/ d = Failed THEN Failed
                   ELSE [m \in DOMAIN s \cup {e.name} |-> IF m = e.name THEN d ELSE s[m]]
    BY <2>2 DEF addData, d
  <2>7. f[k + 1] = Failed \/ AllSeries(f[k + 1])
    BY <2>4, <2>5, <2>6 DEF AllSeries
  <2> QED BY <2>1, <2>7
<1> HIDE DEF T
<1>6. \A k \in 0..n : k \in T
  BY <1>2, <1>4, <1>5, SetInduction
<1>7. n \in 0..n
  BY <1>2
<1> QED BY <1>1, <1>6, <1>7 DEF T

\* The series of a query
LEMMA QueriedAreSeries ==
  ASSUME NEW w, IsWindow(w), NEW rows, StoredRows(rows, w), NEW selects
  PROVE  Queried(rows, selects, w) = Failed \/ AllSeries(Queried(rows, selects, w))
<1> DEFINE q == Queried(rows, selects, w)
<1>1. CASE ~Selectable(selects)
  BY <1>1 DEF Queried, perform
<1>2. CASE Selectable(selects)
  <2>1. DOMAIN q = {selects[j].name : j \in DOMAIN selects}
    BY <1>2 DEF Queried, perform
  <2>2. ASSUME NEW j \in DOMAIN selects PROVE IsSeries(q[selects[j].name])
    <3> DEFINE d == q[selects[j].name]
               shown == Shown(rows, w, selects[j].field)
               key == [n \in DOMAIN shown |-> getTimeFromIndex(w, n) + w.offset]
    <3>1. /\ d = Tdata(w.interval, w.starttime + queried(w), w.endtime + queried(w), d.data)
          /\ DOMAIN shown \subseteq 0..w.width
          /\ DOMAIN d.data = {key[n] : n \in DOMAIN shown}
          /\ \A n \in DOMAIN shown : d.data[key[n]] = shown[n] /\ shown[n] \in Int
      BY <1>2, SeriesOfSelect
    <3> HIDE DEF d, shown
    <3>2. /\ w.interval \in Nat \ {0} /\ w.width \in Nat
          /\ w.starttime + queried(w) \in Int /\ w.endtime + queried(w) \in Int
      BY WindowGrid DEF queried
    <3>3. key \in Surjection(DOMAIN shown, DOMAIN d.data)
      BY <3>1 DEF Surjection
    <3>4. IsFiniteSet(DOMAIN shown)
      <4>1. IsFiniteSet(0..w.width)
        BY <3>2, FS_Interval
      <4> QED BY <3>1, <4>1, FS_Subset
    <3> HIDE DEF key
    <3>5. IsFiniteSet(DOMAIN d.data)
      BY <3>3, <3>4, FS_Surjection
    <3>6. IsData(d.data)
      BY <3>1, <3>5 DEF IsData
    <3> DEFINE s == w.starttime + queried(w)
               e == w.endtime + queried(w)
               i == w.interval
    <3>7. d = Tdata(i, s, e, d.data) /\ i \in Nat \ {0} /\ s \in Int /\ e \in Int
      BY <3>1, <3>2
    <3> HIDE DEF s, e, i
    <3>8. s - (s % i) \in Int /\ e - (e % i) \in Int
      BY <3>7
    <3>9. IsSeries(d)
      BY <3>6, <3>7, <3>8 DEF IsSeries, Tdata
    <3> QED BY <3>9 DEF d
  <2> HIDE DEF q
  <2> QED BY <2>1, <2>2 DEF AllSeries, q
<1> QED BY <1>1, <1>2

LEMMA ExtremesOfSeries ==
  ASSUME NEW d, IsSeries(d)
  PROVE  Highest(d) \in Int /\ Lowest(d) \in Int
<1> DEFINE val == [k \in DOMAIN d.data |-> d.data[k]]
           V == Values(d)
<1>1. V = {d.data[k] : k \in DOMAIN d.data}
  BY DEF Values
<1>2. V \in SUBSET Int /\ IsFiniteSet(DOMAIN d.data)
  BY <1>1 DEF IsSeries, IsData
<1>3. val \in Surjection(DOMAIN d.data, V)
  BY <1>1 DEF Surjection
<1> HIDE DEF V, val
<1>4. IsFiniteSet(V)
  BY <1>2, <1>3, FS_Surjection
<1>5. V # {} => Max(V) \in Int /\ Min(V) \in Int
  BY <1>2, <1>4, GreatestAndLeast
<1>6. /\ Highest(d) = IF V = {} THEN -10000000 ELSE Max(V)
      /\ Lowest(d) = IF V = {} THEN 10000000 ELSE Min(V)
  BY DEF Highest, Lowest, V
<1> QED BY <1>5, <1>6

LEMMA ExtremeIs ==
  ASSUME NEW ds, AllSeries(ds), NEW name, NEW attribute \in Int \cup {None}, NEW highest
  PROVE  Extreme(name, attribute, highest, ds) \in Int \cup {Failed}
<1>1. CASE name = None
  BY <1>1 DEF Extreme
<1>2. CASE name # None /\ getData(ds, name) = Failed
  BY <1>2 DEF Extreme
<1>3. CASE name # None /\ getData(ds, name) # Failed
  <2>1. IsSeries(getData(ds, name))
    BY <1>3 DEF getData, AllSeries
  <2>2. Highest(getData(ds, name)) \in Int /\ Lowest(getData(ds, name)) \in Int
    BY <2>1, ExtremesOfSeries
  <2> QED BY <1>3, <2>2 DEF Extreme
<1> QED BY <1>1, <1>2, <1>3

\* A scale is made of integers, and its range is not negative.
LEMMA ScaleIs ==
  ASSUME NEW ds, AllSeries(ds), NEW x, IsAxis(x), Scale(x, ds) # Failed
  PROVE  Scale(x, ds).b \in Int /\ Scale(x, ds).range \in Nat
<1> DEFINE min2 == Or(x.min, 0)
           max2 == Or(x.max, 1)
           max == Extreme(x.maxname, x.max, TRUE, ds)
           min == Extreme(x.minname, x.min, FALSE, ds)
<1>1. min2 \in Int /\ max2 \in Int /\ max2 - min2 \in Nat /\ x.step \in Nat
  BY DEF IsAxis, Or
<1>2. max \in Int \cup {Failed} /\ min \in Int \cup {Failed}
  BY ExtremeIs DEF IsAxis
<1> HIDE DEF min2, max2, max, min
<1>3. CASE x.type = "static"
  <2>1. Scale(x, ds) = [b |-> min2, range |-> max2 - min2]
    BY <1>3 DEF Scale, min2, max2
  <2> QED BY <1>1, <2>1
<1>4. CASE x.type # "static"
  <2>1. /\ Scale(x, ds) =
             IF Failed \in {min, max} THEN Failed
             ELSE CASE x.type = "dynamic" -> [b |-> min, range |-> Max({max - min, x.step})]
                    [] x.type = "toprange" -> [b |-> toprange(min2, max2, min, max),
                                               range |-> max2 - min2]
                    [] x.type = "bottomrange" -> [b |-> bottomrange(min2, max2, min, max),
                                                  range |-> max2 - min2]
    BY <1>4 DEF Scale, min2, max2, min, max
  <2>2. min \in Int /\ max \in Int
    BY <1>2, <2>1
  <2>3. CASE x.type = "dynamic"
    <3> DEFINE r == max - min
               u == x.step
    <3>1. r \in Int /\ u \in Nat
      BY <1>1, <2>2
    <3> HIDE DEF r, u
    <3>2. \E m \in {r, u} : \A y \in {r, u} : m >= y
      BY <3>1
    <3>3. Max({r, u}) \in {r, u} /\ Max({r, u}) >= u
      BY <3>2 DEF Max
    <3>4. Max({r, u}) \in Nat
      BY <3>1, <3>3
    <3>5. Scale(x, ds) = [b |-> min, range |-> Max({r, u})]
      BY <2>1, <2>2, <2>3, SeriesAssumption DEF r, u
    <3> QED BY <2>2, <3>4, <3>5
  <2>4. CASE x.type = "toprange"
    <3>1. Scale(x, ds) = [b |-> toprange(min2, max2, min, max), range |-> max2 - min2]
      BY <2>1, <2>2, <2>4, SeriesAssumption
    <3>2. toprange(min2, max2, min, max) \in Int
      BY <1>1, <2>2 DEF toprange
    <3> QED BY <1>1, <3>1, <3>2
  <2>5. CASE x.type = "bottomrange"
    <3>1. Scale(x, ds) = [b |-> bottomrange(min2, max2, min, max), range |-> max2 - min2]
      BY <2>1, <2>2, <2>5, SeriesAssumption
    <3>2. bottomrange(min2, max2, min, max) \in Int
      BY <1>1, <2>2 DEF bottomrange
    <3> QED BY <1>1, <3>1, <3>2
  <2> QED BY <1>4, <2>3, <2>4, <2>5 DEF IsAxis
<1> QED BY <1>3, <1>4

LEMMA DrawnAxisFits ==
  ASSUME NEW g, Described(g), NEW side \in {"left", "right"}, NEW interval, NEW ds,
         AllSeries(ds), DrawnAxis(g, side, interval, ds) # Failed
  PROVE  LET drawn == DrawnAxis(g, side, interval, ds) IN
           TicksFit(drawn.described, drawn.scale, drawn.axis)
<1> DEFINE of == {i \in DOMAIN g.axes : g.axes[i].side = side}
           own == {i \in of : g.axes[i].interval = interval}
           S == IF own # {} THEN own ELSE of
           x == axispath(g, side, interval)
           sc == Scale(x, ds)
           drawn == DrawnAxis(g, side, interval, ds)
<1>1. S \in SUBSET DOMAIN g.axes /\ S # {}
  BY DEF Described
<1>2. DOMAIN g.axes \in SUBSET Int /\ IsFiniteSet(DOMAIN g.axes)
  <2>1. Len(g.axes) \in Nat /\ DOMAIN g.axes = 1..Len(g.axes)
    BY DEF Described
  <2>2. IsFiniteSet(1..Len(g.axes))
    BY <2>1, FS_Interval
  <2> QED BY <2>1, <2>2
<1>3. x = g.axes[Min(S)]
  BY DEF axispath
<1> HIDE DEF S, x
<1>4. IsFiniteSet(S) /\ S \in SUBSET Int
  BY <1>1, <1>2, FS_Subset
<1>5. Min(S) \in S
  BY <1>1, <1>4, GreatestAndLeast
<1>6. IsAxis(x)
  BY <1>1, <1>3, <1>5 DEF Described
<1>7. sc # Failed /\ drawn = [described |-> x, scale |-> sc, axis |-> Axis(x, sc)]
  BY DEF DrawnAxis, x
<1> HIDE DEF sc
<1>8. sc.b \in Int /\ sc.range \in Nat
  BY <1>6, <1>7, ScaleIs DEF sc
<1>9. TicksFit(x, sc, Axis(x, sc))
  BY <1>6, <1>8, TicksFitEveryScale DEF IsAxis
<1> HIDE DEF drawn
<1>10. TicksFit(drawn.described, drawn.scale, drawn.axis)
  BY <1>7, <1>9
<1> QED BY <1>10 DEF drawn

(***************************************************************************)
(* In every image, for every configuration and whatever the tables hold,   *)
(* the ticks of both axes are those multiples of the step that are in the  *)
(* scale, and of a dynamic axis at most one more than maxtickcount, if     *)
(* the formulas of physics give numbers (Scale.cc, Axis.cc, Dataset.cc).   *)
(***************************************************************************)
THEOREM TicksAlwaysFit ==
  ASSUME FormulasAreNumbers
  PROVE  DrawSpec => []TicksFitScale
<1>1. ASSUME DrawInv, TablesInv PROVE TicksFitScale
  <2> SUFFICES ASSUME NEW x \in Latest, NEW drawn \in {x.image.left, x.image.right}
               PROVE  TicksFit(drawn.described, drawn.scale, drawn.axis)
    BY DEF TicksFitScale
  <2> DEFINE g == x.graph
  <2>1. PICK w, ds, interval : Made(g, x.image, w, ds, interval)
    BY <1>1, LatestMade
  <2>2. /\ Described(g) /\ IsWindow(w) /\ StoredRows(table, w)
        /\ ds = addAlldata(Queried(table, g.selects, w), g.data) /\ ds # Failed
        /\ x.image.left = DrawnAxis(g, "left", interval, ds) /\ x.image.left # Failed
        /\ x.image.right = DrawnAxis(g, "right", interval, ds) /\ x.image.right # Failed
    BY <2>1 DEF Made
  <2> HIDE DEF g
  <2>3. AllSeries(ds)
    <3> DEFINE q == Queried(table, g.selects, w)
               elements == g.data
    <3>1. q = Failed \/ AllSeries(q)
      BY <2>2, QueriedAreSeries
    <3>2. /\ Len(elements) \in Nat
          /\ \A i \in 1..Len(elements) :
               elements[i].node \in Nodes /\ elements[i].node.tag # "constant"
      <4>1. Len(elements) \in Nat /\ DOMAIN elements = 1..Len(elements)
        BY <2>2 DEF Described
      <4> QED BY <2>2, <4>1 DEF Described
    <3>3. ds = addAlldata(q, elements) /\ ds # Failed
      BY <2>2
    <3> HIDE DEF q, elements
    <3> QED BY <3>1, <3>2, <3>3, DataSetIsSeries
  <2>4. \E side \in {"left", "right"} :
          drawn = DrawnAxis(g, side, interval, ds) /\ drawn # Failed
    BY <2>2
  <2> QED BY <2>2, <2>3, <2>4, DrawnAxisFits
<1> QED BY <1>1, DrawInitInv, DrawInductive, TablesInit, TablesStep, PTL DEF DrawSpec
=============================================================================
