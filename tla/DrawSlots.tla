----------------------------- MODULE DrawSlots -----------------------------
(***************************************************************************)
(* What the locking of meteodraw -x promises (man/meteo.xml.5, attributes  *)
(* "queued" and "running" of <graphs>): at most MaxProcesses processes are *)
(* admitted at any time, at most MaxRunning of them draw in parallel, and  *)
(* a process gives back all it holds in one step, whether it finishes or   *)
(* dies.  Nothing is said about how the slots are kept.                    *)
(***************************************************************************)
EXTENDS Naturals, FiniteSets

CONSTANTS Procs,         \* the meteodraw processes that may exist
          MaxProcesses,  \* admitted at any one time
          MaxRunning     \* drawing in parallel

VARIABLES waiting,       \* admitted, not drawing yet
          running        \* drawing

slotVars == <<waiting, running>>

Init == waiting = {} /\ running = {}

Admit(p) ==
  /\ p \notin waiting \cup running
  /\ Cardinality(waiting \cup running) < MaxProcesses
  /\ waiting' = waiting \cup {p}
  /\ UNCHANGED running

Start(p) ==
  /\ p \in waiting
  /\ Cardinality(running) < MaxRunning
  /\ waiting' = waiting \ {p}
  /\ running' = running \cup {p}

Release(p) ==
  /\ p \in waiting \cup running
  /\ waiting' = waiting \ {p}
  /\ running' = running \ {p}

Next == \E p \in Procs : Admit(p) \/ Start(p) \/ Release(p)

Spec == Init /\ [][Next]_slotVars
=============================================================================
