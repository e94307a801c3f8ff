------------------------------- MODULE Sdata --------------------------------
(***************************************************************************)
(* What the data path promises to those who read the table sdata           *)
(* (man/meteopoll.1, option -b; man/meteodequeue.1): rows become stored in *)
(* the order in which they were sent, a reading is in one row only, and as *)
(* long as the clock runs forward and the server stays no row is lost but  *)
(* by a fault, one by each.  Nothing is said of children, batches and      *)
(* connections, nor which data sink there is.                              *)
(***************************************************************************)
EXTENDS Naturals, Sequences

VARIABLES sent,      \* rows that were given to the data sink
          coming,    \* those that are on their way, the oldest first
          stored,    \* the table
          faults,    \* processes that died and messages that were refused
          forward,   \* the clock was never set back
          steady     \* the server never went away

dataVars == <<sent, coming, stored, faults, forward, steady>>

SameKey(r, s) == r.tk = s.tk /\ r.field = s.field

Init ==
  /\ sent = {} /\ coming = <<>> /\ stored = {} /\ faults = 0
  /\ forward = TRUE /\ steady = TRUE

\* A row shares no reading with another, and comes after those before it.
Follows(r) ==
  /\ \A s \in sent : r # s /\ r.field = s.field => r.packets \cap s.packets = {}
  /\ forward => \A s \in sent : s.tk <= r.tk /\ ~SameKey(r, s)

Insert(r) ==
  /\ \A s \in stored : ~SameKey(r, s)
  /\ stored' = stored \cup {r}

Fault == faults' = faults + 1

\* A row is queued, inserted at once behind all others, or lost by a fault.
Send(r) ==
  /\ Follows(r)
  /\ sent' = sent \cup {r}
  /\ \/ coming' = Append(coming, r) /\ UNCHANGED <<stored, faults>>
     \/ coming = <<>> /\ Insert(r) /\ UNCHANGED <<coming, faults>>
     \/ Fault /\ UNCHANGED <<coming, stored>>
  /\ UNCHANGED <<forward, steady>>

Store ==
  /\ coming # <<>>
  /\ Insert(Head(coming))
  /\ coming' = Tail(coming)
  /\ UNCHANGED <<sent, faults, forward, steady>>

Lose ==
  /\ coming # <<>>
  /\ coming' = Tail(coming)
  /\ Fault \/ (~(forward /\ steady) /\ UNCHANGED faults)
  /\ UNCHANGED <<sent, stored, forward, steady>>

\* A process dies without a row.
DieIdle == Fault /\ UNCHANGED <<sent, coming, stored, forward, steady>>

Disturb ==
  /\ \/ forward' = FALSE /\ UNCHANGED steady
     \/ steady' = FALSE /\ UNCHANGED forward
  /\ UNCHANGED <<sent, coming, stored, faults>>

Next == (\E r \in sent' : Send(r)) \/ Store \/ Lose \/ DieIdle \/ Disturb

Spec == Init /\ [][Next]_dataVars
=============================================================================
