-------------------------- MODULE MeteopollProofs --------------------------
(***************************************************************************)
(* What the parent of meteopoll guarantees for every set of process ids    *)
(* and every sequence of signals and failures.                             *)
(***************************************************************************)
EXTENDS Meteopoll, TLAPS

\* Where the one child can be, by what the parent is doing, which gives a
\* reason only when it ends.
ChildPlace ==
  /\ reason # "none" => pc = "exited"
  /\ pc \in {"top", "sleep"} => \A c \in Pids : child[c] = "none"
  /\ pc = "forked" => ret \in Pids /\ \A c \in Pids \ {ret} : child[c] = "none"
  /\ pc = "wait" => \A c \in Pids \ {clpid} : child[c] = "none"

\* Every way for a child to exit with status 0, and every SIGTERM the parent
\* gets from its own group, starts with a SIGHUP that came too early.
ZeroExitIsEarly ==
  /\ giveup => early
  /\ \A c \in Pids : child[c] = "success" => early \/ pc = "exited"
  /\ \A c \in pend : child[c] \in Booting => early \/ pc = "exited"
  /\ "TERM" \in ppend => asked \/ early

IInv ==
  /\ TypeOK
  /\ ChildPlace
  /\ OneChild
  /\ TermReachesKnownChild
  /\ ZeroExitIsEarly
  /\ OnlyTermEndsUnlessEarly

Booleans ==
  /\ giveup \in BOOLEAN
  /\ asked \in BOOLEAN /\ early \in BOOLEAN /\ slipped \in BOOLEAN

Others ==
  /\ pc \in {"top", "forked", "wait", "sleep", "exited"}
  /\ clpid \in Pids \cup {Zero} /\ ret \in Pids \cup {Zero}
  /\ pc \in {"wait", "sleep"} => clpid \in Pids
  /\ ppend \subseteq {"TERM", "HUP"}
  /\ child \in [Pids -> Alive \cup Zombie \cup {"none"}]
  /\ copy \in [Pids -> Pids \cup {Zero}]
  /\ pend \subseteq Living
  /\ reason \in {"none", "term", "fork", "giveup"}

\* The types of everything but the flags.
LEMMA OthersKept ==
  ASSUME Others, ChildPlace, [Next]_vars
  PROVE  Others'
<1>1. CASE Fork
  BY <1>1
  DEF Fork, Others, ChildPlace, parentVars, childVars, ghosts, Living,
      Reached, Alive, Zombie, Booting, Working
<1>2. CASE ForkFails
  BY <1>2
  DEF ForkFails, Others, ChildPlace, parentVars, childVars, ghosts, Living,
      Reached, Alive, Zombie, Booting, Working
<1>3. CASE Assign
  BY <1>3
  DEF Assign, Others, ChildPlace, parentVars, childVars, ghosts, Living,
      Reached, Alive, Zombie, Booting, Working
<1>4. CASE Reap
  BY <1>4
  DEF Reap, Others, ChildPlace, parentVars, childVars, ghosts, Living,
      Reached, Alive, Zombie, Booting, Working
<1>5. CASE WakeUp
  BY <1>5
  DEF WakeUp, Others, ChildPlace, parentVars, childVars, ghosts, Living,
      Reached, Alive, Zombie, Booting, Working
<1>6. ASSUME NEW sig \in {"TERM", "HUP"}, Send(sig) PROVE Others'
  BY <1>6
  DEF Send, Others, ChildPlace, parentVars, childVars, ghosts, Living,
      Reached, Alive, Zombie, Booting, Working
<1>7. CASE HandleTerm
  BY <1>7
  DEF HandleTerm, Others, ChildPlace, parentVars, childVars, ghosts, Living,
      Reached, Alive, Zombie, Booting, Working
<1>8. CASE HandleHup
  BY <1>8
  DEF HandleHup, Others, ChildPlace, parentVars, childVars, ghosts, Living,
      Reached, Alive, Zombie, Booting, Working
<1>9. ASSUME NEW c \in Pids, ChildAssign(c) PROVE Others'
  BY <1>9
  DEF ChildAssign, Others, ChildPlace, parentVars, childVars, ghosts, Living,
      Reached, Alive, Zombie, Booting, Working
<1>10. ASSUME NEW c \in Pids, ResetSignals(c) PROVE Others'
  BY <1>10
  DEF ResetSignals, Others, ChildPlace, parentVars, childVars, ghosts,
      Living, Reached, Alive, Zombie, Booting, Working
<1>11. ASSUME NEW c \in Pids, ReadPacket(c) PROVE Others'
  BY <1>11
  DEF ReadPacket, Others, ChildPlace, parentVars, childVars, ghosts, Living,
      Reached, Alive, Zombie, Booting, Working
<1>12. ASSUME NEW c \in Pids, StationSilent(c) PROVE Others'
  BY <1>12
  DEF StationSilent, Others, ChildPlace, parentVars, childVars, ghosts,
      Living, Reached, Alive, Zombie, Booting, Working
<1>13. ASSUME NEW c \in Pids, Alarm(c) PROVE Others'
  BY <1>13
  DEF Alarm, Others, ChildPlace, parentVars, childVars, ghosts, Living,
      Reached, Alive, Zombie, Booting, Working
<1>14. ASSUME NEW c \in Pids, Fail(c) PROVE Others'
  BY <1>14
  DEF Fail, Others, ChildPlace, parentVars, childVars, ghosts, Living,
      Reached, Alive, Zombie, Booting, Working
<1>15. ASSUME NEW c \in Pids, HandledTerm(c) PROVE Others'
  BY <1>15
  DEF HandledTerm, Others, ChildPlace, parentVars, childVars, ghosts, Living,
      Reached, Alive, Zombie, Booting, Working
<1>16. ASSUME NEW c \in Pids, DefaultTerm(c) PROVE Others'
  BY <1>16
  DEF DefaultTerm, Others, ChildPlace, parentVars, childVars, ghosts, Living,
      Reached, Alive, Zombie, Booting, Working
<1>17. CASE UNCHANGED vars
  BY <1>17
  DEF vars, Others, ChildPlace, parentVars, childVars, ghosts, Living,
      Reached, Alive, Zombie, Booting, Working
<1> QED
  BY <1>1, <1>2, <1>3, <1>4, <1>5, <1>6, <1>7, <1>8, <1>9, <1>10, <1>11,
     <1>12, <1>13, <1>14, <1>15, <1>16, <1>17
  DEF Next, Parent, Boot, Term

\* A child is forked only after its predecessor has been waited for.
LEMMA PlaceKept ==
  ASSUME Others, ChildPlace, OneChild, [Next]_vars
  PROVE  (ChildPlace /\ OneChild)'
<1>1. CASE Fork
  BY <1>1
  DEF Fork, Others, ChildPlace, OneChild, parentVars, childVars, ghosts,
      Living, Reached, Alive, Zombie, Booting, Working
<1>2. CASE ForkFails
  BY <1>2
  DEF ForkFails, Others, ChildPlace, OneChild, parentVars, childVars, ghosts,
      Living, Reached, Alive, Zombie, Booting, Working
<1>3. CASE Assign
  BY <1>3
  DEF Assign, Others, ChildPlace, OneChild, parentVars, childVars, ghosts,
      Living, Reached, Alive, Zombie, Booting, Working
<1>4. CASE Reap
  BY <1>4
  DEF Reap, Others, ChildPlace, OneChild, parentVars, childVars, ghosts,
      Living, Reached, Alive, Zombie, Booting, Working
<1>5. CASE WakeUp
  BY <1>5
  DEF WakeUp, Others, ChildPlace, OneChild, parentVars, childVars, ghosts,
      Living, Reached, Alive, Zombie, Booting, Working
<1>6. ASSUME NEW sig \in {"TERM", "HUP"}, Send(sig) PROVE (ChildPlace /\ OneChild)'
  BY <1>6
  DEF Send, Others, ChildPlace, OneChild, parentVars, childVars, ghosts,
      Living, Reached, Alive, Zombie, Booting, Working
<1>7. CASE HandleTerm
  BY <1>7
  DEF HandleTerm, Others, ChildPlace, OneChild, parentVars, childVars,
      ghosts, Living, Reached, Alive, Zombie, Booting, Working
<1>8. CASE HandleHup
  BY <1>8
  DEF HandleHup, Others, ChildPlace, OneChild, parentVars, childVars, ghosts,
      Living, Reached, Alive, Zombie, Booting, Working
<1>9. ASSUME NEW c \in Pids, ChildAssign(c) PROVE (ChildPlace /\ OneChild)'
  BY <1>9
  DEF ChildAssign, Others, ChildPlace, OneChild, parentVars, childVars,
      ghosts, Living, Reached, Alive, Zombie, Booting, Working
<1>10. ASSUME NEW c \in Pids, ResetSignals(c) PROVE (ChildPlace /\ OneChild)'
  BY <1>10
  DEF ResetSignals, Others, ChildPlace, OneChild, parentVars, childVars,
      ghosts, Living, Reached, Alive, Zombie, Booting, Working
<1>11. ASSUME NEW c \in Pids, ReadPacket(c) PROVE (ChildPlace /\ OneChild)'
  BY <1>11
  DEF ReadPacket, Others, ChildPlace, OneChild, parentVars, childVars,
      ghosts, Living, Reached, Alive, Zombie, Booting, Working
<1>12. ASSUME NEW c \in Pids, StationSilent(c) PROVE (ChildPlace /\ OneChild)'
  BY <1>12
  DEF StationSilent, Others, ChildPlace, OneChild, parentVars, childVars,
      ghosts, Living, Reached, Alive, Zombie, Booting, Working
<1>13. ASSUME NEW c \in Pids, Alarm(c) PROVE (ChildPlace /\ OneChild)'
  BY <1>13
  DEF Alarm, Others, ChildPlace, OneChild, parentVars, childVars, ghosts,
      Living, Reached, Alive, Zombie, Booting, Working
<1>14. ASSUME NEW c \in Pids, Fail(c) PROVE (ChildPlace /\ OneChild)'
  BY <1>14
  DEF Fail, Others, ChildPlace, OneChild, parentVars, childVars, ghosts,
      Living, Reached, Alive, Zombie, Booting, Working
<1>15. ASSUME NEW c \in Pids, HandledTerm(c) PROVE (ChildPlace /\ OneChild)'
  BY <1>15
  DEF HandledTerm, Others, ChildPlace, OneChild, parentVars, childVars,
      ghosts, Living, Reached, Alive, Zombie, Booting, Working
<1>16. ASSUME NEW c \in Pids, DefaultTerm(c) PROVE (ChildPlace /\ OneChild)'
  BY <1>16
  DEF DefaultTerm, Others, ChildPlace, OneChild, parentVars, childVars,
      ghosts, Living, Reached, Alive, Zombie, Booting, Working
<1>17. CASE UNCHANGED vars
  BY <1>17
  DEF vars, Others, ChildPlace, OneChild, parentVars, childVars, ghosts,
      Living, Reached, Alive, Zombie, Booting, Working
<1> QED
  BY <1>1, <1>2, <1>3, <1>4, <1>5, <1>6, <1>7, <1>8, <1>9, <1>10, <1>11,
     <1>12, <1>13, <1>14, <1>15, <1>16, <1>17
  DEF Next, Parent, Boot, Term

\* SIGTERM in the parent reaches the child that clpid names.
LEMMA TermKept ==
  ASSUME Others, ChildPlace, TermReachesKnownChild, [Next]_vars
  PROVE  TermReachesKnownChild'
<1>1. CASE Fork
  BY <1>1, PidAssumption
  DEF Fork, Others, ChildPlace, TermReachesKnownChild, parentVars, childVars,
      ghosts, Living, Reached, Alive, Zombie, Booting, Working
<1>2. CASE ForkFails
  BY <1>2, PidAssumption
  DEF ForkFails, Others, ChildPlace, TermReachesKnownChild, parentVars,
      childVars, ghosts, Living, Reached, Alive, Zombie, Booting, Working
<1>3. CASE Assign
  BY <1>3, PidAssumption
  DEF Assign, Others, ChildPlace, TermReachesKnownChild, parentVars,
      childVars, ghosts, Living, Reached, Alive, Zombie, Booting, Working
<1>4. CASE Reap
  BY <1>4, PidAssumption
  DEF Reap, Others, ChildPlace, TermReachesKnownChild, parentVars, childVars,
      ghosts, Living, Reached, Alive, Zombie, Booting, Working
<1>5. CASE WakeUp
  BY <1>5, PidAssumption
  DEF WakeUp, Others, ChildPlace, TermReachesKnownChild, parentVars,
      childVars, ghosts, Living, Reached, Alive, Zombie, Booting, Working
<1>6. ASSUME NEW sig \in {"TERM", "HUP"}, Send(sig) PROVE TermReachesKnownChild'
  BY <1>6, PidAssumption
  DEF Send, Others, ChildPlace, TermReachesKnownChild, parentVars, childVars,
      ghosts, Living, Reached, Alive, Zombie, Booting, Working
<1>7. CASE HandleTerm
  BY <1>7, PidAssumption
  DEF HandleTerm, Others, ChildPlace, TermReachesKnownChild, parentVars,
      childVars, ghosts, Living, Reached, Alive, Zombie, Booting, Working
<1>8. CASE HandleHup
  BY <1>8, PidAssumption
  DEF HandleHup, Others, ChildPlace, TermReachesKnownChild, parentVars,
      childVars, ghosts, Living, Reached, Alive, Zombie, Booting, Working
<1>9. ASSUME NEW c \in Pids, ChildAssign(c) PROVE TermReachesKnownChild'
  BY <1>9, PidAssumption
  DEF ChildAssign, Others, ChildPlace, TermReachesKnownChild, parentVars,
      childVars, ghosts, Living, Reached, Alive, Zombie, Booting, Working
<1>10. ASSUME NEW c \in Pids, ResetSignals(c) PROVE TermReachesKnownChild'
  BY <1>10, PidAssumption
  DEF ResetSignals, Others, ChildPlace, TermReachesKnownChild, parentVars,
      childVars, ghosts, Living, Reached, Alive, Zombie, Booting, Working
<1>11. ASSUME NEW c \in Pids, ReadPacket(c) PROVE TermReachesKnownChild'
  BY <1>11, PidAssumption
  DEF ReadPacket, Others, ChildPlace, TermReachesKnownChild, parentVars,
      childVars, ghosts, Living, Reached, Alive, Zombie, Booting, Working
<1>12. ASSUME NEW c \in Pids, StationSilent(c) PROVE TermReachesKnownChild'
  BY <1>12, PidAssumption
  DEF StationSilent, Others, ChildPlace, TermReachesKnownChild, parentVars,
      childVars, ghosts, Living, Reached, Alive, Zombie, Booting, Working
<1>13. ASSUME NEW c \in Pids, Alarm(c) PROVE TermReachesKnownChild'
  BY <1>13, PidAssumption
  DEF Alarm, Others, ChildPlace, TermReachesKnownChild, parentVars,
      childVars, ghosts, Living, Reached, Alive, Zombie, Booting, Working
<1>14. ASSUME NEW c \in Pids, Fail(c) PROVE TermReachesKnownChild'
  BY <1>14, PidAssumption
  DEF Fail, Others, ChildPlace, TermReachesKnownChild, parentVars, childVars,
      ghosts, Living, Reached, Alive, Zombie, Booting, Working
<1>15. ASSUME NEW c \in Pids, HandledTerm(c) PROVE TermReachesKnownChild'
  BY <1>15, PidAssumption
  DEF HandledTerm, Others, ChildPlace, TermReachesKnownChild, parentVars,
      childVars, ghosts, Living, Reached, Alive, Zombie, Booting, Working
<1>16. ASSUME NEW c \in Pids, DefaultTerm(c) PROVE TermReachesKnownChild'
  BY <1>16, PidAssumption
  DEF DefaultTerm, Others, ChildPlace, TermReachesKnownChild, parentVars,
      childVars, ghosts, Living, Reached, Alive, Zombie, Booting, Working
<1>17. CASE UNCHANGED vars
  BY <1>17
  DEF vars, Others, ChildPlace, TermReachesKnownChild, parentVars, childVars,
      ghosts, Living, Reached, Alive, Zombie, Booting, Working
<1> QED
  BY <1>1, <1>2, <1>3, <1>4, <1>5, <1>6, <1>7, <1>8, <1>9, <1>10, <1>11,
     <1>12, <1>13, <1>14, <1>15, <1>16, <1>17
  DEF Next, Parent, Boot, Term

\* Exit status 0 and SIGTERM from the group are traced to an early SIGHUP.
LEMMA EarlyKept ==
  ASSUME Others, ChildPlace, ZeroExitIsEarly, OnlyTermEndsUnlessEarly, [Next]_vars
  PROVE  (ZeroExitIsEarly /\ OnlyTermEndsUnlessEarly)'
<1>1. CASE Fork
  BY <1>1
  DEF Fork, Others, ChildPlace, ZeroExitIsEarly, OnlyTermEndsUnlessEarly,
      parentVars, childVars, ghosts, Living, Reached, Alive, Zombie, Booting,
      Working
<1>2. CASE ForkFails
  BY <1>2
  DEF ForkFails, Others, ChildPlace, ZeroExitIsEarly,
      OnlyTermEndsUnlessEarly, parentVars, childVars, ghosts, Living,
      Reached, Alive, Zombie, Booting, Working
<1>3. CASE Assign
  BY <1>3
  DEF Assign, Others, ChildPlace, ZeroExitIsEarly, OnlyTermEndsUnlessEarly,
      parentVars, childVars, ghosts, Living, Reached, Alive, Zombie, Booting,
      Working
<1>4. CASE Reap
  BY <1>4
  DEF Reap, Others, ChildPlace, ZeroExitIsEarly, OnlyTermEndsUnlessEarly,
      parentVars, childVars, ghosts, Living, Reached, Alive, Zombie, Booting,
      Working
<1>5. CASE WakeUp
  BY <1>5
  DEF WakeUp, Others, ChildPlace, ZeroExitIsEarly, OnlyTermEndsUnlessEarly,
      parentVars, childVars, ghosts, Living, Reached, Alive, Zombie, Booting,
      Working
<1>6. ASSUME NEW sig \in {"TERM", "HUP"}, Send(sig)
      PROVE  (ZeroExitIsEarly /\ OnlyTermEndsUnlessEarly)'
  BY <1>6
  DEF Send, Others, ChildPlace, ZeroExitIsEarly, OnlyTermEndsUnlessEarly,
      parentVars, childVars, ghosts, Living, Reached, Alive, Zombie, Booting,
      Working
<1>7. CASE HandleTerm
  BY <1>7
  DEF HandleTerm, Others, ChildPlace, ZeroExitIsEarly,
      OnlyTermEndsUnlessEarly, parentVars, childVars, ghosts, Living,
      Reached, Alive, Zombie, Booting, Working
<1>8. CASE HandleHup
  BY <1>8
  DEF HandleHup, Others, ChildPlace, ZeroExitIsEarly,
      OnlyTermEndsUnlessEarly, parentVars, childVars, ghosts, Living,
      Reached, Alive, Zombie, Booting, Working
<1>9. ASSUME NEW c \in Pids, ChildAssign(c) PROVE (ZeroExitIsEarly /\ OnlyTermEndsUnlessEarly)'
  BY <1>9
  DEF ChildAssign, Others, ChildPlace, ZeroExitIsEarly,
      OnlyTermEndsUnlessEarly, parentVars, childVars, ghosts, Living,
      Reached, Alive, Zombie, Booting, Working
<1>10. ASSUME NEW c \in Pids, ResetSignals(c) PROVE (ZeroExitIsEarly /\ OnlyTermEndsUnlessEarly)'
  BY <1>10
  DEF ResetSignals, Others, ChildPlace, ZeroExitIsEarly,
      OnlyTermEndsUnlessEarly, parentVars, childVars, ghosts, Living,
      Reached, Alive, Zombie, Booting, Working
<1>11. ASSUME NEW c \in Pids, ReadPacket(c) PROVE (ZeroExitIsEarly /\ OnlyTermEndsUnlessEarly)'
  BY <1>11
  DEF ReadPacket, Others, ChildPlace, ZeroExitIsEarly,
      OnlyTermEndsUnlessEarly, parentVars, childVars, ghosts, Living,
      Reached, Alive, Zombie, Booting, Working
<1>12. ASSUME NEW c \in Pids, StationSilent(c) PROVE (ZeroExitIsEarly /\ OnlyTermEndsUnlessEarly)'
  BY <1>12
  DEF StationSilent, Others, ChildPlace, ZeroExitIsEarly,
      OnlyTermEndsUnlessEarly, parentVars, childVars, ghosts, Living,
      Reached, Alive, Zombie, Booting, Working
<1>13. ASSUME NEW c \in Pids, Alarm(c) PROVE (ZeroExitIsEarly /\ OnlyTermEndsUnlessEarly)'
  BY <1>13
  DEF Alarm, Others, ChildPlace, ZeroExitIsEarly, OnlyTermEndsUnlessEarly,
      parentVars, childVars, ghosts, Living, Reached, Alive, Zombie, Booting,
      Working
<1>14. ASSUME NEW c \in Pids, Fail(c) PROVE (ZeroExitIsEarly /\ OnlyTermEndsUnlessEarly)'
  BY <1>14
  DEF Fail, Others, ChildPlace, ZeroExitIsEarly, OnlyTermEndsUnlessEarly,
      parentVars, childVars, ghosts, Living, Reached, Alive, Zombie, Booting,
      Working
<1>15. ASSUME NEW c \in Pids, HandledTerm(c) PROVE (ZeroExitIsEarly /\ OnlyTermEndsUnlessEarly)'
  BY <1>15
  DEF HandledTerm, Others, ChildPlace, ZeroExitIsEarly,
      OnlyTermEndsUnlessEarly, parentVars, childVars, ghosts, Living,
      Reached, Alive, Zombie, Booting, Working
<1>16. ASSUME NEW c \in Pids, DefaultTerm(c) PROVE (ZeroExitIsEarly /\ OnlyTermEndsUnlessEarly)'
  BY <1>16
  DEF DefaultTerm, Others, ChildPlace, ZeroExitIsEarly,
      OnlyTermEndsUnlessEarly, parentVars, childVars, ghosts, Living,
      Reached, Alive, Zombie, Booting, Working
<1>17. CASE UNCHANGED vars
  BY <1>17
  DEF vars, Others, ChildPlace, ZeroExitIsEarly, OnlyTermEndsUnlessEarly,
      parentVars, childVars, ghosts, Living, Reached, Alive, Zombie, Booting,
      Working
<1> QED
  BY <1>1, <1>2, <1>3, <1>4, <1>5, <1>6, <1>7, <1>8, <1>9, <1>10, <1>11,
     <1>12, <1>13, <1>14, <1>15, <1>16, <1>17
  DEF Next, Parent, Boot, Term

\* The flags stay Boolean: giveup is a comparison, the ghosts are disjunctions.
LEMMA BooleansKept ==
  ASSUME Booleans, [Next]_vars
  PROVE  Booleans'
<1>1. giveup' \in BOOLEAN
  <2>1. ASSUME Reap PROVE giveup' \in BOOLEAN
    BY <2>1 DEF Reap, Booleans
  <2>2. ASSUME ~Reap PROVE giveup' = giveup
    BY <2>2, Zenon DEF Next, Parent, Boot, Term, Fork, ForkFails, Assign,
       WakeUp, Send, HandleTerm, HandleHup, ChildAssign, ResetSignals,
       ReadPacket, StationSilent, Alarm, Fail, HandledTerm, DefaultTerm,
       vars, parentVars
  <2> QED
    BY <2>1, <2>2 DEF Booleans
<1>2. asked' \in BOOLEAN /\ early' \in BOOLEAN /\ slipped' \in BOOLEAN
  BY Zenon DEF Booleans, Next, Parent, Boot, Term, Fork, ForkFails, Assign,
     Reap, WakeUp, Send, HandleTerm, HandleHup, ChildAssign, ResetSignals,
     ReadPacket, StationSilent, Alarm, Fail, HandledTerm, DefaultTerm,
     vars, ghosts
<1> QED
  BY <1>1, <1>2 DEF Booleans

LEMMA InitEstablishesIInv == Init => IInv
<1> SUFFICES ASSUME Init PROVE IInv
  OBVIOUS
<1>1. Booleans
  BY Zenon DEF Init, Booleans
<1>2. Others
  BY DEF Init, Others, Alive, Zombie, Living
<1>3. TypeOK
  BY <1>1, <1>2 DEF TypeOK, Booleans, Others
<1> QED
  BY <1>3 DEF Init, IInv, ChildPlace, OneChild, TermReachesKnownChild,
              ZeroExitIsEarly, OnlyTermEndsUnlessEarly

\* All that is claimed of the parent holds in every state.
THEOREM Invariance == Spec => []IInv
<1>1. Init => IInv
  BY InitEstablishesIInv
<1>2. IInv /\ [Next]_vars => IInv'
  <2> SUFFICES ASSUME IInv, [Next]_vars PROVE IInv'
    OBVIOUS
  <2>1. Others /\ Booleans
    BY DEF IInv, TypeOK, Others, Booleans
  <2>2. ChildPlace /\ OneChild /\ TermReachesKnownChild /\ ZeroExitIsEarly
        /\ OnlyTermEndsUnlessEarly
    BY DEF IInv
  <2>3. Others' /\ Booleans'
    BY <2>1, <2>2, OthersKept, BooleansKept
  <2>4. TypeOK'
    BY <2>3 DEF TypeOK, Others, Booleans
  <2>5. ChildPlace' /\ OneChild'
    BY <2>1, <2>2, PlaceKept
  <2>6. TermReachesKnownChild'
    BY <2>1, <2>2, TermKept
  <2>7. ZeroExitIsEarly' /\ OnlyTermEndsUnlessEarly'
    BY <2>1, <2>2, EarlyKept
  <2> QED
    BY <2>4, <2>5, <2>6, <2>7 DEF IInv
<1> QED
  BY <1>1, <1>2, PTL DEF Spec

\* The variables keep their types; pid 0 never counts as a waited-for child.
THEOREM TypeCorrect == Spec => []TypeOK
<1>1. IInv => TypeOK
  BY DEF IInv
<1> QED
  BY <1>1, Invariance, PTL

\* At most one process of the daemon talks to the station.
THEOREM AtMostOneChild == Spec => []OneChild
<1>1. IInv => OneChild
  BY DEF IInv
<1> QED
  BY <1>1, Invariance, PTL

\* SIGTERM is passed on to the child in every case but the one of slipped.
THEOREM TermIsPassedOn == Spec => []TermReachesKnownChild
<1>1. IInv => TermReachesKnownChild
  BY DEF IInv
<1> QED
  BY <1>1, Invariance, PTL

\* SIGHUP and failing children end the daemon in no case but that of early.
THEOREM DaemonSurvives == Spec => []OnlyTermEndsUnlessEarly
<1>1. IInv => OnlyTermEndsUnlessEarly
  BY DEF IInv
<1> QED
  BY <1>1, Invariance, PTL
=============================================================================
