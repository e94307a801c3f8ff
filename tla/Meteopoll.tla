----------------------------- MODULE Meteopoll -----------------------------
(***************************************************************************)
(* The two processes of src/meteopoll.cc: a parent that does nothing but   *)
(* fork a child, wait for its end and fork the next one, and the child     *)
(* that talks to the station.  Signals are sent by an operator to the      *)
(* parent and passed on by kill_child(), which the child inherits until it *)
(* has reset its signal dispositions.  SIGINT is treated like SIGTERM by   *)
(* every process and is not told apart from it.                            *)
(*                                                                         *)
(* A step of the model is a system call, an assignment that a signal       *)
(* handler can see, or the delivery of a signal.  A system call that a     *)
(* handled signal interrupts is restarted (signal() of glibc and BSD).     *)
(***************************************************************************)
EXTENDS Naturals, FiniteSets

CONSTANTS Pids,       \* process ids the kernel may give to a child
          Zero        \* pid 0: the initial clpid and, for kill(), the group

ASSUME PidAssumption == Zero \notin Pids

VARIABLES pc,         \* the parent: top of the loop, in fork(), wait, sleep
          clpid,      \* the parent's clpid
          ret,        \* what fork() returned, before it is assigned
          giveup,
          ppend,      \* signals pending for the parent
          child,      \* what each child is doing
          copy,       \* the clpid of each child
          pend,       \* children that have a SIGTERM pending
          asked,      \* an operator sent SIGTERM to the parent
          reason,     \* why the parent ended
          early,      \* a SIGHUP met a child that was not ready for it
          slipped     \* a SIGTERM came while clpid named no child

parentVars == <<pc, clpid, ret, giveup>>
childVars == <<child, copy>>
ghosts == <<asked, reason, early, slipped>>
vars == <<parentVars, ppend, childVars, pend, ghosts>>

\* "fresh": forked, clpid still the parent's; "booting": clpid = 0, handlers
\* still the parent's; "connecting": dispositions reset, no alarm set yet;
\* "polling": waiting for a packet with the alarm set; "hung": the packet
\* does not come
Booting == {"fresh", "booting"}
Working == {"connecting", "polling", "hung"}
Alive == Booting \cup Working
Zombie == {"success", "failure", "killed"}

Living == {c \in Pids : child[c] \in Alive}

Init ==
  /\ pc = "top" /\ clpid = Zero /\ ret = Zero /\ giveup = FALSE
  /\ ppend = {}
  /\ child = [c \in Pids |-> "none"]
  /\ copy = [c \in Pids |-> Zero]
  /\ pend = {}
  /\ asked = FALSE /\ reason = "none" /\ early = FALSE /\ slipped = FALSE

\* the processes that kill(pid, SIGTERM) reaches: pid 0 is the group
Reached(pid) == IF pid = Zero THEN Living ELSE Living \cap {pid}

-----------------------------------------------------------------------------
(* The parent                                                              *)

Fork ==
  /\ pc = "top"
  /\ \E c \in Pids :
       /\ child[c] = "none"
       /\ ret' = c
       /\ child' = [child EXCEPT ![c] = "fresh"]
       /\ copy' = [copy EXCEPT ![c] = clpid]
  /\ pc' = "forked"
  /\ UNCHANGED <<clpid, giveup, ppend, pend, ghosts>>

\* The parent ends at once: that clpid is -1 until exit(), and that a signal in
\* between would be passed on to every process of the user, is left out.
ForkFails ==
  /\ pc = "top"
  /\ pc' = "exited"
  /\ reason' = "fork"
  /\ UNCHANGED <<clpid, ret, giveup, ppend, childVars, pend, asked, early,
                 slipped>>

Assign ==
  /\ pc = "forked"
  /\ clpid' = ret
  /\ pc' = "wait"
  /\ UNCHANGED <<ret, giveup, ppend, childVars, pend, ghosts>>

\* mutant of Reap: waitpid(..., WNOHANG)
ReapNoHang ==
  /\ pc = "wait"
  /\ child' = IF child[clpid] \in Zombie
                THEN [child EXCEPT ![clpid] = "none"] ELSE child
  /\ pc' = "sleep"
  /\ UNCHANGED <<clpid, ret, giveup, ppend, copy, pend, ghosts>>

\* mutant of Reap: WEXITSTATUS of a child killed by a signal is 0
ReapUnchecked ==
  /\ pc = "wait"
  /\ child[clpid] \in Zombie
  /\ giveup' = (child[clpid] # "failure")
  /\ child' = [child EXCEPT ![clpid] = "none"]
  /\ pc' = "sleep"
  /\ UNCHANGED <<clpid, ret, ppend, copy, pend, ghosts>>

\* mutant of Reap: only WIFEXITED is handled
ReapExitedOnly ==
  /\ pc = "wait"
  /\ child[clpid] \in {"success", "failure"}
  /\ giveup' = (child[clpid] = "success")
  /\ child' = [child EXCEPT ![clpid] = "none"]
  /\ pc' = "sleep"
  /\ UNCHANGED <<clpid, ret, ppend, copy, pend, ghosts>>

\* waitpid; a child killed by a signal leaves giveup alone
Reap ==
  /\ pc = "wait"
  /\ child[clpid] \in Zombie
  /\ giveup' = IF child[clpid] = "killed" THEN giveup
                                          ELSE child[clpid] = "success"
  /\ child' = [child EXCEPT ![clpid] = "none"]
  /\ pc' = "sleep"
  /\ UNCHANGED <<clpid, ret, ppend, copy, pend, ghosts>>

WakeUp ==
  /\ pc = "sleep"
  /\ IF giveup THEN pc' = "exited" /\ reason' = "giveup"
               ELSE pc' = "top" /\ UNCHANGED reason
  /\ UNCHANGED <<clpid, ret, giveup, ppend, childVars, pend, asked, early,
                 slipped>>

\* an operator, or init at shutdown, signals the process in the pid file
Send(sig) ==
  /\ pc # "exited"
  /\ sig \notin ppend
  /\ ppend' = ppend \cup {sig}
  /\ asked' = (asked \/ sig = "TERM")
  /\ UNCHANGED <<parentVars, childVars, pend, reason, early, slipped>>

\* kill_child(SIGTERM) in the parent
HandleTerm ==
  /\ pc # "exited" /\ "TERM" \in ppend
  /\ ppend' = {}
  /\ pend' = pend \cup Reached(clpid)
  /\ slipped' = (slipped \/ (pc = "forked" /\ clpid \notin {Zero, ret}))
  /\ pc' = "exited" /\ reason' = "term"
  /\ UNCHANGED <<clpid, ret, giveup, childVars, asked, early>>

\* kill_child(SIGHUP) in the parent; with clpid 0 it signals itself as well
HandleHup ==
  /\ pc # "exited" /\ "HUP" \in ppend
  /\ ppend' = (ppend \ {"HUP"}) \cup (IF clpid = Zero THEN {"TERM"} ELSE {})
  /\ pend' = pend \cup Reached(clpid)
  /\ early' = (early \/ clpid = Zero
                     \/ \E c \in Reached(clpid) : child[c] \in Booting)
  /\ UNCHANGED <<parentVars, childVars, asked, reason, slipped>>

-----------------------------------------------------------------------------
(* The child                                                               *)

\* clpid = fork() in the child
ChildAssign(c) ==
  /\ child[c] = "fresh"
  /\ child' = [child EXCEPT ![c] = "booting"]
  /\ copy' = [copy EXCEPT ![c] = Zero]
  /\ UNCHANGED <<parentVars, ppend, pend, ghosts>>

\* signal(SIGTERM, SIG_DFL)
ResetSignals(c) ==
  /\ child[c] = "booting"
  /\ child' = [child EXCEPT ![c] = "connecting"]
  /\ UNCHANGED <<parentVars, ppend, copy, pend, ghosts>>

\* the station answers: the alarm is set before each packet
ReadPacket(c) ==
  /\ child[c] = "connecting"
  /\ child' = [child EXCEPT ![c] = "polling"]
  /\ UNCHANGED <<parentVars, ppend, copy, pend, ghosts>>

StationSilent(c) ==
  /\ child[c] = "polling"
  /\ child' = [child EXCEPT ![c] = "hung"]
  /\ UNCHANGED <<parentVars, ppend, copy, pend, ghosts>>

\* mutant of Alarm: the child ignores SIGALRM
AlarmIgnored(c) ==
  /\ child[c] = "hung"
  /\ UNCHANGED vars

\* SIGALRM after ALARMTIMEOUT seconds without a packet
Alarm(c) ==
  /\ child[c] = "hung"
  /\ child' = [child EXCEPT ![c] = "killed"]
  /\ pend' = pend \ {c}
  /\ UNCHANGED <<parentVars, ppend, copy, ghosts>>

\* a MeteoException ends the loop, or any other exception aborts it
Fail(c) ==
  /\ child[c] \in {"connecting", "polling"}
  /\ \E end \in {"failure", "killed"} : child' = [child EXCEPT ![c] = end]
  /\ pend' = pend \ {c}
  /\ UNCHANGED <<parentVars, ppend, copy, ghosts>>

\* mutant of HandledTerm: the handler returns
HandledTermReturns(c) ==
  /\ c \in pend
  /\ child[c] \in Booting
  /\ pend' = (pend \cup Reached(copy[c])) \ {c}
  /\ UNCHANGED <<parentVars, ppend, childVars, ghosts>>

\* SIGTERM in a child that still has the parent's handler: kill_child
HandledTerm(c) ==
  /\ c \in pend
  /\ child[c] \in Booting
  /\ child' = [child EXCEPT ![c] = "success"]
  /\ pend' = (pend \cup Reached(copy[c])) \ {c}
  /\ ppend' = IF copy[c] = Zero /\ pc # "exited" THEN ppend \cup {"TERM"}
                                                 ELSE ppend
  /\ UNCHANGED <<parentVars, copy, ghosts>>

\* SIGTERM with the default disposition
DefaultTerm(c) ==
  /\ c \in pend
  /\ child[c] \in Working
  /\ child' = [child EXCEPT ![c] = "killed"]
  /\ pend' = pend \ {c}
  /\ UNCHANGED <<parentVars, ppend, copy, ghosts>>

Parent == Fork \/ Assign \/ Reap \/ WakeUp
Boot(c) == ChildAssign(c) \/ ResetSignals(c)
Term(c) == HandledTerm(c) \/ DefaultTerm(c)

Next == \/ Parent \/ ForkFails \/ HandleTerm \/ HandleHup
        \/ Send("TERM") \/ Send("HUP")
        \/ \E c \in Pids : \/ Boot(c) \/ Term(c) \/ ReadPacket(c)
                           \/ StationSilent(c) \/ Alarm(c) \/ Fail(c)

Spec == Init /\ [][Next]_vars

(***************************************************************************)
(* Both processes are scheduled, signals are delivered and an armed alarm  *)
(* goes off.  Nothing makes the station answer: a child may connect for    *)
(* ever, and a polling one need never fail.                                *)
(***************************************************************************)
FairSpec ==
  /\ Spec
  /\ WF_vars(Parent) /\ WF_vars(HandleTerm) /\ WF_vars(HandleHup)
  /\ \A c \in Pids : WF_vars(Boot(c)) /\ WF_vars(Term(c)) /\ WF_vars(Alarm(c))

-----------------------------------------------------------------------------
TypeOK ==
  /\ pc \in {"top", "forked", "wait", "sleep", "exited"}
  /\ clpid \in Pids \cup {Zero} /\ ret \in Pids \cup {Zero}
  /\ pc \in {"wait", "sleep"} => clpid \in Pids
  /\ giveup \in BOOLEAN
  /\ ppend \subseteq {"TERM", "HUP"}
  /\ child \in [Pids -> Alive \cup Zombie \cup {"none"}]
  /\ copy \in [Pids -> Pids \cup {Zero}]
  /\ pend \subseteq Living
  /\ asked \in BOOLEAN /\ early \in BOOLEAN /\ slipped \in BOOLEAN
  /\ reason \in {"none", "term", "fork", "giveup"}

(***************************************************************************)
(* Two processes never talk to the station at the same time: the serial    *)
(* line has one reader, however often children die and whatever signals    *)
(* arrive between fork, wait and sleep.                                    *)
(***************************************************************************)
OneChild ==
  \A c, d \in Pids : child[c] # "none" /\ child[d] # "none" => c = d

(***************************************************************************)
(* A daemon that ends by SIGTERM has passed it on to every child that      *)
(* lives, with the one exception the code leaves open: the signal comes    *)
(* after fork() has made a child and before clpid names it, and clpid      *)
(* still names the previous child (kill_child).                            *)
(***************************************************************************)
TermReachesKnownChild ==
  reason = "term" /\ ~slipped => Living \subseteq pend

(***************************************************************************)
(* Nothing but SIGTERM, or a fork that fails, ends the daemon, with the    *)
(* exception the code leaves open: a SIGHUP before the first child exists, *)
(* or while a child still has the parent's handler, ends it by the exit    *)
(* status 0 of the child or by SIGTERM to the whole group (kill_child,     *)
(* giveup).                                                                *)
(***************************************************************************)
OnlyTermEndsUnlessEarly == pc = "exited" => asked \/ early \/ reason = "fork"

(***************************************************************************)
(* The daemon always comes back to a child that is alive, unless it ends.  *)
(***************************************************************************)
ChildReplaced == []<>(pc = "exited" \/ Living # {})

(***************************************************************************)
(* A child whose station fell silent does not block the daemon: the alarm  *)
(* ends it and, unless the daemon is ending, its pid is waited for.        *)
(***************************************************************************)
HungChildEnds ==
  \A c \in Pids : child[c] = "hung" ~> (child[c] = "none" \/ pc = "exited")

(***************************************************************************)
(* After SIGTERM no child survives, but for the exception of               *)
(* TermReachesKnownChild.                                                  *)
(***************************************************************************)
TermEndsAll == (reason = "term" /\ ~slipped) ~> (Living = {})
=============================================================================
