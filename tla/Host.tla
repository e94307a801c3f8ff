-------------------------------- MODULE Host --------------------------------
(***************************************************************************)
(* What the daemons of one station share with the host they run on: the    *)
(* pid file of lib/Daemon.cc and lib/Pidfile.cc, and the map file of       *)
(* lib/Mapfile.cc that meteopoll publishes each packet in and meteomap     *)
(* reads.  Every step is one system call; daemons are started at any time, *)
(* also two at once, pids are used again, by daemons and by programs of    *)
(* other users.                                                            *)
(*                                                                         *)
(* A daemon is its pid.  A forked child of meteopoll, which does the       *)
(* publishing, is not told apart from its parent.                          *)
(***************************************************************************)
EXTENDS Naturals

CONSTANTS Pids, Fields,
          Programs,               \* of meteopoll, meteoavg and meteodequeue
          MaxPackets, MaxStarts   \* bounds

VARIABLES program,   \* which of the daemons it is
          pc,        \* pc[p]: what process p does, "free" if there is none
          old,       \* old[p]: the pid that p read from the pid file
          pidfile,   \* a pid, or "absent" or "empty"
          data,      \* data[p]: Mapfile::data, the fields of a packet by name
          map,       \* the map file: "absent", "empty" or "full", what it holds
          reader,    \* meteomap: "idle", "opened", "short", or what it read
          packets, starts,   \* bounded counters
          last,      \* the daemon that wrote the pid file last
          raced      \* a daemon wrote the pid file while another one was
                     \* about to remove it

mapVars == <<map, reader, packets, data>>
pidVars == <<old, pidfile, starts, last, raced>>
vars == <<program, pc, pidVars, mapVars>>

None == "none"
NoFile == "absent"
Empty == "empty"

ASSUME HostAssumption ==
  /\ MaxPackets \in Nat /\ MaxStarts \in Nat
  /\ {None, NoFile, Empty} \cap Pids = {}

\* what a file or its reader has, without the fields of a packet
No(state) == [state |-> state, data |-> {}, packet |-> 0]
Full(d, packet) == [state |-> "full", data |-> d, packet |-> packet]

\* processes of other users never touch the files
Stranger(p) == pc[p] = "stranger"
Running(p) == pc[p] \in {"run", "publish"}

Init ==
  /\ program \in Programs
  /\ pc = [p \in Pids |-> "free"]
  /\ old = [p \in Pids |-> None]
  /\ pidfile = NoFile
  /\ data = [p \in Pids |-> {}]
  /\ map = No("absent") /\ reader = No("idle")
  /\ packets = 0 /\ starts = 0
  /\ last = None /\ raced = FALSE

Some(place) == \E p \in Pids : pc[p] = place
Goes(p, place) == pc' = [pc EXCEPT ![p] = place]

-----------------------------------------------------------------------------
(* Daemon::Daemon and Pidfile::Pidfile                                     *)

\* after the fork, a session of its own and chdir to /
StartDaemon(p) ==
  /\ pc[p] = "free" /\ starts < MaxStarts
  /\ Goes(p, "stat")
  /\ starts' = starts + 1
  /\ UNCHANGED <<program, old, pidfile, last, raced, mapVars>>

Stat(p) ==
  /\ pc[p] = "stat"
  /\ Goes(p, IF pidfile = NoFile THEN "create" ELSE "read")
  /\ UNCHANGED <<program, pidVars, mapVars>>

\* the constructor throws: the program ends before there is a Daemon
Refuse(p) ==
  /\ Goes(p, "free")
  /\ UNCHANGED <<program, pidVars, mapVars>>

\* the file was there when stat looked, but it cannot be opened any more
OldFileVanished(p) ==
  /\ pc[p] = "read" /\ pidfile = NoFile
  /\ Refuse(p)

\* a file without a number is forgotten like no file
ReadOld(p) ==
  /\ pc[p] = "read" /\ pidfile # NoFile
  /\ Goes(p, IF pidfile = Empty THEN "create" ELSE "probe")
  /\ old' = [old EXCEPT ![p] = pidfile]
  /\ UNCHANGED <<program, pidfile, starts, last, raced, mapVars>>

\* kill(old, 0) fails with EPERM
OldIsAnothers(p) ==
  /\ pc[p] = "probe" /\ Stranger(old[p])
  /\ Refuse(p)

\* kill succeeds or fails with ESRCH: the constructor goes on in both cases
Probe(p) ==
  /\ pc[p] = "probe" /\ ~Stranger(old[p])
  /\ Goes(p, "create")
  /\ UNCHANGED <<program, pidVars, mapVars>>

\* opening the ofstream empties the file
CreatePidfile(p) ==
  /\ pc[p] = "create"
  /\ Goes(p, "write")
  /\ pidfile' = Empty
  /\ raced' = (raced \/ Some("unlink"))
  /\ UNCHANGED <<program, old, starts, last, mapVars>>

WritePid(p) ==
  /\ pc[p] = "write"
  /\ Goes(p, "run")
  /\ pidfile' = p
  /\ last' = p
  /\ UNCHANGED <<program, old, starts, raced, mapVars>>

WritePidLost(p) ==
  /\ pc[p] = "writeLost"
  /\ Goes(p, "run")
  /\ last' = p
  /\ UNCHANGED <<program, old, pidfile, starts, raced, mapVars>>

-----------------------------------------------------------------------------
(* The end of a daemon                                                     *)

\* exit() and signals do not run the destructor
Ends(p) ==
  /\ pc[p] \notin {"free", "stranger"}
  /\ Goes(p, "free")
  /\ data' = [data EXCEPT ![p] = {}]
  /\ UNCHANGED <<program, pidVars, map, reader, packets>>

\* an exception leaves meteoavg() or meteodequeue(): ~Daemon is run
Throws(p) ==
  /\ program # "meteopoll"
  /\ pc[p] = "run"
  /\ Goes(p, "compare")
  /\ UNCHANGED <<program, pidVars, mapVars>>

\* mutant of Compare: the file is removed without looking
CompareNothing(p) ==
  /\ pc[p] = "compare"
  /\ Goes(p, IF pidfile # NoFile THEN "unlink" ELSE "free")
  /\ raced' = (raced \/ Some("write"))
  /\ UNCHANGED <<program, old, pidfile, starts, last, mapVars>>

Compare(p) ==
  /\ pc[p] = "compare"
  /\ Goes(p, IF pidfile = p THEN "unlink" ELSE "free")
  /\ raced' = (raced \/ Some("write"))
  /\ UNCHANGED <<program, old, pidfile, starts, last, mapVars>>

\* who has opened the file and not yet written to it writes to a file that
\* has no name any more
Unlink(p) ==
  /\ pc[p] = "unlink"
  /\ pc' = [q \in Pids |-> IF q = p THEN "free"
                         ELSE IF pc[q] = "write" THEN "writeLost" ELSE pc[q]]
  /\ pidfile' = NoFile
  /\ UNCHANGED <<program, old, starts, last, raced, mapVars>>

\* other users' programs come and go
StrangerComes(p) ==
  /\ pc[p] = "free"
  /\ Goes(p, "stranger")
  /\ UNCHANGED <<program, pidVars, mapVars>>

StrangerGoes(p) ==
  /\ pc[p] = "stranger"
  /\ Goes(p, "free")
  /\ UNCHANGED <<program, pidVars, mapVars>>

-----------------------------------------------------------------------------
(* The map file                                                            *)

\* a (new) child of p makes a Mapfile for writing, which empties the file
OpenMap(p) ==
  /\ program = "meteopoll" /\ Running(p)
  /\ Goes(p, "publish")
  /\ map' = No("empty")
  /\ data' = [data EXCEPT ![p] = {}]
  /\ UNCHANGED <<program, pidVars, reader, packets>>

\* Mapfile::add: insert keeps what is there under a name already
Add(d, names, packet) ==
  d \cup {[name |-> n, packet |-> packet] :
            n \in {m \in names : ~\E e \in d : e.name = m}}

\* mutant of Publish: the data of the packet before are not cleared
PublishUncleared(p) ==
  /\ pc[p] = "publish" /\ packets < MaxPackets
  /\ packets' = packets + 1
  /\ \E readable \in SUBSET Fields :
       data' = [data EXCEPT ![p] = Add(data[p], readable, packets')]
  /\ map' = Full(data'[p], packets')
  /\ UNCHANGED <<program, pc, pidVars, reader>>

\* Station::update: clear, add the fields that could be read, publish in one
\* write of fixed size.  The map is taken to fit into its buffer, and the write
\* to be complete: publish() checks only the latter, and ends the process.
Publish(p) ==
  /\ pc[p] = "publish" /\ packets < MaxPackets
  /\ packets' = packets + 1
  /\ \E readable \in SUBSET Fields :
       data' = [data EXCEPT ![p] = Add({}, readable, packets')]
  /\ map' = Full(data'[p], packets')
  /\ UNCHANGED <<program, pc, pidVars, reader>>

\* meteomap
OpenForReading ==
  /\ reader.state # "opened" /\ map.state # "absent"
  /\ reader' = No("opened")
  /\ UNCHANGED <<program, pc, pidVars, data, map, packets>>

\* Mapfile::read: the file is never shorter than a map but when it is empty
ReadMap ==
  /\ reader.state = "opened"
  /\ reader' = IF map.state = "empty" THEN No("short") ELSE map
  /\ UNCHANGED <<program, pc, pidVars, data, map, packets>>

-----------------------------------------------------------------------------
Next == \/ \E p \in Pids :
             \/ StartDaemon(p) \/ Stat(p) \/ OldFileVanished(p) \/ ReadOld(p)
             \/ OldIsAnothers(p) \/ Probe(p) \/ CreatePidfile(p) \/ WritePid(p)
             \/ WritePidLost(p)
             \/ Ends(p) \/ Throws(p)
             \/ Compare(p) \/ Unlink(p)
             \/ StrangerComes(p) \/ StrangerGoes(p)
             \/ OpenMap(p) \/ Publish(p)
        \/ OpenForReading \/ ReadMap

Spec == Init /\ [][Next]_vars
-----------------------------------------------------------------------------
TypeOK ==
  /\ program \in Programs
  /\ pc \in [Pids -> {"free", "stranger", "stat", "read", "probe", "create", "write",
                     "writeLost", "run", "publish", "compare", "unlink"}]
  /\ old \in [Pids -> Pids \cup {None, Empty}]
  /\ pidfile \in Pids \cup {NoFile, Empty}
  /\ last \in Pids \cup {None} /\ raced \in BOOLEAN
  /\ starts \in 0..MaxStarts /\ packets \in 0..MaxPackets
  /\ data \in [Pids -> SUBSET [name : Fields, packet : 1..MaxPackets]]
  /\ map.state \in {"absent", "empty", "full"}
  /\ reader.state \in {"idle", "opened", "short", "full"}

(***************************************************************************)
(* However daemons overlap, die and reuse pids, the daemon that started    *)
(* last and still runs is the one the pid file names: a stop script        *)
(* reaches it.  The exceptions are the moment in which another one has     *)
(* emptied the file to write its own pid, one that died in that moment,    *)
(* and the race of ~Daemon with a new start.                               *)
(***************************************************************************)
NamesLastDaemon ==
  last # None /\ pc[last] \in {"run", "publish", "compare"} /\ ~raced
    => pidfile \in {last, Empty}

(***************************************************************************)
(* The map file and what meteomap makes of it are the fields of a single   *)
(* packet: a field that could not be read is missing and does not keep an  *)
(* older value, whichever daemon, child or packet wrote before.            *)
(***************************************************************************)
OnePacket(m) == \A e \in m.data : e.packet = m.packet
MapIsOnePacket == OnePacket(map) /\ OnePacket(reader)

=============================================================================
