----------------------------- MODULE HostProofs -----------------------------
(***************************************************************************)
(* The pid file and the map file, for any number of pids, fields, packets  *)
(* and starts.                                                             *)
(***************************************************************************)
EXTENDS Host, TLAPS

Places == {"free", "stranger", "stat", "read", "probe", "create", "write",
           "writeLost", "run", "publish", "compare", "unlink"}

\* The part of the types that the pid file rests on.
PidTypes ==
  /\ pc \in [Pids -> Places]
  /\ pidfile \in Pids \cup {NoFile, Empty}
  /\ last \in Pids \cup {None}
  /\ raced \in BOOLEAN

\* Who is about to remove the file has found its own pid in it, and only a
\* daemon that starts could have changed that.
UnlinksItsOwn == ~raced => \A p \in Pids : pc[p] = "unlink" => pidfile = p

\* Nobody is between opening and writing while the file is about to go, so
\* that the pid of nobody is lost.
NoneIsLost ==
  ~raced => /\ \A p, q \in Pids : ~(pc[p] = "write" /\ pc[q] = "unlink")
            /\ \A p \in Pids : pc[p] # "writeLost"

Live(p) == pc[p] \in {"run", "publish", "compare"}

PidInv == PidTypes /\ UnlinksItsOwn /\ NoneIsLost /\ NamesLastDaemon

\* What meteomap has opened stays there.
OpenedIsThere == reader.state = "opened" => map.state # "absent"

\* The part of the types that the map file rests on.
MapTypes ==
  /\ data \in [Pids -> SUBSET [name : Fields, packet : 1..MaxPackets]]
  /\ packets \in 0..MaxPackets
  /\ map.state \in {"absent", "empty", "full"}
  /\ reader.state \in {"idle", "opened", "short", "full"}

MapInv == MapTypes /\ MapIsOnePacket /\ OpenedIsThere

-----------------------------------------------------------------------------
(* The pid file                                                            *)

LEMMA InitPidInv == Init => PidInv
<1> SUFFICES ASSUME Init PROVE PidInv
  OBVIOUS
<1>1. PidTypes
  BY DEF Init, PidTypes, Places
<1>2. UnlinksItsOwn /\ NoneIsLost /\ NamesLastDaemon
  BY DEF Init, UnlinksItsOwn, NoneIsLost, NamesLastDaemon
<1> QED
  BY <1>1, <1>2 DEF PidInv

\* Steps that leave the pid file alone and move one process, to a place that
\* is none of those the invariant speaks of.
LEMMA MovesKeepPidInv ==
  ASSUME PidInv, UNCHANGED <<pidfile, last, raced>>,
         NEW p \in Pids, NEW place \in Places, Goes(p, place),
         place \notin {"write", "writeLost", "unlink"},
         place \in {"run", "publish", "compare"} => Live(p)
  PROVE  PidInv'
<1>1. PidTypes'
  BY DEF PidInv, PidTypes, Goes
<1>2. UnlinksItsOwn'
  BY DEF PidInv, PidTypes, UnlinksItsOwn, Goes
<1>3. NoneIsLost'
  BY DEF PidInv, PidTypes, NoneIsLost, Goes
<1>4. NamesLastDaemon'
  BY HostAssumption DEF PidInv, PidTypes, NamesLastDaemon, Goes, Live, HostAssumption
<1> QED
  BY <1>1, <1>2, <1>3, <1>4 DEF PidInv

\* A daemon empties the file.
LEMMA CreateKeepsPidInv ==
  ASSUME PidInv, NEW p \in Pids, CreatePidfile(p)
  PROVE  PidInv'
<1> USE HostAssumption DEF HostAssumption
<1>1. PidTypes'
  <2>1. pc' \in [Pids -> Places] /\ pidfile' \in Pids \cup {NoFile, Empty}
        /\ last' \in Pids \cup {None}
    BY DEF PidInv, PidTypes, Places, CreatePidfile, Goes
  <2>2. raced' \in BOOLEAN
    BY Zenon DEF PidInv, PidTypes, CreatePidfile, Some
  <2> QED
    BY <2>1, <2>2 DEF PidTypes
<1>2. ~raced' => ~raced /\ \A q \in Pids : pc[q] # "unlink"
  BY DEF CreatePidfile, Some
<1>3. UnlinksItsOwn'
  BY <1>2 DEF PidInv, PidTypes, UnlinksItsOwn, CreatePidfile, Goes
<1>4. NoneIsLost'
  BY <1>2 DEF PidInv, PidTypes, NoneIsLost, CreatePidfile, Goes
<1>5. NamesLastDaemon'
  BY DEF NamesLastDaemon, CreatePidfile
<1> QED
  BY <1>1, <1>3, <1>4, <1>5 DEF PidInv

\* A daemon writes its pid: the file names it, and it is the last one.
LEMMA WriteKeepsPidInv ==
  ASSUME PidInv, NEW p \in Pids, WritePid(p)
  PROVE  PidInv'
<1>1. PidTypes'
  BY DEF PidInv, PidTypes, Places, WritePid, Goes
<1>2. ~raced' => \A q \in Pids : pc[q] # "unlink"
  BY DEF PidInv, NoneIsLost, WritePid
<1>3. UnlinksItsOwn' /\ NoneIsLost'
  BY <1>2 DEF PidInv, PidTypes, UnlinksItsOwn, NoneIsLost, WritePid, Goes
<1>4. NamesLastDaemon'
  BY DEF NamesLastDaemon, WritePid
<1> QED
  BY <1>1, <1>3, <1>4 DEF PidInv

\* A daemon writes its pid to a file without a name: only after a race.
LEMMA WriteLostKeepsPidInv ==
  ASSUME PidInv, NEW p \in Pids, WritePidLost(p)
  PROVE  PidInv'
<1>1. PidTypes'
  BY DEF PidInv, PidTypes, Places, WritePidLost, Goes
<1>2. raced /\ raced'
  BY DEF PidInv, NoneIsLost, WritePidLost
<1> QED
  BY <1>1, <1>2 DEF PidInv, UnlinksItsOwn, NoneIsLost, NamesLastDaemon

\* ~Daemon reads the file.
LEMMA CompareKeepsPidInv ==
  ASSUME PidInv, NEW p \in Pids, Compare(p)
  PROVE  PidInv'
<1>1. PidTypes'
  <2>1. pc' \in [Pids -> Places] /\ pidfile' \in Pids \cup {NoFile, Empty}
        /\ last' \in Pids \cup {None}
    BY DEF PidInv, PidTypes, Places, Compare, Goes
  <2>2. raced' \in BOOLEAN
    BY Zenon DEF PidInv, PidTypes, Compare, Some
  <2> QED
    BY <2>1, <2>2 DEF PidTypes
<1>2. ~raced' => ~raced /\ \A q \in Pids : pc[q] # "write"
  BY DEF Compare, Some
<1>3. UnlinksItsOwn'
  BY <1>2 DEF PidInv, PidTypes, UnlinksItsOwn, Compare, Goes
<1>4. NoneIsLost'
  BY <1>2 DEF PidInv, PidTypes, NoneIsLost, Compare, Goes
<1>5. NamesLastDaemon'
  BY <1>2, HostAssumption
  DEF PidInv, PidTypes, NamesLastDaemon, Compare, Goes, HostAssumption
<1> QED
  BY <1>1, <1>3, <1>4, <1>5 DEF PidInv

\* ~Daemon removes the file: it was its own, so that the last daemon, if the
\* file named it, is the one that ends.
LEMMA UnlinkKeepsPidInv ==
  ASSUME PidInv, NEW p \in Pids, Unlink(p)
  PROVE  PidInv'
<1> USE HostAssumption DEF HostAssumption
<1>1. PidTypes'
  BY DEF PidInv, PidTypes, Places, Unlink
<1>2. ~raced => /\ pidfile = p
                /\ \A q \in Pids : pc[q] # "write" /\ pc[q] # "writeLost"
  BY DEF PidInv, UnlinksItsOwn, NoneIsLost, Unlink
<1>3. raced' = raced /\ last' = last
  BY DEF Unlink
<1>4. ~raced => pc' = [q \in Pids |-> IF q = p THEN "free" ELSE pc[q]]
  BY <1>2 DEF Unlink
<1>5. UnlinksItsOwn'
  <2> SUFFICES ASSUME ~raced, NEW q \in Pids, pc'[q] = "unlink" PROVE FALSE
    BY <1>3 DEF UnlinksItsOwn
  <2>1. q # p /\ pc[q] = "unlink"
    BY <1>4
  <2> QED
    BY <1>2, <2>1 DEF PidInv, UnlinksItsOwn
<1>6. NoneIsLost'
  BY <1>2, <1>3, <1>4 DEF NoneIsLost
<1>7. NamesLastDaemon'
  BY <1>2, <1>3, <1>4 DEF PidInv, PidTypes, NamesLastDaemon
<1> QED
  BY <1>1, <1>5, <1>6, <1>7 DEF PidInv

LEMMA NextPidInv == PidInv /\ [Next]_vars => PidInv'
<1> SUFFICES ASSUME PidInv, [Next]_vars PROVE PidInv'
  OBVIOUS
<1> USE DEF pidVars, mapVars
<1>1. CASE UNCHANGED vars
  BY <1>1 DEF vars, PidInv, PidTypes, UnlinksItsOwn, NoneIsLost, NamesLastDaemon
<1>2. CASE OpenForReading \/ ReadMap
  BY <1>2 DEF OpenForReading, ReadMap, PidInv, PidTypes, UnlinksItsOwn, NoneIsLost,
              NamesLastDaemon
<1>3. ASSUME NEW p \in Pids, StartDaemon(p) PROVE PidInv'
  BY <1>3, MovesKeepPidInv DEF StartDaemon, Places
<1>4. ASSUME NEW p \in Pids, Stat(p) PROVE PidInv'
  BY <1>4, MovesKeepPidInv DEF Stat, Places
<1>5. ASSUME NEW p \in Pids, OldFileVanished(p) PROVE PidInv'
  BY <1>5, MovesKeepPidInv DEF OldFileVanished, Refuse, Places
<1>6. ASSUME NEW p \in Pids, ReadOld(p) PROVE PidInv'
  BY <1>6, MovesKeepPidInv DEF ReadOld, Places
<1>7. ASSUME NEW p \in Pids, OldIsAnothers(p) PROVE PidInv'
  BY <1>7, MovesKeepPidInv DEF OldIsAnothers, Refuse, Places
<1>8. ASSUME NEW p \in Pids, Probe(p) PROVE PidInv'
  BY <1>8, MovesKeepPidInv DEF Probe, Places
<1>9. ASSUME NEW p \in Pids, CreatePidfile(p) PROVE PidInv'
  BY <1>9, CreateKeepsPidInv
<1>10. ASSUME NEW p \in Pids, WritePid(p) PROVE PidInv'
  BY <1>10, WriteKeepsPidInv
<1>11. ASSUME NEW p \in Pids, WritePidLost(p) PROVE PidInv'
  BY <1>11, WriteLostKeepsPidInv
<1>12. ASSUME NEW p \in Pids, Ends(p) PROVE PidInv'
  BY <1>12, MovesKeepPidInv DEF Ends, Places
<1>13. ASSUME NEW p \in Pids, Throws(p) PROVE PidInv'
  BY <1>13, MovesKeepPidInv DEF Throws, Places, Live
<1>14. ASSUME NEW p \in Pids, Compare(p) PROVE PidInv'
  BY <1>14, CompareKeepsPidInv
<1>15. ASSUME NEW p \in Pids, Unlink(p) PROVE PidInv'
  BY <1>15, UnlinkKeepsPidInv
<1>16. ASSUME NEW p \in Pids, StrangerComes(p) PROVE PidInv'
  BY <1>16, MovesKeepPidInv DEF StrangerComes, Places
<1>17. ASSUME NEW p \in Pids, StrangerGoes(p) PROVE PidInv'
  BY <1>17, MovesKeepPidInv DEF StrangerGoes, Places
<1>18. ASSUME NEW p \in Pids, OpenMap(p) PROVE PidInv'
  BY <1>18, MovesKeepPidInv DEF OpenMap, Running, Live, Places
<1>19. ASSUME NEW p \in Pids, Publish(p) PROVE PidInv'
  BY <1>19 DEF Publish, PidInv, PidTypes, UnlinksItsOwn, NoneIsLost, NamesLastDaemon
<1> QED
  BY <1>1, <1>2, <1>3, <1>4, <1>5, <1>6, <1>7, <1>8, <1>9, <1>10, <1>11, <1>12, <1>13,
     <1>14, <1>15, <1>16, <1>17, <1>18, <1>19 DEF Next

\* The daemon that started last is the one the pid file names, for any number
\* of daemons that overlap, die and reuse pids (Daemon.cc, Pidfile.cc).
THEOREM LastDaemonIsNamed == Spec => []NamesLastDaemon
<1>1. PidInv => NamesLastDaemon
  BY DEF PidInv
<1> QED
  BY InitPidInv, NextPidInv, <1>1, PTL DEF Spec

-----------------------------------------------------------------------------
(* The map file                                                            *)

LEMMA InitMapInv == Init => MapInv
<1> SUFFICES ASSUME Init PROVE MapInv
  OBVIOUS
<1>1. MapTypes
  BY HostAssumption DEF Init, MapTypes, No, HostAssumption
<1> QED
  BY <1>1 DEF Init, MapInv, MapIsOnePacket, OnePacket, OpenedIsThere, No

\* Entries added to a cleared Mapfile are those of the packet.
LEMMA AddIsOfPacket ==
  ASSUME NEW names \in SUBSET Fields, NEW packet \in 1..MaxPackets
  PROVE  /\ Add({}, names, packet) \in SUBSET [name : Fields, packet : 1..MaxPackets]
         /\ \A e \in Add({}, names, packet) : e.packet = packet
BY DEF Add

LEMMA PublishKeepsMapInv ==
  ASSUME MapInv, NEW p \in Pids, Publish(p)
  PROVE  MapInv'
<1>1. PICK readable \in SUBSET Fields :
        data' = [data EXCEPT ![p] = Add({}, readable, packets')]
  BY DEF Publish
<1>2. /\ map' = Full(data'[p], packets') /\ reader' = reader
      /\ packets < MaxPackets /\ packets' = packets + 1
  BY DEF Publish
<1>3. packets' \in 1..MaxPackets
  BY <1>2, HostAssumption DEF MapInv, MapTypes, HostAssumption
<1>4. data'[p] = Add({}, readable, packets')
  BY <1>1 DEF MapInv, MapTypes
<1>5. MapTypes'
  <2>1. data' \in [Pids -> SUBSET [name : Fields, packet : 1..MaxPackets]]
    BY <1>1, <1>3, AddIsOfPacket DEF MapInv, MapTypes
  <2> QED
    BY <1>2, <1>3, <2>1 DEF MapInv, MapTypes, Full
<1>6. OnePacket(map)'
  BY <1>2, <1>3, <1>4, AddIsOfPacket DEF OnePacket, Full
<1> QED
  BY <1>2, <1>5, <1>6 DEF MapInv, MapIsOnePacket, OnePacket, OpenedIsThere, Full

LEMMA NextMapInv == MapInv /\ [Next]_vars => MapInv'
<1> SUFFICES ASSUME MapInv, [Next]_vars PROVE MapInv'
  OBVIOUS
<1>1. CASE UNCHANGED mapVars
  BY <1>1 DEF mapVars, MapInv, MapTypes, MapIsOnePacket, OnePacket, OpenedIsThere
<1>2. ASSUME NEW p \in Pids, OpenMap(p) PROVE MapInv'
  BY <1>2 DEF OpenMap, MapInv, MapTypes, MapIsOnePacket, OnePacket, OpenedIsThere, No
<1>3. ASSUME NEW p \in Pids, Ends(p) PROVE MapInv'
  BY <1>3 DEF Ends, MapInv, MapTypes, MapIsOnePacket, OnePacket, OpenedIsThere
<1>4. ASSUME NEW p \in Pids, Publish(p) PROVE MapInv'
  BY <1>4, PublishKeepsMapInv
<1>5. CASE OpenForReading
  BY <1>5 DEF OpenForReading, MapInv, MapTypes, MapIsOnePacket, OnePacket, OpenedIsThere, No
<1>6. CASE ReadMap
  BY <1>6 DEF ReadMap, MapInv, MapTypes, MapIsOnePacket, OnePacket, OpenedIsThere, No
<1> QED
  BY <1>1, <1>2, <1>3, <1>4, <1>5, <1>6
  DEF Next, vars, StartDaemon, Stat, OldFileVanished, ReadOld, OldIsAnothers, Refuse,
      Probe, CreatePidfile, WritePid, WritePidLost, Throws, Compare, Unlink,
      StrangerComes, StrangerGoes

\* The map file and what meteomap read of it are the fields of one packet
\* (Mapfile.cc), for any number of fields, packets and children.
THEOREM MapHasOnePacket == Spec => []MapIsOnePacket
<1>1. MapInv => MapIsOnePacket
  BY DEF MapInv
<1> QED
  BY InitMapInv, NextMapInv, <1>1, PTL DEF Spec

-----------------------------------------------------------------------------
(* Types                                                                   *)

OtherTypes ==
  /\ program \in Programs
  /\ old \in [Pids -> Pids \cup {None, Empty}]
  /\ starts \in 0..MaxStarts

LEMMA NextOtherTypes == PidTypes /\ OtherTypes /\ [Next]_vars => OtherTypes'
<1> SUFFICES ASSUME PidTypes, OtherTypes, [Next]_vars PROVE OtherTypes'
  OBVIOUS
<1>1. CASE UNCHANGED <<program, old, starts>>
  BY <1>1 DEF OtherTypes
<1>2. ASSUME NEW p \in Pids, StartDaemon(p) PROVE OtherTypes'
  BY <1>2, HostAssumption DEF StartDaemon, OtherTypes, HostAssumption
<1>3. ASSUME NEW p \in Pids, ReadOld(p) PROVE OtherTypes'
  BY <1>3 DEF ReadOld, OtherTypes, PidTypes
<1> QED
  BY <1>1, <1>2, <1>3
  DEF Next, vars, pidVars, mapVars, Stat, OldFileVanished, OldIsAnothers, Refuse,
      Probe, CreatePidfile, WritePid, WritePidLost, Ends, Throws, Compare, Unlink,
      StrangerComes, StrangerGoes, OpenMap, Publish, OpenForReading, ReadMap

\* The variables of the files and the daemons keep their types.
THEOREM TypeCorrect == Spec => []TypeOK
<1>1. Init => OtherTypes
  BY HostAssumption DEF Init, OtherTypes, HostAssumption
<1>2. PidInv /\ OtherTypes /\ [Next]_vars => OtherTypes'
  BY NextOtherTypes DEF PidInv
<1>3. PidInv /\ MapInv /\ OtherTypes => TypeOK
  BY DEF PidInv, MapInv, PidTypes, MapTypes, OtherTypes, Places, TypeOK
<1> QED
  BY InitPidInv, NextPidInv, InitMapInv, NextMapInv, <1>1, <1>2, <1>3, PTL DEF Spec
=============================================================================
