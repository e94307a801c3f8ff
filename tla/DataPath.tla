------------------------------ MODULE DataPath ------------------------------
(***************************************************************************)
(* The way of a reading from the station into the table sdata: the polling *)
(* loop of meteopoll with its recorders and its QueryOutlet, the System V  *)
(* message queue, the process meteodequeue, and the database server; or,   *)
(* with the other data sink, from the child of meteopoll to the server.    *)
(*                                                                         *)
(* Time is counted in minutes, the unit of Timeval::getMinute and, times   *)
(* 60, of Timeval::getTimekey.  What a recorder holds is the set of the    *)
(* packets that went into its value since the last reset; a packet counts  *)
(* for the minute the loop reads off the clock after it.  Meteopoll.tla    *)
(* shows that the child here is the only one at any time.                  *)
(***************************************************************************)
EXTENDS Integers, Sequences, FiniteSets

CONSTANTS Fields,         \* the recorders, in the order they are sent
          Plain,          \* those that also send when they hold no value
          Preferences,    \* the data sinks asked for, in this order (option -b)
          QueueMax,       \* messages the kernel's queue takes
          AutoReconnect,  \* whether the client library reconnects by itself
          MaxMinute, MaxPackets, MaxDeaths, MaxCrashes, MaxOutages,
          MaxSetBacks,
          MaxFaults       \* bounds on what may happen in a behaviour, and in all

ASSUME DataPathAssumption ==
  /\ Fields \subseteq Nat
  /\ Plain \subseteq Fields
  /\ AutoReconnect \in BOOLEAN
  /\ {QueueMax, MaxMinute, MaxPackets, MaxDeaths, MaxCrashes, MaxOutages,
      MaxSetBacks, MaxFaults} \subseteq Nat

VARIABLES sink,     \* what DatasinkFactory made of the preferences
          now,      \* the minute the clock shows
          at,       \* at[p]: the minute in which packet p was read
          ticked,   \* a minute began since alarm() was last called
          child,    \* "down", "starting", "loop", "flush"
          minute,   \* local variable of loop()
          tk,       \* the timekey given to sendOutlets
          rec,      \* rec[f]: packets in the recorder of field f
          batch,    \* rows the QueryOutlet has still to send
          queue,    \* the messages in the queue
          deq,      \* "down", "up": the process meteodequeue
          hand,     \* the message meteodequeue took and performs, if any
          table,    \* rows of sdata
          up,       \* the database server answers
          server,   \* number of the server's current incarnation
          conn,     \* rwmysql of each process: 0 or an incarnation
          sent,     \* rows given to the data sink so far
          taken,    \* the readings that reached a recorder
          drops, deaths, crashes, outages, setbacks   \* counts

world == <<sink, now, at>>
loopVars == <<ticked, child, minute, tk, rec, batch>>
database == <<table, up, server>>
counts == <<drops, deaths, crashes, outages, setbacks>>
vars == <<world, loopVars, queue, deq, hand, database, conn, sent, taken,
          counts>>

Row == [tk : Nat, field : Fields, packets : SUBSET Nat]

SameKey(r, s) == r.tk = s.tk /\ r.field = s.field

\* DatasinkFactory::newDatasink: the first of the preferences that can be
\* made.  A queue needs the file its key is made from, a file must be opened,
\* a connection is not tried before the first query; a preference of no known
\* name is passed over.  Without any an exception ends the child
newDatasink(preferences, works) ==
  LET made == {i \in DOMAIN preferences :
                 \/ preferences[i] \in {"msgqueue", "file"} \cap works
                 \/ preferences[i] \in {"mysql", "debug"}}
  IN  {preferences[i] : i \in {k \in made : \A j \in made : k <= j}}

\* file and debug sinks are left out
Init ==
  /\ \E works \in SUBSET {"msgqueue", "file"} :
       sink \in newDatasink(Preferences, works) \cap {"msgqueue", "mysql"}
  /\ now = 0 /\ at = <<>> /\ ticked = FALSE
  /\ child = "down" /\ minute = 0 /\ tk = 0
  /\ rec = [f \in Fields |-> {}] /\ batch = {}
  /\ queue = <<>> /\ deq = "down" /\ hand = {}
  /\ table = {} /\ up = TRUE /\ server = 1
  /\ conn = [p \in {"poll", "deq"} |-> 0]
  /\ sent = {} /\ taken = {}
  /\ drops = 0 /\ deaths = 0 /\ crashes = 0 /\ outages = 0 /\ setbacks = 0

\* the bound on faults of each kind, and on all of them
MayFail(count, max) ==
  count < max /\ deaths + crashes + outages + setbacks < MaxFaults

-----------------------------------------------------------------------------
(* The clock.  Once the loop runs, an alarm of ten seconds is pending      *)
(* until the next packet has been dealt with: at most one minute can begin *)
(* in between, or the child is killed (ChildDies).                         *)

AlarmAllows == child \in {"loop", "flush"} => ~ticked

Tick ==
  /\ now < MaxMinute
  /\ AlarmAllows
  /\ now' = now + 1
  /\ ticked' = TRUE
  /\ UNCHANGED <<sink, at, child, minute, tk, rec, batch, queue, deq, hand,
                 database, conn, sent, taken, counts>>

\* The clock of the machine is set back.
SetBack ==
  /\ MayFail(setbacks, MaxSetBacks)
  /\ now > 0
  /\ now' = now - 1
  /\ setbacks' = setbacks + 1
  /\ UNCHANGED <<sink, at, loopVars, queue, deq, hand, database, conn, sent, taken,
                 drops, deaths, crashes, outages>>

-----------------------------------------------------------------------------
(* The child of meteopoll                                                  *)

\* mutant of StartMinute: a new child takes the current minute as new
StartBefore == now - 1

StartMinute == now

StartChild ==
  /\ child = "down"
  /\ child' = "starting"
  /\ minute' = StartMinute
  /\ rec' = [f \in Fields |-> {}]
  /\ batch' = {}
  /\ conn' = [conn EXCEPT !["poll"] = 0]
  /\ UNCHANGED <<world, ticked, tk, queue, deq, hand, database, sent, taken,
                 counts>>

\* startLoop and the first call of alarm(); nothing limits the time before
StartLoop ==
  /\ child = "starting"
  /\ child' = "loop"
  /\ ticked' = FALSE
  /\ UNCHANGED <<world, minute, tk, rec, batch, queue, deq, hand, database, conn,
                 sent, taken, counts>>

\* The rows sendOutlet puts into the batch: recorders without a value send
\* nothing, except those that are bare BasicRecorders.
Rows(r, t) ==
  {[tk |-> t, field |-> f, packets |-> r[f]] :
      f \in {g \in Fields : r[g] # {} \/ g \in Plain}}

\* The recorders after packet p, in which the fields of S can be read; a
\* field that cannot be read is skipped.
Updated(S, p) ==
  [f \in Fields |-> IF f \in S THEN rec[f] \cup {p} ELSE rec[f]]

Packet(S) ==
  LET p == Len(at) + 1
  IN /\ child = "loop"
     /\ Len(at) < MaxPackets
     /\ at' = Append(at, now)
     /\ rec' = Updated(S, p)
     /\ taken' = taken \cup {[packet |-> p, field |-> f] : f \in S}
     /\ \/ /\ now = minute
           /\ ticked' = FALSE
           /\ UNCHANGED <<child, tk, batch>>
        \/ /\ now # minute
           /\ child' = "flush"
           /\ tk' = now
           /\ batch' = Rows(rec', now)
           /\ UNCHANGED ticked
     /\ UNCHANGED <<sink, now, minute, queue, deq, hand, database, conn, sent,
                    counts>>

\* The query of the first field in the batch is sent next.
IsNext(r) == r \in batch /\ \A s \in batch : r.field <= s.field

Queued(r) ==
  \/ /\ Len(queue) < QueueMax
     /\ queue' = Append(queue, r)
     /\ UNCHANGED drops
  \/ /\ Len(queue) >= QueueMax
     /\ drops' = drops + 1
     /\ UNCHANGED queue

\* QueueDatasink::receive: a message that does not fit is logged and lost
SendToQueue ==
  /\ sink = "msgqueue"
  /\ child = "flush"
  /\ \E r \in batch :
        /\ IsNext(r)
        /\ batch' = batch \ {r}
        /\ sent' = sent \cup {r}
        /\ Queued(r)
  /\ UNCHANGED <<world, ticked, child, minute, tk, rec, deq, hand, database, conn,
                 taken, deaths, crashes, outages, setbacks>>

Usable(p) == up /\ (conn[p] = server \/ AutoReconnect)

Insertable(r) == \A s \in table : ~SameKey(r, s)

\* MysqlDatasink::receive: connect once, then insert
PollConnect ==
  /\ sink = "mysql"
  /\ child = "flush" /\ batch # {}
  /\ conn["poll"] = 0
  /\ up
  /\ conn' = [conn EXCEPT !["poll"] = server]
  /\ UNCHANGED <<world, loopVars, queue, deq, hand, database, sent, taken, counts>>

PollInsert ==
  /\ sink = "mysql"
  /\ child = "flush"
  /\ conn["poll"] # 0
  /\ Usable("poll")
  /\ \E r \in batch :
        /\ IsNext(r)
        /\ Insertable(r)
        /\ batch' = batch \ {r}
        /\ sent' = sent \cup {r}
        /\ table' = table \cup {r}
  /\ UNCHANGED <<world, ticked, child, minute, tk, rec, queue, deq, hand, up,
                 server, conn, taken, counts>>

\* mutant of AfterError: the exception is logged and the loop goes on
AfterErrorGoesOn(r) ==
  /\ batch' = batch \ {r}
  /\ UNCHANGED <<child, deaths>>

AfterError(r) ==
  /\ child' = "down"
  /\ batch' = {}
  /\ deaths' = deaths + 1

\* An exception of the query processor ends the child.
PollQueryFails ==
  /\ sink = "mysql"
  /\ child = "flush"
  /\ \E r \in batch :
        /\ IsNext(r)
        /\ IF conn["poll"] = 0 THEN ~up ELSE ~Usable("poll") \/ ~Insertable(r)
        /\ sent' = sent \cup {r}
        /\ AfterError(r)
  /\ UNCHANGED <<world, ticked, minute, tk, rec, queue, deq, hand, database, conn,
                 taken, drops, crashes, outages, setbacks>>

\* mutant of Cleared: the recorders are not reset
NotCleared == rec

Cleared == [f \in Fields |-> {}]

\* The outlet is flushed: Station::reset, and the loop goes on.
FlushDone ==
  /\ child = "flush"
  /\ batch = {}
  /\ rec' = Cleared
  /\ minute' = tk
  /\ child' = "loop"
  /\ ticked' = FALSE
  /\ UNCHANGED <<world, tk, batch, queue, deq, hand, database, conn, sent, taken,
                 counts>>

\* The alarm, a broken station or a signal; what it has not sent is lost.
ChildDies ==
  /\ child # "down"
  /\ MayFail(deaths, MaxDeaths)
  /\ child' = "down"
  /\ batch' = {}
  /\ deaths' = deaths + 1
  /\ UNCHANGED <<world, ticked, minute, tk, rec, queue, deq, hand, database, conn,
                 sent, taken, drops, crashes, outages, setbacks>>

-----------------------------------------------------------------------------
(* meteodequeue: qp.perform(mq()) for ever                                 *)

DeqStart ==
  /\ sink = "msgqueue"
  /\ deq = "down"
  /\ deq' = "up"
  /\ conn' = [conn EXCEPT !["deq"] = 0]
  /\ UNCHANGED <<world, loopVars, queue, hand, database, sent, taken, counts>>

\* mutant of Taken: the newest message first
TakenLast ==
  /\ hand' = {queue[Len(queue)]}
  /\ queue' = SubSeq(queue, 1, Len(queue) - 1)

Taken ==
  /\ hand' = {Head(queue)}
  /\ queue' = Tail(queue)

Receive ==
  /\ deq = "up" /\ hand = {}
  /\ queue # <<>>
  /\ Taken
  /\ UNCHANGED <<world, loopVars, deq, database, conn, sent, taken, counts>>

DeqConnect ==
  /\ hand # {}
  /\ conn["deq"] = 0
  /\ up
  /\ conn' = [conn EXCEPT !["deq"] = server]
  /\ UNCHANGED <<world, loopVars, queue, deq, hand, database, sent, taken, counts>>

Perform ==
  /\ conn["deq"] # 0
  /\ Usable("deq")
  /\ \E r \in hand : Insertable(r) /\ table' = table \cup {r}
  /\ hand' = {}
  /\ UNCHANGED <<world, loopVars, queue, deq, up, server, conn, sent, taken,
                 counts>>

\* mutant of AfterFailure: the message is tried again until it is accepted
KeepTrying == UNCHANGED hand

AfterFailure == hand' = {}

\* The exception is logged, and the message is gone.
PerformFails ==
  /\ hand # {}
  /\ IF conn["deq"] = 0
       THEN ~up
       ELSE ~Usable("deq") \/ \E r \in hand : ~Insertable(r)
  /\ AfterFailure
  /\ UNCHANGED <<world, loopVars, queue, deq, database, conn, sent, taken, counts>>

DeqCrash ==
  /\ deq = "up"
  /\ MayFail(crashes, MaxCrashes)
  /\ deq' = "down"
  /\ hand' = {}
  /\ crashes' = crashes + 1
  /\ UNCHANGED <<world, loopVars, queue, database, conn, sent, taken, drops, deaths,
                 outages, setbacks>>

-----------------------------------------------------------------------------
(* The database server                                                     *)

ServerDown ==
  /\ up
  /\ MayFail(outages, MaxOutages)
  /\ up' = FALSE
  /\ outages' = outages + 1
  /\ UNCHANGED <<world, loopVars, queue, deq, hand, table, server, conn, sent, taken,
                 drops, deaths, crashes, setbacks>>

ServerUp ==
  /\ ~up
  /\ up' = TRUE
  /\ server' = server + 1
  /\ UNCHANGED <<world, loopVars, queue, deq, hand, table, conn, sent, taken, counts>>

-----------------------------------------------------------------------------
PollNext ==
  \/ StartChild \/ StartLoop \/ \E S \in SUBSET Fields : Packet(S)
  \/ SendToQueue \/ PollConnect \/ PollInsert \/ PollQueryFails
  \/ FlushDone \/ ChildDies

DeqNext ==
  \/ DeqStart \/ Receive \/ DeqConnect \/ Perform \/ PerformFails \/ DeqCrash

Next == Tick \/ SetBack \/ PollNext \/ DeqNext \/ ServerDown \/ ServerUp

Spec == Init /\ [][Next]_vars

\* meteodequeue runs its loop whenever it can and somebody restarts it; the
\* server comes back.  Nothing is assumed of the station or of meteopoll.
Fairness ==
  /\ WF_vars(DeqStart) /\ WF_vars(Receive)
  /\ WF_vars(DeqConnect \/ Perform \/ PerformFails)
  /\ WF_vars(ServerUp)

FairSpec == Spec /\ Fairness

-----------------------------------------------------------------------------
(* Properties                                                              *)

TypeOK ==
  /\ sink \in {"msgqueue", "mysql"}
  /\ now \in Nat /\ at \in Seq(Nat) /\ ticked \in BOOLEAN
  /\ child \in {"down", "starting", "loop", "flush"}
  /\ minute \in Nat /\ tk \in Nat
  /\ rec \in [Fields -> SUBSET Nat]
  /\ batch \subseteq Row
  /\ queue \in Seq(Row) /\ Len(queue) <= QueueMax
  /\ deq \in {"down", "up"} /\ hand \subseteq Row
  /\ table \subseteq Row /\ up \in BOOLEAN /\ server \in Nat
  /\ conn \in [{"poll", "deq"} -> Nat]
  /\ sent \subseteq Row
  /\ taken \subseteq [packet : Nat, field : Fields]
  /\ {drops, deaths, crashes, outages, setbacks} \subseteq Nat

Messages(q) == {q[i] : i \in 1..Len(q)}
InQueue == Messages(queue)

\* As long as the clock is not set back, no two rows that were ever sent
\* have the same primary key, whatever children they come from: no insert
\* is refused as a duplicate (meteopoll.cc, the variable minute).
OneRowPerKey ==
  setbacks = 0 => \A r, s \in sent \cup batch : SameKey(r, s) => r = s

\* A row of timekey tk holds readings of the minute before tk, and of one
\* packet of the minute tk, the one that made the loop notice the minute's
\* end; the alarm keeps older packets out.
RowCoversMinute ==
  setbacks = 0 =>
    \A r \in sent : \A p, q \in r.packets :
       /\ at[p] \in {r.tk - 1, r.tk}
       /\ at[p] = r.tk /\ at[q] = r.tk => p = q

\* Rows are what the table takes them for: one for each field and timekey,
\* made of the readings of that minute.
MinuteRows == OneRowPerKey /\ RowCoversMinute

\* A reading is averaged into one row only, even across children: the
\* recorders are reset exactly when their rows have been sent.
EachReadingOnce ==
  \A r, s \in sent \cup batch :
     r.field = s.field /\ r # s => r.packets \cap s.packets = {}

InRow(p, f) == \E r \in sent \cup batch : r.field = f /\ p \in r.packets

\* Unless a child dies, every reading a recorder took is still in it or in
\* a row that was sent or is about to be.
NoReadingForgotten ==
  deaths = 0 =>
    \A x \in taken :
       x.packet \in rec[x.field] \/ InRow(x.packet, x.field)

\* Every reading goes into exactly one row, whichever child sends it, or is
\* still to come: nothing is averaged twice, and nothing is forgotten unless
\* a child dies (meteopoll.cc, loop; Station::reset).
ReadingsUsedOnce == EachReadingOnce /\ NoReadingForgotten

\* Behind the queue, while the server is up and the clock runs forward, the
\* rows lost are at most one for every crash of meteodequeue and one for
\* every message that met a full queue: the death of a child loses none.
QueueLossBounded ==
  sink = "msgqueue" /\ outages = 0 /\ setbacks = 0 =>
    Cardinality(sent \ (table \cup InQueue \cup hand)) <= crashes + drops

\* With the direct sink a row that was sent is in the table, except one for
\* every time a child died of it.
DirectLossBounded ==
  sink = "mysql" => Cardinality(sent \ table) <= deaths

\* However deaths, crashes and full queues are timed, each costs at most one
\* row that was handed to the data sink.
LossBounded == QueueLossBounded /\ DirectLossBounded

\* Rows reach the table in the order of their timekeys, through the queue
\* and across restarts of either process.
StoredInOrder ==
  [][setbacks = 0 =>
       \A r \in table' \ table, s \in table : s.tk <= r.tk]_vars

(***************************************************************************)
(* Loop, queue, dequeuer and server together, with either data sink, serve *)
(* the table as Sdata describes it.                                        *)
(***************************************************************************)
Coming == IF hand = {} THEN queue ELSE <<CHOOSE r \in hand : TRUE>> \o queue

Service == INSTANCE Sdata WITH coming <- Coming, stored <- table,
                               faults <- drops + deaths + crashes,
                               forward <- setbacks = 0, steady <- outages = 0

ImplementsSdata == Service!Spec

StoredKey(t, f) == \E r \in table : r.tk = t /\ r.field = f
QueuedKey(t, f) == \E r \in InQueue : r.tk = t /\ r.field = f

\* What is queued when the server is back for good and meteodequeue crashes
\* no more is stored: no message that cannot be stored blocks the others. It
\* takes a client library that reconnects by itself, since connect() keeps
\* the first handle for ever (QueryProcessor.cc, "make sure we have a
\* connection").
Settled == up /\ ~MayFail(outages, MaxOutages) /\ ~MayFail(crashes, MaxCrashes)
StoredAfterRecovery ==
  \A t \in 1..MaxMinute, f \in Fields :
     QueuedKey(t, f) /\ Settled ~> StoredKey(t, f)
=============================================================================
