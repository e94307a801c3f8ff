--------------------------- MODULE DataPathProofs ---------------------------
(***************************************************************************)
(* What becomes of a reading on its way to the table, for every number of  *)
(* recorders, packets, minutes, deaths, crashes and outages, and, in the   *)
(* second part, when the table is copied.                                  *)
(***************************************************************************)
EXTENDS DataPath, Copying, FiniteSetTheorems, SequenceTheorems, TLAPS

All == sent \cup batch

Pending == InQueue \cup hand

\* A batch exists only while it is flushed; rows come from the batch.
Shape ==
  /\ child # "flush" => batch = {}
  /\ deq = "down" => hand = {}
  /\ sink # "msgqueue" => queue = <<>> /\ hand = {}
  /\ table \cup Pending \subseteq sent
  /\ \A r, s \in hand : r = s

\* Recorders hold packets no row has, except those being flushed.
ReadingInv ==
  /\ \A f \in Fields : rec[f] \subseteq 1..Len(at)
  /\ \A r \in All : r.packets \subseteq 1..Len(at)
  /\ child \in {"starting", "loop"} =>
        \A r \in sent : r.packets \cap rec[r.field] = {}
  /\ EachReadingOnce

\* What a recorder holds during a flush is in a row.
ForgottenInv ==
  /\ child = "flush" => \A f \in Fields : \A p \in rec[f] : InRow(p, f)
  /\ child = "down" /\ deaths = 0 => taken = {}
  /\ NoReadingForgotten

\* The loop's variable minute is ahead of every timekey in use.
KeyInv ==
  setbacks = 0 =>
    /\ minute <= now /\ tk <= now
    /\ \A r \in sent : r.tk <= now
    /\ child \in {"starting", "loop"} => \A r \in sent : r.tk <= minute
    /\ child = "flush" => /\ \A r \in sent : r.tk <= tk
                          /\ \A r \in batch : r.tk = tk
    /\ \A r, s \in All : SameKey(r, s) => r = s

\* Readings are at most as old as the minute before the clock's, and the
\* alarm guarantees it.
MinuteInv ==
  setbacks = 0 =>
    /\ child = "loop" =>
          \A f \in Fields : \A p \in rec[f] :
             at[p] = minute /\ now = IF ticked THEN minute + 1 ELSE minute
    /\ child = "starting" => \A f \in Fields : rec[f] = {}
    /\ \A r \in All : \A p, q \in r.packets :
          /\ at[p] \in {r.tk - 1, r.tk}
          /\ at[p] = r.tk /\ at[q] = r.tk => p = q

\* The rows on their way are in order, behind those of the table.
OrderInv ==
  setbacks = 0 =>
    /\ \A s \in table, r \in Pending : s.tk <= r.tk
    /\ \A r \in hand, s \in InQueue : r.tk <= s.tk
    /\ \A i, j \in 1..Len(queue) : i < j => queue[i].tk <= queue[j].tk

\* No row is in two places.
PlaceInv ==
  setbacks = 0 =>
    /\ sent \cap batch = {}
    /\ table \cap Pending = {}
    /\ hand \cap InQueue = {}
    /\ \A i, j \in 1..Len(queue) : i < j => queue[i] # queue[j]

ServerInv ==
  outages = 0 => up /\ server = 1 /\ \A p \in {"poll", "deq"} : conn[p] \in {0, 1}

LossInv ==
  /\ IsFiniteSet(sent)
  /\ QueueLossBounded
  /\ DirectLossBounded

IInv ==
  /\ TypeOK /\ Shape /\ ReadingInv /\ ForgottenInv /\ KeyInv /\ MinuteInv
  /\ OrderInv /\ PlaceInv /\ ServerInv /\ LossInv

-----------------------------------------------------------------------------
(* Sequences                                                               *)

\* What is left of a queue without its first message.
LEMMA TailFacts ==
  ASSUME NEW S, NEW q \in Seq(S), q # <<>>
  PROVE  /\ Len(q) \in Nat \ {0}
         /\ Head(q) = q[1] /\ Head(q) \in S
         /\ Tail(q) \in Seq(S)
         /\ Len(Tail(q)) = Len(q) - 1
         /\ \A i \in 1..Len(Tail(q)) : Tail(q)[i] = q[i + 1]
  OBVIOUS

\* A queue with a message more.
LEMMA AppendFacts ==
  ASSUME NEW S, NEW q \in Seq(S), NEW e \in S
  PROVE  /\ Append(q, e) \in Seq(S)
         /\ Len(Append(q, e)) = Len(q) + 1
         /\ \A i \in 1..Len(q) : Append(q, e)[i] = q[i]
         /\ Append(q, e)[Len(q) + 1] = e
  OBVIOUS

\* The same for the sets of messages.
LEMMA MessagesFacts ==
  ASSUME NEW q \in Seq(Row), NEW e \in Row
  PROVE  /\ Messages(Append(q, e)) = Messages(q) \cup {e}
         /\ q # <<>> => Messages(q) = Messages(Tail(q)) \cup {Head(q)}
<1>1. Messages(Append(q, e)) = Messages(q) \cup {e}
  <2>1. Len(q) \in Nat
    OBVIOUS
  <2>2. 1..Len(Append(q, e)) = 1..Len(q) \cup {Len(q) + 1}
    BY <2>1, AppendFacts
  <2> QED
    BY <2>1, <2>2, AppendFacts DEF Messages
<1>2. ASSUME q # <<>> PROVE Messages(q) = Messages(Tail(q)) \cup {Head(q)}
  <2>1. /\ Len(q) \in Nat \ {0} /\ Head(q) = q[1]
        /\ Len(Tail(q)) = Len(q) - 1
        /\ \A i \in 1..Len(Tail(q)) : Tail(q)[i] = q[i + 1]
    BY <1>2, TailFacts
  <2>2. ASSUME NEW i \in 1..Len(q), i # 1
        PROVE  i - 1 \in 1..Len(Tail(q)) /\ Tail(q)[i - 1] = q[i]
    BY <2>1, <2>2
  <2>3. \A i \in 1..Len(Tail(q)) : i + 1 \in 1..Len(q)
    BY <2>1
  <2>4. 1 \in 1..Len(q)
    BY <2>1
  <2>5. ASSUME NEW m \in Messages(q) PROVE m \in Messages(Tail(q)) \cup {Head(q)}
    <3>1. PICK i \in 1..Len(q) : m = q[i]
      BY DEF Messages
    <3>2. CASE i = 1
      BY <2>1, <3>1, <3>2
    <3>3. CASE i # 1
      BY <2>2, <3>1, <3>3 DEF Messages
    <3> QED
      BY <3>2, <3>3
  <2>6. Head(q) \in Messages(q)
    BY <2>1, <2>4 DEF Messages
  <2>7. ASSUME NEW m \in Messages(Tail(q)) PROVE m \in Messages(q)
    <3>1. PICK i \in 1..Len(Tail(q)) : m = Tail(q)[i]
      BY DEF Messages
    <3> QED
      BY <2>1, <2>3, <3>1 DEF Messages
  <2> QED
    BY <2>5, <2>6, <2>7
<1> QED
  BY <1>1, <1>2

\* What msgsnd does to the queue.
LEMMA QueuedFacts ==
  ASSUME queue \in Seq(Row), drops \in Nat, Len(queue) <= QueueMax,
         NEW r \in Row, Queued(r)
  PROVE  /\ queue' \in Seq(Row) /\ Len(queue') <= QueueMax /\ drops' \in Nat
         /\ \/ queue' = queue /\ drops' = drops + 1
            \/ queue' = Append(queue, r) /\ drops' = drops
         /\ Messages(queue') \subseteq Messages(queue) \cup {r}
<1>1. QueueMax \in Nat /\ Len(queue) \in Nat
  BY DataPathAssumption
<1>2. \/ queue' = queue /\ drops' = drops + 1
      \/ queue' = Append(queue, r) /\ drops' = drops /\ Len(queue) < QueueMax
  BY Zenon DEF Queued
<1>3. Len(Append(queue, r)) = Len(queue) + 1 /\ Append(queue, r) \in Seq(Row)
      /\ Messages(Append(queue, r)) = Messages(queue) \cup {r}
  BY AppendFacts, MessagesFacts
<1>4. CASE queue' = queue /\ drops' = drops + 1
  BY <1>4
<1>5. CASE queue' = Append(queue, r) /\ drops' = drops /\ Len(queue) < QueueMax
  <2>1. Len(queue) + 1 <= QueueMax
    BY <1>1, <1>5
  <2>2. Len(queue') <= QueueMax /\ queue' \in Seq(Row)
    BY <1>3, <1>5, <2>1
  <2>3. Messages(queue') = Messages(queue) \cup {r}
    BY <1>3, <1>5
  <2> QED
    BY <1>5, <2>2, <2>3
<1> QED
  BY <1>2, <1>4, <1>5

-----------------------------------------------------------------------------
(* Types                                                                   *)

LEMMA InitType == Init => TypeOK
<1> SUFFICES ASSUME Init PROVE TypeOK
  OBVIOUS
<1>1. QueueMax \in Nat
  BY DataPathAssumption
<1>2. queue \in Seq(Row) /\ Len(queue) <= QueueMax /\ at \in Seq(Nat)
  BY <1>1 DEF Init
<1>3. up \in BOOLEAN /\ ticked \in BOOLEAN
  BY Zenon DEF Init
<1> QED
  BY <1>2, <1>3 DEF Init, TypeOK

LEMMA RowsType ==
  ASSUME NEW r \in [Fields -> SUBSET Nat], NEW u \in Nat
  PROVE  Rows(r, u) \subseteq Row
  BY DEF Rows, Row

LEMMA TypeStep == TypeOK /\ [Next]_vars => TypeOK'
<1> SUFFICES ASSUME TypeOK, [Next]_vars PROVE TypeOK'
  OBVIOUS
<1> USE DEF TypeOK, world, loopVars, database, counts
<1>1. CASE Tick
  BY <1>1 DEF Tick
<1>2. CASE SetBack
  BY <1>2 DEF SetBack
<1>3. CASE StartChild
  BY <1>3 DEF StartChild, StartMinute
<1>4. CASE StartLoop
  BY <1>4 DEF StartLoop
<1>5. ASSUME NEW S \in SUBSET Fields, Packet(S) PROVE TypeOK'
  <2>1. Len(at) + 1 \in Nat /\ at' \in Seq(Nat)
    BY <1>5 DEF Packet
  <2>2. rec' \in [Fields -> SUBSET Nat] /\ taken' \subseteq [packet : Nat, field : Fields]
    BY <1>5, <2>1 DEF Packet, Updated
  <2>3. batch' \subseteq Row
    <3>1. batch' = batch \/ batch' = Rows(rec', now)
      BY <1>5 DEF Packet
    <3>2. now \in Nat /\ batch \subseteq Row
      OBVIOUS
    <3>3. Rows(rec', now) \subseteq Row
      <4> HIDE DEF TypeOK
      <4> QED
        BY <2>2, <3>2, RowsType
    <3> HIDE DEF TypeOK
    <3> QED
      BY <3>1, <3>2, <3>3, Zenon
  <2> QED
    BY <1>5, <2>1, <2>2, <2>3 DEF Packet
<1>6. CASE SendToQueue
  <2>1. PICK r \in batch : sent' = sent \cup {r} /\ batch' = batch \ {r} /\ Queued(r)
    BY <1>6 DEF SendToQueue
  <2>2. queue' \in Seq(Row) /\ Len(queue') <= QueueMax /\ drops' \in Nat
    BY <2>1, QueuedFacts
  <2> QED
    BY <1>6, <2>1, <2>2 DEF SendToQueue
<1>7. CASE PollConnect
  BY <1>7 DEF PollConnect
<1>8. CASE PollInsert
  BY <1>8 DEF PollInsert
<1>9. CASE PollQueryFails
  BY <1>9 DEF PollQueryFails, AfterError
<1>10. CASE FlushDone
  BY <1>10 DEF FlushDone, Cleared
<1>11. CASE ChildDies
  BY <1>11 DEF ChildDies
<1>12. CASE DeqStart
  BY <1>12 DEF DeqStart
<1>13. CASE Receive
  <2>1. Head(queue) \in Row /\ Tail(queue) \in Seq(Row)
        /\ Len(Tail(queue)) = Len(queue) - 1 /\ Len(queue) \in Nat
    BY <1>13, TailFacts DEF Receive
  <2>2. Len(queue') <= QueueMax
    BY <1>13, <2>1, DataPathAssumption DEF Receive, Taken
  <2> QED
    BY <1>13, <2>1, <2>2 DEF Receive, Taken
<1>14. CASE DeqConnect
  BY <1>14 DEF DeqConnect
<1>15. CASE Perform
  BY <1>15 DEF Perform
<1>16. CASE PerformFails
  BY <1>16 DEF PerformFails, AfterFailure
<1>17. CASE DeqCrash
  BY <1>17 DEF DeqCrash
<1>18. CASE ServerDown
  <2>1. up' \in BOOLEAN
    BY <1>18, Zenon DEF ServerDown
  <2>2. outages' \in Nat
    BY <1>18 DEF ServerDown
  <2> QED
    BY <1>18, <2>1, <2>2 DEF ServerDown
<1>19. CASE ServerUp
  BY <1>19 DEF ServerUp
<1>20. CASE UNCHANGED vars
  BY <1>20 DEF vars
<1> QED
  BY <1>1, <1>2, <1>3, <1>4, <1>5, <1>6, <1>7, <1>8, <1>9, <1>10, <1>11, <1>12,
       <1>13, <1>14, <1>15, <1>16, <1>17, <1>18, <1>19, <1>20 DEF Next,
       PollNext, DeqNext

-----------------------------------------------------------------------------
(* Where rows can be                                                       *)

LEMMA ShapeStep == TypeOK /\ Shape /\ [Next]_vars => Shape'
<1> SUFFICES ASSUME TypeOK, Shape, [Next]_vars PROVE Shape'
  OBVIOUS
<1> USE DEF Shape, Pending, InQueue, world, loopVars, database, counts
<1>0. queue \in Seq(Row) /\ batch \subseteq Row /\ drops \in Nat
      /\ Len(queue) <= QueueMax
  BY DEF TypeOK
<1>1. CASE SendToQueue
  <2>1. PICK r \in batch : sent' = sent \cup {r} /\ batch' = batch \ {r} /\ Queued(r)
    BY <1>1 DEF SendToQueue
  <2>2. Messages(queue') \subseteq Messages(queue) \cup {r}
    BY <1>0, <2>1, QueuedFacts
  <2> QED
    BY <1>1, <2>1, <2>2 DEF SendToQueue
<1>2. CASE Receive
  <2>1. Messages(queue) = Messages(queue') \cup hand'
    <3>1. Head(queue) \in Row
      BY <1>0, <1>2, TailFacts DEF Receive
    <3> QED
      BY <1>0, <1>2, <3>1, MessagesFacts DEF Receive, Taken
  <2> QED
    BY <1>2, <2>1 DEF Receive, Taken
<1>3. ASSUME NEW S \in SUBSET Fields, Packet(S) PROVE Shape'
  BY <1>3 DEF Packet
<1>4. CASE PollInsert
  BY <1>4 DEF PollInsert
<1>5. CASE PollQueryFails
  BY <1>5 DEF PollQueryFails, AfterError
<1>6. CASE Perform
  BY <1>6 DEF Perform
<1>7. CASE PerformFails
  BY <1>7 DEF PerformFails, AfterFailure
<1>8. CASE StartChild \/ StartLoop \/ FlushDone \/ ChildDies \/ DeqStart \/ DeqCrash
  BY <1>8 DEF StartChild, StartLoop, FlushDone, ChildDies, DeqStart, DeqCrash
<1>9. CASE Tick \/ SetBack \/ PollConnect \/ DeqConnect \/ ServerDown \/ ServerUp
  BY <1>9 DEF Tick, SetBack, PollConnect, DeqConnect, ServerDown, ServerUp
<1>10. CASE UNCHANGED vars
  BY <1>10 DEF vars
<1> QED
  BY <1>1, <1>2, <1>3, <1>4, <1>5, <1>6, <1>7, <1>8, <1>9, <1>10
  DEF Next, PollNext, DeqNext

-----------------------------------------------------------------------------
(* The life of a packet's readings                                         *)

\* The loop's step when a packet comes.
LEMMA PacketFacts ==
  ASSUME TypeOK, Shape, ReadingInv, NEW S \in SUBSET Fields, Packet(S)
  PROVE  /\ child = "loop" /\ batch = {}
         /\ Len(at) \in Nat /\ Len(at') = Len(at) + 1
         /\ \A i \in 1..Len(at) : at'[i] = at[i]
         /\ at'[Len(at) + 1] = now
         /\ \A f \in Fields : rec'[f] \subseteq rec[f] \cup {Len(at) + 1}
         /\ \A f \in Fields : rec[f] \subseteq rec'[f]
         /\ \A f \in S : Len(at) + 1 \in rec'[f]
         /\ \/ child' = "loop" /\ batch' = {} /\ now = minute /\ ticked' = FALSE
               /\ tk' = tk
            \/ /\ child' = "flush" /\ now # minute /\ tk' = now
               /\ batch' = Rows(rec', now)
         /\ UNCHANGED <<now, minute, sent, deaths, setbacks>>
         /\ taken' = taken \cup {[packet |-> Len(at) + 1, field |-> f] : f \in S}
<1>1. /\ child = "loop" /\ batch = {} /\ Len(at) \in Nat /\ now \in Nat
      /\ at \in Seq(Nat) /\ rec \in [Fields -> SUBSET Nat]
  BY DEF Packet, Shape, TypeOK
<1>2. /\ Len(at') = Len(at) + 1 /\ at'[Len(at) + 1] = now
      /\ \A i \in 1..Len(at) : at'[i] = at[i]
  BY <1>1, AppendFacts DEF Packet
<1>3. rec' = [f \in Fields |-> IF f \in S THEN rec[f] \cup {Len(at) + 1} ELSE rec[f]]
  BY DEF Packet, Updated
<1>4. /\ \A f \in Fields : rec'[f] \subseteq rec[f] \cup {Len(at) + 1}
      /\ \A f \in Fields : rec[f] \subseteq rec'[f]
      /\ \A f \in S : Len(at) + 1 \in rec'[f]
  BY <1>1, <1>3
<1>5. \/ child' = "loop" /\ batch' = {} /\ now = minute /\ ticked' = FALSE
         /\ tk' = tk
      \/ child' = "flush" /\ now # minute /\ tk' = now /\ batch' = Rows(rec', now)
  BY <1>1 DEF Packet
<1>6. /\ UNCHANGED <<now, minute, sent, deaths, setbacks>>
      /\ taken' = taken \cup {[packet |-> Len(at) + 1, field |-> f] : f \in S}
  BY DEF Packet, counts
<1> QED
  BY <1>1, <1>2, <1>4, <1>5, <1>6

\* Rows built from the recorders of all fields.
LEMMA RowsFacts ==
  ASSUME NEW q \in [Fields -> SUBSET Nat], NEW u
  PROVE  /\ \A r \in Rows(q, u) : r.field \in Fields /\ r.tk = u
                                  /\ r.packets = q[r.field]
         /\ \A r, s \in Rows(q, u) : r.field = s.field => r = s
         /\ \A f \in Fields : q[f] # {} =>
               \E r \in Rows(q, u) : r.field = f /\ r.packets = q[f]
<1>1. \A r \in Rows(q, u) : \E f \in Fields :
         r = [tk |-> u, field |-> f, packets |-> q[f]]
  BY DEF Rows
<1>2. \A f \in Fields : q[f] # {} =>
         [tk |-> u, field |-> f, packets |-> q[f]] \in Rows(q, u)
  BY DEF Rows
<1>3. \A r \in Rows(q, u) : r.field \in Fields /\ r.tk = u /\ r.packets = q[r.field]
  BY <1>1
<1>4. \A r, s \in Rows(q, u) : r.field = s.field => r = s
  BY <1>1
<1>5. ASSUME NEW f \in Fields, q[f] # {}
      PROVE  \E r \in Rows(q, u) : r.field = f /\ r.packets = q[f]
  <2> DEFINE r0 == [tk |-> u, field |-> f, packets |-> q[f]]
  <2>1. r0.field = f /\ r0.packets = q[f] /\ r0 \in Rows(q, u)
    BY <1>2, <1>5
  <2> QED
    BY <2>1
<1> QED
  BY <1>3, <1>4, <1>5

LEMMA ReadingStep ==
  TypeOK /\ Shape /\ ReadingInv /\ [Next]_vars => ReadingInv'
<1> SUFFICES ASSUME TypeOK, Shape, ReadingInv, [Next]_vars PROVE ReadingInv'
  OBVIOUS
<1> USE DEF ReadingInv, EachReadingOnce, All, world, loopVars, database, counts
<1>0. sent \subseteq Row /\ batch \subseteq Row
  BY DEF TypeOK
<1>1. CASE SendToQueue
  <2>1. PICK r \in batch : sent' = sent \cup {r} /\ batch' = batch \ {r}
    BY <1>1 DEF SendToQueue
  <2> QED
    BY <1>1, <2>1 DEF SendToQueue
<1>2. CASE PollInsert
  BY <1>2 DEF PollInsert
<1>3. CASE PollQueryFails
  <2>1. PICK r \in batch : sent' = sent \cup {r} /\ batch' = {} /\ child' = "down"
    BY <1>3 DEF PollQueryFails, AfterError
  <2> QED
    BY <1>3, <2>1 DEF PollQueryFails
<1>4. ASSUME NEW S \in SUBSET Fields, Packet(S) PROVE ReadingInv'
  <2>1. rec' \in [Fields -> SUBSET Nat]
    BY <1>4, TypeStep DEF TypeOK, Next, PollNext
  <2>2. /\ \A f \in Fields : rec'[f] \subseteq 1..Len(at')
        /\ \A r \in sent' : r.packets \subseteq 1..Len(at')
        /\ \A r \in sent' : r.packets \cap rec'[r.field] = {}
    <3> DEFINE p == Len(at) + 1
    <3>1. p \in 1..Len(at') /\ 1..Len(at) \subseteq 1..Len(at') /\ p \notin 1..Len(at)
      <4>1. Len(at) \in Nat /\ Len(at') = Len(at) + 1
        BY <1>4, PacketFacts
      <4> QED
        BY <4>1
    <3>2. \A f \in Fields : rec'[f] \subseteq rec[f] \cup {p}
      BY <1>4, PacketFacts
    <3>3. sent' = sent /\ child = "loop"
      BY <1>4, PacketFacts
    <3>4. \A r \in sent : r.field \in Fields
      BY <1>0 DEF Row
    <3> HIDE DEF p
    <3> QED
      BY <3>1, <3>2, <3>3, <3>4
  <2>3. CASE batch' = {}
    BY <1>4, <2>2, <2>3, PacketFacts
  <2>4. CASE child' = "flush" /\ batch' = Rows(rec', now)
    <3>1. sent' = sent /\ batch = {}
      BY <1>4, PacketFacts
    <3>2. \A r \in batch' : r.field \in Fields /\ r.packets = rec'[r.field]
      BY <2>1, <2>4, RowsFacts
    <3>3. \A r, s \in batch' : r.field = s.field => r = s
      BY <2>1, <2>4, RowsFacts
    <3> QED
      BY <2>2, <2>4, <3>1, <3>2, <3>3
  <2> QED
    BY <1>4, <2>3, <2>4, PacketFacts
<1>5. CASE FlushDone
  <2>1. \A f \in Fields : rec'[f] = {}
    BY <1>5 DEF FlushDone, Cleared
  <2>2. \A r \in sent : rec'[r.field] = {}
    BY <1>0, <2>1 DEF Row
  <2> QED
    BY <1>5, <2>1, <2>2 DEF FlushDone
<1>6. CASE StartChild
  <2>1. \A f \in Fields : rec'[f] = {}
    BY <1>6 DEF StartChild
  <2>2. \A r \in sent : rec'[r.field] = {}
    BY <1>0, <2>1 DEF Row
  <2> QED
    BY <1>6, <2>1, <2>2 DEF StartChild
<1>7. CASE StartLoop \/ ChildDies
  BY <1>7 DEF StartLoop, ChildDies
<1>8. CASE UNCHANGED <<at, rec, batch, child, sent>>
  BY <1>8
<1>9. Tick \/ SetBack \/ PollConnect \/ DeqNext \/ ServerDown \/ ServerUp
      \/ UNCHANGED vars => UNCHANGED <<at, rec, batch, child, sent>>
  BY DEF Tick, SetBack, PollConnect, DeqNext, DeqStart, Receive, DeqConnect,
         Perform, PerformFails, DeqCrash, ServerDown, ServerUp, vars
<1> QED
  BY <1>1, <1>2, <1>3, <1>4, <1>5, <1>6, <1>7, <1>8, <1>9 DEF Next, PollNext

LEMMA ForgottenStep ==
  TypeOK /\ Shape /\ ReadingInv /\ ForgottenInv /\ [Next]_vars => ForgottenInv'
<1> SUFFICES ASSUME TypeOK, Shape, ReadingInv, ForgottenInv, [Next]_vars
             PROVE  ForgottenInv'
  OBVIOUS
<1> USE DEF ForgottenInv, NoReadingForgotten, InRow, All, world, loopVars, database,
            counts
<1>0. taken \subseteq [packet : Nat, field : Fields] /\ deaths \in Nat
  BY DEF TypeOK
<1>1. CASE SendToQueue
  <2>1. PICK r \in batch : sent' = sent \cup {r} /\ batch' = batch \ {r}
    BY <1>1 DEF SendToQueue
  <2>2. sent' \cup batch' = sent \cup batch
    BY <2>1
  <2> QED
    BY <1>1, <2>2 DEF SendToQueue
<1>2. CASE PollInsert
  <2>1. PICK r \in batch : sent' = sent \cup {r} /\ batch' = batch \ {r}
    BY <1>2 DEF PollInsert
  <2>2. sent' \cup batch' = sent \cup batch
    BY <2>1
  <2> QED
    BY <1>2, <2>2 DEF PollInsert
<1>3. CASE PollQueryFails \/ ChildDies
  <2>1. child' = "down" /\ deaths' = deaths + 1
    BY <1>3 DEF PollQueryFails, AfterError, ChildDies
  <2> QED
    BY <1>0, <2>1
<1>4. ASSUME NEW S \in SUBSET Fields, Packet(S) PROVE ForgottenInv'
  <2>1. rec' \in [Fields -> SUBSET Nat]
    BY <1>4, TypeStep DEF TypeOK, Next, PollNext
  <2>2. ASSUME deaths' = 0, NEW x \in taken'
        PROVE  x.packet \in rec'[x.field] \/ InRow(x.packet, x.field)
    <3>1. CASE x \in taken
      <4>1. x.field \in Fields /\ deaths = 0
        BY <1>0, <1>4, <2>2, <3>1, PacketFacts
      <4>2. rec[x.field] \subseteq rec'[x.field]
        BY <1>4, <4>1, PacketFacts
      <4> QED
        BY <2>2, <3>1, <4>1, <4>2
    <3>2. CASE x \notin taken
      <4>1. PICK f \in S : x = [packet |-> Len(at) + 1, field |-> f]
        <5>1. taken' = taken \cup {[packet |-> Len(at) + 1, field |-> f] : f \in S}
          BY <1>4, PacketFacts
        <5> QED
          BY <2>2, <3>2, <5>1
      <4>2. Len(at) + 1 \in rec'[f]
        BY <1>4, PacketFacts
      <4> QED
        BY <4>1, <4>2
    <3> QED
      BY <3>1, <3>2
  <2>3. sent' = sent /\ batch = {}
    BY <1>4, PacketFacts
  <2>4. CASE child' = "loop" /\ batch' = {}
    BY <2>2, <2>3, <2>4
  <2>5. CASE child' = "flush" /\ batch' = Rows(rec', now)
    <3>1. ASSUME NEW f \in Fields, NEW p \in rec'[f]
          PROVE  \E r \in batch' : r.field = f /\ p \in r.packets
      BY <2>1, <2>5, <3>1, RowsFacts
    <3> QED
      BY <2>2, <2>3, <2>5, <3>1
  <2> QED
    BY <1>4, <2>4, <2>5, PacketFacts
<1>5. CASE FlushDone
  <2>1. ASSUME deaths = 0, NEW x \in taken PROVE InRow(x.packet, x.field)
    BY <1>0, <1>5, <2>1 DEF FlushDone
  <2> QED
    BY <1>5, <2>1 DEF FlushDone
<1>6. CASE StartChild
  BY <1>6 DEF StartChild
<1>7. CASE StartLoop
  BY <1>7 DEF StartLoop
<1>8. CASE UNCHANGED <<rec, batch, child, sent, taken, deaths>>
  BY <1>8
<1>9. Tick \/ SetBack \/ PollConnect \/ DeqNext \/ ServerDown \/ ServerUp
      \/ UNCHANGED vars => UNCHANGED <<rec, batch, child, sent, taken, deaths>>
  BY DEF Tick, SetBack, PollConnect, DeqNext, DeqStart, Receive, DeqConnect,
         Perform, PerformFails, DeqCrash, ServerDown, ServerUp, vars
<1> QED
  BY <1>1, <1>2, <1>3, <1>4, <1>5, <1>6, <1>7, <1>8, <1>9 DEF Next, PollNext

-----------------------------------------------------------------------------
(* Timekeys and minutes                                                    *)

\* As long as the clock was never set back, this step does not do it either.
LEMMA ForwardClock ==
  ASSUME TypeOK, [Next]_vars, setbacks' = 0
  PROVE  setbacks = 0 /\ ~SetBack
<1>1. SetBack \/ setbacks' = setbacks
  BY DEF Next, PollNext, DeqNext, Tick, StartChild, StartLoop, Packet,
       SendToQueue,
         PollConnect, PollInsert, PollQueryFails, FlushDone, ChildDies, DeqStart,
         Receive, DeqConnect, Perform, PerformFails, DeqCrash, ServerDown, ServerUp,
         vars, loopVars, database, counts
<1>2. SetBack => setbacks' = setbacks + 1
  BY DEF SetBack
<1>3. setbacks \in Nat
  BY DEF TypeOK
<1> QED
  BY <1>1, <1>2, <1>3

LEMMA KeyStep ==
  TypeOK /\ Shape /\ ReadingInv /\ KeyInv /\ [Next]_vars => KeyInv'
<1> SUFFICES ASSUME TypeOK, Shape, ReadingInv, KeyInv, [Next]_vars, setbacks' = 0
             PROVE  KeyInv'
  BY DEF KeyInv
<1> USE DEF SameKey, All, world, loopVars, database, counts
<1>0. /\ now \in Nat /\ minute \in Nat /\ tk \in Nat
      /\ sent \subseteq Row /\ batch \subseteq Row
      /\ \A r \in Row : r.tk \in Nat
  BY DEF TypeOK, Row
<1>a. setbacks = 0 /\ ~SetBack
  BY ForwardClock
<1>b. /\ minute <= now /\ tk <= now
      /\ \A r \in sent : r.tk <= now
      /\ child \in {"starting", "loop"} => \A r \in sent : r.tk <= minute
      /\ child = "flush" => /\ \A r \in sent : r.tk <= tk
                            /\ \A r \in batch : r.tk = tk
      /\ \A r, s \in All : SameKey(r, s) => r = s
  BY <1>a DEF KeyInv
<1>1. CASE SendToQueue \/ PollInsert
  <2>1. PICK r \in batch : sent' = sent \cup {r} /\ batch' = batch \ {r}
    BY <1>1 DEF SendToQueue, PollInsert
  <2>2. UNCHANGED <<now, minute, tk, child>> /\ child = "flush"
    BY <1>1 DEF SendToQueue, PollInsert
  <2>3. All' = All /\ r.tk = tk /\ r \in Row
    BY <1>0, <1>b, <2>1, <2>2
  <2>4. \A s \in sent' : s.tk <= now
    BY <1>0, <1>b, <2>1, <2>3
  <2>5. \A s \in sent' : s.tk <= tk
    BY <1>0, <1>b, <2>1, <2>2, <2>3
  <2> QED
    BY <1>b, <2>1, <2>2, <2>3, <2>4, <2>5 DEF KeyInv
<1>3. CASE PollQueryFails
  <2>1. PICK r \in batch : sent' = sent \cup {r} /\ batch' = {} /\ child' = "down"
    BY <1>3 DEF PollQueryFails, AfterError
  <2>2. UNCHANGED <<now, minute, tk>> /\ child = "flush"
    BY <1>3 DEF PollQueryFails
  <2>3. r.tk <= now
    BY <1>b, <2>1, <2>2
  <2> QED
    BY <1>b, <2>1, <2>2, <2>3 DEF KeyInv
<1>4. ASSUME NEW S \in SUBSET Fields, Packet(S) PROVE KeyInv'
  <2>1. rec' \in [Fields -> SUBSET Nat]
    BY <1>4, TypeStep DEF TypeOK, Next, PollNext
  <2>2. sent' = sent /\ batch = {} /\ UNCHANGED <<now, minute>> /\ child = "loop"
    BY <1>4, PacketFacts
  <2>3. CASE child' = "loop" /\ batch' = {} /\ tk' = tk
    BY <1>b, <2>2, <2>3 DEF KeyInv
  <2>4. CASE child' = "flush" /\ now # minute /\ tk' = now /\ batch' = Rows(rec', now)
    <3>1. /\ \A r \in batch' : r.tk = now
          /\ \A r, s \in batch' : r.field = s.field => r = s
      BY <2>1, <2>4, RowsFacts
    <3>2. \A r \in sent : r.tk <= minute /\ r.tk \in Nat
      BY <1>0, <1>b, <2>2
    <3>3. \A r \in sent : r.tk # now /\ r.tk <= now
      BY <1>0, <1>b, <2>4, <3>2
    <3>4. \A r, s \in All' : SameKey(r, s) => r = s
      BY <1>b, <2>2, <3>1, <3>3
    <3> QED
      BY <1>0, <1>b, <2>2, <2>4, <3>1, <3>3, <3>4 DEF KeyInv
  <2> QED
    BY <1>4, <2>3, <2>4, PacketFacts
<1>5. CASE FlushDone
  BY <1>0, <1>b, <1>5 DEF FlushDone, KeyInv
<1>6. CASE StartChild
  BY <1>0, <1>b, <1>6 DEF StartChild, StartMinute, KeyInv
<1>7. CASE StartLoop \/ ChildDies
  BY <1>0, <1>b, <1>7 DEF StartLoop, ChildDies, KeyInv
<1>8. CASE Tick
  <2>1. now' = now + 1 /\ UNCHANGED <<minute, tk, batch, child, sent>>
    BY <1>8 DEF Tick
  <2>2. \A r \in sent : r.tk <= now + 1
    BY <1>0, <1>b
  <2> QED
    BY <1>0, <1>b, <2>1, <2>2 DEF KeyInv
<1>9. CASE UNCHANGED <<now, minute, tk, batch, child, sent>>
  BY <1>b, <1>9 DEF KeyInv
<1>10. PollConnect \/ DeqNext \/ ServerDown \/ ServerUp
       \/ UNCHANGED vars => UNCHANGED <<now, minute, tk, batch, child, sent>>
  BY DEF PollConnect, DeqNext, DeqStart, Receive, DeqConnect,
         Perform, PerformFails, DeqCrash, ServerDown, ServerUp, vars
<1> QED
  BY <1>a, <1>1, <1>3, <1>4, <1>5, <1>6, <1>7, <1>8, <1>9, <1>10 DEF Next,
       PollNext

LEMMA MinuteStep ==
  TypeOK /\ Shape /\ ReadingInv /\ KeyInv /\ MinuteInv /\ [Next]_vars => MinuteInv'
<1> SUFFICES ASSUME TypeOK, Shape, ReadingInv, KeyInv, MinuteInv, [Next]_vars,
                    setbacks' = 0
             PROVE  MinuteInv'
  BY DEF MinuteInv
<1> USE DEF All, world, loopVars, database, counts
<1>0. /\ now \in Nat /\ minute \in Nat /\ tk \in Nat /\ ticked \in BOOLEAN
      /\ sent \subseteq Row /\ batch \subseteq Row
  BY DEF TypeOK
<1>a. setbacks = 0 /\ ~SetBack
  BY ForwardClock
<1>b. /\ child = "loop" =>
            \A f \in Fields : \A p \in rec[f] :
               at[p] = minute /\ now = IF ticked THEN minute + 1 ELSE minute
      /\ child = "starting" => \A f \in Fields : rec[f] = {}
      /\ \A r \in All : \A p, q \in r.packets :
            /\ at[p] \in {r.tk - 1, r.tk}
            /\ at[p] = r.tk /\ at[q] = r.tk => p = q
  BY <1>a DEF MinuteInv
<1>1. CASE SendToQueue \/ PollInsert
  <2>1. PICK r \in batch : sent' = sent \cup {r} /\ batch' = batch \ {r}
    BY <1>1 DEF SendToQueue, PollInsert
  <2>2. UNCHANGED <<now, at, minute, child, rec, ticked>>
    BY <1>1 DEF SendToQueue, PollInsert
  <2>3. All' = All
    BY <2>1
  <2> QED
    BY <1>b, <2>2, <2>3 DEF MinuteInv
<1>3. CASE PollQueryFails
  <2>1. PICK r \in batch : sent' = sent \cup {r} /\ batch' = {} /\ child' = "down"
    BY <1>3 DEF PollQueryFails, AfterError
  <2>2. at' = at /\ All' \subseteq All
    BY <1>3, <2>1 DEF PollQueryFails
  <2> QED
    BY <1>b, <2>1, <2>2 DEF MinuteInv
<1>4. ASSUME NEW S \in SUBSET Fields, Packet(S) PROVE MinuteInv'
  <2>1. rec' \in [Fields -> SUBSET Nat]
    BY <1>4, TypeStep DEF TypeOK, Next, PollNext
  <2>2. /\ sent' = sent /\ batch = {} /\ UNCHANGED <<now, minute>> /\ child = "loop"
        /\ Len(at) \in Nat
    BY <1>4, PacketFacts
  <2>3. ASSUME NEW f \in Fields, NEW p \in rec'[f]
        PROVE  \/ p \in rec[f] /\ p \in 1..Len(at) /\ at'[p] = minute
                  /\ now = IF ticked THEN minute + 1 ELSE minute
               \/ p = Len(at) + 1 /\ at'[p] = now
    <3>1. p \in rec[f] \/ p = Len(at) + 1
      BY <1>4, PacketFacts
    <3>2. CASE p \in rec[f]
      <4>1. p \in 1..Len(at) /\ at[p] = minute
            /\ now = IF ticked THEN minute + 1 ELSE minute
        BY <1>b, <2>2, <3>2 DEF ReadingInv
      <4> QED
        BY <1>4, <3>2, <4>1, PacketFacts
    <3>3. CASE p = Len(at) + 1
      BY <1>4, <3>3, PacketFacts
    <3> QED
      BY <3>1, <3>2, <3>3
  <2>4. ASSUME NEW r \in sent, NEW p \in r.packets
        PROVE  at'[p] = at[p]
    BY <1>4, <2>4, PacketFacts DEF ReadingInv
  <2>5. \A r \in sent : \A p, q \in r.packets :
            /\ at'[p] \in {r.tk - 1, r.tk}
            /\ at'[p] = r.tk /\ at'[q] = r.tk => p = q
    BY <1>b, <2>4
  <2>6. CASE child' = "loop" /\ batch' = {} /\ now = minute /\ ticked' = FALSE
    BY <1>0, <2>2, <2>3, <2>5, <2>6 DEF MinuteInv
  <2>7. CASE child' = "flush" /\ now # minute /\ batch' = Rows(rec', now)
    <3>1. \A r \in batch' : r.field \in Fields /\ r.tk = now /\ r.packets = rec'[r.field]
      BY <2>1, <2>7, RowsFacts
    <3>2. ASSUME NEW f \in Fields, NEW p \in rec'[f]
          PROVE  \/ p \in 1..Len(at) /\ at'[p] = now - 1
                 \/ p = Len(at) + 1 /\ at'[p] = now
      BY <1>0, <2>3, <2>7
    <3>3. ASSUME NEW r \in batch', NEW p \in r.packets, NEW q \in r.packets
          PROVE  /\ at'[p] \in {r.tk - 1, r.tk}
                 /\ at'[p] = r.tk /\ at'[q] = r.tk => p = q
      BY <1>0, <3>1, <3>2
    <3> QED
      BY <2>2, <2>5, <2>7, <3>3 DEF MinuteInv
  <2> QED
    BY <1>4, <2>6, <2>7, PacketFacts
<1>5. CASE FlushDone
  <2>1. \A f \in Fields : rec'[f] = {}
    BY <1>5 DEF FlushDone, Cleared
  <2> QED
    BY <1>b, <1>5, <2>1 DEF FlushDone, MinuteInv
<1>6. CASE StartChild
  <2>1. \A f \in Fields : rec'[f] = {}
    BY <1>6 DEF StartChild
  <2>2. All' \subseteq All /\ at' = at /\ child' = "starting"
    BY <1>6 DEF StartChild
  <2> QED
    BY <1>b, <2>1, <2>2 DEF MinuteInv
<1>7. CASE StartLoop
  BY <1>b, <1>7 DEF StartLoop, MinuteInv
<1>8. CASE ChildDies
  <2>1. All' \subseteq All /\ at' = at /\ child' = "down"
    BY <1>8 DEF ChildDies
  <2> QED
    BY <1>b, <2>1 DEF MinuteInv
<1>9. CASE Tick
  <2>1. /\ now' = now + 1 /\ ticked' = TRUE /\ (child = "loop" => ~ticked)
        /\ UNCHANGED <<at, minute, rec, batch, child, sent>>
    BY <1>9 DEF Tick, AlarmAllows
  <2> QED
    BY <1>0, <1>b, <2>1 DEF MinuteInv
<1>10. CASE UNCHANGED <<now, at, minute, ticked, rec, batch, child, sent>>
  BY <1>b, <1>10 DEF MinuteInv
<1>11. PollConnect \/ DeqNext \/ ServerDown \/ ServerUp \/ UNCHANGED vars
       => UNCHANGED <<now, at, minute, ticked, rec, batch, child, sent>>
  BY DEF PollConnect, DeqNext, DeqStart, Receive, DeqConnect,
         Perform, PerformFails, DeqCrash, ServerDown, ServerUp, vars
<1> QED
  BY <1>a, <1>1, <1>3, <1>4, <1>5, <1>6, <1>7, <1>8, <1>9, <1>10, <1>11
  DEF Next, PollNext

-----------------------------------------------------------------------------
(* The queue                                                               *)

LEMMA SplitIndex ==
  ASSUME NEW n \in Nat, NEW i \in 1..(n + 1), NEW j \in 1..(n + 1), i < j
  PROVE  i \in 1..n /\ (j \in 1..n \/ j = n + 1)
  OBVIOUS

\* Messages move from the end of the queue to its head in their order.
LEMMA OrderStep ==
  TypeOK /\ Shape /\ KeyInv /\ OrderInv /\ [Next]_vars => OrderInv'
<1> SUFFICES ASSUME TypeOK, Shape, KeyInv, OrderInv, [Next]_vars, setbacks' = 0
             PROVE  OrderInv'
  BY DEF OrderInv
<1> USE DEF Pending, InQueue, world, loopVars, database, counts
<1>0. /\ queue \in Seq(Row) /\ batch \subseteq Row /\ drops \in Nat
      /\ Len(queue) <= QueueMax /\ Len(queue) \in Nat
      /\ table \subseteq sent /\ hand \subseteq sent /\ Messages(queue) \subseteq sent
      /\ sent \subseteq Row /\ tk \in Nat /\ \A r \in Row : r.tk \in Nat
  BY DEF TypeOK, Shape, Row
<1>a. setbacks = 0 /\ ~SetBack
  BY ForwardClock
<1>b. /\ \A s \in table, r \in Messages(queue) \cup hand : s.tk <= r.tk
      /\ \A r \in hand, s \in Messages(queue) : r.tk <= s.tk
      /\ \A i, j \in 1..Len(queue) : i < j => queue[i].tk <= queue[j].tk
  BY <1>a DEF OrderInv
<1>c. child = "flush" => /\ \A r \in sent : r.tk <= tk
                         /\ \A r \in batch : r.tk = tk
  BY <1>a DEF KeyInv
<1>d. \A i \in 1..Len(queue) : queue[i] \in Messages(queue)
  BY DEF Messages
<1>1. CASE SendToQueue
  <2>1. PICK r \in batch : sent' = sent \cup {r} /\ Queued(r)
    BY <1>1 DEF SendToQueue
  <2>2. UNCHANGED <<table, hand>> /\ child = "flush"
    BY <1>1 DEF SendToQueue
  <2>3. r.tk = tk /\ r \in Row /\ \A s \in sent : s.tk <= r.tk
    BY <1>0, <1>c, <2>1, <2>2
  <2>4. CASE queue' = queue
    BY <1>b, <2>2, <2>4 DEF OrderInv
  <2>5. CASE queue' = Append(queue, r)
    <3>1. /\ Messages(queue') = Messages(queue) \cup {r}
          /\ Len(queue') = Len(queue) + 1
          /\ \A i \in 1..Len(queue) : queue'[i] = queue[i]
          /\ queue'[Len(queue) + 1] = r
      BY <1>0, <2>3, <2>5, MessagesFacts, AppendFacts
    <3>2. ASSUME NEW i \in 1..Len(queue'), NEW j \in 1..Len(queue'), i < j
          PROVE  queue'[i].tk <= queue'[j].tk
      <4>1. i \in 1..Len(queue) /\ (j \in 1..Len(queue) \/ j = Len(queue) + 1)
        <5>1. i \in 1..(Len(queue) + 1) /\ j \in 1..(Len(queue) + 1)
          BY <3>1
        <5> QED
          BY <1>0, <3>2, <5>1, SplitIndex
      <4>2. CASE j \in 1..Len(queue)
        BY <1>b, <3>1, <3>2, <4>1, <4>2
      <4>3. CASE j = Len(queue) + 1
        <5>1. queue[i] \in sent
          BY <1>0, <1>d, <4>1
        <5> QED
          BY <2>3, <3>1, <4>1, <4>3, <5>1
      <4> QED
        BY <4>1, <4>2, <4>3
    <3>3. \A s \in table, q \in Messages(queue') \cup hand : s.tk <= q.tk
      BY <1>0, <1>b, <2>3, <3>1
    <3>4. \A q \in hand, s \in Messages(queue') : q.tk <= s.tk
      BY <1>0, <1>b, <2>3, <3>1
    <3> QED
      BY <2>2, <3>2, <3>3, <3>4 DEF OrderInv
  <2> QED
    BY <1>0, <2>1, <2>3, <2>4, <2>5, QueuedFacts
<1>2. CASE PollInsert
  <2>1. queue = <<>> /\ hand = {} /\ UNCHANGED <<queue, hand>>
    BY <1>2 DEF PollInsert, Shape
  <2>2. Messages(queue') = {} /\ Len(queue') = 0
    BY <2>1 DEF Messages
  <2> QED
    BY <2>1, <2>2 DEF OrderInv
<1>3. CASE Receive
  <2>1. /\ Len(queue) \in Nat \ {0} /\ Head(queue) = queue[1] /\ Head(queue) \in Row
        /\ Len(queue') = Len(queue) - 1
        /\ \A i \in 1..Len(queue') : queue'[i] = queue[i + 1]
        /\ hand' = {queue[1]} /\ hand = {} /\ table' = table
    BY <1>0, <1>3, TailFacts DEF Receive, Taken
  <2>2. Messages(queue) = Messages(queue') \cup hand'
    BY <1>0, <1>3, <2>1, MessagesFacts DEF Receive, Taken
  <2>3. \A i \in 1..Len(queue') : i + 1 \in 1..Len(queue) /\ 1 < i + 1
    BY <2>1
  <2>4. \A i, j \in 1..Len(queue') : i < j => queue'[i].tk <= queue'[j].tk
    BY <1>b, <2>1, <2>3
  <2>5. ASSUME NEW m \in Messages(queue') PROVE queue[1].tk <= m.tk
    <3>1. PICK i \in 1..Len(queue') : m = queue'[i]
      BY DEF Messages
    <3>2. 1 \in 1..Len(queue)
      BY <2>1
    <3> QED
      BY <1>b, <2>1, <2>3, <3>1, <3>2
  <2> QED
    BY <1>b, <2>1, <2>2, <2>4, <2>5 DEF OrderInv
<1>4. CASE Perform
  <2>1. PICK r \in hand : table' = table \cup {r}
    BY <1>4 DEF Perform
  <2>2. hand' = {} /\ queue' = queue
    BY <1>4 DEF Perform
  <2> QED
    BY <1>b, <2>1, <2>2 DEF OrderInv
<1>5. CASE PerformFails \/ DeqCrash
  <2>1. hand' = {} /\ UNCHANGED <<queue, table>>
    BY <1>5 DEF PerformFails, AfterFailure, DeqCrash
  <2> QED
    BY <1>b, <2>1 DEF OrderInv
<1>6. CASE UNCHANGED <<queue, hand, table>>
  BY <1>b, <1>6 DEF OrderInv
<1>7. \/ Tick \/ PollConnect \/ ServerDown \/ ServerUp \/ StartChild \/ StartLoop
      \/ (\E S \in SUBSET Fields : Packet(S)) \/ PollQueryFails \/ FlushDone \/ ChildDies
      \/ DeqStart \/ DeqConnect \/ UNCHANGED vars
      => UNCHANGED <<queue, hand, table>>
  BY DEF Tick, PollConnect, ServerDown, ServerUp, StartChild, StartLoop, Packet,
         PollQueryFails, FlushDone, ChildDies, DeqStart, DeqConnect, vars
<1> QED
  BY <1>a, <1>1, <1>2, <1>3, <1>4, <1>5, <1>6, <1>7 DEF Next, PollNext, DeqNext

\* The server's handles are good until the first outage.
LEMMA ServerStep == TypeOK /\ ServerInv /\ [Next]_vars => ServerInv'
<1> SUFFICES ASSUME TypeOK, ServerInv, [Next]_vars, outages' = 0 PROVE ServerInv'
  BY DEF ServerInv
<1> USE DEF world, loopVars, database, counts
<1>0. outages \in Nat /\ conn \in [{"poll", "deq"} -> Nat]
  BY DEF TypeOK
<1>1. ~ServerDown
  BY <1>0 DEF ServerDown
<1>2. outages = 0
  BY <1>1 DEF Next, PollNext, DeqNext, Tick, SetBack, StartChild, StartLoop,
       Packet,
         SendToQueue, PollConnect, PollInsert, PollQueryFails, FlushDone, ChildDies,
         DeqStart, Receive, DeqConnect, Perform, PerformFails, DeqCrash, ServerUp, vars
<1>3. up /\ server = 1 /\ \A p \in {"poll", "deq"} : conn[p] \in {0, 1}
  BY <1>2 DEF ServerInv
<1>4. ~ServerUp
  BY <1>3 DEF ServerUp
<1>5. up' = up /\ server' = server
  BY <1>1, <1>4 DEF Next, PollNext, DeqNext, Tick, SetBack, StartChild,
       StartLoop, Packet,
         SendToQueue, PollConnect, PollInsert, PollQueryFails, FlushDone, ChildDies,
         DeqStart, Receive, DeqConnect, Perform, PerformFails, DeqCrash, vars
<1>6. \/ conn' = conn
      \/ \E p \in {"poll", "deq"}, c \in {0, server} : conn' = [conn EXCEPT ![p] = c]
  BY <1>1, <1>4 DEF Next, PollNext, DeqNext, Tick, SetBack, StartChild,
       StartLoop, Packet,
         SendToQueue, PollConnect, PollInsert, PollQueryFails, FlushDone, ChildDies,
         DeqStart, Receive, DeqConnect, Perform, PerformFails, DeqCrash, vars
<1>7. \A p \in {"poll", "deq"} : conn'[p] \in {0, 1}
  BY <1>0, <1>3, <1>6
<1> QED
  BY <1>3, <1>5, <1>7 DEF ServerInv

\* A row leaves one place when it gets to the next.
LEMMA PlaceStep ==
  TypeOK /\ Shape /\ ReadingInv /\ KeyInv /\ PlaceInv /\ [Next]_vars => PlaceInv'
<1> SUFFICES ASSUME TypeOK, Shape, ReadingInv, KeyInv, PlaceInv, [Next]_vars,
                    setbacks' = 0
             PROVE  PlaceInv'
  BY DEF PlaceInv
<1> USE DEF Pending, InQueue, world, loopVars, database, counts
<1>0. /\ queue \in Seq(Row) /\ batch \subseteq Row /\ drops \in Nat
      /\ Len(queue) <= QueueMax /\ Len(queue) \in Nat
      /\ table \subseteq sent /\ hand \subseteq sent /\ Messages(queue) \subseteq sent
      /\ sent \subseteq Row
  BY DEF TypeOK, Shape
<1>a. setbacks = 0 /\ ~SetBack
  BY ForwardClock
<1>b. /\ sent \cap batch = {}
      /\ table \cap (Messages(queue) \cup hand) = {}
      /\ hand \cap Messages(queue) = {}
      /\ \A i, j \in 1..Len(queue) : i < j => queue[i] # queue[j]
  BY <1>a DEF PlaceInv
<1>d. \A i \in 1..Len(queue) : queue[i] \in Messages(queue)
  BY DEF Messages
<1>1. CASE SendToQueue
  <2>1. PICK r \in batch : /\ sent' = sent \cup {r} /\ batch' = batch \ {r}
                           /\ Queued(r)
    BY <1>1 DEF SendToQueue
  <2>2. UNCHANGED <<table, hand>>
    BY <1>1 DEF SendToQueue
  <2>3. r \in Row /\ r \notin sent /\ sent' \cap batch' = {}
    BY <1>0, <1>b, <2>1
  <2>4. CASE queue' = queue
    BY <1>b, <2>2, <2>3, <2>4 DEF PlaceInv
  <2>5. CASE queue' = Append(queue, r)
    <3>1. /\ Messages(queue') = Messages(queue) \cup {r}
          /\ Len(queue') = Len(queue) + 1
          /\ \A i \in 1..Len(queue) : queue'[i] = queue[i]
          /\ queue'[Len(queue) + 1] = r
      BY <1>0, <2>3, <2>5, MessagesFacts, AppendFacts
    <3>2. ASSUME NEW i \in 1..Len(queue'), NEW j \in 1..Len(queue'), i < j
          PROVE  queue'[i] # queue'[j]
      <4>1. i \in 1..Len(queue) /\ (j \in 1..Len(queue) \/ j = Len(queue) + 1)
        <5>1. i \in 1..(Len(queue) + 1) /\ j \in 1..(Len(queue) + 1)
          BY <3>1
        <5> QED
          BY <1>0, <3>2, <5>1, SplitIndex
      <4>2. CASE j \in 1..Len(queue)
        BY <1>b, <3>1, <3>2, <4>1, <4>2
      <4>3. CASE j = Len(queue) + 1
        <5>1. queue[i] \in sent
          BY <1>0, <1>d, <4>1
        <5> QED
          BY <2>3, <3>1, <4>1, <4>3, <5>1
      <4> QED
        BY <4>1, <4>2, <4>3
    <3> QED
      BY <1>0, <1>b, <2>2, <2>3, <3>1, <3>2 DEF PlaceInv
  <2> QED
    BY <1>0, <2>1, <2>3, <2>4, <2>5, QueuedFacts
<1>2. CASE PollInsert
  <2>1. queue = <<>> /\ hand = {} /\ UNCHANGED <<queue, hand>>
    BY <1>2 DEF PollInsert, Shape
  <2>2. Messages(queue') = {} /\ Len(queue') = 0
    BY <2>1 DEF Messages
  <2>3. PICK r \in batch : sent' = sent \cup {r} /\ batch' = batch \ {r}
    BY <1>2 DEF PollInsert
  <2>4. sent' \cap batch' = {}
    BY <1>b, <2>3
  <2> QED
    BY <2>1, <2>2, <2>4 DEF PlaceInv
<1>3. CASE Receive
  <2>1. /\ Len(queue) \in Nat \ {0} /\ Head(queue) = queue[1] /\ Head(queue) \in Row
        /\ Len(queue') = Len(queue) - 1
        /\ \A i \in 1..Len(queue') : queue'[i] = queue[i + 1]
        /\ hand' = {queue[1]} /\ hand = {} /\ table' = table
        /\ sent' = sent /\ batch' = batch
    BY <1>0, <1>3, TailFacts DEF Receive, Taken
  <2>2. Messages(queue) = Messages(queue') \cup hand'
    BY <1>0, <1>3, <2>1, MessagesFacts DEF Receive, Taken
  <2>3. \A i \in 1..Len(queue') : i + 1 \in 1..Len(queue) /\ 1 < i + 1
    BY <2>1
  <2>4. \A i, j \in 1..Len(queue') : i < j => queue'[i] # queue'[j]
    BY <1>b, <2>1, <2>3
  <2>5. ASSUME NEW m \in Messages(queue') PROVE queue[1] # m
    <3>1. PICK i \in 1..Len(queue') : m = queue'[i]
      BY DEF Messages
    <3>2. 1 \in 1..Len(queue)
      BY <2>1
    <3> QED
      BY <1>b, <2>1, <2>3, <3>1, <3>2
  <2> QED
    BY <1>b, <2>1, <2>2, <2>4, <2>5 DEF PlaceInv
<1>4. CASE Perform
  <2>1. PICK r \in hand : table' = table \cup {r}
    BY <1>4 DEF Perform
  <2>2. hand' = {} /\ UNCHANGED <<queue, sent, batch>>
    BY <1>4 DEF Perform
  <2> QED
    BY <1>b, <2>1, <2>2 DEF PlaceInv
<1>5. ASSUME NEW S \in SUBSET Fields, Packet(S) PROVE PlaceInv'
  <2>1. rec' \in [Fields -> SUBSET Nat]
    BY <1>5, TypeStep DEF TypeOK, Next, PollNext
  <2>2. UNCHANGED <<queue, hand, table>>
    BY <1>5 DEF Packet
  <2>3. sent' = sent /\ child = "loop"
    BY <1>5, PacketFacts
  <2>4. CASE batch' = {}
    BY <1>b, <2>2, <2>3, <2>4 DEF PlaceInv
  <2>5. CASE now # minute /\ batch' = Rows(rec', now)
    <3>1. \A r \in batch' : r.tk = now
      BY <2>1, <2>5, RowsFacts
    <3>2. minute <= now /\ now \in Nat /\ minute \in Nat
          /\ \A r \in sent : r.tk <= minute
      BY <1>a, <2>3 DEF KeyInv, TypeOK
    <3>3. \A r \in sent : r.tk # now
      BY <2>5, <3>2
    <3> QED
      BY <1>b, <2>2, <2>3, <3>1, <3>3 DEF PlaceInv
  <2> QED
    BY <1>5, <2>4, <2>5, PacketFacts
<1>6. CASE PollQueryFails
  <2>1. batch' = {} /\ UNCHANGED <<queue, hand, table>>
    BY <1>6 DEF PollQueryFails, AfterError
  <2> QED
    BY <1>b, <2>1 DEF PlaceInv
<1>7. CASE PerformFails \/ DeqCrash
  <2>1. hand' = {} /\ UNCHANGED <<queue, table, sent, batch>>
    BY <1>7 DEF PerformFails, AfterFailure, DeqCrash
  <2> QED
    BY <1>b, <2>1 DEF PlaceInv
<1>8. CASE StartChild \/ ChildDies
  <2>1. batch' = {} /\ UNCHANGED <<queue, hand, table>>
    BY <1>8 DEF StartChild, ChildDies
  <2> QED
    BY <1>b, <2>1 DEF PlaceInv
<1>9. CASE UNCHANGED <<queue, hand, table, sent, batch>>
  BY <1>b, <1>9 DEF PlaceInv
<1>10. \/ Tick \/ PollConnect \/ ServerDown \/ ServerUp \/ StartLoop \/ FlushDone
       \/ DeqStart \/ DeqConnect \/ UNCHANGED vars
       => UNCHANGED <<queue, hand, table, sent, batch>>
  BY DEF Tick, PollConnect, ServerDown, ServerUp, StartLoop, FlushDone,
         DeqStart, DeqConnect, vars
<1> QED
  BY <1>a, <1>1, <1>2, <1>3, <1>4, <1>5, <1>6, <1>7, <1>8, <1>9, <1>10
  DEF Next, PollNext, DeqNext

-----------------------------------------------------------------------------
(* Lost rows                                                               *)

LEMMA SmallStep ==
  ASSUME NEW A, NEW B, NEW x, IsFiniteSet(A)
  PROVE  /\ Cardinality(A) \in Nat
         /\ B \subseteq A => Cardinality(B) \in Nat /\ Cardinality(B) <= Cardinality(A)
         /\ B \subseteq A \cup {x} =>
               Cardinality(B) \in Nat /\ Cardinality(B) <= Cardinality(A) + 1
<1>1. Cardinality(A) \in Nat
  BY FS_CardinalityType
<1>2. ASSUME B \subseteq A
      PROVE  Cardinality(B) \in Nat /\ Cardinality(B) <= Cardinality(A)
  BY <1>2, FS_Subset, FS_CardinalityType
<1>3. ASSUME B \subseteq A \cup {x}
      PROVE  Cardinality(B) \in Nat /\ Cardinality(B) <= Cardinality(A) + 1
  <2>1. IsFiniteSet(A \cup {x}) /\ Cardinality(A \cup {x}) \in Nat
        /\ Cardinality(A \cup {x}) <= Cardinality(A) + 1
    BY <1>1, FS_AddElement, FS_CardinalityType
  <2>2. Cardinality(B) \in Nat /\ Cardinality(B) <= Cardinality(A \cup {x})
    BY <1>3, <2>1, FS_Subset, FS_CardinalityType
  <2> QED
    BY <1>1, <2>1, <2>2
<1> QED
  BY <1>1, <1>2, <1>3

Lost == sent \ (table \cup InQueue \cup hand)

\* The direct sink loses the row whose query ended the child.
LEMMA DirectLossStep ==
  TypeOK /\ IsFiniteSet(sent) /\ DirectLossBounded /\ [Next]_vars
    => DirectLossBounded'
<1> SUFFICES ASSUME TypeOK, IsFiniteSet(sent), DirectLossBounded, [Next]_vars,
                    sink' = "mysql"
             PROVE  Cardinality((sent \ table)') <= deaths'
  BY DEF DirectLossBounded
<1> USE DEF world, loopVars, database, counts
<1>1. sink = "mysql" /\ deaths \in Nat
  BY DEF TypeOK, Next, PollNext, DeqNext, Tick, SetBack, StartChild, StartLoop,
       Packet,
         SendToQueue, PollConnect, PollInsert, PollQueryFails, FlushDone, ChildDies,
         DeqStart, Receive, DeqConnect, Perform, PerformFails, DeqCrash, ServerDown,
         ServerUp, vars
<1>2. IsFiniteSet(sent \ table) /\ Cardinality(sent \ table) \in Nat
      /\ Cardinality(sent \ table) <= deaths
  BY <1>1, FS_Subset, FS_CardinalityType DEF DirectLossBounded
<1>3. CASE PollQueryFails
  <2>1. PICK r \in batch : sent' = sent \cup {r} /\ deaths' = deaths + 1
    BY <1>3 DEF PollQueryFails, AfterError
  <2>2. (sent \ table)' \subseteq (sent \ table) \cup {r}
    BY <1>3, <2>1 DEF PollQueryFails
  <2>3. Cardinality((sent \ table)') \in Nat
        /\ Cardinality((sent \ table)') <= Cardinality(sent \ table) + 1
    BY <1>2, <2>2, SmallStep
  <2> QED
    BY <1>1, <1>2, <2>1, <2>3
<1>4. ASSUME (sent \ table)' \subseteq sent \ table, deaths' \in {deaths, deaths + 1}
      PROVE  Cardinality((sent \ table)') <= deaths'
  <2>1. Cardinality((sent \ table)') \in Nat
        /\ Cardinality((sent \ table)') <= Cardinality(sent \ table)
    BY <1>2, <1>4, SmallStep
  <2> QED
    BY <1>1, <1>2, <1>4, <2>1
<1>5. CASE PollInsert
  <2>1. PICK r \in batch : sent' = sent \cup {r} /\ table' = table \cup {r}
    BY <1>5 DEF PollInsert
  <2>2. (sent \ table)' \subseteq sent \ table /\ deaths' = deaths
    BY <1>5, <2>1 DEF PollInsert
  <2> QED
    BY <1>4, <2>2
<1>6. CASE Perform
  <2>1. (sent \ table)' \subseteq sent \ table /\ deaths' = deaths
    BY <1>6 DEF Perform
  <2> QED
    BY <1>4, <2>1
<1>7. CASE UNCHANGED <<sent, table>> /\ deaths' \in {deaths, deaths + 1}
  BY <1>4, <1>7
<1>8. \/ Tick \/ SetBack \/ StartChild \/ StartLoop
      \/ (\E S \in SUBSET Fields : Packet(S)) \/ PollConnect \/ FlushDone \/ ChildDies
      \/ DeqStart \/ Receive \/ DeqConnect \/ PerformFails \/ DeqCrash
      \/ ServerDown \/ ServerUp \/ UNCHANGED vars
      => UNCHANGED <<sent, table>> /\ deaths' \in {deaths, deaths + 1}
  BY DEF Tick, SetBack, StartChild, StartLoop, Packet, PollConnect, FlushDone,
         ChildDies, DeqStart, Receive, DeqConnect, PerformFails, DeqCrash,
         ServerDown, ServerUp, vars
<1>9. ~SendToQueue
  BY <1>1 DEF SendToQueue
<1> QED
  BY <1>3, <1>5, <1>6, <1>7, <1>8, <1>9 DEF Next, PollNext, DeqNext

\* With a good connection and rows in one place each, no insert fails.
LEMMA PerformSucceeds ==
  ASSUME TypeOK, Shape, KeyInv, PlaceInv, ServerInv, setbacks = 0, outages = 0
  PROVE  ~PerformFails
<1> SUFFICES ASSUME PerformFails PROVE FALSE
  OBVIOUS
<1>1. up /\ server = 1 /\ conn["deq"] \in {0, 1}
  BY DEF ServerInv
<1>2. conn["deq"] # 0 /\ Usable("deq")
  BY <1>1 DEF PerformFails, Usable
<1>3. PICK r \in hand, s \in table : SameKey(r, s)
  BY <1>2 DEF PerformFails, Insertable
<1>4. r \in sent /\ s \in sent
  BY DEF Shape, Pending
<1>5. r = s
  BY <1>3, <1>4 DEF KeyInv, All
<1> QED
  BY <1>3, <1>5 DEF PlaceInv, Pending

\* A row is lost only in a full queue and in the hand of a process that
\* crashes.
LEMMA LossStep ==
  TypeOK /\ Shape /\ KeyInv /\ PlaceInv /\ ServerInv /\ ServerInv' /\ LossInv
  /\ [Next]_vars => LossInv'
<1> SUFFICES ASSUME TypeOK, Shape, KeyInv, PlaceInv, ServerInv, ServerInv', LossInv,
                    [Next]_vars
             PROVE  LossInv'
  OBVIOUS
<1> USE DEF InQueue, world, loopVars, database, counts
<1>0. /\ queue \in Seq(Row) /\ batch \subseteq Row /\ drops \in Nat /\ crashes \in Nat
      /\ outages \in Nat /\ Len(queue) <= QueueMax /\ IsFiniteSet(sent)
      /\ table \subseteq sent /\ hand \subseteq sent /\ Messages(queue) \subseteq sent
  BY DEF TypeOK, Shape, Pending, LossInv
<1>1. IsFiniteSet(sent')
  <2>1. sent' = sent \/ \E r \in batch : sent' = sent \cup {r}
    BY DEF Next, PollNext, DeqNext, Tick, SetBack, StartChild, StartLoop,
         Packet,
         SendToQueue, PollConnect, PollInsert, PollQueryFails, FlushDone, ChildDies,
         DeqStart, Receive, DeqConnect, Perform, PerformFails, DeqCrash, ServerDown,
         ServerUp, vars
  <2> QED
    BY <1>0, <2>1, FS_AddElement
<1>2. ASSUME sink' = "msgqueue", outages' = 0, setbacks' = 0
      PROVE  Cardinality(Lost') <= crashes' + drops'
  <2>s. sink = "msgqueue"
    BY <1>2 DEF Next, PollNext, DeqNext, Tick, SetBack, StartChild, StartLoop,
         Packet,
         SendToQueue, PollConnect, PollInsert, PollQueryFails, FlushDone, ChildDies,
         DeqStart, Receive, DeqConnect, Perform, PerformFails, DeqCrash, ServerDown,
         ServerUp, vars
  <2>a. setbacks = 0 /\ ~SetBack
    BY <1>2, ForwardClock
  <2>b. ~ServerDown
    BY <1>0, <1>2 DEF ServerDown
  <2>c. outages = 0
    BY <1>2, <2>b DEF Next, PollNext, DeqNext, Tick, SetBack, StartChild,
         StartLoop,
         Packet, SendToQueue, PollConnect, PollInsert, PollQueryFails, FlushDone,
         ChildDies, DeqStart, Receive, DeqConnect, Perform, PerformFails, DeqCrash,
         ServerUp, vars
  <2>d. Cardinality(Lost) <= crashes + drops /\ IsFiniteSet(Lost)
        /\ Cardinality(Lost) \in Nat
    <3>1. Lost \subseteq sent
      BY DEF Lost
    <3>2. IsFiniteSet(Lost)
      BY <1>0, <3>1, FS_Subset
    <3> QED
      BY <2>s, <2>a, <2>c, <3>2, SmallStep DEF LossInv, QueueLossBounded, Lost
  <2>e. ASSUME Lost' \subseteq Lost, crashes' = crashes, drops' \in {drops, drops + 1}
        PROVE  Cardinality(Lost') <= crashes' + drops'
    <3>1. Cardinality(Lost') \in Nat /\ Cardinality(Lost') <= Cardinality(Lost)
      BY <2>d, <2>e, SmallStep
    <3> QED
      BY <1>0, <2>d, <2>e, <3>1
  <2>f. ASSUME NEW r, Lost' \subseteq Lost \cup {r},
               \/ crashes' = crashes /\ drops' = drops + 1
               \/ crashes' = crashes + 1 /\ drops' = drops
        PROVE  Cardinality(Lost') <= crashes' + drops'
    <3>1. Cardinality(Lost') \in Nat /\ Cardinality(Lost') <= Cardinality(Lost) + 1
      BY <2>d, <2>f, SmallStep
    <3> QED
      BY <1>0, <2>d, <2>f, <3>1
  <2>1. CASE SendToQueue
    <3>1. PICK r \in batch : sent' = sent \cup {r} /\ Queued(r)
      BY <2>1 DEF SendToQueue
    <3>2. UNCHANGED <<table, hand, crashes>>
      BY <2>1 DEF SendToQueue
    <3>3. \/ queue' = queue /\ drops' = drops + 1
          \/ queue' = Append(queue, r) /\ drops' = drops
      BY <1>0, <3>1, QueuedFacts
    <3>4. CASE queue' = queue /\ drops' = drops + 1
      <4>1. Lost' \subseteq Lost \cup {r}
        BY <3>1, <3>2, <3>4 DEF Lost
      <4> QED
        BY <2>f, <3>2, <3>4, <4>1
    <3>5. CASE queue' = Append(queue, r) /\ drops' = drops
      <4>1. Messages(queue') = Messages(queue) \cup {r}
        BY <1>0, <3>1, <3>5, MessagesFacts
      <4>2. Lost' \subseteq Lost
        BY <3>1, <3>2, <4>1 DEF Lost
      <4> QED
        BY <2>e, <3>2, <3>5, <4>2
    <3> QED
      BY <3>3, <3>4, <3>5
  <2>2. CASE Receive
    <3>1. queue # <<>> /\ Head(queue) \in Row
      BY <1>0, <2>2, TailFacts DEF Receive
    <3>2. Messages(queue) = Messages(queue') \cup hand' /\ hand = {}
      BY <1>0, <2>2, <3>1, MessagesFacts DEF Receive, Taken
    <3>3. Lost' \subseteq Lost
      BY <2>2, <3>2 DEF Receive, Lost
    <3> QED
      BY <2>2, <2>e, <3>3 DEF Receive
  <2>3. CASE Perform
    <3>1. PICK r \in hand : table' = table \cup {r}
      BY <2>3 DEF Perform
    <3>2. hand = {r}
      BY <3>1 DEF Shape
    <3>3. Lost' \subseteq Lost
      BY <2>3, <3>1, <3>2 DEF Perform, Lost
    <3> QED
      BY <2>3, <2>e, <3>3 DEF Perform
  <2>4. ~PerformFails
    BY <2>a, <2>c, PerformSucceeds
  <2>5. CASE DeqCrash
    <3>1. hand' = {} /\ crashes' = crashes + 1
          /\ UNCHANGED <<sent, table, queue, drops>>
      BY <2>5 DEF DeqCrash
    <3>2. PICK r : hand \subseteq {r}
      BY DEF Shape
    <3>3. Lost' \subseteq Lost \cup {r}
      BY <3>1, <3>2 DEF Lost
    <3> QED
      BY <2>f, <3>1, <3>3
  <2>6. CASE UNCHANGED <<sent, table, queue, hand, crashes, drops>>
    <3>1. Lost' = Lost
      BY <2>6 DEF Lost
    <3> QED
      BY <2>6, <2>e, <3>1
  <2>7. \/ Tick \/ PollConnect \/ ServerUp \/ StartChild \/ StartLoop
        \/ (\E S \in SUBSET Fields : Packet(S)) \/ FlushDone \/ ChildDies
        \/ DeqStart \/ DeqConnect \/ UNCHANGED vars
        => UNCHANGED <<sent, table, queue, hand, crashes, drops>>
    BY DEF Tick, PollConnect, ServerUp, StartChild, StartLoop, Packet,
           FlushDone, ChildDies, DeqStart, DeqConnect, vars
  <2>8. ~PollInsert /\ ~PollQueryFails
    BY <2>s DEF PollInsert, PollQueryFails
  <2> QED
    BY <2>a, <2>b, <2>1, <2>2, <2>3, <2>4, <2>5, <2>6, <2>7, <2>8
    DEF Next, PollNext, DeqNext
<1>3. DirectLossBounded'
  BY DirectLossStep DEF LossInv
<1> QED
  BY <1>1, <1>2, <1>3 DEF LossInv, QueueLossBounded, Lost

-----------------------------------------------------------------------------
(* The theorems                                                            *)

LEMMA InitIInv == Init => IInv
<1> SUFFICES ASSUME Init PROVE IInv
  OBVIOUS
<1> USE DEF Init
<1>1. TypeOK
  BY InitType
<1>2. Messages(queue) = {} /\ Len(queue) = 0 /\ Len(at) = 0
  BY DEF Messages
<1>3. Shape
  BY <1>2 DEF Shape, Pending, InQueue
<1>4. ReadingInv /\ ForgottenInv
  BY <1>2 DEF ReadingInv, ForgottenInv, NoReadingForgotten, EachReadingOnce, All
<1>5. KeyInv /\ MinuteInv
  BY DEF KeyInv, MinuteInv, All
<1>6. OrderInv /\ PlaceInv
  BY <1>2 DEF OrderInv, PlaceInv, Pending, InQueue
<1>7. ServerInv
  BY DEF ServerInv
<1>8. LossInv
  <2>1. sent \ (table \cup InQueue \cup hand) = {} /\ sent \ table = {}
    OBVIOUS
  <2>2. IsFiniteSet(sent) /\ Cardinality({}) = 0
    BY FS_EmptySet
  <2> QED
    BY <2>1, <2>2 DEF LossInv, QueueLossBounded, DirectLossBounded
<1> QED
  BY <1>1, <1>3, <1>4, <1>5, <1>6, <1>7, <1>8 DEF IInv

\* All that is claimed of the data path holds in every state.
THEOREM Invariance == Spec => []IInv
<1>1. IInv /\ [Next]_vars => IInv'
  BY TypeStep, ShapeStep, ReadingStep, ForgottenStep, KeyStep, MinuteStep,
     OrderStep, PlaceStep, ServerStep, LossStep DEF IInv
<1> QED
  BY <1>1, InitIInv, PTL DEF Spec

\* The variables keep their types and the queue its limit.
THEOREM TypeCorrect == Spec => []TypeOK
<1>1. IInv => TypeOK
  BY DEF IInv
<1> QED
  BY <1>1, Invariance, PTL

\* While the clock runs forward no two rows sent have the same primary key,
\* and a row holds the readings of one minute, the last packet excepted.
THEOREM RowsOfMinutes == Spec => []MinuteRows
<1>1. IInv => OneRowPerKey
  BY DEF IInv, KeyInv, OneRowPerKey, All
<1>2. IInv => RowCoversMinute
  BY DEF IInv, MinuteInv, RowCoversMinute, All
<1>3. IInv => MinuteRows
  BY <1>1, <1>2 DEF MinuteRows
<1> QED
  BY <1>3, Invariance, PTL

\* No reading is averaged into two rows, and while no child dies every
\* reading is in a recorder or in a row.
THEOREM ReadingsAreUsedOnce == Spec => []ReadingsUsedOnce
<1>1. IInv => ReadingsUsedOnce
  BY DEF IInv, ReadingInv, ForgottenInv, ReadingsUsedOnce
<1> QED
  BY <1>1, Invariance, PTL

\* Rows are lost in full queues, with crashing dequeuers and with children
\* whose query failed only, one each time.
THEOREM LossIsBounded == Spec => []LossBounded
<1>1. IInv => LossBounded
  BY DEF IInv, LossInv, LossBounded
<1> QED
  BY <1>1, Invariance, PTL

\* The table grows in the order of the timekeys.
THEOREM TableGrowsInOrder == Spec => StoredInOrder
<1> DEFINE InOrder ==
      setbacks = 0 => \A r \in table' \ table, s \in table : s.tk <= r.tk
<1>1. IInv /\ [Next]_vars => [InOrder]_vars
  <2> SUFFICES ASSUME IInv, [Next]_vars, setbacks = 0,
                      NEW r \in table' \ table, NEW s \in table
               PROVE  s.tk <= r.tk
    OBVIOUS
  <2>1. CASE Perform
    <3>1. r \in hand
      BY <2>1 DEF Perform
    <3> QED
      BY <3>1 DEF IInv, OrderInv, Pending
  <2>2. CASE PollInsert
    <3>1. r \in batch /\ child = "flush"
      BY <2>2 DEF PollInsert
    <3>2. s \in sent /\ s.tk <= tk /\ r.tk = tk
      BY <3>1 DEF IInv, Shape, KeyInv
    <3> QED
      BY <3>2
  <2>3. Perform \/ PollInsert
    <3>1. table' # table
      OBVIOUS
    <3> QED
      BY <3>1 DEF Next, PollNext, DeqNext, Tick, SetBack, StartChild,
           StartLoop, Packet,
         SendToQueue, PollConnect, PollQueryFails, FlushDone, ChildDies, DeqStart,
         Receive, DeqConnect, PerformFails, DeqCrash, ServerDown, ServerUp, vars,
         loopVars, database, counts, world
  <2> QED
    BY <2>1, <2>2, <2>3
<1> QED
  BY <1>1, Invariance, PTL DEF Spec, StoredInOrder

-----------------------------------------------------------------------------
(* The table as Sdata describes it                                         *)

\* A row put before a queue, and the other way round.
LEMMA FirstIsTaken ==
  ASSUME NEW S, NEW r \in S, NEW q \in Seq(S)
  PROVE  /\ <<r>> \o q \in Seq(S) /\ <<r>> \o q # <<>>
         /\ Head(<<r>> \o q) = r /\ Tail(<<r>> \o q) = q
<1> DEFINE s == <<r>> \o q
<1>1. /\ <<r>> \in Seq(S) /\ Len(<<r>>) = 1 /\ <<r>>[1] = r /\ Len(q) \in Nat
      /\ <<r>> # <<>>
  OBVIOUS
<1>2. /\ s \in Seq(S) /\ Len(s) = Len(q) + 1
      /\ s[1] = r /\ \A i \in 1..Len(q) : s[i + 1] = q[i]
  <2>1. /\ s \in Seq(S) /\ Len(s) = 1 + Len(q)
        /\ \A i \in 1..(1 + Len(q)) : s[i] = IF i <= 1 THEN <<r>>[i] ELSE q[i - 1]
    BY <1>1, ConcatProperties
  <2> HIDE DEF s
  <2>2. \A i \in 1..Len(q) : i + 1 \in 1..(1 + Len(q)) /\ ~(i + 1 <= 1) /\ (i + 1) - 1 = i
    BY <1>1
  <2> QED BY <1>1, <2>1, <2>2
<1> HIDE DEF s
<1>3. s # <<>> /\ Head(s) = s[1] /\ Tail(s) \in Seq(S) /\ Len(Tail(s)) = Len(q)
      /\ \A i \in 1..Len(Tail(s)) : Tail(s)[i] = s[i + 1]
  <2>1. s # <<>>
    BY <1>1, <1>2
  <2> QED BY <1>1, <1>2, <2>1, TailFacts
<1>4. Tail(s) = q
  BY <1>2, <1>3, SeqEqual
<1> QED BY <1>2, <1>3, <1>4 DEF s

LEMMA FirstOfQueue ==
  ASSUME NEW S, NEW q \in Seq(S), q # <<>>
  PROVE  <<Head(q)>> \o Tail(q) = q
<1> DEFINE s == <<Head(q)>> \o Tail(q)
<1>1. /\ Head(q) = q[1] /\ Head(q) \in S /\ Tail(q) \in Seq(S) /\ Len(q) \in Nat \ {0}
      /\ Len(Tail(q)) = Len(q) - 1
      /\ \A i \in 1..Len(Tail(q)) : Tail(q)[i] = q[i + 1]
  BY TailFacts
<1>2. s \in Seq(S) /\ Len(s) = 1 + Len(Tail(q))
      /\ \A i \in 1..(1 + Len(Tail(q))) :
           s[i] = IF i <= 1 THEN <<Head(q)>>[i] ELSE Tail(q)[i - 1]
  <2>1. <<Head(q)>> \in Seq(S) /\ Len(<<Head(q)>>) = 1
    BY <1>1
  <2> QED BY <1>1, <2>1, ConcatProperties
<1> HIDE DEF s
<1>3. ASSUME NEW i \in 1..Len(s) PROVE s[i] = q[i]
  <2>1. CASE i = 1
    BY <1>1, <1>2, <2>1
  <2>2. CASE i # 1
    <3>1. i - 1 \in 1..Len(Tail(q)) /\ (i - 1) + 1 = i
      BY <1>1, <1>2, <2>2
    <3>2. s[i] = Tail(q)[i - 1]
      BY <1>1, <1>2, <2>2
    <3> QED BY <1>1, <3>1, <3>2
  <2> QED BY <2>1, <2>2
<1>4. s = q
  BY <1>1, <1>2, <1>3, SeqEqual
<1> QED BY <1>4 DEF s

LEMMA BehindTheQueue ==
  ASSUME NEW S, NEW h \in S, NEW r \in S, NEW q \in Seq(S)
  PROVE  <<h>> \o Append(q, r) = Append(<<h>> \o q, r)
<1>1. <<h>> \in Seq(S) /\ <<r>> \in Seq(S)
  OBVIOUS
<1>2. <<h>> \o q \in Seq(S)
  BY FirstIsTaken
<1>3. Append(q, r) = q \o <<r>> /\ Append(<<h>> \o q, r) = (<<h>> \o q) \o <<r>>
  BY <1>2, AppendIsConcat
<1> QED BY <1>1, <1>3, ConcatAssociative

\* The message in hand goes before those of the queue.
LEMMA ComingIs ==
  ASSUME TypeOK, Shape
  PROVE  /\ hand = {} => Coming = queue
         /\ \A r \in hand : hand = {r} /\ Coming = <<r>> \o queue
<1>1. \A r \in hand : hand = {r}
  BY DEF Shape
<1> QED
  BY <1>1 DEF Coming

LEMMA NextComing ==
  ASSUME TypeOK, Shape, hand # {}
  PROVE  Coming # <<>> /\ hand = {Head(Coming)} /\ Tail(Coming) = queue
<1>1. PICK r \in hand : TRUE
  OBVIOUS
<1>2. r \in Row /\ queue \in Seq(Row)
  BY DEF TypeOK
<1>3. hand = {r} /\ Coming = <<r>> \o queue
  BY ComingIs
<1>4. Coming # <<>> /\ Head(Coming) = r /\ Tail(Coming) = queue
  BY <1>2, <1>3, FirstIsTaken
<1> QED
  BY <1>3, <1>4

Faults == drops + deaths + crashes

\* What the steps that move no row are to those who read the table.
LEMMA QuietStep ==
  ASSUME UNCHANGED <<sent, Coming, table, setbacks, outages>>,
         Faults' \in {Faults, Faults + 1}
  PROVE  [Service!Next]_(Service!dataVars)
<1>1. UNCHANGED <<sent, Coming, table, setbacks = 0, outages = 0>>
  OBVIOUS
<1>2. CASE Faults' = Faults
  BY <1>1, <1>2 DEF Service!dataVars, Faults
<1>3. CASE Faults' = Faults + 1
  <2>1. Service!DieIdle
    BY <1>1, <1>3 DEF Service!DieIdle, Service!Fault, Faults
  <2> QED BY <2>1 DEF Service!Next
<1> QED BY <1>2, <1>3

\* The rows of a batch come after those sent before it.
LEMMA BatchFollows ==
  ASSUME TypeOK, ReadingInv, KeyInv, PlaceInv, child = "flush", NEW r \in batch
  PROVE  Service!Follows(r)
<1>1. \A s \in sent : r # s /\ r.field = s.field => r.packets \cap s.packets = {}
  BY DEF ReadingInv, EachReadingOnce
<1>2. ASSUME setbacks = 0, NEW s \in sent
      PROVE  s.tk <= r.tk /\ ~Service!SameKey(r, s)
  <2>1. r # s
    BY <1>2 DEF PlaceInv
  <2>2. ~SameKey(r, s)
    BY <1>2, <2>1 DEF KeyInv, All
  <2> QED BY <1>2, <2>2 DEF KeyInv, SameKey, Service!SameKey
<1> QED BY <1>1, <1>2 DEF Service!Follows

LEMMA SentStep ==
  ASSUME NEW r \in batch, Service!Follows(r), sent' = sent \cup {r},
         UNCHANGED <<setbacks, outages>>,
         \/ Coming' = Append(Coming, r) /\ table' = table /\ Faults' = Faults
         \/ /\ Coming = <<>> /\ Insertable(r) /\ table' = table \cup {r}
            /\ Coming' = Coming /\ Faults' = Faults
         \/ Faults' = Faults + 1 /\ Coming' = Coming /\ table' = table
  PROVE  [Service!Next]_(Service!dataVars)
<1>1. UNCHANGED <<setbacks = 0, outages = 0>>
  OBVIOUS
<1>2. \/ Coming' = Append(Coming, r) /\ UNCHANGED <<table, drops + deaths + crashes>>
      \/ /\ Coming = <<>> /\ Service!Insert(r)
         /\ UNCHANGED <<Coming, drops + deaths + crashes>>
      \/ Service!Fault /\ UNCHANGED <<Coming, table>>
  BY DEF Insertable, SameKey, Service!SameKey, Service!Insert, Service!Fault, Faults
<1>3. Service!Send(r)
  BY <1>1, <1>2 DEF Service!Send
<1>4. r \in sent'
  OBVIOUS
<1> QED BY <1>3, <1>4 DEF Service!Next

LEMMA StepServes ==
  ASSUME IInv, [Next]_vars
  PROVE  [Service!Next]_(Service!dataVars)
<1> USE DEF world, loopVars, database, counts
<1>0. /\ TypeOK /\ Shape /\ ReadingInv /\ KeyInv /\ PlaceInv /\ ServerInv
      /\ Shape' /\ TypeOK'
  BY TypeStep, ShapeStep DEF IInv
<1>1. /\ queue \in Seq(Row) /\ batch \subseteq Row /\ hand \subseteq Row
      /\ drops \in Nat /\ deaths \in Nat /\ crashes \in Nat /\ Len(queue) <= QueueMax
  BY <1>0 DEF TypeOK
<1>2. CASE SendToQueue
  <2>1. PICK r \in batch : sent' = sent \cup {r} /\ Queued(r)
    BY <1>2 DEF SendToQueue
  <2>2. child = "flush" /\ UNCHANGED <<hand, table, setbacks, outages, deaths, crashes>>
    BY <1>2 DEF SendToQueue
  <2>3. Service!Follows(r)
    BY <1>0, <2>2, BatchFollows
  <2>4. CASE queue' = queue /\ drops' = drops + 1
    <3>1. Coming' = Coming /\ Faults' = Faults + 1
      BY <1>1, <2>2, <2>4 DEF Coming, Faults
    <3> QED BY <2>1, <2>2, <2>3, <3>1, SentStep
  <2>5. CASE queue' = Append(queue, r) /\ drops' = drops
    <3>1. Coming' = Append(Coming, r)
      <4>1. CASE hand = {}
        BY <2>2, <2>5, <4>1 DEF Coming
      <4>2. CASE hand # {}
        <5>1. PICK h \in hand : TRUE
          BY <4>2
        <5>2. h \in Row /\ r \in Row
          BY <1>1
        <5>3. Coming = <<h>> \o queue
          BY <1>0, ComingIs
        <5>4. Coming' = <<h>> \o Append(queue, r)
          <6>1. hand' = {h}
            BY <1>0, <2>2, ComingIs
          <6> QED BY <2>5, <6>1 DEF Coming
        <5> QED BY <1>1, <5>2, <5>3, <5>4, BehindTheQueue
      <4> QED BY <4>1, <4>2
    <3>2. Faults' = Faults
      BY <2>2, <2>5 DEF Faults
    <3> QED BY <2>1, <2>2, <2>3, <3>1, <3>2, SentStep
  <2> QED BY <1>1, <2>1, <2>4, <2>5, QueuedFacts
<1>3. CASE PollInsert
  <2>1. PICK r \in batch : /\ sent' = sent \cup {r} /\ Insertable(r)
                           /\ table' = table \cup {r}
    BY <1>3 DEF PollInsert
  <2>2. /\ sink = "mysql" /\ child = "flush"
        /\ UNCHANGED <<queue, hand, setbacks, outages, drops, deaths, crashes>>
    BY <1>3 DEF PollInsert
  <2>3. Coming = <<>> /\ Coming' = Coming /\ Faults' = Faults
    BY <1>0, <2>2 DEF Shape, Coming, Faults
  <2>4. Service!Follows(r)
    BY <1>0, <2>2, BatchFollows
  <2> QED BY <2>1, <2>2, <2>3, <2>4, SentStep
<1>4. CASE PollQueryFails
  <2>1. PICK r \in batch : sent' = sent \cup {r} /\ deaths' = deaths + 1
    BY <1>4 DEF PollQueryFails, AfterError
  <2>2. /\ child = "flush"
        /\ UNCHANGED <<queue, hand, table, setbacks, outages, drops, crashes>>
    BY <1>4 DEF PollQueryFails
  <2>3. Coming' = Coming /\ Faults' = Faults + 1
    BY <1>1, <2>1, <2>2 DEF Coming, Faults
  <2>4. Service!Follows(r)
    BY <1>0, <2>2, BatchFollows
  <2> QED BY <2>1, <2>2, <2>3, <2>4, SentStep
<1>5. CASE Receive
  <2>1. /\ hand = {} /\ queue # <<>> /\ hand' = {Head(queue)} /\ queue' = Tail(queue)
        /\ UNCHANGED <<sent, table, setbacks, outages, drops, deaths, crashes>>
    BY <1>5 DEF Receive, Taken
  <2>2. Coming' = <<Head(queue)>> \o Tail(queue)
    BY <2>1 DEF Coming
  <2>3. Coming' = Coming
    BY <1>1, <2>1, <2>2, FirstOfQueue DEF Coming
  <2> QED BY <2>1, <2>3, QuietStep DEF Faults
<1>6. CASE Perform
  <2>1. PICK r \in hand : Insertable(r) /\ table' = table \cup {r}
    BY <1>6 DEF Perform
  <2>2. /\ hand' = {}
        /\ UNCHANGED <<queue, sent, setbacks, outages, drops, deaths, crashes>>
    BY <1>6 DEF Perform
  <2>3. Coming # <<>> /\ hand = {Head(Coming)} /\ Tail(Coming) = queue
    BY <1>0, <2>1, NextComing
  <2>4. Coming' = Tail(Coming)
    BY <2>2, <2>3 DEF Coming
  <2>5. Service!Insert(Head(Coming))
    BY <2>1, <2>3 DEF Service!Insert, Insertable, SameKey, Service!SameKey
  <2>6. UNCHANGED <<drops + deaths + crashes, setbacks = 0, outages = 0>>
    BY <2>2
  <2>7. Service!Store
    BY <2>2, <2>3, <2>4, <2>5, <2>6 DEF Service!Store
  <2> QED BY <2>7 DEF Service!Next
<1>7. CASE PerformFails
  <2>1. /\ hand # {} /\ hand' = {}
        /\ UNCHANGED <<queue, table, sent, setbacks, outages, drops, deaths, crashes>>
    BY <1>7 DEF PerformFails, AfterFailure
  <2>2. Coming # <<>> /\ Tail(Coming) = queue
    BY <1>0, <2>1, NextComing
  <2>3. Coming' = Tail(Coming)
    BY <2>1, <2>2 DEF Coming
  <2>4. ~(setbacks = 0 /\ outages = 0)
    BY <1>0, <1>7, PerformSucceeds
  <2>5. UNCHANGED <<drops + deaths + crashes, setbacks = 0, outages = 0>>
    BY <2>1
  <2>6. Service!Lose
    BY <2>1, <2>2, <2>3, <2>4, <2>5 DEF Service!Lose
  <2> QED BY <2>6 DEF Service!Next
<1>8. CASE DeqCrash
  <2>1. /\ hand' = {} /\ crashes' = crashes + 1
        /\ UNCHANGED <<queue, table, sent, setbacks, outages, drops, deaths>>
    BY <1>8 DEF DeqCrash
  <2>2. Faults' = Faults + 1
    BY <1>1, <2>1 DEF Faults
  <2>3. CASE hand = {}
    <3>1. Coming' = Coming
      BY <2>1, <2>3 DEF Coming
    <3> QED BY <2>1, <2>2, <3>1, QuietStep
  <2>4. CASE hand # {}
    <3>1. Coming # <<>> /\ Tail(Coming) = queue
      BY <1>0, <2>4, NextComing
    <3>2. Coming' = Tail(Coming)
      BY <2>1, <3>1 DEF Coming
    <3>3. UNCHANGED <<setbacks = 0, outages = 0>>
      BY <2>1
    <3>4. Service!Lose
      BY <2>1, <2>2, <3>1, <3>2, <3>3 DEF Service!Lose, Service!Fault, Faults
    <3> QED BY <3>4 DEF Service!Next
  <2> QED BY <2>3, <2>4
<1>9. CASE SetBack \/ ServerDown
  <2>1. /\ UNCHANGED <<queue, hand, table, sent, drops, deaths, crashes>>
        /\ \/ setbacks' = setbacks + 1 /\ outages' = outages
           \/ outages' = outages + 1 /\ setbacks' = setbacks
    BY <1>9 DEF SetBack, ServerDown
  <2>2. Coming' = Coming /\ UNCHANGED <<drops + deaths + crashes>>
    BY <2>1 DEF Coming
  <2>3. \/ (setbacks = 0)' = FALSE /\ UNCHANGED (outages = 0)
        \/ (outages = 0)' = FALSE /\ UNCHANGED (setbacks = 0)
    <3>1. setbacks \in Nat /\ outages \in Nat
      BY <1>0 DEF TypeOK
    <3>2. setbacks + 1 # 0 /\ outages + 1 # 0
      BY <3>1
    <3>3. CASE setbacks' = setbacks + 1 /\ outages' = outages
      BY <3>2, <3>3
    <3>4. CASE outages' = outages + 1 /\ setbacks' = setbacks
      BY <3>2, <3>4
    <3> QED BY <2>1, <3>3, <3>4
  <2>4. Service!Disturb
    BY <2>1, <2>2, <2>3 DEF Service!Disturb
  <2> QED BY <2>4 DEF Service!Next
<1>10. ASSUME UNCHANGED <<sent, queue, hand, table, setbacks, outages, drops, crashes>>,
              deaths' \in {deaths, deaths + 1}
       PROVE  [Service!Next]_(Service!dataVars)
  <2>1. Coming' = Coming
    BY <1>10 DEF Coming
  <2>2. Faults' = drops + deaths' + crashes
    BY <1>10 DEF Faults
  <2>3. /\ deaths' = deaths => Faults' = Faults
        /\ deaths' = deaths + 1 => Faults' = Faults + 1
    BY <1>1, <2>2 DEF Faults
  <2> QED BY <1>10, <2>1, <2>3, QuietStep
<1>11. \/ Tick \/ StartChild \/ StartLoop \/ (\E S \in SUBSET Fields : Packet(S))
       \/ PollConnect \/ FlushDone \/ ChildDies \/ DeqStart \/ DeqConnect \/ ServerUp
       \/ UNCHANGED vars
       => /\ UNCHANGED <<sent, queue, hand, table, setbacks, outages, drops, crashes>>
          /\ deaths' \in {deaths, deaths + 1}
  BY DEF Tick, StartChild, StartLoop, Packet, PollConnect, FlushDone, ChildDies,
         DeqStart, DeqConnect, ServerUp, vars
<1> QED
  BY <1>2, <1>3, <1>4, <1>5, <1>6, <1>7, <1>8, <1>9, <1>10, <1>11
  DEF Next, PollNext, DeqNext

\* Loop, outlet, queue, dequeuer and server are an implementation of the
\* table that Sdata describes, with either data sink.
THEOREM TableIsServed == Spec => ImplementsSdata
<1>1. Init => Service!Init
  BY DEF Init, Service!Init, Coming
<1>2. IInv /\ [Next]_vars => [Service!Next]_(Service!dataVars)
  BY StepServes
<1> QED
  BY <1>1, <1>2, Invariance, PTL DEF Spec, ImplementsSdata, Service!Spec

-----------------------------------------------------------------------------
(***************************************************************************)
(* The programs that copy a table, for every table, chunk and clock.       *)
(***************************************************************************)

(* The first and the last row: a finite set of numbers has a least and a   *)
(* greatest one                                                            *)

\* The lower bounds of S are 0..c-1, and c - 1 is in S: if it were not, c
\* would be a lower bound
LEMMA LeastNatural ==
  ASSUME NEW S \in SUBSET Nat, S # {}
  PROVE  \E x \in S : \A y \in S : x <= y
<1>1. PICK n \in S : TRUE
  OBVIOUS
<1> DEFINE B == {m \in 0..n : \A x \in S : m <= x}
           c == Cardinality(B)
<1>2. IsFiniteSet(B) /\ c \in Nat
  <2>1. n \in Nat
    OBVIOUS
  <2>2. IsFiniteSet(0..n)
    BY <2>1, FS_Interval
  <2>3. B \in SUBSET (0..n)
    OBVIOUS
  <2>4. IsFiniteSet(B)
    BY <2>2, <2>3, FS_Subset
  <2> QED BY <2>4, FS_CardinalityType
<1>3. \A m \in B : 0..m \subseteq B
  BY <1>1
<1>4. \A m \in B : m \in Nat /\ m <= c - 1
  <2> SUFFICES ASSUME NEW m \in B PROVE m \in Nat /\ m <= c - 1
    OBVIOUS
  <2>1. m \in Nat
    BY <1>1
  <2>2. (0..m) \in SUBSET B
    BY <1>3
  <2>3. Cardinality(0..m) <= c
    BY <1>2, <2>2, FS_Subset
  <2>4. Cardinality(0..m) = m + 1
    BY <2>1, FS_Interval
  <2> QED BY <1>2, <2>1, <2>3, <2>4
<1>5. 0 \in B
  BY <1>1
<1>6. B = 0..(c - 1)
  <2>1. IsFiniteSet(0..(c - 1)) /\ Cardinality(0..(c - 1)) = c
    <3>1. 0 \in Int /\ c - 1 \in Int /\ ~(0 > c - 1)
      BY <1>2, <1>4, <1>5
    <3>2. IsFiniteSet(0..(c - 1)) /\ Cardinality(0..(c - 1)) = c - 1 - 0 + 1
      BY <3>1, FS_Interval
    <3> QED BY <1>2, <3>2
  <2>2. B \in SUBSET (0..(c - 1))
    BY <1>2, <1>4
  <2> QED BY <2>1, <2>2, FS_Subset
<1>7. c - 1 \in B /\ c \notin B /\ c \in Nat
  BY <1>2, <1>4, <1>5, <1>6
<1>8. c - 1 \in S
  <2> SUFFICES ASSUME c - 1 \notin S PROVE FALSE
    OBVIOUS
  <2>1. \A x \in S : x \in Nat /\ c - 1 <= x /\ x # c - 1
    BY <1>7
  <2>2. c \in 0..n /\ \A x \in S : c <= x
    BY <1>1, <1>7, <2>1
  <2> QED BY <1>7, <2>2
<1> QED BY <1>7, <1>8

\* Choose the element with the fewest greater ones
LEMMA GreatestOf ==
  ASSUME NEW S \in SUBSET Int, IsFiniteSet(S), S # {}
  PROVE  \E x \in S : \A y \in S : x >= y
<1> DEFINE Above(x) == {y \in S : y > x}
           sizes == {Cardinality(Above(x)) : x \in S}
<1>1. \A x \in S : IsFiniteSet(Above(x)) /\ Cardinality(Above(x)) \in Nat
  <2> SUFFICES ASSUME NEW x \in S
               PROVE  IsFiniteSet(Above(x)) /\ Cardinality(Above(x)) \in Nat
    OBVIOUS
  <2>1. Above(x) \in SUBSET S
    OBVIOUS
  <2>2. IsFiniteSet(Above(x))
    BY <2>1, FS_Subset
  <2> QED BY <2>2, FS_CardinalityType
<1>2. sizes \in SUBSET Nat /\ sizes # {}
  BY <1>1
<1>3. \E n \in sizes : \A m \in sizes : n <= m
  BY <1>2, LeastNatural
<1>4. PICK x \in S :
        \A y \in S : Cardinality(Above(x)) <= Cardinality(Above(y))
  BY <1>3
<1>5. ASSUME NEW y \in S, y > x PROVE FALSE
  <2>1. Above(y) \in SUBSET Above(x) /\ y \in Above(x) /\ y \notin Above(y)
    <3>1. x \in Int /\ y \in Int /\ x < y
      BY <1>5
    <3>2. \A z \in S : z \in Int /\ (z > y => z > x)
      BY <3>1
    <3>3. Above(y) \subseteq Above(x)
      BY <3>2
    <3>4. y \in Above(x)
      BY <1>5
    <3>5. y \notin Above(y)
      BY <3>1
    <3> QED BY <3>3, <3>4, <3>5
  <2>2. /\ Cardinality(Above(y)) <= Cardinality(Above(x))
        /\ Cardinality(Above(x)) = Cardinality(Above(y))
             => Above(x) = Above(y)
    BY <1>1, <2>1, FS_Subset
  <2>3. Cardinality(Above(x)) = Cardinality(Above(y))
    BY <1>1, <1>4, <1>5, <2>2
  <2> QED BY <2>1, <2>2, <2>3
<1> QED BY <1>5

LEMMA MaxIs ==
  ASSUME NEW S \in SUBSET Int, IsFiniteSet(S), S # {}
  PROVE  Max(S) \in S /\ \A y \in S : y <= Max(S)
<1>1. \E x \in S : \A y \in S : x >= y
  BY GreatestOf
<1> QED BY <1>1 DEF Max

LEMMA MinIs ==
  ASSUME NEW S \in SUBSET Nat, S # {}
  PROVE  Min(S) \in S /\ \A y \in S : Min(S) <= y
<1>1. \E x \in S : \A y \in S : x <= y
  BY LeastNatural
<1> QED BY <1>1 DEF Min

-----------------------------------------------------------------------------
(* The table                                                               *)

USE CopyingAssumption DEF CopyingAssumption

LEMMA KeysOf ==
  ASSUME NEW rows \in SUBSET AllRows, rows # {}
  PROVE  /\ \E r \in rows : r.key = First(rows)
         /\ \E r \in rows : r.key = Last(rows)
         /\ \A r \in rows : First(rows) <= r.key /\ r.key <= Last(rows)
         /\ First(rows) \in Times /\ Last(rows) \in Times
<1> DEFINE keys == {r.key : r \in rows}
<1>1. keys \in SUBSET Times /\ keys # {}
  BY DEF AllRows
<1>2. keys \in SUBSET Nat /\ keys \in SUBSET Int /\ IsFiniteSet(keys)
  <2> HIDE DEF keys
  <2>1. Times \subseteq Nat /\ IsFiniteSet(Times)
    OBVIOUS
  <2>2. IsFiniteSet(keys)
    BY <1>1, <2>1, FS_Subset
  <2> QED BY <1>1, <2>1, <2>2
<1>3. /\ Min(keys) \in keys /\ \A k \in keys : Min(keys) <= k
      /\ Max(keys) \in keys /\ \A k \in keys : k <= Max(keys)
  BY <1>1, <1>2, MaxIs, MinIs
<1>4. First(rows) = Min(keys) /\ Last(rows) = Max(keys)
  BY DEF First, Last
<1> HIDE DEF keys
<1>5. /\ First(rows) \in keys /\ \A k \in keys : First(rows) <= k
      /\ Last(rows) \in keys /\ \A k \in keys : k <= Last(rows)
  BY <1>3, <1>4
<1> QED BY <1>1, <1>5 DEF keys

LEMMA KeysAreNumbers ==
  /\ \A time \in Times : time \in Nat \ {0} /\ time \in Int
  /\ \A r \in AllRows : r.key \in Nat \ {0} /\ r.key \in Int
<1>1. \A time \in Times : time \in Nat \ {0} /\ time \in Int
  OBVIOUS
<1>2. \A r \in AllRows : r.key \in Times
  BY DEF AllRows
<1> QED BY <1>1, <1>2

LEMMA FiniteTable == ASSUME NEW rows \in SUBSET AllRows PROVE IsFiniteSet(rows)
<1> DEFINE pair == [r \in AllRows |-> <<r.key, r.intval>>]
<1>1. IsFiniteSet(Times \X Intervals)
  BY FS_Product
<1>2. pair \in Injection(AllRows, Times \X Intervals)
  <2>1. pair \in [AllRows -> Times \X Intervals]
    BY DEF AllRows
  <2>2. \A r, s \in AllRows : pair[r] = pair[s] => r = s
    BY DEF AllRows
  <2> QED BY <2>1, <2>2 DEF Injection, IsInjective
<1>3. IsFiniteSet(AllRows)
  BY <1>1, <1>2, FS_Injection
<1> QED BY <1>3, FS_Subset

\* Local time goes back only where the clock is set back, and by an hour.
LEMMA LocalInOrder ==
  ASSUME NEW a \in Int, NEW b \in Int
  PROVE  /\ Local(a) \in Int
         /\ a + Hour <= b => Local(a) <= Local(b)
         /\ a <= b /\ ~HappensTwice(Local(a)) => Local(a) <= Local(b)
<1>1. SummerStart \in Int /\ SummerEnd \in Int /\ Hour \in Nat \ {0}
  OBVIOUS
<1> QED BY <1>1 DEF Local, HappensTwice

\* A local time is that of the same number or of an hour before.
LEMMA UnixIs ==
  ASSUME NEW l \in Nat \ {0}
  PROVE  Unix(l) \in {l - Hour, l} /\ Unix(l) \in Int
<1> DEFINE S == {u \in {l - Hour, l} : Local(u) = l} \cup {l}
<1>1. l - Hour \in Int /\ Hour \in Nat \ {0}
  OBVIOUS
<1>2. Local(l - Hour) = l => l - Hour \in Nat
  BY <1>1 DEF Local
<1>3. S \in SUBSET Nat /\ S # {}
  BY <1>2
<1>4. Min(S) \in S
  BY <1>3, MinIs
<1>5. Unix(l) = Min(S)
  BY DEF Unix
<1> QED BY <1>1, <1>4, <1>5

-----------------------------------------------------------------------------
(* What the three programs have copied                                     *)

CopyShape ==
  /\ program \in Programs /\ pc \in {"start", "loop", "averages", "done"}
  /\ source \subseteq AllRows /\ initially \subseteq source
  /\ program # "dump" => initially = source
  /\ written \in [AllRows -> Nat] /\ t \in Int /\ last \in Int
  /\ pc = "averages" => program = "migrate"
  /\ pc = "start" => \A r \in AllRows : written[r] = 0
  /\ program = "fix" => \A r \in source : Local(Unix(r.key)) = r.key
  /\ program # "fix" => refused = {}

\* Where the rows end that meteodbdump or meteofixtimestamps has read
ByTime == program \in {"dump", "fix"}
Edge(u) == IF program = "fix" THEN Local(u) ELSE u

\* Before the edge everything but the first row is copied, once, and nothing
\* behind it; the end of the loop is behind all rows there were
ByTimeInv ==
  ByTime /\ pc # "start" =>
    /\ \A r \in AllRows : written[r] <= 1 /\ (written[r] = 1 => r.key < Edge(t))
    /\ \A r \in initially :
         First(initially) < r.key /\ r.key < Edge(t) => written[r] >= 1
    /\ pc = "loop" => \A r \in initially : r.key <= Edge(last)
    /\ pc = "loop" /\ program = "fix" => Local(last) = Last(initially)
    /\ pc = "done" /\ (program = "fix" => ~HappensTwice(Last(initially))) =>
          \A r \in initially : r.key < Last(initially) => r.key < Edge(t)

\* meteodbmigrate: the keys of stationdata up to t, all of them in the end
MigrateInv ==
  program = "migrate" =>
    \A r \in stationdata :
      First(stationdata) < r.key
        => /\ pc = "loop" /\ r.key <= t => written[r] >= 1
           /\ pc \in {"averages", "done"} => written[r] >= 1

\* What was inserted has its key in the new table, and the rows of the new
\* version were made after all old ones.
FixInv ==
  program = "fix" =>
    /\ copying \subseteq source /\ stored \subseteq source
    /\ fresh \subseteq AllRows /\ refused \subseteq AllRows
    /\ \A r \in AllRows : written[r] >= 1 => r \in source
    /\ \A r \in AllRows \ copying : written[r] >= 1 => Fixed(r) \in NewTable
    /\ \A n \in fresh \cup refused, s \in source : Unix(s.key) < Made(n)
    /\ \A n \in refused : \E s \in stored : Fixed(s) = n

CopyInv == CopyShape /\ ByTimeInv /\ MigrateInv /\ FixInv

LEMMA EdgeInOrder ==
  ASSUME NEW a \in Int, NEW b \in Int
  PROVE  /\ Edge(a) \in Int
         /\ a + Hour <= b => Edge(a) <= Edge(b)
         /\ a <= b /\ (program = "fix" => ~HappensTwice(Local(a))) => Edge(a) <= Edge(b)
<1>1. Hour \in Nat
  OBVIOUS
<1> QED BY <1>1, LocalInOrder DEF Edge

LEMMA FixSame ==
  ASSUME FixInv, UNCHANGED <<program, source, written, newTable>>
  PROVE  FixInv'
  BY DEF FixInv, newTable, NewTable, Fixed, Made

LEMMA WriteRows ==
  ASSUME written \in [AllRows -> Nat], NEW rows \in SUBSET AllRows, Write(rows)
  PROVE  /\ written' \in [AllRows -> Nat]
         /\ \A r \in AllRows : written'[r] >= written[r]
         /\ \A r \in AllRows \ rows : written'[r] = written[r]
         /\ \A r \in rows : written'[r] >= 1
         /\ \A r \in rows : written[r] = 0 => written'[r] = 1
<1>1. written' = [r \in AllRows |-> IF r \in rows /\ written[r] < MaxCopies
                                    THEN written[r] + 1 ELSE written[r]]
  BY DEF Write
<1>2. \A r \in AllRows :
        written'[r] = IF r \in rows /\ written[r] < MaxCopies
                      THEN written[r] + 1 ELSE written[r]
  BY <1>1
<1>3. \A r \in AllRows : written[r] \in Nat
  OBVIOUS
<1>4. written' \in [AllRows -> Nat]
  BY <1>1, <1>3
<1> QED BY <1>2, <1>3, <1>4

LEMMA CopyInitInv == ASSUME CopyInit PROVE CopyInv
<1>1. CopyShape
  BY DEF CopyInit, CopyShape, Programs
<1>2. ByTimeInv /\ MigrateInv
  BY DEF CopyInit, ByTimeInv, MigrateInv
<1>3. FixInv
  BY DEF CopyInit, FixInv
<1> QED BY <1>1, <1>2, <1>3 DEF CopyInv

\* A table in which the loop begins
LEMMA LoopBegins ==
  ASSUME CopyInv, NEW from \in Int, NEW to \in Int, Loop(from, to),
         ByTime => /\ source # {}
                   /\ Edge(from) = First(source)
                   /\ Last(source) = Edge(to),
         program = "migrate" /\ stationdata # {} => from = First(stationdata)
  PROVE  CopyInv'
<1>1. /\ pc = "start" /\ pc' = "loop" /\ t' = from /\ last' = to
      /\ UNCHANGED <<program, source, initially, written, newTable>>
  BY DEF Loop
<1>2. CopyShape'
  BY <1>1 DEF CopyInv, CopyShape, newTable
<1>3. \A r \in AllRows : written[r] = 0 /\ r.key \in Int
  <2>1. \A r \in AllRows : written[r] = 0
    BY <1>1 DEF CopyInv, CopyShape
  <2> QED BY <2>1, KeysAreNumbers
<1>4. ByTimeInv'
  <2> SUFFICES ASSUME ByTime PROVE ByTimeInv'
    BY <1>1 DEF ByTimeInv, ByTime
  <2>1. /\ Edge(t)' = Edge(from) /\ Edge(last)' = Edge(to)
    BY <1>1 DEF Edge
  <2>2. source \in SUBSET AllRows /\ initially \in SUBSET source
    BY DEF CopyInv, CopyShape
  <2>5. First(source) \in Int /\ Last(source) \in Int
    BY <2>2, KeysOf, KeysAreNumbers
  <2>3. \A r \in initially : r.key <= Edge(to)
    <3>1. \A r \in source : r.key <= Last(source) /\ r.key \in Int
      BY <1>3, <2>2, KeysOf
    <3>2. Edge(to) \in Int /\ Last(source) \in Int
      BY EdgeInOrder, <2>5
    <3> QED BY <2>2, <3>1, <3>2
  <2>4. \A r \in initially : ~(First(initially) < r.key /\ r.key < Edge(from))
    <3> SUFFICES ASSUME NEW r \in initially, First(initially) < r.key,
                        r.key < Edge(from)
                 PROVE  FALSE
      OBVIOUS
    <3>1. PICK f \in initially : f.key = First(initially)
      BY <2>2, KeysOf
    <3>2. First(source) <= f.key /\ First(source) \in Int /\ Edge(from) \in Int
      BY <2>2, <2>5, <3>1, EdgeInOrder, KeysOf
    <3> QED BY <1>3, <2>2, <3>1, <3>2
  <2>6. program = "fix" => Local(to) = Last(initially) /\ Local(last)' = Local(to)
    BY <1>1 DEF CopyInv, CopyShape, Edge, Local
  <2> QED BY <1>1, <1>3, <2>1, <2>2, <2>3, <2>4, <2>6 DEF ByTimeInv
<1>5. MigrateInv'
  <2> SUFFICES ASSUME program = "migrate", NEW r \in stationdata,
                      First(stationdata) < r.key, r.key <= from
               PROVE  FALSE
    BY <1>1 DEF MigrateInv, stationdata
  <2>1. stationdata \in SUBSET AllRows
    BY DEF CopyInv, CopyShape, stationdata
  <2>2. from = First(stationdata) /\ r.key \in Int
    BY <1>3, <2>1
  <2> QED BY <2>2
<1>6. FixInv'
  BY <1>1, FixSame DEF CopyInv
<1> QED BY <1>2, <1>4, <1>5, <1>6 DEF CopyInv

LEMMA EmptyTableDone == ASSUME CopyInv, NothingToDo PROVE CopyInv'
<1>1. /\ source = {} /\ pc = "start" /\ pc' = "done" /\ program # "migrate"
      /\ UNCHANGED <<program, source, initially, written, t, last, newTable>>
  BY DEF NothingToDo
<1>2. CopyShape'
  BY <1>1 DEF CopyInv, CopyShape, newTable
<1>3. ByTimeInv'
  <2>1. initially = {} /\ \A r \in AllRows : written[r] = 0
    BY <1>1 DEF CopyInv, CopyShape
  <2> QED BY <1>1, <2>1 DEF ByTimeInv
<1>4. MigrateInv' /\ FixInv'
  BY <1>1, FixSame DEF CopyInv, MigrateInv
<1> QED BY <1>2, <1>3, <1>4 DEF CopyInv

LEMMA LoopEnds == ASSUME CopyInv, Finish PROVE CopyInv'
<1>1. /\ pc = "loop" /\ pc' = "done" /\ program # "migrate" /\ t >= last
      /\ UNCHANGED <<program, source, initially, written, t, last, newTable>>
  BY DEF Finish
<1>2. CopyShape'
  BY <1>1 DEF CopyInv, CopyShape, newTable
<1>3. ByTimeInv'
  <2> SUFFICES ASSUME ByTime PROVE ByTimeInv'
    BY <1>1 DEF ByTimeInv, ByTime
  <2>1. /\ \A r \in AllRows : written[r] <= 1
                              /\ (written[r] = 1 => r.key < Edge(t))
        /\ \A r \in initially :
             First(initially) < r.key /\ r.key < Edge(t) => written[r] >= 1
        /\ \A r \in initially : r.key <= Edge(last)
        /\ program = "fix" => Local(last) = Last(initially)
    BY <1>1 DEF CopyInv, ByTimeInv
  <2>2. ASSUME NEW r \in initially, r.key < Last(initially),
               program = "fix" => ~HappensTwice(Last(initially))
        PROVE  r.key < Edge(t)
    <3>1. initially \in SUBSET AllRows
      BY DEF CopyInv, CopyShape
    <3>2. PICK l \in initially : l.key = Last(initially)
      BY <3>1, KeysOf
    <3>3. r.key \in Int /\ l.key \in Int
      BY <3>1, KeysAreNumbers
    <3>4. Edge(t) \in Int /\ Edge(last) \in Int /\ Edge(last) <= Edge(t)
      <4>1. t \in Int /\ last \in Int
        BY DEF CopyInv, CopyShape
      <4> QED BY <1>1, <2>1, <2>2, <4>1, EdgeInOrder
    <3>5. l.key <= Edge(last)
      BY <2>1
    <3> QED BY <2>2, <3>2, <3>3, <3>4, <3>5
  <2>3. Edge(t)' = Edge(t)
    BY <1>1 DEF Edge
  <2> QED BY <1>1, <2>1, <2>2, <2>3 DEF ByTimeInv
<1>4. MigrateInv' /\ FixInv'
  BY <1>1, FixSame DEF CopyInv, MigrateInv
<1> QED BY <1>2, <1>3, <1>4 DEF CopyInv

LEMMA LoopsBegin ==
  ASSUME CopyInv, StartDump \/ StartFix \/ StartMigrate
  PROVE  CopyInv'
<1>1. source \in SUBSET AllRows
  BY DEF CopyInv, CopyShape
<1>2. CASE StartDump
  <2>1. program = "dump" /\ source # {} /\ Loop(First(source), Last(source))
    BY <1>2 DEF StartDump
  <2>2. First(source) \in Int /\ Last(source) \in Int
    BY <1>1, <2>1, KeysOf, KeysAreNumbers
  <2> QED BY <2>1, <2>2, LoopBegins DEF Edge
<1>3. CASE StartFix
  <2>1. /\ program = "fix" /\ source # {}
        /\ Loop(Unix(First(source)), Unix(Last(source)))
    BY <1>3 DEF StartFix
  <2>2. First(source) \in Nat \ {0} /\ Last(source) \in Nat \ {0}
    BY <1>1, <2>1, KeysOf, KeysAreNumbers
  <2>3. /\ Unix(First(source)) \in Int /\ Unix(Last(source)) \in Int
        /\ Edge(Unix(First(source))) = First(source)
        /\ Last(source) = Edge(Unix(Last(source)))
    <3>1. \A r \in source : Local(Unix(r.key)) = r.key
      BY <2>1 DEF CopyInv, CopyShape
    <3> QED BY <1>1, <2>1, <2>2, <3>1, UnixIs, KeysOf DEF Edge
  <2> QED BY <2>1, <2>3, LoopBegins
<1>4. CASE StartMigrate
  <2> DEFINE from == IF stationdata = {} THEN 0 ELSE First(stationdata)
  <2>1. program = "migrate" /\ Loop(from, 0)
    BY <1>4 DEF StartMigrate
  <2>2. from \in Int
    <3>1. stationdata \in SUBSET AllRows
      BY <1>1 DEF stationdata
    <3> QED BY <3>1, KeysOf, KeysAreNumbers
  <2>3. stationdata # {} => from = First(stationdata)
    OBVIOUS
  <2> HIDE DEF from
  <2> QED BY <2>1, <2>2, <2>3, LoopBegins DEF ByTime
<1> QED BY <1>2, <1>3, <1>4

-----------------------------------------------------------------------------
(* A chunk by time, of meteodbdump and of meteofixtimestamps               *)

LEMMA ChunkByTime ==
  ASSUME CopyInv, ByTime, pc = "loop", t < last,
         NEW end \in Int, Edge(t) <= Edge(end),
         Write(Within(Edge(t), Edge(end))), t' = end,
         UNCHANGED <<program, pc, source, initially, last, refused>>
  PROVE  CopyShape' /\ ByTimeInv'
<1> DEFINE rows == Within(Edge(t), Edge(end))
<1>1. /\ source \in SUBSET AllRows /\ initially \in SUBSET source
      /\ written \in [AllRows -> Nat] /\ t \in Int
  BY DEF CopyInv, CopyShape
<1>2. rows \in SUBSET AllRows
  BY <1>1 DEF Within
<1>3. /\ written' \in [AllRows -> Nat]
      /\ \A r \in AllRows : written'[r] >= written[r]
      /\ \A r \in AllRows \ rows : written'[r] = written[r]
      /\ \A r \in rows : written'[r] >= 1
      /\ \A r \in rows : written[r] = 0 => written'[r] = 1
  <2> HIDE DEF rows
  <2>1. Write(rows)
    BY DEF rows
  <2> QED BY <1>1, <1>2, <2>1, WriteRows
<1>4. /\ \A r \in AllRows : written[r] <= 1
                            /\ (written[r] = 1 => r.key < Edge(t))
      /\ \A r \in initially :
           First(initially) < r.key /\ r.key < Edge(t) => written[r] >= 1
      /\ \A r \in initially : r.key <= Edge(last)
      /\ program = "fix" => Local(last) = Last(initially)
  BY DEF CopyInv, ByTimeInv
<1>5. /\ Edge(t) \in Int /\ Edge(end) \in Int /\ Edge(t) <= Edge(end)
  BY <1>1, EdgeInOrder
<1>6. Edge(t)' = Edge(end) /\ Edge(last)' = Edge(last)
  BY DEF Edge
<1>7. CopyShape'
  BY <1>3 DEF CopyInv, CopyShape, ByTime
<1>8. ASSUME NEW r \in AllRows
      PROVE  written'[r] <= 1 /\ (written'[r] = 1 => r.key < Edge(end))
  <2>1. r.key \in Int /\ written[r] \in Nat
    BY <1>1, KeysAreNumbers
  <2>2. CASE r \in rows
    <3>1. Edge(t) <= r.key /\ r.key < Edge(end)
      BY <2>2 DEF Within
    <3>2. written[r] = 0
      BY <1>4, <1>5, <2>1, <3>1
    <3> QED BY <1>3, <2>2, <3>1, <3>2
  <2>3. CASE r \notin rows
    <3>1. written'[r] = written[r]
      BY <1>3, <2>3
    <3> QED BY <1>4, <1>5, <2>1, <3>1
  <2> QED BY <2>2, <2>3
<1>9. ASSUME NEW r \in initially, First(initially) < r.key, r.key < Edge(end)
      PROVE  written'[r] >= 1
  <2>1. r \in AllRows /\ r.key \in Int /\ written[r] \in Nat /\ r \in source
    BY <1>1, KeysAreNumbers
  <2>2. CASE r.key < Edge(t)
    <3>1. written[r] >= 1 /\ written'[r] >= written[r] /\ written'[r] \in Nat
      BY <1>3, <1>4, <1>9, <2>1, <2>2
    <3> QED BY <2>1, <3>1
  <2>3. CASE Edge(t) <= r.key
    <3>1. r \in rows
      BY <1>9, <2>1, <2>3 DEF Within
    <3> QED BY <1>3, <3>1
  <2> QED BY <1>5, <2>1, <2>2, <2>3
<1>10. ByTimeInv'
  <2>1. \A r \in AllRows :
          written'[r] <= 1 /\ (written'[r] = 1 => r.key < Edge(end))
    BY <1>8
  <2>2. \A r \in initially :
          First(initially) < r.key /\ r.key < Edge(end) => written'[r] >= 1
    BY <1>9
  <2> QED BY <1>4, <1>6, <2>1, <2>2 DEF ByTimeInv
<1> QED BY <1>7, <1>10

LEMMA DumpChunkStep == ASSUME CopyInv, DumpChunk PROVE CopyInv'
<1>1. /\ program = "dump" /\ pc = "loop" /\ t < last
      /\ Write(Within(t, t + ChunkTime)) /\ t' = t + ChunkTime
      /\ UNCHANGED <<program, pc, source, initially, last, newTable>>
  BY DEF DumpChunk
<1>2. Edge(t) = t /\ Edge(t + ChunkTime) = t + ChunkTime /\ ByTime
  BY <1>1 DEF Edge, ByTime
<1>3. t \in Int /\ t + ChunkTime \in Int /\ t <= t + ChunkTime
  BY DEF CopyInv, CopyShape
<1>4. CopyShape' /\ ByTimeInv'
  BY <1>1, <1>2, <1>3, ChunkByTime DEF newTable
<1> QED BY <1>1, <1>4 DEF CopyInv, MigrateInv, FixInv

LEMMA FixChunkStep == ASSUME CopyInv, FixChunk PROVE CopyInv'
<1> DEFINE rows == Within(Local(t), Local(t + ChunkTime))
<1>1. /\ program = "fix" /\ pc = "loop" /\ t < last /\ copying = {}
      /\ Write(rows) /\ copying' = rows /\ t' = t + ChunkTime
      /\ UNCHANGED <<program, pc, source, initially, last, stored, fresh, refused>>
  BY DEF FixChunk
<1>2. /\ Edge(t) = Local(t) /\ Edge(t + ChunkTime) = Local(t + ChunkTime)
      /\ ByTime
  BY <1>1 DEF Edge, ByTime
<1>3. t \in Int /\ t + ChunkTime \in Int /\ t + Hour <= t + ChunkTime
  BY DEF CopyInv, CopyShape
<1>4. CopyShape' /\ ByTimeInv'
  BY <1>1, <1>2, <1>3, EdgeInOrder, ChunkByTime
<1>5. rows \in SUBSET source /\ rows \in SUBSET AllRows
      /\ written \in [AllRows -> Nat]
  BY DEF CopyInv, CopyShape, Within
<1> HIDE DEF rows
<1>6. \A r \in AllRows \ rows : written'[r] = written[r]
  BY <1>1, <1>5, WriteRows
<1>7. FixInv'
  <2>1. NewTable' = NewTable
    BY <1>1 DEF NewTable, Fixed
  <2>2. \A n : Made(n)' = Made(n)
    BY DEF Made
  <2>3. /\ stored \subseteq source /\ fresh \subseteq AllRows
        /\ refused \subseteq AllRows
        /\ \A r \in AllRows : written[r] >= 1 => r \in source
        /\ \A r \in AllRows \ copying : written[r] >= 1 => Fixed(r) \in NewTable
        /\ \A n \in fresh \cup refused, s \in source : Unix(s.key) < Made(n)
        /\ \A n \in refused : \E s \in stored : Fixed(s) = n
    BY <1>1 DEF CopyInv, FixInv
  <2>4. \A r \in AllRows : written'[r] >= 1 => r \in source
    BY <1>5, <1>6, <2>3
  <2>5. \A r \in AllRows \ rows : written'[r] >= 1 => Fixed(r) \in NewTable
    BY <1>1, <1>6, <2>3
  <2> QED BY <1>1, <1>5, <2>1, <2>3, <2>4, <2>5 DEF FixInv, Made, Fixed
<1>8. MigrateInv'
  BY <1>1 DEF MigrateInv
<1> QED BY <1>4, <1>7, <1>8 DEF CopyInv

\* Inserts into the new table leave alone what the loop has read.
LEMMA TableStep ==
  ASSUME CopyInv, program = "fix", FixInv',
         UNCHANGED <<program, pc, source, initially, written, t, last>>
  PROVE  CopyInv'
<1>1. CopyShape'
  BY DEF CopyInv, CopyShape
<1>2. ByTimeInv' /\ MigrateInv'
  BY DEF CopyInv, ByTimeInv, ByTime, Edge, MigrateInv, stationdata
<1> QED BY <1>1, <1>2 DEF CopyInv

LEMMA CopyRowStep == ASSUME CopyInv, CopyRow PROVE CopyInv'
<1>1. PICK r \in copying :
        /\ copying' = copying \ {r}
        /\ stored' = IF Fixed(r) \in NewTable THEN stored ELSE stored \cup {r}
  BY DEF CopyRow
<1>2. /\ program = "fix"
      /\ UNCHANGED <<program, pc, source, initially, written, t, last, fresh, refused>>
  BY DEF CopyRow
<1>3. FixInv
  BY DEF CopyInv
<1>4. stored \subseteq stored' /\ NewTable \subseteq NewTable' /\ Fixed(r) \in NewTable'
  BY <1>1, <1>2 DEF NewTable, Fixed
<1>5. stored' \subseteq source /\ copying' \subseteq source
  BY <1>1, <1>2, <1>3 DEF FixInv
<1>6. \A q \in AllRows \ copying' : written[q] >= 1 => Fixed(q) \in NewTable'
  BY <1>1, <1>2, <1>3, <1>4 DEF FixInv
<1>7. FixInv'
  BY <1>2, <1>3, <1>4, <1>5, <1>6 DEF FixInv, Made, Fixed
<1> QED BY <1>2, <1>7, TableStep

LEMMA NewRowStep == ASSUME CopyInv, NewRow PROVE CopyInv'
<1>1. /\ program = "fix"
      /\ UNCHANGED <<program, pc, source, initially, written, t, last, copying,
                     stored>>
  BY DEF NewRow
<1>2. PICK n \in AllRows :
        /\ \A s \in source : Unix(s.key) < Made(n)
        /\ \A m \in fresh \cup refused : m.intval = n.intval => m.key < n.key
        /\ IF n \in NewTable THEN refused' = refused \cup {n} /\ fresh' = fresh
           ELSE fresh' = fresh \cup {n} /\ refused' = refused
  BY DEF NewRow
<1>3. FixInv
  BY DEF CopyInv
<1>4. n \notin fresh
  <2>1. n.key \in Int
    BY KeysAreNumbers
  <2> QED BY <1>2, <2>1
<1>5. NewTable \subseteq NewTable' /\ fresh' \cup refused' = fresh \cup refused \cup {n}
      /\ fresh' \subseteq AllRows /\ refused' \subseteq AllRows
  BY <1>1, <1>2, <1>3 DEF NewTable, Fixed, FixInv
<1>6. ASSUME NEW m \in refused' PROVE \E s \in stored : Fixed(s) = m
  <2>1. CASE m \in refused
    BY <1>1, <1>3, <2>1 DEF FixInv
  <2>2. CASE m \notin refused
    <3>1. m = n /\ n \in NewTable
      BY <1>2, <1>6, <2>2
    <3> QED BY <1>4, <3>1 DEF NewTable
  <2> QED BY <2>1, <2>2
<1>7. \A m \in fresh' \cup refused', s \in source : Unix(s.key) < Made(m)
  BY <1>1, <1>2, <1>3, <1>5 DEF FixInv
<1>8. \A r \in AllRows \ copying : written[r] >= 1 => Fixed(r) \in NewTable'
  BY <1>1, <1>3, <1>5 DEF FixInv
<1>9. FixInv'
  BY <1>1, <1>3, <1>5, <1>6, <1>7, <1>8 DEF FixInv, Made, Fixed
<1> QED BY <1>1, <1>9, TableStep

\* A row that arrives while meteodbdump runs comes behind those it looked for
LEMMA ArrivesStep == ASSUME CopyInv, Arrives PROVE CopyInv'
<1>1. /\ program = "dump"
      /\ UNCHANGED <<program, pc, initially, written, t, last, newTable>>
      /\ source \subseteq source' /\ source' \subseteq AllRows
  BY DEF Arrives, CopyInv, CopyShape
<1>2. CopyShape'
  BY <1>1 DEF CopyInv, CopyShape, newTable
<1>3. ByTimeInv'
  BY <1>1 DEF CopyInv, ByTimeInv, ByTime, Edge
<1>4. MigrateInv' /\ FixInv'
  BY <1>1 DEF MigrateInv, FixInv
<1> QED BY <1>2, <1>3, <1>4 DEF CopyInv

-----------------------------------------------------------------------------
(* A chunk by number of rows, of meteodbmigrate                            *)

\* Without a row in the chunk there is none left
LEMMA NoRowIsTheEnd ==
  ASSUME NEW rest \in SUBSET AllRows, NEW rows \in SUBSET rest,
         NextRows(rest, rows), rows = {}
  PROVE  \A r \in rest : ~(r.key > t)
<1> DEFINE later == {r \in rest : r.key > t}
<1>1. IsFiniteSet(later) /\ Cardinality(later) \in Nat
  <2>1. later \in SUBSET AllRows
    OBVIOUS
  <2>2. IsFiniteSet(later)
    BY <2>1, FiniteTable
  <2> QED BY <2>2, FS_CardinalityType
<1>2. Cardinality({}) = Min({ChunkRows, Cardinality(later)})
  BY DEF NextRows
<1>3. Min({ChunkRows, Cardinality(later)}) \in {ChunkRows, Cardinality(later)}
  <2> HIDE DEF later
  <2>1. ChunkRows \in Nat
    OBVIOUS
  <2>2. {ChunkRows, Cardinality(later)} \in SUBSET Nat
    BY <1>1, <2>1
  <2> QED BY <2>2, MinIs
<1>4. Cardinality({}) = 0
  BY FS_EmptySet
<1>5. Cardinality(later) = 0
  BY <1>2, <1>3, <1>4
<1>6. later = {}
  <2> HIDE DEF later
  <2> QED BY <1>1, <1>5, FS_EmptySet
<1> QED BY <1>6

\* The keys of stationdata are unique: a chunk of it has all rows up to its last
LEMMA ChunkIsComplete ==
  ASSUME source \in SUBSET AllRows, NEW rows \in SUBSET stationdata, rows # {},
         NextRows(stationdata, rows), t \in Int
  PROVE  /\ Last(rows) \in Int /\ Last(rows) > t /\ Last(rows) > 0
         /\ \A r \in stationdata : r.key <= Last(rows) => r.key <= t \/ r \in rows
<1>1. stationdata \in SUBSET AllRows /\ rows \in SUBSET AllRows
  BY DEF stationdata
<1>2. PICK l \in rows : l.key = Last(rows)
  BY <1>1, KeysOf
<1>3. l.key \in Nat \ {0} /\ l.key > t
  BY <1>1, <1>2, KeysAreNumbers DEF NextRows
<1>4. ASSUME NEW r \in stationdata, r.key <= Last(rows), ~(r.key <= t),
             r \notin rows
      PROVE  FALSE
  <2>1. r.key \in Int
    BY <1>1, KeysAreNumbers
  <2>2. r \in {s \in stationdata : s.key > t} \ rows
    BY <1>4, <2>1
  <2>3. l.key <= r.key
    BY <1>2, <2>2 DEF NextRows
  <2>4. l.key = r.key
    BY <1>2, <1>3, <1>4, <2>1, <2>3
  <2>5. l \in AllRows /\ r \in AllRows /\ l.intval = r.intval
    BY <1>1, <1>2 DEF stationdata
  <2>6. l = r
    BY <2>4, <2>5 DEF AllRows
  <2> QED BY <1>2, <1>4, <2>6
<1> QED BY <1>2, <1>3, <1>4

LEMMA MigrateChunkStep == ASSUME CopyInv, MigrateChunk PROVE CopyInv'
<1>1. /\ program = "migrate" /\ pc = "loop"
      /\ UNCHANGED <<program, source, initially, last, newTable>>
  BY DEF MigrateChunk
<1>2. PICK rows \in SUBSET stationdata :
        /\ NextRows(stationdata, rows)
        /\ Write(rows)
        /\ \E end \in EndOf(rows) :
             IF end # t /\ end > 0 THEN t' = end /\ pc' = pc
             ELSE /\ t' = IF stationdata = {} THEN 0 ELSE First(stationdata)
                  /\ pc' = "averages"
  BY DEF MigrateChunk
<1>3. PICK end \in EndOf(rows) :
        IF end # t /\ end > 0 THEN t' = end /\ pc' = pc
        ELSE /\ t' = IF stationdata = {} THEN 0 ELSE First(stationdata)
             /\ pc' = "averages"
  BY <1>2
<1>4. /\ source \in SUBSET AllRows /\ stationdata \in SUBSET AllRows
      /\ rows \in SUBSET AllRows /\ written \in [AllRows -> Nat] /\ t \in Int
  BY DEF CopyInv, CopyShape, stationdata
<1>5. /\ written' \in [AllRows -> Nat]
      /\ \A r \in AllRows : written'[r] >= written[r]
      /\ \A r \in rows : written'[r] >= 1
  BY <1>2, <1>4, WriteRows
<1>6. stationdata' = stationdata
  BY <1>1 DEF stationdata
<1>7. /\ end \in Int
      /\ \/ pc' = "loop" /\ t' = end
         \/ /\ pc' = "averages" /\ rows = {}
            /\ t' = IF stationdata = {} THEN 0 ELSE First(stationdata)
  <2>1. CASE rows = {}
    <3>1. end \in Uninitialized
      BY <1>3, <2>1 DEF EndOf
    <3> QED BY <1>3, <1>1, <2>1, <3>1
  <2>2. CASE rows # {}
    <3>1. end = Last(rows)
      BY <1>3, <2>2 DEF EndOf
    <3>2. end \in Int /\ end > t /\ end > 0
      BY <1>2, <1>4, <2>2, <3>1, ChunkIsComplete
    <3> QED BY <1>3, <1>1, <1>4, <3>2
  <2> QED BY <2>1, <2>2
<1>8. CopyShape'
  <2>1. t' \in Int /\ pc' \in {"loop", "averages"}
    BY <1>4, <1>7, KeysOf, KeysAreNumbers
  <2> QED BY <1>1, <1>5, <2>1 DEF CopyInv, CopyShape, newTable
<1>9. ASSUME NEW r \in stationdata, First(stationdata) < r.key,
             r.key <= t \/ r \in rows
      PROVE  written'[r] >= 1
  <2>1. CASE r \in rows
    BY <1>5, <2>1
  <2>2. CASE r.key <= t
    <3>1. written[r] >= 1
      BY <1>1, <1>9, <2>2 DEF CopyInv, MigrateInv
    <3>2. written'[r] >= written[r] /\ written[r] \in Nat /\ written'[r] \in Nat
      BY <1>4, <1>5
    <3> QED BY <3>1, <3>2
  <2> QED BY <1>9, <2>1, <2>2
<1>10. ASSUME NEW r \in stationdata, pc' = "averages" \/ r.key <= t'
      PROVE  r.key <= t \/ r \in rows
  <2>1. CASE rows = {}
    <3>1. ~(r.key > t) /\ r.key \in Int
      BY <1>2, <1>4, <2>1, NoRowIsTheEnd, KeysAreNumbers
    <3> QED BY <1>4, <3>1
  <2>2. CASE rows # {}
    <3>1. end = Last(rows)
      BY <1>3, <2>2 DEF EndOf
    <3>2. r.key <= Last(rows)
      BY <1>7, <1>10, <2>2, <3>1
    <3> QED BY <1>2, <1>4, <2>2, <3>2, ChunkIsComplete
  <2> QED BY <2>1, <2>2
<1>11. MigrateInv'
  <2>1. pc' # "done"
    BY <1>7
  <2>2. \A r \in stationdata :
          First(stationdata) < r.key /\ (pc' = "averages" \/ r.key <= t')
            => written'[r] >= 1
    BY <1>9, <1>10
  <2> QED BY <1>6, <2>1, <2>2 DEF MigrateInv
<1>12. ByTimeInv' /\ FixInv'
  BY <1>1 DEF ByTimeInv, ByTime, FixInv
<1> QED BY <1>8, <1>11, <1>12 DEF CopyInv

LEMMA MigrateAveragesStep == ASSUME CopyInv, MigrateAverages PROVE CopyInv'
<1>1. /\ program = "migrate" /\ pc = "averages" /\ pc' \in {"averages", "done"}
      /\ UNCHANGED <<program, source, initially, last, newTable>>
  BY DEF MigrateAverages
<1>2. PICK rows \in SUBSET (source \ stationdata) :
        Write(rows) /\ t' \in EndOf(rows)
  BY DEF MigrateAverages
<1>3. /\ source \in SUBSET AllRows /\ stationdata \in SUBSET AllRows
      /\ rows \in SUBSET AllRows /\ written \in [AllRows -> Nat]
  BY DEF CopyInv, CopyShape, stationdata
<1>4. /\ written' \in [AllRows -> Nat]
      /\ \A r \in AllRows : written'[r] >= written[r]
  BY <1>2, <1>3, WriteRows
<1>5. t' \in Int
  <2>1. CASE rows = {}
    BY <1>2, <2>1 DEF EndOf
  <2>2. CASE rows # {}
    <3>1. Last(rows) \in Times
      BY <1>3, <2>2, KeysOf
    <3> QED BY <1>2, <2>2, <3>1, KeysAreNumbers DEF EndOf
  <2> QED BY <2>1, <2>2
<1>6. CopyShape'
  BY <1>1, <1>4, <1>5 DEF CopyInv, CopyShape, newTable
<1>7. MigrateInv'
  <2>1. stationdata' = stationdata
    BY <1>1 DEF stationdata
  <2>2. ASSUME NEW r \in stationdata, First(stationdata) < r.key
        PROVE  written'[r] >= 1
    <3>1. written[r] >= 1
      BY <1>1, <2>2 DEF CopyInv, MigrateInv
    <3>2. written'[r] >= written[r] /\ written[r] \in Nat /\ written'[r] \in Nat
      BY <1>3, <1>4
    <3> QED BY <3>1, <3>2
  <2> QED BY <1>1, <2>1, <2>2 DEF MigrateInv
<1>8. ByTimeInv' /\ FixInv'
  BY <1>1 DEF ByTimeInv, ByTime, FixInv
<1> QED BY <1>6, <1>7, <1>8 DEF CopyInv

-----------------------------------------------------------------------------
LEMMA CopyInductive == ASSUME CopyInv, [CopyNext]_copyVars PROVE CopyInv'
<1>1. CASE NothingToDo
  BY <1>1, EmptyTableDone
<1>2. CASE Finish
  BY <1>2, LoopEnds
<1>3. CASE StartDump \/ StartFix \/ StartMigrate
  BY <1>3, LoopsBegin
<1>4. CASE DumpChunk
  BY <1>4, DumpChunkStep
<1>5. CASE FixChunk
  BY <1>5, FixChunkStep
<1>6. CASE Arrives
  BY <1>6, ArrivesStep
<1>10. CASE CopyRow
  BY <1>10, CopyRowStep
<1>11. CASE NewRow
  BY <1>11, NewRowStep
<1>7. CASE MigrateChunk
  BY <1>7, MigrateChunkStep
<1>8. CASE MigrateAverages
  BY <1>8, MigrateAveragesStep
<1>9. CASE UNCHANGED copyVars
  <2>1. FixInv'
    BY <1>9, FixSame DEF copyVars, CopyInv
  <2> QED BY <1>9, <2>1 DEF copyVars, newTable, CopyInv, CopyShape, ByTimeInv,
                            ByTime, Edge, MigrateInv, stationdata
<1> QED BY <1>1, <1>2, <1>3, <1>4, <1>5, <1>6, <1>7, <1>8, <1>9, <1>10, <1>11
        DEF CopyNext

(***************************************************************************)
(* meteodbdump and meteofixtimestamps copy the rows between the first and  *)
(* the last, each once, and meteodbmigrate all of stationdata behind the   *)
(* first, for every table, every size of chunk, every time at which the    *)
(* clock is set and every value an unset endtime may have.                 *)
(***************************************************************************)
THEOREM CopiesAreComplete == CopySpec => []RowsCopiedOnce
<1>1. CopyInv => RowsCopiedOnce
  <2> SUFFICES ASSUME CopyInv PROVE RowsCopiedOnce
    OBVIOUS
  <2>1. WrittenOnce
    <3>1. ASSUME ByTime, NEW r \in AllRows PROVE written[r] <= 1
      <4>1. CASE pc = "start"
        BY <4>1 DEF CopyInv, CopyShape
      <4>2. CASE pc # "start"
        BY <3>1, <4>2 DEF CopyInv, ByTimeInv
      <4> QED BY <4>1, <4>2
    <3> QED BY <3>1 DEF WrittenOnce, ByTime
  <2>2. NothingBetweenIsLost
    <3> SUFFICES ASSUME pc = "done", NEW r \in initially,
                        First(initially) < r.key, r.key < Last(initially),
                        program = "fix" => ~HappensTwice(Last(initially)),
                        program = "migrate" => r.intval = Stationdata
                                               /\ First(stationdata) < r.key
                 PROVE  written[r] >= 1
      BY DEF NothingBetweenIsLost
    <3>1. CASE ByTime
      BY <3>1 DEF CopyInv, ByTimeInv
    <3>2. CASE program = "migrate"
      <4>1. r \in stationdata
        BY <3>2 DEF CopyInv, CopyShape, stationdata
      <4> QED BY <3>2, <4>1 DEF CopyInv, MigrateInv
    <3>3. program \in Programs
      BY DEF CopyInv, CopyShape
    <3> QED BY <3>1, <3>2, <3>3 DEF Programs, ByTime
  <2> QED BY <2>1, <2>2 DEF RowsCopiedOnce
<1> QED BY <1>1, CopyInitInv, CopyInductive, PTL DEF CopySpec

\* The beginning of a minute is one.
LEMMA MinuteOfMinute ==
  ASSUME NEW k \in Nat
  PROVE  (k - (k % Minute)) % Minute = 0
<1>1. Minute \in Nat \ {0}
  OBVIOUS
<1>2. PICK q \in Int : q = k \div Minute
  BY <1>1
<1>3. k - (k % Minute) = Minute * q
  BY <1>1, <1>2, SMT
<1>4. (Minute * q) % Minute = 0
  BY <1>1, SMT
<1> QED BY <1>3, <1>4

LEMMA MeetsWithinAnHour ==
  ASSUME NEW r \in AllRows, NEW n \in AllRows, Fixed(r) = n,
         Unix(r.key) < Made(n)
  PROVE  Meets(r, n)
<1>1. /\ n.key = r.key - (r.key % Minute) /\ n.intval = r.intval
      /\ r.key \in Nat \ {0} /\ n.key \in Nat \ {0}
  BY KeysAreNumbers DEF Fixed, local2time, AllRows
<1>2. r.key % Minute \in Nat /\ n.key % Minute \in Nat
  BY <1>1
<1>3. MinuteOf(r.key) = MinuteOf(n.key)
  <2>1. n.key % Minute = 0
    BY <1>1, MinuteOfMinute
  <2> QED BY <1>1, <2>1 DEF MinuteOf
<1>4. Behind[r.intval] \in Int /\ Hour \in Nat
  BY DEF AllRows
<1>5. Unix(r.key) \in {r.key - Hour, r.key}
  BY <1>1, UnixIs
<1>6. Made(n) = n.key + Behind[r.intval]
  BY <1>1 DEF Made
<1>7. Made(n) - Unix(r.key) \in 1..(Hour + Behind[r.intval])
  <2> DEFINE u == Unix(r.key)  b == Behind[r.intval]  m == Made(n)
  <2>1. /\ u \in {r.key - Hour, r.key} /\ u < m /\ m = n.key + b
        /\ b \in Int /\ Hour \in Nat /\ n.key <= r.key
    BY <1>1, <1>2, <1>4, <1>5, <1>6
  <2> HIDE DEF u, b, m
  <2>2. m - u \in 1..(Hour + b)
    BY <1>1, <2>1
  <2> QED BY <2>2 DEF u, b, m
<1> QED BY <1>1, <1>3, <1>7 DEF Meets, SameMinute

(***************************************************************************)
(* Whenever the new version inserts and wherever the clock is set back: a  *)
(* row meteofixtimestamps has dealt with is in the new table, or one of    *)
(* the same minute is, or one the new version made within an hour after    *)
(* it; and a row of the new version is refused only for such an old row.   *)
(***************************************************************************)
THEOREM FixLosesOnlyAnHour == CopySpec => []FixLosesAnHour
<1>1. ASSUME CopyInv PROVE FixLosesAnHour
  <2>1. /\ source \subseteq AllRows
        /\ program \in Programs
    BY <1>1 DEF CopyInv, CopyShape
  <2>2. FixInv
    BY <1>1 DEF CopyInv
  <2>3. ASSUME NEW r \in AllRows \ (copying \cup stored), program = "fix",
               written[r] >= 1
        PROVE  \/ \E s \in stored : SameMinute(r, s)
               \/ \E n \in fresh : Meets(r, n)
    <3>1. Fixed(r) \in NewTable /\ r \in source
      BY <2>2, <2>3 DEF FixInv
    <3>2. CASE Fixed(r) \in fresh
      <4>1. Unix(r.key) < Made(Fixed(r)) /\ Fixed(r) \in AllRows
        BY <2>2, <2>3, <3>1, <3>2 DEF FixInv
      <4> QED BY <3>2, <4>1, MeetsWithinAnHour
    <3>3. CASE Fixed(r) \notin fresh
      <4>1. PICK s \in stored : Fixed(s) = Fixed(r)
        BY <3>1, <3>3 DEF NewTable
      <4>2. s \in AllRows
        BY <2>1, <2>2, <2>3 DEF FixInv
      <4>3. Fixed(s).key = s.key - (s.key % Minute) /\ Fixed(s).intval = s.intval
            /\ Fixed(r).key = r.key - (r.key % Minute) /\ Fixed(r).intval = r.intval
        BY <4>2 DEF Fixed, local2time, AllRows
      <4> QED BY <4>1, <4>3 DEF SameMinute, MinuteOf
    <3> QED BY <3>2, <3>3
  <2>4. ASSUME NEW n \in refused, program = "fix"
        PROVE  \E s \in stored : Meets(s, n)
    <3>1. PICK s \in stored : Fixed(s) = n
      BY <2>2, <2>4 DEF FixInv
    <3>2. s \in source /\ n \in AllRows /\ Unix(s.key) < Made(n)
      BY <2>2, <2>4, <3>1 DEF FixInv
    <3> QED BY <2>1, <3>1, <3>2, MeetsWithinAnHour
  <2>5. program # "fix" => refused = {}
    BY <1>1 DEF CopyInv, CopyShape
  <2> QED BY <2>3, <2>4, <2>5 DEF FixLosesAnHour
<1> QED BY <1>1, CopyInitInv, CopyInductive, PTL DEF CopySpec
=============================================================================
