----------------------------- MODULE LinkProofs -----------------------------
(***************************************************************************)
(* Proofs about StationLink: the variables keep their types, and wakeup()  *)
(* returns or fails as the wakeup procedure of the console says, for any   *)
(* number of iterations, packets and faults and any delays; a child takes  *)
(* for a calibration or a packet only what was sent for it, as long as no  *)
(* answer is later than a new child waits before it asks.                  *)
(***************************************************************************)
EXTENDS StationLink, SequenceTheorems, TLAPS

Item == [bytes : Seq(Part), wait : Nat]

\* A console that is in a LOOP has packets to send
LoopingHasPackets == mode = "looping" => left > 0

\* A wakeup that runs has not returned
WakeupInv ==
  /\ pc \in {"wake", "answer", "drain10"} => verdict = "none" /\ woke = 0
  /\ WakeupByTheBook

\* A station that is being built has calibration reads to do
Asking ==
  \/ pc \in {"open", "drain5", "ask", "reply"}
  \/ pc \in {"wake", "answer", "drain10"} /\ after = "ask"
  => asked < Reads

IInv == TypeOK /\ LoopingHasPackets /\ WakeupInv /\ Asking

USE LinkAssumption DEF LinkAssumption

\* TypeOK without armed, whose type is logic and not arithmetic
Typed ==
  /\ kind \in Kinds
  /\ pc \in {"dead", "open", "drain5", "drain10", "wake", "answer", "ask",
             "reply", "top", "loop", "ack", "packets", "read"}
  /\ after \in {"ask", "loop"} /\ loops \in 0..Iterations
  /\ asked \in 0..Reads /\ packets \in 0..LoopCount
  /\ since \in 0..AlarmTimeout
  /\ mode \in {"asleep", "awake", "looping", "off", "babbling"}
  /\ left \in 0..LoopCount /\ gen \in 0..2
  /\ air \in Seq(Item) /\ ready \in Seq(Part)
  /\ faults \in 0..Faults
  /\ woke \in 0..(Iterations + 1) /\ verdict \in {"none", "up", "failed"}
  /\ misread \subseteq {"calibration", "packet", "noise", "loss"}

-----------------------------------------------------------------------------
(* What the helpers do to the line                                         *)

LEMMA InitIInv == ASSUME Init PROVE IInv
<1>1. TypeOK
  <2>1. air \in Seq(Item) /\ ready \in Seq(Part)
    BY EmptySeq DEF Init
  <2>2. armed \in BOOLEAN
    BY Zenon DEF Init
  <2>3. /\ loops \in 0..Iterations /\ asked \in 0..Reads
        /\ packets \in 0..LoopCount /\ left \in 0..LoopCount
        /\ faults \in 0..Faults /\ woke \in 0..(Iterations + 1)
    BY DEF Init, LinkAssumption
  <2>4. mode \in {"asleep", "awake"} /\ kind \in Kinds
    BY DEF Init
  <2> QED BY <2>1, <2>2, <2>3, <2>4 DEF Init, TypeOK, AlarmTimeout, Item
<1>2. LoopingHasPackets /\ WakeupInv /\ Asking
  BY DEF Init, LoopingHasPackets, WakeupInv, WakeupByTheBook, Asking
<1> QED BY <1>1, <1>2 DEF IInv

\* Time takes nothing off the line
LEMMA AgedTyped ==
  ASSUME Typed, NEW n \in Nat
  PROVE  Aged(n) \in Seq(Item) /\ (air # <<>> => Aged(n) # <<>>)
<1>1. air \in [1..Len(air) -> Item] /\ Len(air) \in Nat
      /\ DOMAIN air = 1..Len(air)
  BY LenProperties DEF Typed, Item
<1>2. \A k \in 1..Len(air) :
        [air[k] EXCEPT !.wait = IF @ > n THEN @ - n ELSE 0] \in Item
  BY <1>1 DEF Item
<1>3. Aged(n) \in [1..Len(air) -> Item]
  BY <1>1, <1>2 DEF Aged
<1>4. Aged(n) \in Seq(Item)
  BY <1>1, <1>3 DEF Seq
<1>5. Len(Aged(n)) = Len(air)
  BY <1>1, <1>3, <1>4, LenProperties
<1>6. air # <<>> => Len(air) # 0
  BY EmptySeq DEF Typed
<1> QED BY <1>4, <1>5, <1>6, EmptySeq

\* An answer is one more item on the line, and perhaps one more fault
LEMMA AnswersTyped ==
  ASSUME Typed, NEW bytes \in Seq(Part), Answers(bytes) \/ Silent
  PROVE  air' \in Seq(Item) /\ faults' \in 0..Faults
<1>1. CASE Answers(bytes)
  <2>1. PICK d \in {0} \cup Late :
          /\ d > 0 => faults < Faults
          /\ faults' = IF d > 0 THEN faults + 1 ELSE faults
          /\ air' = Append(air, [bytes |-> bytes, wait |-> d])
    BY <1>1 DEF Answers
  <2>2. d \in Nat
    BY <2>1 DEF LinkAssumption
  <2>4. [bytes |-> bytes, wait |-> d] \in Item
    BY <2>2 DEF Item
  <2>3. air' \in Seq(Item)
    BY <2>1, <2>4, AppendProperties DEF Typed, Item
  <2> QED BY <2>1, <2>2, <2>3 DEF Typed
<1>2. CASE Silent
  BY <1>2 DEF Silent, Typed, Item
<1> QED BY <1>1, <1>2

LEMMA BytesTyped ==
  ASSUME NEW n \in Nat, Typed
  PROVE  /\ WakeAnswer \in Seq(Part) /\ ReplyTo(n) \in Seq(Part)
         /\ <<Ack>> \in Seq(Part)
         /\ Len(ReplyTo(n)) \in {2, 3}
         /\ \A body \in {"dat", "ack", "neg"}, i \in Nat :
              <<Byte("hdr", gen, i), Byte(body, gen, i), Byte("crc", gen, i)>>
                \in Seq(Part)
<1>1. \A b \in {"lf", "cr", "ack", "hdr", "dat", "neg", "crc"} :
        \A g, i \in Nat : Byte(b, g, i) \in Part
  BY DEF Byte, Part
<1>2. gen \in Nat
  BY DEF Typed
<1> QED BY <1>1, <1>2 DEF WakeAnswer, ReplyTo, Ack

\* recvString() leaves the rest of what came
LEMMA ReadyTyped ==
  ASSUME Typed
  PROVE  /\ Wanted \in Nat
         /\ Receives => ready' \in Seq(Part)
         /\ TimesOut => ready' \in Seq(Part) /\ air' \in Seq(Item)
         /\ Patience \in Nat
<1>1. Wanted \in Nat /\ Patience \in Nat /\ Patience > 0
  BY BytesTyped DEF Wanted, Patience, ReadTimeout
<1>2. Receives => ready' \in Seq(Part)
  <2>1. Len(ready) \in Nat
    BY LenProperties DEF Typed
  <2>2. \A i \in (Wanted + 1)..Len(ready) : ready[i] \in Part
    BY <1>1, <2>1, ElementOfSeq DEF Typed
  <2>3. SubSeq(ready, Wanted + 1, Len(ready)) \in Seq(Part)
    BY <1>1, <2>1, <2>2, SubSeqProperties
  <2> QED BY <2>3 DEF Receives
<1>3. TimesOut => ready' \in Seq(Part) /\ air' \in Seq(Item)
  BY <1>1, AgedTyped, EmptySeq DEF TimesOut
<1> QED BY <1>1, <1>2, <1>3

\* The alarm comes in time
LEMMA ElapsesTyped ==
  ASSUME Typed, NEW n \in Nat, Elapses(n)
  PROVE  since' \in 0..AlarmTimeout
  BY DEF Typed, Elapses, InTime, AlarmTimeout

-----------------------------------------------------------------------------
(* The invariant                                                           *)

\* What a step of the console leaves alone
LEMMA ConsoleKeeps ==
  ASSUME WakeupInv,
         UNCHANGED <<pc, loops, verdict, woke>>
  PROVE  WakeupInv'
  BY DEF WakeupInv, WakeupByTheBook

LEMMA ArmedStep ==
  ASSUME armed \in BOOLEAN, [Next]_vars PROVE armed' \in BOOLEAN
<1> USE DEF GoesOn, Dies, childVars, consoleVars, lineVars, vars
<1>1. CASE Console
  BY <1>1, Zenon DEF Console, SendPacket, ConsoleSleeps, ConsoleFails,
     ConsoleReturns, Babble, Arrive, LineFault
<1>2. CASE Connect \/ NewChannel \/ DrainReads \/ ChannelReady \/ SendNewline
  BY <1>2, Zenon DEF Connect, NewChannel, OpenSerial, OpenTcp, DrainReads,
     ChannelReady, SendNewline
<1>3. CASE WakeAnswered \/ WakeUnanswered \/ TryAgain
  BY <1>3, Zenon DEF WakeAnswered, WakeUnanswered, TryAgain, WakeupReturns
<1>4. CASE Ask \/ Reply \/ StartLoop \/ SendLoop
  BY <1>4, Zenon DEF Ask, Reply, StartLoop, SendLoop
<1>5. CASE AwaitAck
  <2>1. CASE Head(ready).b = "neg"
    BY <1>5, <2>1, Zenon DEF AwaitAck
  <2>2. CASE Head(ready).b # "neg"
    <3>1. "ack" # "neg"
      OBVIOUS
    <3>2. UNCHANGED armed
      BY <1>5, <2>2, <3>1 DEF AwaitAck
    <3> QED BY <3>2, Zenon
  <2> QED BY <2>1, <2>2
<1>6. CASE ExpectPacket \/ ReadPacket \/ ReadTimesOut \/ Alarm
  BY <1>6, Zenon DEF ExpectPacket, ReadPacket, ReadTimesOut, Alarm
<1>7. CASE UNCHANGED vars
  BY <1>7, Zenon
<1> QED BY <1>1, <1>2, <1>3, <1>4, <1>5, <1>6, <1>7, Zenon DEF Next, Child

\* SendPacket: the console counts down
LEMMA SendPacketStep ==
  ASSUME Typed, LoopingHasPackets, WakeupInv, SendPacket
  PROVE  Typed' /\ LoopingHasPackets' /\ WakeupInv'
<1>1. PICK body \in {"dat", "ack", "neg"} :
        Answers(<<Byte("hdr", gen, LoopCount - left),
                  Byte(body, gen, LoopCount - left),
                  Byte("crc", gen, LoopCount - left)>>)
  BY DEF SendPacket
<1>2. LoopCount - left \in Nat
  BY DEF Typed
<1>3. air' \in Seq(Item) /\ faults' \in 0..Faults
  BY <1>1, <1>2, AnswersTyped, BytesTyped
<1>4. left > 0
  BY DEF SendPacket, LoopingHasPackets
<1>5. Typed' /\ LoopingHasPackets'
  BY <1>3, <1>4 DEF SendPacket, Typed, LoopingHasPackets, childVars,
     ghosts
<1>6. WakeupInv'
  BY ConsoleKeeps DEF SendPacket, childVars, ghosts
<1> QED BY <1>5, <1>6

\* the other steps of the console and the line
LEMMA ConsoleStep == ASSUME Typed, LoopingHasPackets, WakeupInv, Console
                     PROVE  Typed' /\ LoopingHasPackets' /\ WakeupInv'
<1> USE DEF childVars, consoleVars, lineVars, ghosts
<1>0. WakeupInv'
  BY ConsoleKeeps DEF Console, SendPacket, ConsoleSleeps, ConsoleFails,
     ConsoleReturns, Babble, Arrive, LineFault
<1>1. CASE SendPacket
  BY <1>1, SendPacketStep
<1>2. CASE ConsoleSleeps
  BY <1>0, <1>2 DEF ConsoleSleeps, Typed, LoopingHasPackets
<1>6. CASE ConsoleFails
  <2>1. faults' \in 0..Faults /\ left' \in 0..LoopCount
        /\ mode' \in {"off", "babbling"}
    BY <1>6 DEF ConsoleFails, Typed
  <2> QED BY <1>0, <1>6, <2>1 DEF ConsoleFails, Typed, LoopingHasPackets
<1>7. CASE ConsoleReturns
  BY <1>0, <1>7 DEF ConsoleReturns, Typed, LoopingHasPackets
<1>3. CASE Babble
  <2>1. Patience - 1 \in Nat /\ Noise \in Part
    BY DEF Patience, ReadTimeout, Noise, Byte, Part
  <2>2. air' \in Seq(Item) /\ since' \in 0..AlarmTimeout
    BY <1>3, <2>1, AgedTyped, ElapsesTyped DEF Babble
  <2>3. ready' \in Seq(Part)
    BY <1>3, <2>1, AppendProperties DEF Babble, Typed
  <2> QED BY <1>0, <1>3, <2>2, <2>3 DEF Babble, Typed,
             LoopingHasPackets
<1>4. CASE Arrive
  <2>1. Head(air) \in Item
    BY <1>4, HeadTailProperties DEF Arrive, Typed, Item
  <2>2. Head(air).wait \in Nat /\ Head(air).bytes \in Seq(Part)
    BY <2>1 DEF Item
  <2>3. air' \in Seq(Item) /\ since' \in 0..AlarmTimeout
    BY <1>4, <2>2, AgedTyped, HeadTailProperties, ElapsesTyped DEF Arrive
  <2>4. ready' \in Seq(Part)
    BY <1>4, <2>2, ConcatProperties DEF Arrive, Typed
  <2> QED BY <1>0, <1>4, <2>3, <2>4 DEF Arrive, Typed,
             LoopingHasPackets
<1>5. CASE LineFault
  <2>0. /\ UNCHANGED <<kind, pc, after, loops, asked, packets, since, mode,
                       left, gen, ready, woke, verdict>>
        /\ misread' \subseteq {"calibration", "packet", "noise", "loss"}
        /\ faults' \in 0..Faults
    BY <1>5 DEF LineFault, Typed
  <2>1. air \in Seq(Item) /\ air # <<>>
    BY <1>5 DEF LineFault, Typed, Item
  <2>2. 1 \in 1..Len(air) /\ air[1] \in Item /\ Head(air) = air[1]
    BY <2>1, EmptySeq, LenProperties, ElementOfSeq
  <2>3. PICK k \in DOMAIN air[1].bytes :
          \/ air' = [air EXCEPT ![1].bytes = RemoveAt(air[1].bytes, k)]
          \/ air' = [air EXCEPT ![1].bytes[k].b = "bad"]
    BY <1>5, <2>2 DEF LineFault
  <2>4. air[1].bytes \in Seq(Part) /\ k \in 1..Len(air[1].bytes)
        /\ Len(air[1].bytes) \in Nat
    BY <2>2, LenProperties DEF Item
  <2>5. CASE air' = [air EXCEPT ![1].bytes = RemoveAt(air[1].bytes, k)]
    <3>1. SubSeq(air[1].bytes, 1, k - 1) \in Seq(Part)
      BY <2>4, ElementOfSeq, SubSeqProperties
    <3>2. SubSeq(air[1].bytes, k + 1, Len(air[1].bytes)) \in Seq(Part)
      BY <2>4, ElementOfSeq, SubSeqProperties
    <3>3. RemoveAt(air[1].bytes, k) \in Seq(Part)
      BY <3>1, <3>2, ConcatProperties DEF RemoveAt
    <3>4. [air[1] EXCEPT !.bytes = RemoveAt(air[1].bytes, k)] \in Item
      BY <2>2, <3>3 DEF Item
    <3>5. air' = [air EXCEPT ![1] =
                    [air[1] EXCEPT !.bytes = RemoveAt(air[1].bytes, k)]]
      BY <2>5
    <3>6. air' \in Seq(Item)
      BY <2>1, <2>2, <3>4, <3>5, ExceptSeq
    <3> QED BY <1>0, <2>0, <3>6 DEF Typed, LoopingHasPackets
  <2>6. CASE air' = [air EXCEPT ![1].bytes[k].b = "bad"]
    <3>1. air[1].bytes[k] \in Part
      BY <2>4, ElementOfSeq
    <3>2. [air[1].bytes[k] EXCEPT !.b = "bad"] \in Part
      BY <3>1 DEF Part
    <3> DEFINE damaged == [air[1].bytes EXCEPT ![k] =
                             [air[1].bytes[k] EXCEPT !.b = "bad"]]
    <3>3. damaged \in Seq(Part)
      BY <2>4, <3>2, ExceptSeq
    <3>4. [air[1] EXCEPT !.bytes = damaged] \in Item
      BY <2>2, <3>3 DEF Item
    <3>5. air' = [air EXCEPT ![1] = [air[1] EXCEPT !.bytes = damaged]]
      BY <2>6
    <3>6. air' \in Seq(Item)
      BY <2>1, <2>2, <3>4, <3>5, ExceptSeq
    <3> QED BY <1>0, <2>0, <3>6 DEF Typed, LoopingHasPackets
  <2> QED BY <2>3, <2>5, <2>6
<1> QED BY <1>1, <1>2, <1>3, <1>4, <1>5, <1>6, <1>7 DEF Console

-----------------------------------------------------------------------------
(* The child                                                               *)

\* what GoesOn and Dies leave of the alarm and the packets
LEMMA CareTyped ==
  ASSUME Typed, GoesOn \/ Dies
  PROVE  packets' \in 0..LoopCount /\ since' \in 0..AlarmTimeout
<1>1. CASE GoesOn
  BY <1>1 DEF Typed, GoesOn
<1>2. CASE Dies
  <2>1. packets' = 0 /\ since' = 0
    BY <1>2, Zenon DEF Dies
  <2> QED BY <2>1 DEF AlarmTimeout
<1> QED BY <1>1, <1>2

\* Outside wakeup() nothing touches what it found
LEMMA WakeupKeeps ==
  ASSUME WakeupInv, UNCHANGED <<verdict, woke>>,
         pc' \in {"wake", "answer", "drain10"}
           => pc \in {"wake", "answer", "drain10"}
  PROVE  WakeupInv'
  BY DEF WakeupInv, WakeupByTheBook

\* The console hears a command or a newline
LEMMA HearsTyped ==
  ASSUME Typed, LoopingHasPackets,
         NEW bytes \in Seq(Part), NEW then \in {"awake", "looping"},
         NEW count \in 0..LoopCount,
         then = "looping" => count > 0,
         Hears(bytes, then, count)
  PROVE  /\ mode' \in {"asleep", "awake", "looping", "off", "babbling"}
         /\ left' \in 0..LoopCount /\ LoopingHasPackets'
         /\ air' \in Seq(Item) /\ faults' \in 0..Faults
<1>1. CASE mode \in {"awake", "looping"}
  <2>1. mode' = then /\ left' = count /\ Answers(bytes)
    BY <1>1 DEF Hears
  <2> QED BY <2>1, AnswersTyped DEF LoopingHasPackets
<1>2. CASE mode = "asleep"
  <2>1. mode' = "awake" /\ UNCHANGED left /\ Silent
    BY <1>2 DEF Hears
  <2> QED BY <2>1 DEF Silent, Typed, LoopingHasPackets
<1>3. CASE mode \in {"off", "babbling"}
  <2>1. UNCHANGED <<mode, left>> /\ Silent
    BY <1>3 DEF Hears
  <2> QED BY <2>1 DEF Silent, Typed, LoopingHasPackets
<1> QED BY <1>1, <1>2, <1>3 DEF Typed

LEMMA NewlineTyped ==
  ASSUME Typed, LoopingHasPackets, HearsNewline
  PROVE  /\ mode' \in {"asleep", "awake", "looping", "off", "babbling"}
         /\ left' \in 0..LoopCount /\ LoopingHasPackets'
         /\ air' \in Seq(Item) /\ faults' \in 0..Faults
<1>0. WakeAnswer \in Seq(Part)
  BY BytesTyped
<1>1. CASE mode \in {"awake", "looping", "asleep"}
  <2>1. mode' = "awake" /\ left' = 0 /\ (Answers(WakeAnswer) \/ Silent)
    BY <1>1 DEF HearsNewline
  <2> QED BY <1>0, <2>1, AnswersTyped DEF LoopingHasPackets
<1>2. CASE mode \in {"off", "babbling"}
  <2>1. UNCHANGED <<mode, left>> /\ Silent
    BY <1>2 DEF HearsNewline
  <2> QED BY <2>1 DEF Silent, Typed, LoopingHasPackets
<1> QED BY <1>1, <1>2 DEF Typed

\* Building the station: fork, open, drain(5)
LEMMA BuildStep ==
  ASSUME Typed, LoopingHasPackets, WakeupInv,
         Connect \/ NewChannel \/ DrainReads \/ ChannelReady
  PROVE  Typed' /\ LoopingHasPackets' /\ WakeupInv'
<1> USE DEF consoleVars, lineVars, ghosts
<1>1. CASE Connect
  <2>1. air' \in Seq(Item)
    BY <1>1, AgedTyped DEF Connect, Restart
  <2>2. WakeupInv'
    BY <1>1, WakeupKeeps DEF Connect
  <2> QED BY <1>1, <2>1, <2>2, CareTyped DEF Connect, Typed, LoopingHasPackets
<1>2. CASE NewChannel
  <2>1. /\ GoesOn
        /\ UNCHANGED <<kind, after, loops, asked, consoleVars, ready, ghosts>>
        /\ pc' \in {"drain5", "dead"}
        /\ \/ UNCHANGED <<air, faults>>
           \/ \E n \in {0, 5} : CannotOpen(n)
    BY <1>2 DEF NewChannel, OpenSerial, OpenTcp, CannotOpen
  <2>2. air' \in Seq(Item) /\ faults' \in 0..Faults
    <3>1. CASE UNCHANGED <<air, faults>>
      BY <3>1 DEF Typed
    <3>2. CASE \E n \in {0, 5} : CannotOpen(n)
      <4>1. PICK n \in {0, 5} : CannotOpen(n)
        BY <3>2
      <4>2. faults < Faults /\ faults' = faults + 1 /\ air' = Aged(n)
        BY <4>1 DEF CannotOpen
      <4> QED BY <4>2, AgedTyped DEF Typed
    <3> QED BY <2>1, <3>1, <3>2
  <2>3. WakeupInv'
    BY <2>1, WakeupKeeps
  <2> QED BY <2>1, <2>2, <2>3, CareTyped DEF Typed, LoopingHasPackets
<1>3. CASE DrainReads
  <2>1. WakeupInv'
    BY <1>3, WakeupKeeps DEF DrainReads, childVars
  <2>2. ready' \in Seq(Part)
    BY <1>3, EmptySeq DEF DrainReads
  <2> QED BY <1>3, <2>1, <2>2 DEF DrainReads, childVars, Typed,
             LoopingHasPackets
<1>4. CASE ChannelReady
  <2>1. ready' \in Seq(Part) /\ air' \in Seq(Item)
    BY <1>4, ReadyTyped DEF ChannelReady
  <2>2. /\ pc' \in {"wake", "ask"} /\ after' \in {"ask", "loop"}
        /\ loops' \in 0..Iterations /\ woke' \in 0..(Iterations + 1)
        /\ verdict' \in {"none", "up", "failed"} /\ WakeupInv'
    <3>1. CASE kind = "VantagePro"
      BY <1>4, <3>1 DEF ChannelReady, EntersWakeup, WakeupInv,
         WakeupByTheBook
    <3>2. CASE kind # "VantagePro"
      <4>1. pc' = "ask" /\ UNCHANGED <<after, loops, woke, verdict>>
        BY <1>4, <3>2 DEF ChannelReady
      <4> QED BY <4>1, WakeupKeeps DEF Typed
    <3> QED BY <3>1, <3>2
  <2> QED BY <1>4, <2>1, <2>2, CareTyped DEF ChannelReady, Typed,
             LoopingHasPackets
<1> QED BY <1>1, <1>2, <1>3, <1>4

\* wakeup(): an answer counts as long as attempts are left
LEMMA WakeupStep ==
  ASSUME Typed, LoopingHasPackets, WakeupInv,
         SendNewline \/ WakeAnswered \/ WakeUnanswered \/ TryAgain
  PROVE  Typed' /\ LoopingHasPackets' /\ WakeupInv'
<1> USE DEF consoleVars, lineVars, ghosts
<1>1. CASE SendNewline
  <2>1. WakeupInv'
    BY <1>1, WakeupKeeps DEF SendNewline
  <2> QED BY <1>1, <2>1, NewlineTyped, CareTyped DEF SendNewline, Typed
<1>2. CASE WakeAnswered
  <2>1. ready' \in Seq(Part)
    BY <1>2, ReadyTyped DEF WakeAnswered
  <2>2. Attempt \in 1..(Iterations + 1)
        /\ (loops # 0 => Attempt \in 1..Iterations)
        /\ (loops = 0 => Attempt = Iterations + 1)
    BY DEF Attempt, Typed
  <2>3. /\ pc' \in {"dead", "ask", "loop", "drain10"}
        /\ packets' \in 0..LoopCount /\ since' \in 0..AlarmTimeout
        /\ woke' \in 0..(Iterations + 1)
        /\ verdict' \in {"none", "up", "failed"} /\ WakeupInv'
    <3>1. CASE SubSeq(ready, 1, Wanted) = WakeAnswer /\ loops = 0
      <4>1. Dies /\ verdict' = "failed" /\ woke' = Attempt
        BY <1>2, <3>1 DEF WakeAnswered, WakeupReturns
      <4>2. WakeupInv'
        BY <2>2, <3>1, <4>1 DEF Dies, WakeupInv, WakeupByTheBook
      <4>3. pc' = "dead"
        BY <4>1, Zenon DEF Dies
      <4>4. packets' \in 0..LoopCount /\ since' \in 0..AlarmTimeout
        BY <4>1, CareTyped, Zenon
      <4> QED BY <2>2, <4>1, <4>2, <4>3, <4>4
    <3>2. CASE SubSeq(ready, 1, Wanted) = WakeAnswer /\ loops # 0
      <4>1. pc' = after /\ verdict' = "up" /\ GoesOn /\ woke' = Attempt
        BY <1>2, <3>2 DEF WakeAnswered, WakeupReturns
      <4> QED BY <2>2, <3>2, <4>1, CareTyped DEF Typed, WakeupInv,
                 WakeupByTheBook
    <3>3. CASE SubSeq(ready, 1, Wanted) # WakeAnswer
      <4>1. pc = "answer" /\ pc' = "drain10" /\ GoesOn
            /\ UNCHANGED <<verdict, woke>>
        BY <1>2, <3>3 DEF WakeAnswered
      <4> QED BY <4>1, CareTyped, WakeupKeeps DEF Typed
    <3> QED BY <3>1, <3>2, <3>3
  <2> QED BY <1>2, <2>1, <2>3 DEF WakeAnswered, Typed, LoopingHasPackets
<1>3. CASE WakeUnanswered
  <2>1. ready' \in Seq(Part) /\ air' \in Seq(Item) /\ Patience \in Nat
    BY <1>3, ReadyTyped DEF WakeUnanswered
  <2>2. WakeupInv'
    BY <1>3, WakeupKeeps DEF WakeUnanswered
  <2>3. since' \in 0..AlarmTimeout
    BY <1>3, <2>1, ElapsesTyped DEF WakeUnanswered
  <2> QED BY <1>3, <2>1, <2>2, <2>3 DEF WakeUnanswered, Typed,
             LoopingHasPackets
<1>4. CASE TryAgain
  <2>1. ready' \in Seq(Part) /\ air' \in Seq(Item) /\ Patience \in Nat
    BY <1>4, ReadyTyped DEF TryAgain
  <2>2. /\ pc' \in {"wake", "dead"} /\ loops' \in 0..Iterations
        /\ packets' \in 0..LoopCount /\ since' \in 0..AlarmTimeout
        /\ verdict' \in {"none", "up", "failed"} /\ WakeupInv'
    <3>1. CASE loops > 0
      BY <1>4, <2>1, <3>1, ElapsesTyped DEF TryAgain, Typed, WakeupInv,
         WakeupByTheBook
    <3>2. CASE ~(loops > 0)
      <4>1. Dies /\ verdict' = "failed" /\ UNCHANGED <<loops, woke>>
        BY <1>4, <3>2 DEF TryAgain
      <4>2. pc = "drain10"
        BY <1>4 DEF TryAgain
      <4>3. WakeupInv'
        BY <4>1, <4>2 DEF Dies, WakeupInv, WakeupByTheBook
      <4> QED BY <4>1, <4>3, CareTyped DEF Dies, Typed
    <3> QED BY <3>1, <3>2
  <2> QED BY <1>4, <2>1, <2>2 DEF TryAgain, Typed, LoopingHasPackets
<1> QED BY <1>1, <1>2, <1>3, <1>4

\* The calibration reads and the LOOP command
LEMMA CommandStep ==
  ASSUME Typed, LoopingHasPackets, WakeupInv, Asking,
         Ask \/ Reply \/ StartLoop \/ SendLoop \/ AwaitAck
  PROVE  Typed' /\ LoopingHasPackets' /\ WakeupInv'
<1> USE DEF consoleVars, lineVars, ghosts
<1>1. CASE Ask
  <2>1. asked + 1 \in Nat
    BY DEF Typed
  <2>2. WakeupInv'
    BY <1>1, WakeupKeeps DEF Ask
  <2>3. /\ mode' \in {"asleep", "awake", "looping", "off", "babbling"}
        /\ left' \in 0..LoopCount /\ LoopingHasPackets'
        /\ air' \in Seq(Item) /\ faults' \in 0..Faults
    BY <1>1, <2>1, BytesTyped, HearsTyped DEF Ask
  <2> QED BY <1>1, <2>2, <2>3, CareTyped DEF Ask, Typed
<1>2. CASE Reply
  <2>1. ready' \in Seq(Part)
    BY <1>2, ReadyTyped DEF Reply
  <2>2. /\ pc' \in {"dead", "ask", "top"}
        /\ packets' \in 0..LoopCount /\ since' \in 0..AlarmTimeout
    BY <1>2, CareTyped DEF Reply, Dies
  <2>3. misread' \subseteq {"calibration", "packet", "noise", "loss"}
    BY <1>2 DEF Reply, Misreads, Typed
  <2>4. asked' \in 0..Reads
    BY <1>2 DEF Reply, Typed, Asking
  <2>5. WakeupInv'
    BY <1>2, <2>2, WakeupKeeps DEF Reply
  <2> QED BY <1>2, <2>1, <2>2, <2>3, <2>4, <2>5
          DEF Reply, Typed, LoopingHasPackets
<1>3. CASE StartLoop
  <2>1. /\ pc' \in {"wake", "loop"} /\ after' \in {"ask", "loop"}
        /\ loops' \in 0..Iterations /\ woke' \in 0..(Iterations + 1)
        /\ verdict' \in {"none", "up", "failed"} /\ WakeupInv'
    <3>1. CASE kind = "VantagePro"
      BY <1>3, <3>1 DEF StartLoop, EntersWakeup, WakeupInv, WakeupByTheBook
    <3>2. CASE kind # "VantagePro"
      <4>1. pc' = "loop" /\ UNCHANGED <<after, loops, woke, verdict>>
        BY <1>3, <3>2 DEF StartLoop
      <4> QED BY <4>1, WakeupKeeps DEF Typed
    <3> QED BY <3>1, <3>2
  <2> QED BY <1>3, <2>1, CareTyped DEF StartLoop, Typed, LoopingHasPackets
<1>4. CASE SendLoop
  <2>1. /\ mode' \in {"asleep", "awake", "looping", "off", "babbling"}
        /\ left' \in 0..LoopCount /\ LoopingHasPackets'
        /\ air' \in Seq(Item) /\ faults' \in 0..Faults
    <3>1. Hears(<<Ack>>, "looping", LoopCount) /\ <<Ack>> \in Seq(Part)
      BY <1>4, BytesTyped DEF SendLoop
    <3>2. LoopCount \in 0..LoopCount /\ LoopCount > 0
      OBVIOUS
    <3> QED BY <3>1, <3>2, HearsTyped
  <2>2. gen' \in 0..2
    BY <1>4 DEF SendLoop, Typed
  <2>3. WakeupInv'
    BY <1>4, WakeupKeeps DEF SendLoop
  <2> QED BY <1>4, <2>1, <2>2, <2>3, CareTyped DEF SendLoop, Typed
<1>5. CASE AwaitAck
  <2>1. ready' \in Seq(Part)
    BY <1>5, ReadyTyped DEF AwaitAck
  <2>2. /\ pc' \in {"dead", "packets", "ack"}
        /\ packets' \in 0..LoopCount /\ since' \in 0..AlarmTimeout
    <3>1. CASE Head(ready).b = "neg"
      BY <1>5, <3>1, CareTyped DEF AwaitAck, Dies
    <3>2. CASE Head(ready).b = "ack"
      BY <1>5, <3>2 DEF AwaitAck, Typed
    <3>3. CASE Head(ready).b \notin {"neg", "ack"}
      <4>1. pc = "ack" /\ UNCHANGED pc /\ GoesOn
        BY <1>5, <3>3 DEF AwaitAck
      <4> QED BY <4>1, CareTyped
    <3> QED BY <3>1, <3>2, <3>3
  <2>3. WakeupInv'
    BY <1>5, <2>2, WakeupKeeps DEF AwaitAck
  <2> QED BY <1>5, <2>1, <2>2, <2>3 DEF AwaitAck, Typed, LoopingHasPackets
<1> QED BY <1>1, <1>2, <1>3, <1>4, <1>5

\* The packets of a LOOP, and what ends the child
LEMMA PacketStep ==
  ASSUME Typed, LoopingHasPackets, WakeupInv,
         ExpectPacket \/ ReadPacket \/ ReadTimesOut \/ Alarm
  PROVE  Typed' /\ LoopingHasPackets' /\ WakeupInv'
<1> USE DEF consoleVars, lineVars, ghosts
<1>1. CASE ExpectPacket
  <2>1. /\ pc' \in {"read", "top"}
        /\ packets' \in 0..LoopCount /\ since' \in 0..AlarmTimeout
    BY <1>1, CareTyped DEF ExpectPacket, Typed, AlarmTimeout
  <2>2. WakeupInv'
    BY <1>1, <2>1, WakeupKeeps DEF ExpectPacket
  <2> QED BY <1>1, <2>1, <2>2 DEF ExpectPacket, Typed, LoopingHasPackets
<1>2. CASE ReadPacket
  <2>1. ready' \in Seq(Part)
    BY <1>2, ReadyTyped DEF ReadPacket
  <2>2. /\ pc' \in {"dead", "packets"}
        /\ packets' \in 0..LoopCount /\ since' \in 0..AlarmTimeout
        /\ misread' \subseteq {"calibration", "packet", "noise", "loss"}
    BY <1>2, CareTyped DEF ReadPacket, Dies, Typed
  <2>3. WakeupInv'
    BY <1>2, <2>2, WakeupKeeps DEF ReadPacket
  <2> QED BY <1>2, <2>1, <2>2, <2>3 DEF ReadPacket, Typed, LoopingHasPackets
<1>3. CASE ReadTimesOut
  <2>1. ready' \in Seq(Part) /\ air' \in Seq(Item)
    BY <1>3, ReadyTyped DEF ReadTimesOut
  <2>2. WakeupInv'
    BY <1>3, WakeupKeeps DEF ReadTimesOut, Dies
  <2> QED BY <1>3, <2>1, <2>2, CareTyped DEF ReadTimesOut, Dies, Typed,
             LoopingHasPackets
<1>4. CASE Alarm
  <2>1. AlarmTimeout - since \in Nat
    BY DEF Typed, AlarmTimeout
  <2>2. air' \in Seq(Item)
    BY <1>4, <2>1, AgedTyped DEF Alarm
  <2>3. WakeupInv'
    BY <1>4, WakeupKeeps DEF Alarm, Dies
  <2> QED BY <1>4, <2>2, <2>3, CareTyped DEF Alarm, Dies, Typed,
             LoopingHasPackets
<1> QED BY <1>1, <1>2, <1>3, <1>4

-----------------------------------------------------------------------------
\* the calibration reads are counted from 0 by every child
LEMMA AskingStep ==
  ASSUME Typed, Asking, [Next]_vars PROVE Asking'
<1> USE DEF Asking, GoesOn, Dies, childVars, consoleVars, lineVars, ghosts
<1>1. CASE Console
  BY <1>1 DEF Console, SendPacket, ConsoleSleeps, ConsoleFails,
     ConsoleReturns, Babble, Arrive, LineFault
<1>2. CASE Connect
  BY <1>2 DEF Connect
<1>3. CASE NewChannel \/ DrainReads
  BY <1>3 DEF NewChannel, OpenSerial, OpenTcp, CannotOpen, DrainReads
<1>4. CASE ChannelReady
  BY <1>4 DEF ChannelReady, EntersWakeup
<1>5. CASE SendNewline \/ WakeUnanswered \/ TryAgain
  BY <1>5 DEF SendNewline, WakeUnanswered, TryAgain
<1>6. CASE WakeAnswered
  BY <1>6 DEF WakeAnswered, WakeupReturns, Typed
<1>7. CASE Ask \/ SendLoop \/ StartLoop
  BY <1>7 DEF Ask, SendLoop, StartLoop, EntersWakeup
<1>8. CASE Reply
  BY <1>8 DEF Reply
<1>9. CASE AwaitAck
  <2>1. pc = "ack" /\ pc' \in {"ack", "dead", "packets"}
    BY <1>9 DEF AwaitAck
  <2> QED BY <2>1
<1>10. CASE ExpectPacket \/ ReadPacket \/ ReadTimesOut \/ Alarm
  BY <1>10 DEF ExpectPacket, ReadPacket, ReadTimesOut, Alarm
<1>11. CASE UNCHANGED vars
  BY <1>11 DEF vars
<1> QED BY <1>1, <1>2, <1>3, <1>4, <1>5, <1>6, <1>7, <1>8, <1>9, <1>10, <1>11
        DEF Next, Child

LEMMA TypedOK == TypeOK <=> Typed /\ armed \in BOOLEAN
<1> USE DEF Item
<1>1. TypeOK => Typed
  BY DEF TypeOK, Typed
<1>2. TypeOK => armed \in BOOLEAN
  BY Zenon DEF TypeOK
<1>3. Typed /\ armed \in BOOLEAN => TypeOK
  <2> SUFFICES ASSUME Typed, armed \in BOOLEAN PROVE TypeOK
    OBVIOUS
  <2> QED BY Zenon DEF TypeOK, Typed
<1> QED BY <1>1, <1>2, <1>3, Zenon

LEMMA Step == ASSUME IInv, [Next]_vars PROVE IInv'
<1>1. Typed /\ LoopingHasPackets /\ WakeupInv /\ Asking /\ armed \in BOOLEAN
  BY TypedOK, Zenon DEF IInv
<1>2. armed' \in BOOLEAN
  BY <1>1, ArmedStep, Zenon
<1>3. Typed' /\ LoopingHasPackets' /\ WakeupInv'
  <2>1. CASE Child
    BY <1>1, <2>1, BuildStep, WakeupStep, CommandStep, PacketStep, Zenon
       DEF Child
  <2>2. CASE Console
    BY <1>1, <2>2, ConsoleStep, Zenon
  <2>3. CASE Alarm
    BY <1>1, <2>3, PacketStep, Zenon
  <2>4. CASE UNCHANGED vars
    <3>1. UNCHANGED <<kind, pc, after, loops, asked, packets, since, mode,
                      left, gen, air, ready, faults, woke, verdict, misread>>
      BY <2>4, Zenon DEF vars, childVars, consoleVars, lineVars, ghosts
    <3> QED BY <1>1, <3>1, WakeupKeeps DEF Typed, LoopingHasPackets
  <2> QED BY <2>1, <2>2, <2>3, <2>4, Zenon DEF Next
<1>4. TypeOK'
  BY <1>2, <1>3, Zenon DEF TypeOK, Typed, Item
<1>5. Asking'
  BY <1>1, AskingStep, Zenon
<1> QED BY <1>3, <1>4, <1>5, Zenon DEF IInv

LEMMA Inductive == Spec => []IInv
<1>1. Init => IInv
  BY InitIInv
<1>2. IInv /\ [Next]_vars => IInv'
  BY Step
<1> QED BY <1>1, <1>2, PTL DEF Spec

\* The child, the console, the line and the alarm keep the shape the model
\* gives them, whatever the delays and the faults: in particular a child never
\* waits for more packets than one LOOP command asks for (Station::packets),
\* and a pending alarm is never older than ALARMTIMEOUT
THEOREM TypeCorrect == Spec => []TypeOK
<1>1. IInv => TypeOK
  BY DEF IInv
<1> QED BY <1>1, Inductive, PTL

\* VantagePro::wakeup() returns exactly when one of the first Iterations
\* newlines was answered, the number the wakeup procedure of the console gives
\* (doc/vtechref.txt:95-102), although the loop sends one more
THEOREM WakeupFollowsTheBook == Spec => []WakeupByTheBook
<1>1. IInv => WakeupByTheBook
  BY DEF IInv, WakeupInv
<1> QED BY <1>1, Inductive, PTL

-----------------------------------------------------------------------------
(* What is on the line                                                     *)

\* No answer is later than the parent sleeps before the next child and
\* drain(5) waits
DrainedDelays == \A d \in Late : d <= Restart + 5

ItemOf(S) == [bytes : Seq(S), wait : 0..(Restart + 5)]
OnLine(S) == ready \in Seq(S) /\ air \in Seq(ItemOf(S))

NotLf == {x \in Part : x.b # "lf"}
NotHdr == {x \in Part : x.b # "hdr"}
Current(g) == {x \in Part : x.b = "hdr" => x.g = g}

LEMMA Elements ==
  ASSUME NEW S, NEW T, NEW s \in Seq(T), \A k \in 1..Len(s) : s[k] \in S
  PROVE  s \in Seq(S)
<1>1. s \in [1..Len(s) -> T] /\ Len(s) \in Nat
  BY LenProperties
<1>2. s \in [1..Len(s) -> S]
  BY <1>1
<1> QED BY <1>1, <1>2 DEF Seq

LEMMA NoneLeft ==
  ASSUME NEW S, NEW s \in Seq(S)
  PROVE  /\ Len(s) \in Nat /\ (s = <<>> <=> Len(s) = 0)
         /\ \A k \in 1..Len(s) : s[k] \in S
         /\ DOMAIN s = 1..Len(s)
<1>1. Len(s) \in Nat /\ DOMAIN s = 1..Len(s)
  BY LenProperties
<1>2. \A k \in 1..Len(s) : s[k] \in S
  BY ElementOfSeq
<1> QED BY <1>1, <1>2, EmptySeq

\* Time: n seconds less to go
LEMMA AgedLine ==
  ASSUME NEW S, air \in Seq(ItemOf(S)), NEW n \in Nat
  PROVE  /\ Aged(n) \in Seq(ItemOf(S)) /\ Len(Aged(n)) = Len(air)
         /\ \A k \in 1..Len(air) :
              /\ Aged(n)[k].bytes = air[k].bytes
              /\ Aged(n)[k].wait =
                   IF air[k].wait > n THEN air[k].wait - n ELSE 0
<1>1. air \in [1..Len(air) -> ItemOf(S)] /\ Len(air) \in Nat
      /\ DOMAIN air = 1..Len(air)
  BY LenProperties
<1>2. ASSUME NEW k \in 1..Len(air)
      PROVE  /\ [air[k] EXCEPT !.wait = IF @ > n THEN @ - n ELSE 0]
                  \in ItemOf(S)
             /\ [air[k] EXCEPT !.wait = IF @ > n THEN @ - n ELSE 0]
                  = [bytes |-> air[k].bytes,
                     wait |-> IF air[k].wait > n THEN air[k].wait - n ELSE 0]
  <2>1. air[k] \in ItemOf(S)
    BY <1>1
  <2>2. /\ air[k] = [bytes |-> air[k].bytes, wait |-> air[k].wait]
        /\ air[k].bytes \in Seq(S) /\ air[k].wait \in 0..8
    BY <2>1 DEF ItemOf, Restart
  <2>3. [air[k] EXCEPT !.wait = IF @ > n THEN @ - n ELSE 0]
          = [bytes |-> air[k].bytes,
             wait |-> IF air[k].wait > n THEN air[k].wait - n ELSE 0]
    BY <2>2
  <2>4. (IF air[k].wait > n THEN air[k].wait - n ELSE 0) \in 0..8
    BY <2>2
  <2> QED BY <2>2, <2>3, <2>4 DEF ItemOf, Restart
<1>3. Aged(n) \in [1..Len(air) -> ItemOf(S)]
  BY <1>1, <1>2 DEF Aged
<1>4. Aged(n) \in Seq(ItemOf(S))
  BY <1>1, <1>3 DEF Seq
<1>5. Len(Aged(n)) = Len(air)
  BY <1>1, <1>3, <1>4, LenProperties
<1>6. \A k \in 1..Len(air) :
        Aged(n)[k] =
          [bytes |-> air[k].bytes,
           wait |-> IF air[k].wait > n THEN air[k].wait - n ELSE 0]
  BY <1>1, <1>2 DEF Aged
<1>7. ASSUME NEW k \in 1..Len(air)
      PROVE  /\ Aged(n)[k].bytes = air[k].bytes
             /\ Aged(n)[k].wait =
                  IF air[k].wait > n THEN air[k].wait - n ELSE 0
  <2> DEFINE w == IF air[k].wait > n THEN air[k].wait - n ELSE 0
             it == Aged(n)[k]
  <2>1. it = [bytes |-> air[k].bytes, wait |-> w]
    BY <1>6
  <2> HIDE DEF w, it
  <2>2. it.bytes = air[k].bytes /\ it.wait = w
    BY <2>1
  <2> QED BY <2>2 DEF w, it
<1> QED BY <1>4, <1>5, <1>7

\* An item of what is under way comes to the end of what can be read
LEMMA ArriveLine ==
  ASSUME NEW S, OnLine(S), Arrive
  PROVE  /\ ready' \in Seq(S) /\ air' \in Seq(ItemOf(S))
         /\ Len(air) >= 1 /\ Len(air') = Len(air) - 1
         /\ air[1].bytes \in Seq(S)
         /\ \A k \in 1..Len(air') : air'[k].bytes = air[k + 1].bytes
                                    /\ air'[k].wait <= air[k + 1].wait
         /\ Len(ready') = Len(ready) + Len(air[1].bytes)
         /\ \A k \in 1..Len(ready) : ready'[k] = ready[k]
         /\ \A k \in 1..Len(air[1].bytes) :
              ready'[Len(ready) + k] = air[1].bytes[k]
<1>1. Len(air) \in Nat /\ Len(air) >= 1
      /\ \A k \in 1..Len(air) : air[k] \in ItemOf(S)
  BY NoneLeft DEF Arrive, OnLine
<1>2. Head(air) = air[1] /\ air[1] \in ItemOf(S)
  BY <1>1
<1>3. air[1].bytes \in Seq(S) /\ air[1].wait \in Nat
  BY <1>2 DEF ItemOf, Restart
<1>4. air' = Tail(Aged(air[1].wait)) /\ ready' = ready \o air[1].bytes
  BY <1>2 DEF Arrive
<1> DEFINE aged == Aged(air[1].wait)
<1>5. /\ aged \in Seq(ItemOf(S)) /\ Len(aged) = Len(air)
      /\ \A k \in 1..Len(air) : aged[k].bytes = air[k].bytes
                                /\ aged[k].wait <= air[k].wait
  <2>1. \A k \in 1..Len(air) : air[k].wait \in Nat
    BY <1>1 DEF ItemOf, Restart
  <2>2. air \in Seq(ItemOf(S))
    BY DEF OnLine
  <2>3. /\ aged \in Seq(ItemOf(S)) /\ Len(aged) = Len(air)
        /\ \A k \in 1..Len(air) :
              /\ aged[k].bytes = air[k].bytes
              /\ aged[k].wait = IF air[k].wait > air[1].wait
                                  THEN air[k].wait - air[1].wait ELSE 0
    BY <1>3, <2>2, AgedLine
  <2> HIDE DEF aged
  <2> QED BY <1>3, <2>1, <2>3
<1> HIDE DEF aged
<1>6. aged # <<>>
  BY <1>1, <1>5, NoneLeft
<1>7. /\ Tail(aged) \in Seq(ItemOf(S)) /\ Len(Tail(aged)) = Len(aged) - 1
      /\ \A k \in 1..Len(Tail(aged)) : Tail(aged)[k] = aged[k + 1]
  BY <1>5, <1>6, HeadTailProperties
<1>8. air' = Tail(aged)
  BY <1>4 DEF aged
<1>9. \A k \in 1..Len(air') : air'[k].bytes = air[k + 1].bytes
                              /\ air'[k].wait <= air[k + 1].wait
  <2> SUFFICES ASSUME NEW k \in 1..Len(air')
               PROVE  air'[k].bytes = air[k + 1].bytes
                      /\ air'[k].wait <= air[k + 1].wait
    OBVIOUS
  <2>1. k + 1 \in 1..Len(air) /\ air'[k] = aged[k + 1]
    BY <1>1, <1>5, <1>7, <1>8
  <2> QED BY <1>5, <2>1
<1>10. /\ ready' \in Seq(S) /\ Len(ready') = Len(ready) + Len(air[1].bytes)
       /\ \A i \in 1..Len(ready) + Len(air[1].bytes) :
            ready'[i] = IF i <= Len(ready) THEN ready[i]
                        ELSE air[1].bytes[i - Len(ready)]
  BY <1>3, <1>4, ConcatProperties DEF OnLine
<1>11. Len(ready) \in Nat /\ Len(air[1].bytes) \in Nat
  BY <1>3, NoneLeft DEF OnLine
<1> DEFINE b == air[1].bytes
<1>12. ASSUME NEW k \in 1..Len(ready) PROVE ready'[k] = ready[k]
  BY <1>10, <1>11
<1>13. ASSUME NEW k \in 1..Len(b) PROVE ready'[Len(ready) + k] = b[k]
  <2>1. /\ Len(ready) + k \in 1..Len(ready) + Len(b)
        /\ ~(Len(ready) + k <= Len(ready)) /\ Len(ready) + k - Len(ready) = k
    BY <1>11
  <2> QED BY <1>10, <2>1
<1>14. Len(air') = Len(air) - 1 /\ air' \in Seq(ItemOf(S))
  BY <1>5, <1>7, <1>8
<1> QED BY <1>1, <1>3, <1>9, <1>10, <1>12, <1>13, <1>14

\* Noise comes after what can be read already
LEMMA BabbleLine ==
  ASSUME NEW S, OnLine(S), Noise \in S, Babble
  PROVE  /\ ready' \in Seq(S) /\ air' \in Seq(ItemOf(S))
         /\ Len(air') = Len(air)
         /\ \A k \in 1..Len(air) : air'[k].bytes = air[k].bytes
                                   /\ air'[k].wait <= air[k].wait
         /\ Len(ready') = Len(ready) + 1
         /\ \A k \in 1..Len(ready) : ready'[k] = ready[k]
         /\ ready'[Len(ready) + 1] = Noise
<1>1. Patience - 1 \in Nat
  BY DEF Patience, ReadTimeout
<1>2. \A k \in 1..Len(air) : air[k].wait \in Nat
  <2>1. \A k \in 1..Len(air) : air[k] \in ItemOf(S)
    BY NoneLeft DEF OnLine
  <2> QED BY <2>1 DEF ItemOf, Restart
<1>3. air' = Aged(Patience - 1) /\ ready' = Append(ready, Noise)
      /\ air \in Seq(ItemOf(S)) /\ ready \in Seq(S)
  BY DEF Babble, OnLine
<1>4. /\ air' \in Seq(ItemOf(S)) /\ Len(air') = Len(air)
      /\ \A k \in 1..Len(air) : air'[k].bytes = air[k].bytes
                                /\ air'[k].wait <= air[k].wait
  <2> DEFINE aged == Aged(Patience - 1)
  <2>3. /\ aged \in Seq(ItemOf(S)) /\ Len(aged) = Len(air)
        /\ \A k \in 1..Len(air) :
              /\ aged[k].bytes = air[k].bytes
              /\ aged[k].wait = IF air[k].wait > Patience - 1
                                  THEN air[k].wait - (Patience - 1) ELSE 0
    BY <1>1, <1>3, AgedLine
  <2>4. air' = aged
    BY <1>3
  <2> HIDE DEF aged
  <2> QED BY <1>1, <1>2, <2>3, <2>4
<1> QED BY <1>3, <1>4, AppendProperties

\* t is s after a byte of it was lost or damaged
Hurt(s, t) ==
  \/ /\ Len(t) = Len(s) - 1
     /\ \A j \in 1..Len(t) : t[j] = s[j] \/ t[j] = s[j + 1]
  \/ /\ Len(t) = Len(s)
     /\ \E k \in 1..Len(s) :
          /\ t[k] = [s[k] EXCEPT !.b = "bad"]
          /\ \A j \in 1..Len(s) : j # k => t[j] = s[j]

\* A byte of what comes next is lost or damaged
LEMMA FaultLine ==
  ASSUME OnLine(Part), LineFault
  PROVE  /\ UNCHANGED ready /\ air' \in Seq(ItemOf(Part))
         /\ Len(air) >= 1 /\ Len(air') = Len(air)
         /\ \A m \in 2..Len(air) : air'[m] = air[m]
         /\ air'[1].wait = air[1].wait
         /\ Hurt(air[1].bytes, air'[1].bytes)
<1>1. /\ Len(air) \in Nat /\ Len(air) >= 1 /\ air[1] \in ItemOf(Part)
      /\ Head(air) = air[1] /\ 1 \in 1..Len(air)
      /\ air \in Seq(ItemOf(Part))
  BY NoneLeft DEF LineFault, OnLine
<1> DEFINE b == air[1].bytes
<1>2. /\ b \in Seq(Part) /\ Len(b) \in Nat
      /\ \A k \in 1..Len(b) : b[k] \in Part
      /\ DOMAIN b = 1..Len(b)
  <2>1. b \in Seq(Part)
    BY <1>1 DEF ItemOf
  <2> QED BY <2>1, NoneLeft
<1>3. PICK k \in 1..Len(b) :
        \/ air' = [air EXCEPT ![1].bytes = RemoveAt(b, k)]
        \/ air' = [air EXCEPT ![1].bytes[k].b = "bad"]
  BY <1>1, <1>2 DEF LineFault
<1> HIDE DEF b
<1>4. CASE air' = [air EXCEPT ![1].bytes = RemoveAt(b, k)]
  <2> DEFINE l == SubSeq(b, 1, k - 1)
             r == SubSeq(b, k + 1, Len(b))
  <2>1. /\ l \in Seq(Part) /\ Len(l) = k - 1
        /\ \A i \in 1..(k - 1) : l[i] = b[i]
    BY <1>2, SubSeqProperties
  <2>2. /\ r \in Seq(Part) /\ Len(r) = Len(b) - k
        /\ \A i \in 1..(Len(b) - k) : r[i] = b[k + i]
    <3>1. /\ r \in Seq(Part)
          /\ Len(r) = IF k + 1 <= Len(b) THEN Len(b) - (k + 1) + 1 ELSE 0
          /\ \A i \in 1..(Len(b) - (k + 1) + 1) : r[i] = b[k + 1 + i - 1]
      BY <1>2, SubSeqProperties
    <3>2. Len(r) = Len(b) - k
      <4> HIDE DEF r
      <4>1. Len(r) = IF k + 1 <= Len(b) THEN Len(b) - (k + 1) + 1 ELSE 0
        BY <3>1
      <4>2. k \in Nat /\ Len(b) \in Nat /\ k <= Len(b)
        BY <1>2
      <4> QED BY <4>1, <4>2
    <3>3. ASSUME NEW i \in 1..(Len(b) - k) PROVE r[i] = b[k + i]
      <4>1. i \in 1..(Len(b) - (k + 1) + 1) /\ k + 1 + i - 1 = k + i
        BY <1>2
      <4> HIDE DEF r
      <4> QED BY <3>1, <4>1
    <3> QED BY <3>1, <3>2, <3>3
  <2>3. RemoveAt(b, k) = l \o r
    BY DEF RemoveAt
  <2> HIDE DEF l, r
  <2>4. /\ RemoveAt(b, k) \in Seq(Part) /\ Len(RemoveAt(b, k)) = Len(b) - 1
        /\ \A j \in 1..(Len(b) - 1) :
             RemoveAt(b, k)[j] = IF j <= k - 1 THEN l[j] ELSE r[j - (k - 1)]
    <3>1. /\ l \o r \in Seq(Part) /\ Len(l \o r) = Len(l) + Len(r)
          /\ \A j \in 1..(Len(l) + Len(r)) :
               (l \o r)[j] = IF j <= Len(l) THEN l[j] ELSE r[j - Len(l)]
      BY <2>1, <2>2, ConcatProperties
    <3>2. Len(l) + Len(r) = Len(b) - 1
      BY <1>2, <2>1, <2>2
    <3> QED BY <2>1, <2>3, <3>1, <3>2
  <2> DEFINE t == RemoveAt(b, k)
  <2>5. Hurt(b, t)
    <3> HIDE DEF t
    <3>1. ASSUME NEW j \in 1..Len(t)
          PROVE  t[j] = b[j] \/ t[j] = b[j + 1]
      <4>1. CASE j <= k - 1
        BY <1>2, <2>1, <2>4, <3>1, <4>1 DEF t
      <4>2. CASE ~(j <= k - 1)
        <5>1. j - (k - 1) \in 1..(Len(b) - k) /\ k + (j - (k - 1)) = j + 1
          BY <1>2, <2>4, <4>2 DEF t
        <5>2. t[j] = r[j - (k - 1)]
          BY <1>2, <2>4, <4>2 DEF t
        <5> QED BY <2>2, <5>1, <5>2
      <4> QED BY <4>1, <4>2
    <3> QED BY <2>4, <3>1 DEF Hurt, t
  <2>6. [air[1] EXCEPT !.bytes = RemoveAt(b, k)] \in ItemOf(Part)
        /\ [air[1] EXCEPT !.bytes = RemoveAt(b, k)].bytes = RemoveAt(b, k)
        /\ [air[1] EXCEPT !.bytes = RemoveAt(b, k)].wait = air[1].wait
    BY <1>1, <2>4 DEF ItemOf
  <2>7. air' = [air EXCEPT ![1] = [air[1] EXCEPT !.bytes = RemoveAt(b, k)]]
    BY <1>4
  <2>8. /\ air' \in Seq(ItemOf(Part)) /\ Len(air') = Len(air)
        /\ \A m \in 1..Len(air) :
             air'[m] = IF m = 1
                       THEN [air[1] EXCEPT !.bytes = RemoveAt(b, k)]
                       ELSE air[m]
    BY <1>1, <2>6, <2>7, ExceptSeq
  <2>9. air'[1] = [air[1] EXCEPT !.bytes = RemoveAt(b, k)]
        /\ \A m \in 2..Len(air) : air'[m] = air[m]
    BY <1>1, <2>8
  <2> QED BY <1>1, <2>5, <2>6, <2>8, <2>9 DEF LineFault, b
<1>5. CASE air' = [air EXCEPT ![1].bytes[k].b = "bad"]
  <2> DEFINE damaged == [b EXCEPT ![k] = [b[k] EXCEPT !.b = "bad"]]
  <2>1. [b[k] EXCEPT !.b = "bad"] \in Part
    BY <1>2 DEF Part
  <2>2. /\ damaged \in Seq(Part) /\ Len(damaged) = Len(b)
        /\ \A j \in 1..Len(b) :
             damaged[j] = IF j = k THEN [b[k] EXCEPT !.b = "bad"] ELSE b[j]
    BY <1>2, <2>1, ExceptSeq
  <2>3. air' = [air EXCEPT ![1] = [air[1] EXCEPT !.bytes = damaged]]
    BY <1>5 DEF b
  <2> HIDE DEF damaged
  <2>6. [air[1] EXCEPT !.bytes = damaged] \in ItemOf(Part)
        /\ [air[1] EXCEPT !.bytes = damaged].bytes = damaged
        /\ [air[1] EXCEPT !.bytes = damaged].wait = air[1].wait
    BY <1>1, <2>2 DEF ItemOf
  <2>8. /\ air' \in Seq(ItemOf(Part)) /\ Len(air') = Len(air)
        /\ \A m \in 1..Len(air) :
             air'[m] = IF m = 1 THEN [air[1] EXCEPT !.bytes = damaged]
                       ELSE air[m]
    BY <1>1, <2>3, <2>6, ExceptSeq
  <2>9. air'[1] = [air[1] EXCEPT !.bytes = damaged]
        /\ \A m \in 2..Len(air) : air'[m] = air[m]
    BY <1>1, <2>8
  <2>10. Hurt(b, damaged)
    BY <2>2 DEF Hurt
  <2> QED BY <1>1, <2>6, <2>8, <2>9, <2>10 DEF LineFault, b
<1> QED BY <1>3, <1>4, <1>5

LEMMA FaultKeeps ==
  ASSUME NEW S, S \subseteq Part, \A x \in S : [x EXCEPT !.b = "bad"] \in S,
         OnLine(S), OnLine(Part), LineFault
  PROVE  ready' \in Seq(S) /\ air' \in Seq(ItemOf(S))
<1>1. /\ UNCHANGED ready /\ air' \in Seq(ItemOf(Part))
      /\ Len(air) >= 1 /\ Len(air') = Len(air)
      /\ \A m \in 2..Len(air) : air'[m] = air[m]
      /\ air'[1].wait = air[1].wait
  BY FaultLine
<1>2. /\ Len(air) \in Nat /\ \A m \in 1..Len(air) : air[m] \in ItemOf(S)
      /\ \A m \in 1..Len(air) : air'[m] \in ItemOf(Part)
  BY <1>1, NoneLeft DEF OnLine
<1>3. /\ air[1].bytes \in Seq(S) /\ Len(air[1].bytes) \in Nat
      /\ \A k \in 1..Len(air[1].bytes) : air[1].bytes[k] \in S
  <2>0. air[1] \in ItemOf(S)
    BY <1>1, <1>2
  <2>1. air[1].bytes \in Seq(S)
    BY <2>0 DEF ItemOf
  <2> QED BY <2>1, NoneLeft
<1>4. air'[1].bytes \in Seq(Part) /\ air'[1] = [bytes |-> air'[1].bytes,
                                                wait |-> air'[1].wait]
      /\ air'[1].wait \in 0..(Restart + 5)
  <2>1. air'[1] \in ItemOf(Part)
    BY <1>1, <1>2
  <2> QED BY <2>1 DEF ItemOf
<1>5. \A j \in 1..Len(air'[1].bytes) : air'[1].bytes[j] \in S
  <2>1. Hurt(air[1].bytes, air'[1].bytes)
    BY FaultLine
  <2> DEFINE s == air[1].bytes
             t == air'[1].bytes
  <2>2. s \in Seq(S) /\ Len(s) \in Nat /\ \A k \in 1..Len(s) : s[k] \in S
    BY <1>3
  <2>3. Hurt(s, t)
    BY <2>1
  <2> HIDE DEF s, t
  <2>4. CASE /\ Len(t) = Len(s) - 1
             /\ \A j \in 1..Len(t) : t[j] = s[j] \/ t[j] = s[j + 1]
    <3>1. ASSUME NEW j \in 1..Len(t) PROVE t[j] \in S
      <4>1. j \in 1..Len(s) /\ j + 1 \in 1..Len(s)
        BY <2>2, <2>4
      <4> QED BY <2>2, <2>4, <4>1
    <3> QED BY <3>1 DEF t
  <2>5. CASE /\ Len(t) = Len(s)
             /\ \E k \in 1..Len(s) :
                  /\ t[k] = [s[k] EXCEPT !.b = "bad"]
                  /\ \A j \in 1..Len(s) : j # k => t[j] = s[j]
    <3>1. \A j \in 1..Len(t) : t[j] \in S
      BY <2>2, <2>5
    <3> QED BY <3>1 DEF t
  <2> QED BY <2>3, <2>4, <2>5 DEF Hurt
<1>6. air'[1].bytes \in Seq(S)
  BY <1>4, <1>5, Elements
<1>7. air'[1] \in ItemOf(S)
  BY <1>4, <1>6 DEF ItemOf
<1>8. \A m \in 1..Len(air') : air'[m] \in ItemOf(S)
  BY <1>1, <1>2, <1>7
<1>9. air' \in Seq(ItemOf(S))
  BY <1>1, <1>8, Elements
<1> QED BY <1>1, <1>9 DEF OnLine

\* recvString()
LEMMA ReceivesLine ==
  ASSUME NEW S, ready \in Seq(S), Receives, Wanted \in Nat
  PROVE  /\ ready' \in Seq(S) /\ Len(ready) >= Wanted
         /\ Len(ready) \in Nat /\ Len(ready') = Len(ready) - Wanted
         /\ \A k \in 1..Len(ready') : ready'[k] = ready[k + Wanted]
<1>1. /\ Len(ready) \in Nat /\ \A k \in 1..Len(ready) : ready[k] \in S
  BY NoneLeft
<1>2. Len(ready) >= Wanted /\ ready' = SubSeq(ready, Wanted + 1, Len(ready))
  BY <1>1 DEF Receives, Waits
<1>3. \A i \in (Wanted + 1)..Len(ready) : ready[i] \in S
  BY <1>1
<1>4. /\ ready' \in Seq(S)
      /\ Len(ready') = IF Wanted + 1 <= Len(ready)
                         THEN Len(ready) - (Wanted + 1) + 1 ELSE 0
      /\ \A i \in 1..(Len(ready) - (Wanted + 1) + 1) :
           ready'[i] = ready[Wanted + 1 + i - 1]
  BY <1>1, <1>2, <1>3, SubSeqProperties
<1> QED BY <1>1, <1>2, <1>4

\* An answer is the last on the line
LEMMA AnswersLine ==
  ASSUME NEW S, air \in Seq(ItemOf(S)), NEW bytes \in Seq(S), DrainedDelays,
         Answers(bytes)
  PROVE  /\ air' \in Seq(ItemOf(S)) /\ Len(air') = Len(air) + 1
         /\ \A k \in 1..Len(air) : air'[k] = air[k]
         /\ air'[Len(air) + 1].bytes = bytes
<1>1. PICK d \in {0} \cup Late :
        air' = Append(air, [bytes |-> bytes, wait |-> d])
  BY DEF Answers
<1>2. d \in 0..(Restart + 5)
  BY DEF DrainedDelays, Restart
<1>3. [bytes |-> bytes, wait |-> d] \in ItemOf(S)
  BY <1>2 DEF ItemOf
<1>4. Len(air) \in Nat
  BY NoneLeft
<1> QED BY <1>1, <1>3, <1>4, AppendProperties

-----------------------------------------------------------------------------
(* What the line holds at each point of the child's program                *)

Quiet == mode # "looping"
Pro == kind = "VantagePro"

\* nothing was lost since the child was forked, or it does not matter
Unhurt == Pro \/ "loss" \notin misread
Exact == IF Pro THEN "noise" \notin misread ELSE "loss" \notin misread

\* When drain(5) ends, only packets are left that came during it: the answers
\* to the last child are at most five seconds away when this one begins
Refused == ~Pro /\ Unhurt
Leftover(bytes, refused) ==
  /\ \A k \in 1..Len(bytes) : bytes[k].b # "lf"
  /\ refused => bytes # <<>> /\ bytes[1].b = "hdr"

AtDrain ==
  \E c \in 0..Len(air) :
    /\ \A m \in 1..c : air[m].wait <= 5
    /\ \A m \in (c + 1)..Len(air) : Leftover(air[m].bytes, Refused)

\* The answer to a newline is the last thing on the line: wakeup() takes it
\* and nothing but noise is left behind it
WakeLeft(s) == Len(s) <= 2 /\ (Len(s) = 2 => s[2].b # "lf")

AnswerToCome ==
  /\ ready \in Seq(NotLf)
  /\ \A m \in 1..Len(air) :
       \/ air[m].bytes \in Seq(NotLf)
       \/ m = Len(air) /\ WakeLeft(air[m].bytes)

AnswerHere ==
  /\ air = <<>>
  /\ \E c \in 0..Len(ready) :
       /\ \A k \in 1..Len(ready) : ready[k].b = "lf" => k = c + 1
       /\ \A k \in 1..Len(ready) : k > c + 2 => ready[k] = Noise

AtAnswer == Quiet /\ (AnswerToCome \/ AnswerHere)

\* A calibration read finds nothing before the reply to it, or something that
\* an old station refuses
Silence == ready \in Seq({Noise}) /\ air = <<>>

NotAckFirst ==
  \/ ready # <<>> /\ ready[1].b # "ack"
  \/ /\ ready = <<>> /\ air # <<>>
     /\ air[1].bytes # <<>> /\ air[1].bytes[1].b # "ack"

\* the reply, or what the line made of it
Fragment(s, reply, pro) ==
  \/ s = reply
  \/ pro /\ Len(s) < 3
  \/ pro /\ Len(s) = 3 /\ \E k \in 1..3 : s[k].b = "bad"

Own == ReplyTo(asked + 1)

ReplyToCome ==
  /\ ready \in Seq({Noise})
  /\ air = <<>> \/ (Len(air) = 1 /\ Fragment(air[1].bytes, Own, Pro))

NoiseFirst == air = <<>> /\ ready # <<>> /\ ready[1] = Noise

ReplyHere ==
  /\ air = <<>>
  /\ \E c \in 0..Len(ready) :
       /\ Fragment(SubSeq(ready, 1, c), Own, Pro)
       /\ \A k \in (c + 1)..Len(ready) : ready[k] = Noise

AtAsk == Quiet /\ (Silence \/ (~Pro /\ NotAckFirst))
AtReply == Quiet /\ (\/ ReplyToCome \/ NoiseFirst \/ ReplyHere
                     \/ ~Pro /\ NotAckFirst)

\* The packets of a LOOP come in the order the console sends them
Taken == IF pc = "ack" THEN 0
         ELSE IF pc = "read" THEN LoopCount - packets - 1
         ELSE LoopCount - packets
Sent == IF mode = "looping" THEN LoopCount - left ELSE LoopCount

Hdr(x) == x.b = "hdr"
HeadOnly(s) == \A k \in 1..Len(s) : Hdr(s[k]) => k = 1
Before(x, y) == Hdr(x) /\ Hdr(y) => x.i < y.i
Due(x, taken, sent) == Hdr(x) => taken <= x.i /\ x.i < sent

InTurnOf(r, a, taken, sent) ==
  /\ taken <= sent
  /\ \A k \in 1..Len(r) : Due(r[k], taken, sent)
  /\ \A m \in 1..Len(a) :
       /\ HeadOnly(a[m].bytes)
       /\ \A k \in 1..Len(a[m].bytes) : Due(a[m].bytes[k], taken, sent)
  /\ \A j, k \in 1..Len(r) : j < k => Before(r[j], r[k])
  /\ \A j \in 1..Len(r), m \in 1..Len(a) :
       \A k \in 1..Len(a[m].bytes) : Before(r[j], a[m].bytes[k])
  /\ \A m, n \in 1..Len(a) : m < n =>
       \A j \in 1..Len(a[m].bytes), k \in 1..Len(a[n].bytes) :
         Before(a[m].bytes[j], a[n].bytes[k])

InTurn == InTurnOf(ready, air, Taken, Sent)

Reading == {"ack", "packets", "read"}
Awake == {"wake", "ask", "reply", "top", "loop"} \cup Reading

LineInv ==
  /\ OnLine(Part)
  /\ ~Pro => pc \notin {"wake", "answer", "drain10"}
  /\ pc \in {"open", "drain5"} => AtDrain
  /\ pc = "answer" => AtAnswer
  /\ Pro /\ pc \in Awake => OnLine(NotLf)
  /\ pc = "ask" /\ Exact => AtAsk
  /\ pc = "reply" /\ Exact => AtReply
  /\ (pc = "loop" \/ (pc = "top" /\ ~Pro)) /\ Unhurt
       => Quiet /\ OnLine(NotHdr)
  /\ pc \in Reading /\ Unhurt => OnLine(Current(gen))
  /\ pc \in Reading /\ Unhurt /\ ~Pro => InTurn
  /\ CalibrationIsOurs /\ PacketIsOurs

\* the program and what the child remembers stay as they are
Same == UNCHANGED <<kind, pc, asked, packets, gen, misread>>

LEMMA SameKeeps ==
  ASSUME Same
  PROVE  /\ Pro' = Pro /\ Unhurt' = Unhurt /\ Exact' = Exact
         /\ Taken' = Taken /\ CalibrationIsOurs' = CalibrationIsOurs
         /\ PacketIsOurs' = PacketIsOurs
         /\ Own' = Own /\ Refused' = Refused
  BY DEF Same, Pro, Unhurt, Exact, Taken, CalibrationIsOurs, PacketIsOurs,
     Own, ReplyTo, Refused

-----------------------------------------------------------------------------
(* Something comes                                                         *)

LEMMA WaitOfItem ==
  ASSUME NEW S, NEW x \in ItemOf(S)
  PROVE  x.wait \in Nat
  BY DEF ItemOf, Restart

LEMMA ArriveDrain == ASSUME OnLine(Part), AtDrain, Arrive PROVE AtDrain'
<1>1. PICK c \in 0..Len(air) :
        /\ \A m \in 1..c : air[m].wait <= 5
        /\ \A m \in (c + 1)..Len(air) : Leftover(air[m].bytes, Refused)
  BY DEF AtDrain
<1>2. /\ Len(air) \in Nat /\ Len(air) >= 1 /\ Len(air') = Len(air) - 1
      /\ air \in Seq(ItemOf(Part)) /\ air' \in Seq(ItemOf(Part))
      /\ \A k \in 1..Len(air') : air'[k].bytes = air[k + 1].bytes
                                 /\ air'[k].wait <= air[k + 1].wait
  BY ArriveLine, NoneLeft DEF OnLine
<1>3. \A k \in 1..Len(air) : air[k].wait \in Nat
  <2>1. \A k \in 1..Len(air) : air[k] \in ItemOf(Part)
    BY <1>2, NoneLeft
  <2> QED BY <2>1 DEF ItemOf, Restart
<1>4. \A k \in 1..Len(air') : air'[k].wait \in Nat
  <2> SUFFICES ASSUME NEW k \in 1..Len(air') PROVE air'[k].wait \in Nat
    OBVIOUS
  <2>1. air'[k] \in ItemOf(Part)
    BY <1>2, ElementOfSeq
  <2> QED BY <2>1, WaitOfItem
<1>5. Refused' = Refused
  BY SameKeeps DEF Arrive, Same, consoleVars, ghosts
<1> DEFINE d == IF c = 0 THEN 0 ELSE c - 1
<1>6. d \in 0..Len(air')
  BY <1>2
<1>7. ASSUME NEW m \in 1..d PROVE air'[m].wait <= 5
  <2>1. m \in 1..Len(air') /\ m + 1 \in 1..c /\ m + 1 \in 1..Len(air)
    BY <1>2, <1>7
  <2>2. air'[m].wait <= air[m + 1].wait /\ air[m + 1].wait <= 5
    BY <1>1, <1>2, <2>1
  <2> QED BY <1>3, <1>4, <2>1, <2>2
<1>8. ASSUME NEW m \in (d + 1)..Len(air') PROVE Leftover(air'[m].bytes, Refused)
  <2>1. m + 1 \in (c + 1)..Len(air) /\ air'[m].bytes = air[m + 1].bytes
    BY <1>2, <1>8
  <2> QED BY <1>1, <2>1
<1> HIDE DEF d
<1> QED BY <1>5, <1>6, <1>7, <1>8 DEF AtDrain

LEMMA ArriveAnswer == ASSUME OnLine(Part), AtAnswer, Arrive PROVE AtAnswer'
<1>1. /\ Len(air) \in Nat /\ Len(air) >= 1 /\ Len(air') = Len(air) - 1
      /\ Len(ready) \in Nat /\ ready' \in Seq(Part)
      /\ air' \in Seq(ItemOf(Part))
      /\ Len(ready') = Len(ready) + Len(air[1].bytes)
      /\ \A k \in 1..Len(ready) : ready'[k] = ready[k]
      /\ \A k \in 1..Len(air[1].bytes) :
           ready'[Len(ready) + k] = air[1].bytes[k]
      /\ \A k \in 1..Len(air') : air'[k].bytes = air[k + 1].bytes
      /\ air[1].bytes \in Seq(Part) /\ Len(air[1].bytes) \in Nat
      /\ \A k \in 1..Len(ready') : ready'[k] \in Part
  <2>1. air[1].bytes \in Seq(Part) /\ ready' \in Seq(Part)
    BY ArriveLine
  <2> QED BY <2>1, ArriveLine, NoneLeft DEF OnLine
<1>2. Quiet'
  BY DEF AtAnswer, Quiet, Arrive, consoleVars
<1>3. air # <<>>
  BY DEF Arrive
<1>4. AnswerToCome
  BY <1>3 DEF AtAnswer, AnswerHere
<1>5. \A k \in 1..Len(ready) : ready[k] \in NotLf
  BY <1>4, NoneLeft DEF AnswerToCome
<1>6. CASE air[1].bytes \in Seq(NotLf)
  <2>1. \A k \in 1..Len(air[1].bytes) : air[1].bytes[k] \in NotLf
    BY <1>6, NoneLeft
  <2>2. \A k \in 1..Len(ready') : ready'[k] \in NotLf
    <3> SUFFICES ASSUME NEW k \in 1..Len(ready') PROVE ready'[k] \in NotLf
      OBVIOUS
    <3>1. CASE k <= Len(ready)
      BY <1>1, <1>5, <3>1
    <3>2. CASE k > Len(ready)
      <4>1. k - Len(ready) \in 1..Len(air[1].bytes)
            /\ k = Len(ready) + (k - Len(ready))
        BY <1>1, <3>2
      <4> QED BY <1>1, <2>1, <4>1
    <3> QED BY <1>1, <3>1, <3>2
  <2>3. ready' \in Seq(NotLf)
    BY <1>1, <2>2, Elements
  <2>4. \A m \in 1..Len(air') :
          \/ air'[m].bytes \in Seq(NotLf)
          \/ m = Len(air') /\ WakeLeft(air'[m].bytes)
    <3> SUFFICES ASSUME NEW m \in 1..Len(air')
                 PROVE  \/ air'[m].bytes \in Seq(NotLf)
                        \/ m = Len(air') /\ WakeLeft(air'[m].bytes)
      OBVIOUS
    <3>1. m + 1 \in 1..Len(air) /\ air'[m].bytes = air[m + 1].bytes
          /\ (m + 1 = Len(air) => m = Len(air'))
      BY <1>1
    <3> QED BY <1>4, <3>1 DEF AnswerToCome
  <2> QED BY <1>2, <2>3, <2>4 DEF AtAnswer, AnswerToCome, WakeLeft
<1>7. CASE Len(air) = 1 /\ WakeLeft(air[1].bytes)
  <2>1. air' = <<>>
    BY <1>1, <1>7, NoneLeft
  <2>2. ASSUME NEW k \in 1..Len(ready'), ready'[k].b = "lf"
        PROVE  k = Len(ready) + 1
    <3>1. k > Len(ready)
      BY <1>1, <1>5, <2>2 DEF NotLf
    <3>2. k = Len(ready) + 1 \/ k = Len(ready) + 2
      BY <1>1, <1>7, <3>1 DEF WakeLeft
    <3>3. ASSUME k = Len(ready) + 2 PROVE FALSE
      <4>0. Len(air[1].bytes) <= 2
        BY <1>7 DEF WakeLeft
      <4>1. 2 \in 1..Len(air[1].bytes) /\ Len(air[1].bytes) = 2
        <5> DEFINE l == Len(air[1].bytes)
        <5>1. l \in Nat /\ l <= 2 /\ Len(ready) + 2 <= Len(ready) + l
          BY <1>1, <3>3, <4>0
        <5> HIDE DEF l
        <5>2. l = 2
          BY <1>1, <5>1
        <5> QED BY <5>2 DEF l
      <4>2. ready'[Len(ready) + 2] = air[1].bytes[2]
        BY <1>1, <4>1
      <4> QED BY <1>7, <2>2, <3>3, <4>1, <4>2 DEF WakeLeft
    <3> QED BY <3>2, <3>3
  <2>3. Len(ready') <= Len(ready) + 2
    BY <1>1, <1>7 DEF WakeLeft
  <2>4. Len(ready) \in 0..Len(ready')
    BY <1>1
  <2>5. AnswerHere'
    BY <1>1, <2>1, <2>2, <2>3, <2>4 DEF AnswerHere
  <2> QED BY <1>2, <2>5 DEF AtAnswer
<1> QED BY <1>1, <1>4, <1>6, <1>7 DEF AnswerToCome

\* What an old station refuses stays first
LEMMA ArriveRefused ==
  ASSUME OnLine(Part), NotAckFirst, Arrive PROVE NotAckFirst'
<1>1. /\ Len(air) \in Nat /\ Len(air) >= 1
      /\ Len(ready) \in Nat /\ ready' \in Seq(Part) /\ ready \in Seq(Part)
      /\ Len(ready') = Len(ready) + Len(air[1].bytes)
      /\ \A k \in 1..Len(ready) : ready'[k] = ready[k]
      /\ \A k \in 1..Len(air[1].bytes) :
           ready'[Len(ready) + k] = air[1].bytes[k]
      /\ air[1].bytes \in Seq(Part) /\ Len(air[1].bytes) \in Nat
  <2>1. air[1].bytes \in Seq(Part) /\ ready' \in Seq(Part)
    BY ArriveLine
  <2> QED BY <2>1, ArriveLine, NoneLeft DEF OnLine
<1>2. CASE ready # <<>>
  <2>1. Len(ready) >= 1 /\ ready[1].b # "ack"
    BY <1>1, <1>2, NoneLeft DEF NotAckFirst
  <2>2. Len(ready') >= 1 /\ ready'[1] = ready[1]
    BY <1>1, <2>1
  <2> QED BY <1>1, <2>1, <2>2, NoneLeft DEF NotAckFirst
<1>3. CASE ready = <<>>
  <2>1. Len(ready) = 0 /\ Len(air[1].bytes) >= 1 /\ air[1].bytes[1].b # "ack"
    BY <1>1, <1>3, NoneLeft DEF NotAckFirst
  <2>2. Len(ready') >= 1 /\ ready'[1] = air[1].bytes[1]
    <3>1. ready'[0 + 1] = air[1].bytes[1]
      BY <1>1, <2>1
    <3> QED BY <1>1, <2>1, <3>1
  <2> QED BY <1>1, <2>1, <2>2, NoneLeft DEF NotAckFirst
<1> QED BY <1>2, <1>3

LEMMA ArriveReply == ASSUME OnLine(Part), AtReply, Arrive PROVE AtReply'
<1>1. /\ Len(air) \in Nat /\ Len(air) >= 1 /\ Len(air') = Len(air) - 1
      /\ Len(ready) \in Nat /\ ready' \in Seq(Part) /\ ready \in Seq(Part)
      /\ air' \in Seq(ItemOf(Part))
      /\ Len(ready') = Len(ready) + Len(air[1].bytes)
      /\ \A k \in 1..Len(ready) : ready'[k] = ready[k]
      /\ \A k \in 1..Len(air[1].bytes) :
           ready'[Len(ready) + k] = air[1].bytes[k]
      /\ air[1].bytes \in Seq(Part) /\ Len(air[1].bytes) \in Nat
  <2>1. air[1].bytes \in Seq(Part) /\ ready' \in Seq(Part)
    BY ArriveLine
  <2> QED BY <2>1, ArriveLine, NoneLeft DEF OnLine
<1>2. Quiet' /\ Pro' = Pro /\ Own' = Own
  BY SameKeeps DEF AtReply, Quiet, Arrive, consoleVars, Same, ghosts
<1>3. air # <<>>
  BY DEF Arrive
<1>4. CASE ~Pro /\ NotAckFirst
  BY <1>2, <1>4, ArriveRefused DEF AtReply
<1>5. CASE ReplyToCome
  <2>1. Len(air) = 1 /\ Fragment(air[1].bytes, Own, Pro) /\ ready \in Seq({Noise})
    BY <1>3, <1>5 DEF ReplyToCome
  <2>2. air' = <<>>
    BY <1>1, <2>1, NoneLeft
  <2>3. CASE ready # <<>>
    <3>1. Len(ready) >= 1 /\ ready[1] = Noise
      BY <1>1, <2>1, <2>3, NoneLeft
    <3>2. Len(ready') >= 1 /\ ready'[1] = Noise
      BY <1>1, <3>1
    <3> QED BY <1>1, <1>2, <2>2, <3>2, NoneLeft DEF AtReply, NoiseFirst
  <2>4. CASE ready = <<>>
    <3>1. Len(ready) = 0
      BY <1>1, <2>4, NoneLeft
    <3>2. \A k \in 1..Len(air[1].bytes) : ready'[k] = air[1].bytes[k]
      <4>1. \A k \in 1..Len(air[1].bytes) : ready'[0 + k] = air[1].bytes[k]
        BY <1>1, <3>1
      <4> QED BY <4>1
    <3>3. Len(ready') = Len(air[1].bytes)
      BY <1>1, <3>1
    <3>4. ready' = air[1].bytes
      BY <1>1, <3>2, <3>3, SeqEqual
    <3>5. SubSeq(ready', 1, Len(ready')) = ready'
      BY <1>1, SubSeqFull
    <3>6. Len(ready') \in 0..Len(ready')
      BY <1>1, <3>3
    <3>7. Fragment(SubSeq(ready', 1, Len(ready')), Own, Pro)
      BY <2>1, <3>4, <3>5
    <3>8. \A k \in (Len(ready') + 1)..Len(ready') : ready'[k] = Noise
      BY <1>1, <3>3
    <3>9. ReplyHere'
      BY <1>2, <2>2, <3>6, <3>7, <3>8 DEF ReplyHere
    <3> QED BY <1>2, <3>9 DEF AtReply
  <2> QED BY <2>3, <2>4
<1> QED BY <1>3, <1>4, <1>5 DEF AtReply, NoiseFirst, ReplyHere

LEMMA ArriveInTurn == ASSUME OnLine(Part), InTurn, Arrive PROVE InTurn'
<1>1. /\ Len(air) \in Nat /\ Len(air) >= 1 /\ Len(air') = Len(air) - 1
      /\ Len(ready) \in Nat
      /\ Len(ready') = Len(ready) + Len(air[1].bytes)
      /\ \A k \in 1..Len(ready) : ready'[k] = ready[k]
      /\ \A k \in 1..Len(air[1].bytes) :
           ready'[Len(ready) + k] = air[1].bytes[k]
      /\ \A k \in 1..Len(air') : air'[k].bytes = air[k + 1].bytes
      /\ Len(air[1].bytes) \in Nat
  <2>1. air[1].bytes \in Seq(Part) /\ ready' \in Seq(Part)
    BY ArriveLine
  <2> QED BY <2>1, ArriveLine, NoneLeft DEF OnLine
<1>2. Taken' = Taken /\ Sent' = Sent
  BY SameKeeps DEF Arrive, consoleVars, ghosts, Same, Sent
<1>3. \A m \in 1..Len(air') : m + 1 \in 1..Len(air)
                              /\ air'[m].bytes = air[m + 1].bytes
  BY <1>1
<1> DEFINE n == Len(ready)
           b == air[1].bytes
\* where a byte that can be read now comes from
<1>4. \A k \in 1..Len(ready') :
        \/ k \in 1..n /\ ready'[k] = ready[k]
        \/ k > n /\ k - n \in 1..Len(b) /\ ready'[k] = b[k - n]
  <2> SUFFICES ASSUME NEW k \in 1..Len(ready'), ~(k <= n)
               PROVE  k - n \in 1..Len(b) /\ ready'[k] = b[k - n]
    BY <1>1
  <2>1. k - n \in 1..Len(b) /\ k = n + (k - n)
    BY <1>1
  <2> QED BY <1>1, <2>1
<1>5. 1 \in 1..Len(air)
  BY <1>1
<1> HIDE DEF n, b
<1>6. n \in Nat /\ Len(b) \in Nat
  BY <1>1 DEF n, b
<1>7. /\ \A k \in 1..n : Due(ready[k], Taken, Sent)
      /\ \A k \in 1..Len(b) : Due(b[k], Taken, Sent)
      /\ HeadOnly(b)
      /\ \A j, k \in 1..n : j < k => Before(ready[j], ready[k])
      /\ \A j \in 1..n, k \in 1..Len(b) : Before(ready[j], b[k])
  BY <1>5 DEF InTurn, InTurnOf, n, b
<1>8. \A k \in 1..Len(ready') : Due(ready'[k], Taken, Sent)
  BY <1>4, <1>7
<1>9. ASSUME NEW j \in 1..Len(ready'), NEW k \in 1..Len(ready'), j < k
      PROVE  Before(ready'[j], ready'[k])
  <2>1. CASE k \in 1..n
    <3>1. j \in 1..n
      BY <1>6, <1>9, <2>1
    <3> QED BY <1>4, <1>6, <1>7, <1>9, <2>1, <3>1
  <2>2. CASE k \notin 1..n /\ j \in 1..n
    BY <1>4, <1>6, <1>7, <2>2
  <2>3. CASE k \notin 1..n /\ j \notin 1..n
    <3>1. /\ k - n \in 1..Len(b) /\ ready'[k] = b[k - n] /\ j > n
          /\ k - n # 1
      BY <1>4, <1>6, <1>9, <2>3
    <3>2. ~Hdr(ready'[k])
      BY <1>7, <3>1 DEF HeadOnly
    <3> QED BY <3>2 DEF Before
  <2> QED BY <2>1, <2>2, <2>3
<1>10. ASSUME NEW j \in 1..Len(ready'), NEW m \in 1..Len(air'),
              NEW k \in 1..Len(air'[m].bytes)
       PROVE  Before(ready'[j], air'[m].bytes[k])
  <2>1. m + 1 \in 1..Len(air) /\ air'[m].bytes = air[m + 1].bytes /\ 1 < m + 1
    BY <1>3
  <2>2. CASE j \in 1..n
    <3>1. \A x \in 1..Len(ready), y \in 1..Len(air[m + 1].bytes) :
            Before(ready[x], air[m + 1].bytes[y])
      BY <2>1 DEF InTurn, InTurnOf
    <3>2. j \in 1..Len(ready) /\ ready'[j] = ready[j]
      BY <1>4, <1>6, <2>2 DEF n
    <3>3. k \in 1..Len(air[m + 1].bytes)
      BY <2>1
    <3>4. Before(ready[j], air[m + 1].bytes[k])
      BY <3>1, <3>2, <3>3
    <3> QED BY <2>1, <3>2, <3>4
  <2>3. CASE j \notin 1..n
    <3>1. j - n \in 1..Len(b) /\ ready'[j] = b[j - n]
      BY <1>4, <2>3
    <3>2. \A x \in 1..Len(air[1].bytes), y \in 1..Len(air[m + 1].bytes) :
            Before(air[1].bytes[x], air[m + 1].bytes[y])
      BY <1>5, <2>1 DEF InTurn, InTurnOf
    <3>3. k \in 1..Len(air[m + 1].bytes)
      BY <2>1
    <3>4. j - n \in 1..Len(air[1].bytes) /\ ready'[j] = air[1].bytes[j - n]
      BY <3>1 DEF b
    <3>5. Before(air[1].bytes[j - n], air[m + 1].bytes[k])
      BY <3>2, <3>3, <3>4
    <3> QED BY <2>1, <3>4, <3>5
  <2> QED BY <2>2, <2>3
<1>11. ASSUME NEW m \in 1..Len(air'), NEW l \in 1..Len(air'), m < l,
              NEW j \in 1..Len(air'[m].bytes), NEW k \in 1..Len(air'[l].bytes)
       PROVE  Before(air'[m].bytes[j], air'[l].bytes[k])
  <2>1. /\ m + 1 \in 1..Len(air) /\ air'[m].bytes = air[m + 1].bytes
        /\ l + 1 \in 1..Len(air) /\ air'[l].bytes = air[l + 1].bytes
        /\ m + 1 < l + 1
    BY <1>3, <1>11
  <2> QED BY <2>1 DEF InTurn, InTurnOf
<1>12. \A m \in 1..Len(air') :
         /\ HeadOnly(air'[m].bytes)
         /\ \A k \in 1..Len(air'[m].bytes) : Due(air'[m].bytes[k], Taken, Sent)
  BY <1>3 DEF InTurn, InTurnOf
<1>13. Taken' <= Sent'
  BY <1>2 DEF InTurn, InTurnOf
<1> QED BY <1>2, <1>8, <1>9, <1>10, <1>11, <1>12, <1>13 DEF InTurn, InTurnOf

LEMMA ArriveInv == ASSUME LineInv, Arrive PROVE LineInv'
<1>1. Same /\ OnLine(Part) /\ (Quiet' <=> Quiet)
  BY DEF LineInv, Arrive, Same, consoleVars, ghosts, Quiet
<1>2. /\ Pro' = Pro /\ Unhurt' = Unhurt /\ Exact' = Exact
      /\ pc' = pc /\ gen' = gen
      /\ CalibrationIsOurs' = CalibrationIsOurs
      /\ PacketIsOurs' = PacketIsOurs
  BY <1>1, SameKeeps DEF Same
<1>3. OnLine(Part)'
  BY <1>1, ArriveLine DEF OnLine
<1>4. OnLine(NotLf) => OnLine(NotLf)'
  BY ArriveLine DEF OnLine
<1>5. OnLine(NotHdr) => OnLine(NotHdr)'
  BY ArriveLine DEF OnLine
<1>6. OnLine(Current(gen)) => OnLine(Current(gen))'
  <2>1. OnLine(Current(gen)) =>
          ready' \in Seq(Current(gen)) /\ air' \in Seq(ItemOf(Current(gen)))
    BY ArriveLine
  <2> QED BY <1>2, <2>1 DEF OnLine
<1>7. AtAsk => AtAsk'
  <2>1. AtAsk => ~Pro /\ NotAckFirst
    BY DEF AtAsk, Silence, Arrive
  <2> QED BY <1>1, <1>2, <2>1, ArriveRefused DEF AtAsk
<1>8. /\ AtDrain => AtDrain'
      /\ AtAnswer => AtAnswer'
      /\ AtReply => AtReply'
      /\ InTurn => InTurn'
  BY <1>1, ArriveDrain, ArriveAnswer, ArriveReply, ArriveInTurn
<1> QED BY <1>1, <1>2, <1>3, <1>4, <1>5, <1>6, <1>7, <1>8 DEF LineInv

-----------------------------------------------------------------------------
(* Noise comes                                                             *)

LEMMA BabbleNoise == ASSUME ready \in Seq({Noise}), Babble
                     PROVE  ready' \in Seq({Noise})
  BY AppendProperties DEF Babble

LEMMA BabbleStill == ASSUME OnLine(Part), air = <<>>, Babble PROVE air' = <<>>
<1>1. Noise \in Part
  BY DEF Noise, Byte, Part
<1>2. Len(air') = Len(air) /\ air' \in Seq(ItemOf(Part))
      /\ air \in Seq(ItemOf(Part))
  BY <1>1, BabbleLine DEF OnLine
<1> QED BY <1>2, NoneLeft

LEMMA BabbleDrain == ASSUME OnLine(Part), AtDrain, Babble PROVE AtDrain'
<1>1. PICK c \in 0..Len(air) :
        /\ \A m \in 1..c : air[m].wait <= 5
        /\ \A m \in (c + 1)..Len(air) : Leftover(air[m].bytes, Refused)
  BY DEF AtDrain
<1>2. Noise \in Part
  BY DEF Noise, Byte, Part
<1>3. /\ Len(air) \in Nat /\ Len(air') = Len(air)
      /\ air \in Seq(ItemOf(Part)) /\ air' \in Seq(ItemOf(Part))
      /\ \A k \in 1..Len(air) : air'[k].bytes = air[k].bytes
                                /\ air'[k].wait <= air[k].wait
  BY <1>2, BabbleLine, NoneLeft DEF OnLine
<1>4. \A k \in 1..Len(air) : air[k].wait \in Nat /\ air'[k].wait \in Nat
  <2>1. \A k \in 1..Len(air) : air[k] \in ItemOf(Part)
    BY <1>3, ElementOfSeq
  <2>2. \A k \in 1..Len(air') : air'[k] \in ItemOf(Part)
    BY <1>3, ElementOfSeq
  <2>3. \A k \in 1..Len(air) : air'[k] \in ItemOf(Part)
    BY <1>3, <2>2
  <2>4. \A x \in ItemOf(Part) : x.wait \in Nat
    BY DEF ItemOf, Restart
  <2> QED BY <2>1, <2>3, <2>4
<1>5. Refused' = Refused
  BY SameKeeps DEF Babble, Same, consoleVars, ghosts
<1>6. \A m \in 1..c : air'[m].wait <= 5
  BY <1>1, <1>3, <1>4
<1>7. \A m \in (c + 1)..Len(air') : Leftover(air'[m].bytes, Refused)
  BY <1>1, <1>3
<1> QED BY <1>3, <1>5, <1>6, <1>7 DEF AtDrain

LEMMA BabbleAnswer == ASSUME OnLine(Part), AtAnswer, Babble PROVE AtAnswer'
<1>0. Noise \in Part /\ Noise \in NotLf
  BY DEF Noise, Byte, Part, NotLf
<1>1. /\ Len(ready) \in Nat /\ Len(air') = Len(air) /\ Len(air) \in Nat
      /\ ready' \in Seq(Part) /\ ready \in Seq(Part)
      /\ Len(ready') = Len(ready) + 1 /\ ready'[Len(ready) + 1] = Noise
      /\ \A k \in 1..Len(ready) : ready'[k] = ready[k]
      /\ \A k \in 1..Len(air) : air'[k].bytes = air[k].bytes
      /\ air' \in Seq(ItemOf(Part)) /\ air \in Seq(ItemOf(Part))
  BY <1>0, BabbleLine, NoneLeft DEF OnLine
<1>2. Quiet'
  BY DEF AtAnswer, Quiet, Babble, consoleVars
<1>3. CASE AnswerToCome
  <2>1. \A k \in 1..Len(ready) : ready[k] \in NotLf
    BY <1>3, NoneLeft DEF AnswerToCome
  <2>2. \A k \in 1..Len(ready') : ready'[k] \in NotLf
    BY <1>0, <1>1, <2>1
  <2>3. ready' \in Seq(NotLf)
    BY <1>1, <2>2, Elements
  <2> QED BY <1>1, <1>2, <1>3, <2>3 DEF AtAnswer, AnswerToCome
<1>4. CASE AnswerHere
  <2>1. air' = <<>>
    BY <1>1, <1>4, NoneLeft DEF AnswerHere
  <2>2. PICK c \in 0..Len(ready) :
          /\ \A k \in 1..Len(ready) : ready[k].b = "lf" => k = c + 1
          /\ \A k \in 1..Len(ready) : k > c + 2 => ready[k] = Noise
    BY <1>4 DEF AnswerHere
  <2>3. Noise.b # "lf"
    BY <1>0 DEF NotLf
  <2>4. \A k \in 1..Len(ready') : k \in 1..Len(ready) \/ k = Len(ready) + 1
    BY <1>1
  <2>5. c \in 0..Len(ready')
    BY <1>1
  <2>6. /\ \A k \in 1..Len(ready') : ready'[k].b = "lf" => k = c + 1
        /\ \A k \in 1..Len(ready') : k > c + 2 => ready'[k] = Noise
    BY <1>1, <2>2, <2>3, <2>4
  <2> QED BY <1>2, <2>1, <2>5, <2>6 DEF AtAnswer, AnswerHere
<1> QED BY <1>3, <1>4 DEF AtAnswer

LEMMA BabbleRefused ==
  ASSUME OnLine(Part), NotAckFirst, Babble PROVE NotAckFirst'
<1>0. Noise \in Part /\ Noise.b # "ack"
  BY DEF Noise, Byte, Part
<1>1. /\ Len(ready) \in Nat /\ ready \in Seq(Part) /\ ready' \in Seq(Part)
      /\ Len(ready') = Len(ready) + 1 /\ ready'[Len(ready) + 1] = Noise
      /\ \A k \in 1..Len(ready) : ready'[k] = ready[k]
  BY <1>0, BabbleLine, NoneLeft DEF OnLine
<1>2. ready' # <<>>
  BY <1>1, NoneLeft
<1>3. CASE ready = <<>>
  <2>1. ready'[1] = Noise
    <3>1. Len(ready) = 0
      BY <1>1, <1>3, NoneLeft
    <3>2. ready'[0 + 1] = Noise
      BY <1>1, <3>1
    <3> QED BY <3>2
  <2> QED BY <1>0, <1>2, <2>1 DEF NotAckFirst
<1>4. CASE ready # <<>>
  <2>1. Len(ready) >= 1
    BY <1>1, <1>4, NoneLeft
  <2> QED BY <1>1, <1>2, <1>4, <2>1 DEF NotAckFirst
<1> QED BY <1>3, <1>4

LEMMA BabbleReply == ASSUME OnLine(Part), AtReply, Babble PROVE AtReply'
<1>0. Noise \in Part
  BY DEF Noise, Byte, Part
<1>1. /\ Len(ready) \in Nat /\ Len(air') = Len(air) /\ Len(air) \in Nat
      /\ ready' \in Seq(Part) /\ ready \in Seq(Part)
      /\ Len(ready') = Len(ready) + 1 /\ ready'[Len(ready) + 1] = Noise
      /\ \A k \in 1..Len(ready) : ready'[k] = ready[k]
      /\ \A k \in 1..Len(air) : air'[k].bytes = air[k].bytes
      /\ air' \in Seq(ItemOf(Part)) /\ air \in Seq(ItemOf(Part))
      /\ \A k \in 1..Len(ready) : ready[k] \in Part
  BY <1>0, BabbleLine, NoneLeft DEF OnLine
<1>2. Quiet' /\ Pro' = Pro /\ Own' = Own
  BY SameKeeps DEF AtReply, Quiet, Babble, consoleVars, Same, ghosts
<1>3. ready' # <<>> /\ (air = <<>> => air' = <<>>)
  BY <1>1, NoneLeft
<1>4. CASE ReplyToCome
  <2>1. ready' \in Seq({Noise})
    BY <1>4, BabbleNoise DEF ReplyToCome
  <2>2. air' = <<>> \/ (Len(air') = 1 /\ Fragment(air'[1].bytes, Own, Pro))
    BY <1>1, <1>3, <1>4 DEF ReplyToCome
  <2> QED BY <1>2, <2>1, <2>2 DEF AtReply, ReplyToCome
<1>5. CASE NoiseFirst
  <2>1. Len(ready) >= 1 /\ ready[1] = Noise /\ air = <<>>
    BY <1>1, <1>5, NoneLeft DEF NoiseFirst
  <2>2. ready'[1] = Noise
    BY <1>1, <2>1
  <2> QED BY <1>2, <1>3, <2>1, <2>2 DEF AtReply, NoiseFirst
<1>6. CASE ReplyHere
  <2>1. PICK c \in 0..Len(ready) :
          /\ Fragment(SubSeq(ready, 1, c), Own, Pro)
          /\ \A k \in (c + 1)..Len(ready) : ready[k] = Noise
    BY <1>6 DEF ReplyHere
  <2>2. SubSeq(ready', 1, c) = SubSeq(ready, 1, c)
    <3>1. \A i \in 1..c : ready'[i] \in Part /\ ready[i] \in Part
                          /\ ready'[i] = ready[i]
      BY <1>1
    <3> DEFINE s == SubSeq(ready', 1, c)
               t == SubSeq(ready, 1, c)
    <3>2. /\ s \in Seq(Part) /\ Len(s) = IF 1 <= c THEN c - 1 + 1 ELSE 0
          /\ \A i \in 1..(c - 1 + 1) : s[i] = ready'[1 + i - 1]
      BY <3>1, SubSeqProperties
    <3>3. /\ t \in Seq(Part) /\ Len(t) = IF 1 <= c THEN c - 1 + 1 ELSE 0
          /\ \A i \in 1..(c - 1 + 1) : t[i] = ready[1 + i - 1]
      BY <3>1, SubSeqProperties
    <3> HIDE DEF s, t
    <3>4. Len(s) = Len(t) /\ Len(s) = c
      BY <3>2, <3>3
    <3>5. ASSUME NEW i \in 1..Len(s) PROVE s[i] = t[i]
      <4>1. i \in 1..(c - 1 + 1) /\ 1 + i - 1 = i /\ i \in 1..c
        BY <3>4
      <4> QED BY <3>1, <3>2, <3>3, <4>1
    <3>6. s = t
      BY <3>2, <3>3, <3>4, <3>5, SeqEqual
    <3> QED BY <3>6 DEF s, t
  <2>3. c \in 0..Len(ready')
    BY <1>1
  <2>4. \A k \in (c + 1)..Len(ready') : ready'[k] = Noise
    BY <1>1, <2>1
  <2>5. Fragment(SubSeq(ready', 1, c), Own, Pro)
    BY <2>1, <2>2
  <2>6. air' = <<>>
    BY <1>3, <1>6 DEF ReplyHere
  <2> QED BY <1>2, <2>3, <2>4, <2>5, <2>6 DEF AtReply, ReplyHere
<1>7. CASE ~Pro /\ NotAckFirst
  BY <1>2, <1>7, BabbleRefused DEF AtReply
<1> QED BY <1>4, <1>5, <1>6, <1>7 DEF AtReply

LEMMA BabbleInTurn == ASSUME OnLine(Part), InTurn, Babble PROVE InTurn'
<1>0. Noise \in Part /\ ~Hdr(Noise)
  BY DEF Noise, Byte, Part, Hdr
<1>1. /\ Len(ready) \in Nat /\ Len(air') = Len(air)
      /\ Len(ready') = Len(ready) + 1 /\ ready'[Len(ready) + 1] = Noise
      /\ \A k \in 1..Len(ready) : ready'[k] = ready[k]
      /\ \A k \in 1..Len(air) : air'[k].bytes = air[k].bytes
  BY <1>0, BabbleLine, NoneLeft DEF OnLine
<1>2. Taken' = Taken /\ Sent' = Sent
  BY SameKeeps DEF Babble, consoleVars, ghosts, Same, Sent
<1>3. \A k \in 1..Len(ready') :
        \/ k \in 1..Len(ready) /\ ready'[k] = ready[k]
        \/ k = Len(ready) + 1 /\ ~Hdr(ready'[k])
  BY <1>0, <1>1
<1>4. \A k \in 1..Len(ready') : Due(ready'[k], Taken, Sent)
  BY <1>3 DEF InTurn, InTurnOf, Due
<1>5. ASSUME NEW j \in 1..Len(ready'), NEW k \in 1..Len(ready'), j < k
      PROVE  Before(ready'[j], ready'[k])
  <2>1. CASE k \in 1..Len(ready)
    <3>1. j \in 1..Len(ready)
      BY <1>1, <1>5, <2>1
    <3> QED BY <1>1, <1>5, <2>1, <3>1 DEF InTurn, InTurnOf
  <2>2. CASE k \notin 1..Len(ready)
    BY <1>3, <2>2 DEF Before
  <2> QED BY <2>1, <2>2
<1>6. ASSUME NEW j \in 1..Len(ready'), NEW m \in 1..Len(air'),
             NEW k \in 1..Len(air'[m].bytes)
      PROVE  Before(ready'[j], air'[m].bytes[k])
  <2>1. CASE j \in 1..Len(ready)
    BY <1>1, <2>1 DEF InTurn, InTurnOf
  <2>2. CASE j \notin 1..Len(ready)
    BY <1>3, <2>2 DEF Before
  <2> QED BY <2>1, <2>2
<1>7. /\ \A m \in 1..Len(air') :
           /\ HeadOnly(air'[m].bytes)
           /\ \A k \in 1..Len(air'[m].bytes) :
                Due(air'[m].bytes[k], Taken, Sent)
      /\ \A m, n \in 1..Len(air') : m < n =>
           \A j \in 1..Len(air'[m].bytes), k \in 1..Len(air'[n].bytes) :
             Before(air'[m].bytes[j], air'[n].bytes[k])
  BY <1>1 DEF InTurn, InTurnOf
<1>8. Taken' <= Sent'
  BY <1>2 DEF InTurn, InTurnOf
<1> QED BY <1>2, <1>4, <1>5, <1>6, <1>7, <1>8 DEF InTurn, InTurnOf

LEMMA BabbleInv == ASSUME LineInv, Babble PROVE LineInv'
<1>0. /\ Noise \in Part /\ Noise \in NotLf /\ Noise \in NotHdr
      /\ Noise \in Current(gen)
  BY DEF Noise, Byte, Part, NotLf, NotHdr, Current
<1>1. Same /\ OnLine(Part) /\ (Quiet' <=> Quiet)
  BY DEF LineInv, Babble, Same, consoleVars, ghosts, Quiet
<1>2. /\ Pro' = Pro /\ Unhurt' = Unhurt /\ Exact' = Exact
      /\ pc' = pc /\ gen' = gen
      /\ CalibrationIsOurs' = CalibrationIsOurs
      /\ PacketIsOurs' = PacketIsOurs
  BY <1>1, SameKeeps DEF Same
<1>3. OnLine(Part)'
  BY <1>0, <1>1, BabbleLine DEF OnLine
<1>4. OnLine(NotLf) => OnLine(NotLf)'
  BY <1>0, BabbleLine DEF OnLine
<1>5. OnLine(NotHdr) => OnLine(NotHdr)'
  BY <1>0, BabbleLine DEF OnLine
<1>6. OnLine(Current(gen)) => OnLine(Current(gen))'
  <2>1. OnLine(Current(gen)) =>
          ready' \in Seq(Current(gen)) /\ air' \in Seq(ItemOf(Current(gen)))
    BY <1>0, BabbleLine
  <2> QED BY <1>2, <2>1 DEF OnLine
<1>7. AtAsk => AtAsk'
  <2>1. Silence => Silence'
    BY <1>1, BabbleNoise, BabbleStill DEF Silence
  <2> QED BY <1>1, <1>2, <2>1, BabbleRefused DEF AtAsk
<1>8. pc \notin {"open", "drain5"} \/ (AtDrain => AtDrain')
  BY <1>1, BabbleDrain
<1>9. /\ AtAnswer => AtAnswer'
      /\ AtReply => AtReply'
      /\ InTurn => InTurn'
  BY <1>1, BabbleAnswer, BabbleReply, BabbleInTurn
<1> QED BY <1>1, <1>2, <1>3, <1>4, <1>5, <1>6, <1>7, <1>8, <1>9 DEF LineInv

-----------------------------------------------------------------------------
(* The line loses or damages a byte                                        *)

LEMMA HurtLine ==
  ASSUME OnLine(Part), LineFault
  PROVE  /\ UNCHANGED ready /\ Len(air) \in Nat /\ Len(air) >= 1
         /\ air # <<>> /\ air' # <<>> /\ Len(air') = Len(air)
         /\ \A m \in 2..Len(air) : air'[m] = air[m]
         /\ air'[1].wait = air[1].wait
         /\ air[1].bytes \in Seq(Part) /\ air'[1].bytes \in Seq(Part)
         /\ Len(air[1].bytes) \in Nat /\ Len(air'[1].bytes) \in Nat
         /\ Hurt(air[1].bytes, air'[1].bytes)
<1>1. /\ UNCHANGED ready /\ air' \in Seq(ItemOf(Part))
      /\ Len(air) >= 1 /\ Len(air') = Len(air)
      /\ \A m \in 2..Len(air) : air'[m] = air[m]
      /\ air'[1].wait = air[1].wait
      /\ Hurt(air[1].bytes, air'[1].bytes)
  BY FaultLine
<1>2. Len(air) \in Nat /\ 1 \in 1..Len(air) /\ 1 \in 1..Len(air')
  BY <1>1, NoneLeft DEF OnLine
<1>3. air[1] \in ItemOf(Part) /\ air'[1] \in ItemOf(Part)
  BY <1>1, <1>2, ElementOfSeq DEF OnLine
<1>4. air[1].bytes \in Seq(Part) /\ air'[1].bytes \in Seq(Part)
  BY <1>3 DEF ItemOf
<1>5. air # <<>> /\ air' # <<>>
  BY <1>1, <1>2, NoneLeft DEF OnLine
<1> QED BY <1>1, <1>2, <1>4, <1>5, NoneLeft

LEMMA HurtHasNoLf ==
  ASSUME NEW s \in Seq(Part), NEW t \in Seq(Part), Hurt(s, t),
         \A k \in 1..Len(s) : s[k].b # "lf"
  PROVE  \A k \in 1..Len(t) : t[k].b # "lf"
<1>1. Len(s) \in Nat /\ Len(t) \in Nat
      /\ \A k \in 1..Len(s) : s[k] \in Part
  BY NoneLeft
<1>2. \A x \in Part : [x EXCEPT !.b = "bad"].b = "bad"
  BY DEF Part
<1>3. ASSUME NEW k \in 1..Len(t) PROVE t[k].b # "lf"
  <2>1. CASE /\ Len(t) = Len(s) - 1
             /\ \A j \in 1..Len(t) : t[j] = s[j] \/ t[j] = s[j + 1]
    <3>1. k \in 1..Len(s) /\ k + 1 \in 1..Len(s)
      BY <1>1, <2>1
    <3> QED BY <2>1, <3>1
  <2>2. CASE /\ Len(t) = Len(s)
             /\ \E n \in 1..Len(s) :
                  /\ t[n] = [s[n] EXCEPT !.b = "bad"]
                  /\ \A j \in 1..Len(s) : j # n => t[j] = s[j]
    BY <1>1, <1>2, <2>2
  <2> QED BY <2>1, <2>2 DEF Hurt
<1> QED BY <1>3

LEMMA FaultDrain == ASSUME OnLine(Part), AtDrain, LineFault PROVE AtDrain'
<1>1. PICK c \in 0..Len(air) :
        /\ \A m \in 1..c : air[m].wait <= 5
        /\ \A m \in (c + 1)..Len(air) : Leftover(air[m].bytes, Refused)
  BY DEF AtDrain
<1>2. Refused' = FALSE \/ ~Refused'
  BY DEF Refused, Unhurt, Pro, LineFault
<1>3. \A m \in 1..c : air'[m].wait <= 5
  BY <1>1, HurtLine
<1>4. \A m \in (c + 1)..Len(air') : Leftover(air'[m].bytes, Refused')
  <2>1. ASSUME NEW m \in (c + 1)..Len(air')
        PROVE  \A k \in 1..Len(air'[m].bytes) : air'[m].bytes[k].b # "lf"
    <3>1. m \in (c + 1)..Len(air) /\ m >= 1 /\ m \in 1..Len(air)
      BY HurtLine
    <3>2. \A k \in 1..Len(air[m].bytes) : air[m].bytes[k].b # "lf"
      BY <1>1, <3>1 DEF Leftover
    <3>3. CASE m = 1
      BY <3>2, <3>3, HurtLine, HurtHasNoLf
    <3>4. CASE m # 1
      <4>1. m \in 2..Len(air)
        BY <3>1, <3>4
      <4> QED BY <3>2, <4>1, HurtLine
    <3> QED BY <3>3, <3>4
  <2> QED BY <1>2, <2>1 DEF Leftover
<1>5. c \in 0..Len(air')
  BY HurtLine
<1> QED BY <1>3, <1>4, <1>5 DEF AtDrain

LEMMA FaultAnswer == ASSUME OnLine(Part), AtAnswer, LineFault PROVE AtAnswer'
<1>1. Quiet' /\ AnswerToCome
  BY HurtLine DEF AtAnswer, AnswerHere, Quiet, LineFault, consoleVars
<1>2. ready' \in Seq(NotLf)
  BY <1>1, HurtLine DEF AnswerToCome
<1>3. \A x \in Part : [x EXCEPT !.b = "bad"].b = "bad"
  BY DEF Part
<1>4. ASSUME NEW m \in 1..Len(air')
      PROVE  \/ air'[m].bytes \in Seq(NotLf)
             \/ m = Len(air') /\ WakeLeft(air'[m].bytes)
  <2>1. m \in 1..Len(air) /\ Len(air') = Len(air) /\ (m # 1 => m \in 2..Len(air))
    BY HurtLine
  <2>2. CASE m # 1
    BY <1>1, <2>1, <2>2, HurtLine DEF AnswerToCome
  <2>3. CASE m = 1 /\ air[1].bytes \in Seq(NotLf)
    <3>1. \A k \in 1..Len(air[1].bytes) : air[1].bytes[k].b # "lf"
      <4>1. \A k \in 1..Len(air[1].bytes) : air[1].bytes[k] \in NotLf
        BY <2>3, NoneLeft
      <4> QED BY <4>1 DEF NotLf
    <3>2. \A k \in 1..Len(air'[1].bytes) : air'[1].bytes[k].b # "lf"
      BY <3>1, HurtLine, HurtHasNoLf
    <3>3. \A k \in 1..Len(air'[1].bytes) : air'[1].bytes[k] \in Part
      BY HurtLine, NoneLeft
    <3>4. \A k \in 1..Len(air'[1].bytes) : air'[1].bytes[k] \in NotLf
      BY <3>2, <3>3 DEF NotLf
    <3>5. air'[1].bytes \in Seq(NotLf)
      BY <3>4, HurtLine, Elements
    <3> QED BY <2>3, <3>5
  <2>4. CASE m = 1 /\ m = Len(air) /\ WakeLeft(air[1].bytes)
    <3> DEFINE s == air[1].bytes
               t == air'[1].bytes
    <3>1. /\ s \in Seq(Part) /\ Len(s) \in Nat /\ Len(t) \in Nat
          /\ Hurt(s, t) /\ WakeLeft(s)
          /\ \A k \in 1..Len(s) : s[k] \in Part
      BY <2>4, HurtLine, NoneLeft
    <3> HIDE DEF s, t
    <3>2. Len(s) <= 2 /\ (Len(s) = 2 => s[2].b # "lf")
      BY <3>1 DEF WakeLeft
    <3>3. ASSUME Len(t) = Len(s) - 1 PROVE WakeLeft(t)
      BY <3>1, <3>2, <3>3 DEF WakeLeft
    <3>4. ASSUME Len(t) = Len(s),
                 \E n \in 1..Len(s) :
                   /\ t[n] = [s[n] EXCEPT !.b = "bad"]
                   /\ \A j \in 1..Len(s) : j # n => t[j] = s[j]
          PROVE  WakeLeft(t)
      <4>1. ASSUME Len(t) = 2 PROVE t[2].b # "lf"
        <5>1. 2 \in 1..Len(s)
          BY <3>4, <4>1
        <5> QED BY <1>3, <3>1, <3>2, <3>4, <4>1, <5>1
      <4> QED BY <3>2, <3>4, <4>1 DEF WakeLeft
    <3>5. WakeLeft(t)
      BY <3>1, <3>3, <3>4 DEF Hurt
    <3> QED BY <2>1, <2>4, <3>5 DEF t
  <2> QED BY <1>1, <2>1, <2>2, <2>3, <2>4 DEF AnswerToCome
<1> QED BY <1>1, <1>2, <1>4 DEF AtAnswer, AnswerToCome

LEMMA FaultReply ==
  ASSUME OnLine(Part), Typed, AtReply, Pro, LineFault PROVE AtReply'
<1>1. Quiet' /\ Pro' /\ Own' = Own /\ UNCHANGED ready
  BY DEF AtReply, Quiet, Pro, Own, ReplyTo, LineFault, consoleVars, childVars
<1>2. ReplyToCome
  BY HurtLine DEF AtReply, NoiseFirst, ReplyHere
<1>3. Len(air) = 1 /\ Len(air') = 1 /\ Fragment(air[1].bytes, Own, Pro)
      /\ ready' \in Seq({Noise})
  BY <1>1, <1>2, HurtLine DEF ReplyToCome
<1>4. Len(Own) = 3
  BY DEF Own, ReplyTo, Pro
<1> DEFINE s == air[1].bytes
           t == air'[1].bytes
<1>5. Len(s) \in Nat /\ Len(t) \in Nat /\ Hurt(s, t) /\ Fragment(s, Own, Pro)
      /\ \A k \in 1..Len(s) : s[k] \in Part
  BY <1>3, HurtLine, NoneLeft
<1> HIDE DEF s, t
<1>6. \A x \in Part : [x EXCEPT !.b = "bad"].b = "bad"
  BY DEF Part
<1>7. Len(s) <= 3
  BY <1>4, <1>5 DEF Fragment
<1>8. Fragment(t, Own, Pro)
  <2>1. CASE Len(t) = Len(s) - 1
    BY <1>5, <1>7, <2>1 DEF Fragment
  <2>2. CASE /\ Len(t) = Len(s)
             /\ \E n \in 1..Len(s) :
                  /\ t[n] = [s[n] EXCEPT !.b = "bad"]
                  /\ \A j \in 1..Len(s) : j # n => t[j] = s[j]
    <3>1. PICK n \in 1..Len(s) : t[n] = [s[n] EXCEPT !.b = "bad"]
      BY <2>2
    <3>2. t[n].b = "bad"
      BY <1>5, <1>6, <3>1
    <3> QED BY <1>5, <1>7, <2>2, <3>2 DEF Fragment
  <2> QED BY <1>5, <2>1, <2>2 DEF Hurt
<1> QED BY <1>1, <1>3, <1>8 DEF AtReply, ReplyToCome, t

LEMMA FaultInv == ASSUME LineInv, Typed, LineFault PROVE LineInv'
<1>1. /\ pc' = pc /\ kind' = kind /\ gen' = gen /\ mode' = mode
      /\ misread' = misread \cup {"loss"} /\ OnLine(Part)
  BY DEF LineInv, LineFault, childVars, consoleVars
<1>2. /\ Pro' = Pro /\ (Unhurt' => Pro) /\ (Exact' => Pro /\ Exact)
      /\ (Pro => Unhurt)
  BY <1>1 DEF Pro, Unhurt, Exact
<1>3. CalibrationIsOurs' /\ PacketIsOurs'
  BY <1>1 DEF LineInv, CalibrationIsOurs, PacketIsOurs, Typed
<1>4. /\ \A x \in NotLf : [x EXCEPT !.b = "bad"] \in NotLf
      /\ \A x \in NotHdr : [x EXCEPT !.b = "bad"] \in NotHdr
      /\ \A x \in Current(gen) : [x EXCEPT !.b = "bad"] \in Current(gen)
      /\ \A x \in Part : [x EXCEPT !.b = "bad"] \in Part
      /\ NotLf \subseteq Part /\ NotHdr \subseteq Part
      /\ Current(gen) \subseteq Part
  BY DEF NotLf, NotHdr, Current, Part
<1>5. /\ OnLine(Part)'
      /\ OnLine(NotLf) => OnLine(NotLf)'
      /\ OnLine(NotHdr) => OnLine(NotHdr)'
  BY <1>1, <1>4, FaultKeeps DEF OnLine
<1>6. OnLine(Current(gen)) => OnLine(Current(gen))'
  <2>1. OnLine(Current(gen)) =>
          ready' \in Seq(Current(gen)) /\ air' \in Seq(ItemOf(Current(gen)))
    BY <1>1, <1>4, FaultKeeps
  <2> QED BY <1>1, <2>1 DEF OnLine
<1>7. Pro => ~AtAsk
  BY DEF AtAsk, Silence, LineFault
<1>8. AtDrain => AtDrain'
  BY <1>1, FaultDrain
<1>9. AtAnswer => AtAnswer'
  BY <1>1, FaultAnswer
<1>10. Pro /\ AtReply => AtReply'
  BY <1>1, FaultReply
<1>11. Quiet' <=> Quiet
  BY <1>1 DEF Quiet
<1> QED BY <1>1, <1>2, <1>3, <1>5, <1>6, <1>7, <1>8, <1>9, <1>10, <1>11
        DEF LineInv

-----------------------------------------------------------------------------
(* The console sends a packet, goes off or comes back                      *)

\* The packet that is next
Packet(body) == <<Byte("hdr", gen, LoopCount - left),
                  Byte(body, gen, LoopCount - left),
                  Byte("crc", gen, LoopCount - left)>>

LEMMA PacketLine ==
  ASSUME Typed, OnLine(Part), DrainedDelays, SendPacket
  PROVE  \E body \in {"dat", "ack", "neg"} :
           /\ air' \in Seq(ItemOf(Part)) /\ Len(air') = Len(air) + 1
           /\ \A k \in 1..Len(air) : air'[k] = air[k]
           /\ air'[Len(air) + 1].bytes = Packet(body)
           /\ Len(Packet(body)) = 3
           /\ Packet(body)[1] = Byte("hdr", gen, LoopCount - left)
           /\ Packet(body)[2] = Byte(body, gen, LoopCount - left)
           /\ Packet(body)[3] = Byte("crc", gen, LoopCount - left)
           /\ Packet(body) \in Seq(Part) /\ Packet(body) \in Seq(NotLf)
           /\ Packet(body) \in Seq(Current(gen))
           /\ Answers(Packet(body))
<1>1. PICK body \in {"dat", "ack", "neg"} : Answers(Packet(body))
  BY DEF SendPacket, Packet
<1>2. gen \in Nat /\ LoopCount - left \in Nat
  BY DEF Typed
<1>3. /\ Packet(body) \in Seq(Part) /\ Packet(body) \in Seq(NotLf)
      /\ Packet(body) \in Seq(Current(gen))
  BY <1>2 DEF Packet, Byte, Part, NotLf, Current
<1>4. /\ Len(Packet(body)) = 3
      /\ Packet(body)[1] = Byte("hdr", gen, LoopCount - left)
      /\ Packet(body)[2] = Byte(body, gen, LoopCount - left)
      /\ Packet(body)[3] = Byte("crc", gen, LoopCount - left)
  BY DEF Packet
<1>5. /\ air' \in Seq(ItemOf(Part)) /\ Len(air') = Len(air) + 1
      /\ \A k \in 1..Len(air) : air'[k] = air[k]
      /\ air'[Len(air) + 1].bytes = Packet(body)
  BY <1>1, <1>3, AnswersLine DEF OnLine
<1> QED BY <1>1, <1>3, <1>4, <1>5

LEMMA PacketDrain ==
  ASSUME Typed, OnLine(Part), DrainedDelays, AtDrain, SendPacket PROVE AtDrain'
<1>1. PICK c \in 0..Len(air) :
        /\ \A m \in 1..c : air[m].wait <= 5
        /\ \A m \in (c + 1)..Len(air) : Leftover(air[m].bytes, Refused)
  BY DEF AtDrain
<1>2. PICK body \in {"dat", "ack", "neg"} :
           /\ Len(air') = Len(air) + 1
           /\ \A k \in 1..Len(air) : air'[k] = air[k]
           /\ air'[Len(air) + 1].bytes = Packet(body)
           /\ Len(Packet(body)) = 3
           /\ Packet(body)[1] = Byte("hdr", gen, LoopCount - left)
           /\ Packet(body) \in Seq(NotLf)
  BY PacketLine
<1>3. Len(air) \in Nat
  BY NoneLeft DEF OnLine
<1>4. Refused' = Refused
  BY SameKeeps DEF SendPacket, Same, childVars, ghosts
<1>5. Leftover(Packet(body), Refused)
  <2>1. \A k \in 1..Len(Packet(body)) : Packet(body)[k].b # "lf"
    <3>1. \A k \in 1..Len(Packet(body)) : Packet(body)[k] \in NotLf
      BY <1>2, NoneLeft
    <3> QED BY <3>1 DEF NotLf
  <2>2. Packet(body) # <<>> /\ Packet(body)[1].b = "hdr"
    BY <1>2, NoneLeft DEF Byte
  <2> QED BY <2>1, <2>2 DEF Leftover
<1>6. /\ c \in 0..Len(air')
      /\ \A m \in 1..c : air'[m].wait <= 5
      /\ \A m \in (c + 1)..Len(air') : Leftover(air'[m].bytes, Refused)
  BY <1>1, <1>2, <1>3, <1>5
<1> QED BY <1>4, <1>6 DEF AtDrain

LEMMA PacketInTurn ==
  ASSUME Typed, LoopingHasPackets, OnLine(Part), DrainedDelays, InTurn,
         SendPacket
  PROVE  InTurn'
<1>1. PICK body \in {"dat", "ack", "neg"} :
           /\ Len(air') = Len(air) + 1
           /\ \A k \in 1..Len(air) : air'[k] = air[k]
           /\ air'[Len(air) + 1].bytes = Packet(body)
           /\ Len(Packet(body)) = 3
           /\ Packet(body)[1] = Byte("hdr", gen, LoopCount - left)
           /\ Packet(body)[2] = Byte(body, gen, LoopCount - left)
           /\ Packet(body)[3] = Byte("crc", gen, LoopCount - left)
  BY PacketLine
<1>2. Len(air) \in Nat /\ ready' = ready
  BY NoneLeft DEF OnLine, SendPacket
<1>3. Taken' = Taken
  BY SameKeeps DEF SendPacket, Same, childVars, ghosts
<1>4. mode = "looping" /\ left > 0 /\ left \in 0..LoopCount
  BY DEF SendPacket, LoopingHasPackets, Typed
<1>5. Sent = LoopCount - left /\ Sent' = Sent + 1
  BY <1>4 DEF Sent, SendPacket
<1>6. Taken \in Int /\ Sent \in Int /\ Taken <= Sent
  BY <1>5 DEF Taken, Typed, InTurn, InTurnOf
<1> DEFINE p == Packet(body)
           z == Len(air) + 1
<1>7. /\ ~Hdr(p[2]) /\ ~Hdr(p[3]) /\ Hdr(p[1]) /\ p[1].i = Sent
  BY <1>1, <1>5 DEF Hdr, Byte
<1>8. HeadOnly(p) /\ \A k \in 1..Len(p) : Hdr(p[k]) => k = 1
  BY <1>1, <1>7 DEF HeadOnly
<1>9. /\ air'[z].bytes = p
      /\ \A m \in 1..Len(air') : (m \in 1..Len(air) /\ air'[m] = air[m])
                                 \/ m = z
  BY <1>1, <1>2
<1> HIDE DEF p, z
<1>10. \A x : Due(x, Taken, Sent) => Due(x, Taken, Sent + 1) \/ x.i \notin Int
  BY <1>6 DEF Due
<1>11. /\ \A k \in 1..Len(ready) : Hdr(ready[k]) => ready[k].i \in Int
       /\ \A m \in 1..Len(air) : \A k \in 1..Len(air[m].bytes) :
            Hdr(air[m].bytes[k]) => air[m].bytes[k].i \in Int
  <2>1. \A x \in Part : x.i \in Int
    BY DEF Part
  <2>2. \A k \in 1..Len(ready) : ready[k] \in Part
    BY NoneLeft DEF OnLine
  <2>3. ASSUME NEW m \in 1..Len(air)
        PROVE  \A k \in 1..Len(air[m].bytes) : air[m].bytes[k] \in Part
    <3>1. air[m] \in ItemOf(Part)
      BY NoneLeft DEF OnLine
    <3>2. air[m].bytes \in Seq(Part)
      BY <3>1 DEF ItemOf
    <3> QED BY <3>2, NoneLeft
  <2> QED BY <2>1, <2>2, <2>3
<1>12. \A k \in 1..Len(ready) : Due(ready[k], Taken, Sent + 1)
  BY <1>6, <1>11 DEF InTurn, InTurnOf, Due
<1>13. ASSUME NEW m \in 1..Len(air')
       PROVE  /\ HeadOnly(air'[m].bytes)
              /\ \A k \in 1..Len(air'[m].bytes) :
                   Due(air'[m].bytes[k], Taken, Sent + 1)
  <2>1. CASE m \in 1..Len(air) /\ air'[m] = air[m]
    <3>1. /\ HeadOnly(air[m].bytes)
          /\ \A k \in 1..Len(air[m].bytes) :
               Due(air[m].bytes[k], Taken, Sent)
      BY <2>1 DEF InTurn, InTurnOf
    <3> QED BY <1>6, <1>11, <2>1, <3>1 DEF Due
  <2>2. CASE m = z
    BY <1>6, <1>7, <1>8, <1>9, <2>2 DEF Due
  <2> QED BY <1>9, <2>1, <2>2
<1>14. ASSUME NEW j \in 1..Len(ready), NEW m \in 1..Len(air'),
              NEW k \in 1..Len(air'[m].bytes)
       PROVE  Before(ready[j], air'[m].bytes[k])
  <2>1. CASE m \in 1..Len(air) /\ air'[m] = air[m]
    <3>1. \A i \in 1..Len(air[m].bytes) : Before(ready[j], air[m].bytes[i])
      BY <2>1 DEF InTurn, InTurnOf
    <3> QED BY <2>1, <3>1
  <2>2. CASE m = z
    <3>1. Due(ready[j], Taken, Sent)
      BY DEF InTurn, InTurnOf
    <3> QED BY <1>7, <1>8, <1>9, <2>2, <3>1 DEF Due, Before
  <2> QED BY <1>9, <2>1, <2>2
<1>15. ASSUME NEW m \in 1..Len(air'), NEW n \in 1..Len(air'), m < n,
              NEW j \in 1..Len(air'[m].bytes), NEW k \in 1..Len(air'[n].bytes)
       PROVE  Before(air'[m].bytes[j], air'[n].bytes[k])
  <2>0. m \in 1..Len(air) /\ air'[m] = air[m]
    <3>1. m # z
      BY <1>1, <1>2, <1>15 DEF z
    <3> QED BY <1>9, <3>1
  <2>1. CASE n \in 1..Len(air) /\ air'[n] = air[n]
    <3>1. \A x \in 1..Len(air[m].bytes), y \in 1..Len(air[n].bytes) :
            Before(air[m].bytes[x], air[n].bytes[y])
      BY <1>15, <2>0, <2>1 DEF InTurn, InTurnOf
    <3> QED BY <2>0, <2>1, <3>1
  <2>2. CASE n = z
    <3>1. \A x \in 1..Len(air[m].bytes) : Due(air[m].bytes[x], Taken, Sent)
      BY <2>0 DEF InTurn, InTurnOf
    <3>2. Due(air'[m].bytes[j], Taken, Sent)
      BY <2>0, <3>1
    <3> QED BY <1>7, <1>8, <1>9, <2>2, <3>2 DEF Due, Before
  <2> QED BY <1>9, <2>1, <2>2
<1>16. \A j, k \in 1..Len(ready) : j < k => Before(ready[j], ready[k])
  BY DEF InTurn, InTurnOf
<1>17. Taken <= Sent + 1
  BY <1>6
<1> QED BY <1>2, <1>3, <1>5, <1>12, <1>13, <1>14, <1>15, <1>16, <1>17
        DEF InTurn, InTurnOf

LEMMA SendPacketInv ==
  ASSUME LineInv, Typed, LoopingHasPackets, DrainedDelays, SendPacket
  PROVE  LineInv'
<1>1. Same /\ OnLine(Part) /\ ~Quiet
  BY DEF LineInv, SendPacket, Same, childVars, ghosts, Quiet
<1>2. /\ Pro' = Pro /\ Unhurt' = Unhurt /\ Exact' = Exact
      /\ pc' = pc /\ gen' = gen
      /\ CalibrationIsOurs' = CalibrationIsOurs
      /\ PacketIsOurs' = PacketIsOurs
  BY <1>1, SameKeeps DEF Same
<1>3. OnLine(Part)' /\ ready' = ready
  BY <1>1, PacketLine DEF OnLine, SendPacket
<1>4. PICK body \in {"dat", "ack", "neg"} :
           /\ Packet(body) \in Seq(NotLf)
           /\ Packet(body) \in Seq(Current(gen))
           /\ Answers(Packet(body))
  BY <1>1, PacketLine
<1>5. OnLine(NotLf) => OnLine(NotLf)'
  BY <1>3, <1>4, AnswersLine DEF OnLine
<1>6. OnLine(Current(gen)) => OnLine(Current(gen))'
  <2>1. air \in Seq(ItemOf(Current(gen)))
          => air' \in Seq(ItemOf(Current(gen)))
    BY <1>4, AnswersLine
  <2> QED BY <1>2, <1>3, <2>1 DEF OnLine
<1>7. /\ AtDrain => AtDrain'
      /\ InTurn => InTurn'
  BY <1>1, PacketDrain, PacketInTurn
<1>8. ~AtAnswer /\ ~AtAsk /\ ~AtReply
  BY <1>1 DEF AtAnswer, AtAsk, AtReply
<1> QED BY <1>1, <1>2, <1>3, <1>5, <1>6, <1>7, <1>8 DEF LineInv

\* The console falls asleep, fails or returns: it is not in a LOOP afterwards
LEMMA ModeInv ==
  ASSUME LineInv, Typed, Same, UNCHANGED <<air, ready>>, Quiet'
  PROVE  LineInv'
<1>1. /\ Pro' = Pro /\ Unhurt' = Unhurt /\ Exact' = Exact
      /\ pc' = pc /\ gen' = gen /\ Taken' = Taken
      /\ Refused' = Refused /\ Own' = Own
      /\ CalibrationIsOurs' = CalibrationIsOurs
      /\ PacketIsOurs' = PacketIsOurs
  BY SameKeeps DEF Same
<1>2. /\ OnLine(Part)' = OnLine(Part)
      /\ OnLine(NotLf)' = OnLine(NotLf)
      /\ OnLine(NotHdr)' = OnLine(NotHdr)
      /\ OnLine(Current(gen))' = OnLine(Current(gen))
  BY <1>1 DEF OnLine
<1>3. AtDrain => AtDrain'
  BY <1>1 DEF AtDrain
<1>4. AtAnswer => AtAnswer'
  BY DEF AtAnswer, AnswerToCome, AnswerHere
<1>5. AtAsk => AtAsk'
  BY <1>1 DEF AtAsk, Silence, NotAckFirst
<1>6. AtReply => AtReply'
  BY <1>1 DEF AtReply, ReplyToCome, NoiseFirst, ReplyHere, NotAckFirst
<1>7. InTurn => InTurn'
  <2>1. Sent' = LoopCount /\ Sent <= LoopCount /\ Sent \in Int
        /\ Taken \in Int /\ LoopCount \in Int
    BY DEF Sent, Quiet, Typed, Taken
  <2>2. ASSUME InTurn PROVE InTurn'
    <3>1. Taken <= LoopCount
      BY <2>1, <2>2 DEF InTurn, InTurnOf
    <3>2. \A x \in Part :
            Due(x, Taken, Sent) => Due(x, Taken, LoopCount)
      BY <2>1 DEF Due, Part
    <3>3. \A k \in 1..Len(ready) : ready[k] \in Part
      BY NoneLeft DEF LineInv, OnLine
    <3>4. ASSUME NEW m \in 1..Len(air)
          PROVE  \A k \in 1..Len(air[m].bytes) : air[m].bytes[k] \in Part
      <4>1. air[m] \in ItemOf(Part)
        BY NoneLeft DEF LineInv, OnLine
      <4>2. air[m].bytes \in Seq(Part)
        BY <4>1 DEF ItemOf
      <4> QED BY <4>2, NoneLeft
    <3>5. /\ \A k \in 1..Len(ready) : Due(ready[k], Taken, LoopCount)
          /\ \A m \in 1..Len(air) : \A k \in 1..Len(air[m].bytes) :
               Due(air[m].bytes[k], Taken, LoopCount)
      BY <2>2, <3>2, <3>3, <3>4 DEF InTurn, InTurnOf
    <3>6. InTurnOf(ready, air, Taken, LoopCount)
      <4>1. InTurnOf(ready, air, Taken, Sent)
        BY <2>2 DEF InTurn
      <4> QED BY <3>1, <3>5, <4>1, Zenon DEF InTurnOf
    <3> QED BY <1>1, <2>1, <3>6 DEF InTurn
  <2> QED BY <2>2
<1> QED BY <1>1, <1>2, <1>3, <1>4, <1>5, <1>6, <1>7 DEF LineInv

LEMMA ConsoleInv ==
  ASSUME LineInv, Typed, LoopingHasPackets, DrainedDelays, Console
  PROVE  LineInv'
<1>1. CASE SendPacket
  BY <1>1, SendPacketInv
<1>2. CASE ConsoleSleeps \/ ConsoleFails \/ ConsoleReturns
  <2>1. Same /\ UNCHANGED <<air, ready>> /\ Quiet'
    BY <1>2 DEF ConsoleSleeps, ConsoleFails, ConsoleReturns, Same, Quiet,
       childVars, lineVars, ghosts
  <2> QED BY <2>1, ModeInv
<1>3. CASE Babble
  BY <1>3, BabbleInv
<1>4. CASE Arrive
  BY <1>4, ArriveInv
<1>5. CASE LineFault
  BY <1>5, FaultInv
<1> QED BY <1>1, <1>2, <1>3, <1>4, <1>5 DEF Console

-----------------------------------------------------------------------------
(* The child builds the station                                            *)

\* A child that is dead expects nothing of the line
LEMMA DeadInv ==
  ASSUME LineInv, pc' = "dead", UNCHANGED <<kind, misread>>, OnLine(Part)'
  PROVE  LineInv'
<1>1. CalibrationIsOurs' /\ PacketIsOurs'
  BY DEF LineInv, CalibrationIsOurs, PacketIsOurs
<1> QED BY <1>1 DEF LineInv, Awake, Reading

\* select() times out
LEMMA TimesOutLine ==
  ASSUME NEW S, OnLine(S), TimesOut
  PROVE  /\ ready' = <<>> /\ ready' \in Seq(S) /\ air' \in Seq(ItemOf(S))
         /\ Len(air') = Len(air) /\ Len(air) \in Nat
         /\ \A k \in 1..Len(air) : air'[k].bytes = air[k].bytes
         /\ air # <<>> => Len(air) >= 1 /\ air[1].wait > Patience
         /\ Quiet
<1>1. Patience \in Nat
  BY DEF Patience, ReadTimeout
<1>2. ready' = <<>> /\ air' = Aged(Patience) /\ Quiet /\ ~Comes
  BY DEF TimesOut, Talking, Quiet
<1>3. air \in Seq(ItemOf(S)) /\ Len(air) \in Nat
      /\ (air = <<>> <=> Len(air) = 0)
      /\ \A k \in 1..Len(air) : air[k] \in ItemOf(S)
  BY NoneLeft DEF OnLine
<1>4. ASSUME air # <<>> PROVE Len(air) >= 1 /\ air[1].wait > Patience
  <2>1. Len(air) >= 1 /\ air[1] \in ItemOf(S) /\ Head(air) = air[1]
    BY <1>3, <1>4
  <2>2. air[1].wait \in Nat
    BY <2>1 DEF ItemOf, Restart
  <2> QED BY <1>1, <1>2, <1>4, <2>1, <2>2 DEF Comes
<1>5. /\ air' \in Seq(ItemOf(S)) /\ Len(air') = Len(air)
      /\ \A k \in 1..Len(air) : air'[k].bytes = air[k].bytes
  BY <1>1, <1>2, <1>3, AgedLine
<1> QED BY <1>2, <1>3, <1>4, <1>5, EmptySeq

\* The bytes on the line are known one by one
LEMMA BytesOf ==
  ASSUME NEW S, NEW a \in Seq(ItemOf(S)), NEW m \in 1..Len(a)
  PROVE  /\ a[m].bytes \in Seq(S) /\ Len(a[m].bytes) \in Nat
         /\ \A k \in 1..Len(a[m].bytes) : a[m].bytes[k] \in S
         /\ a[m].wait \in 0..(Restart + 5) /\ a[m].wait \in Nat
<1>1. a[m] \in ItemOf(S)
  BY NoneLeft
<1>2. a[m].bytes \in Seq(S) /\ a[m].wait \in 0..(Restart + 5)
  BY <1>1 DEF ItemOf
<1> QED BY <1>2, NoneLeft DEF Restart

LEMMA BytesIn ==
  ASSUME NEW S, NEW T, NEW a \in Seq(ItemOf(T)),
         \A m \in 1..Len(a) : \A k \in 1..Len(a[m].bytes) : a[m].bytes[k] \in S
  PROVE  a \in Seq(ItemOf(S))
<1>1. ASSUME NEW m \in 1..Len(a) PROVE a[m] \in ItemOf(S)
  <2>1. a[m].bytes \in Seq(S)
    BY BytesOf, Elements
  <2>2. a[m] \in ItemOf(T)
    BY NoneLeft
  <2> QED BY <2>1, <2>2 DEF ItemOf
<1> QED BY <1>1, Elements

LEMMA Lift ==
  ASSUME NEW S, NEW T, \A x \in S : x \in T, OnLine(S) PROVE OnLine(T)
<1>1. ready \in Seq(T)
  <2>1. \A k \in 1..Len(ready) : ready[k] \in T
    BY NoneLeft DEF OnLine
  <2> QED BY <2>1, Elements DEF OnLine
<1>2. air \in Seq(ItemOf(T))
  <2>1. \A m \in 1..Len(air) : \A k \in 1..Len(air[m].bytes) :
          air[m].bytes[k] \in T
    BY BytesOf DEF OnLine
  <2> QED BY <2>1, BytesIn DEF OnLine
<1> QED BY <1>1, <1>2 DEF OnLine

LEMMA ConnectInv == ASSUME LineInv, Connect PROVE LineInv'
<1>1. /\ pc' = "open" /\ air' = Aged(Restart) /\ ready' = ready
      /\ misread' = {} /\ kind' = kind
  BY DEF Connect
<1>2. air \in Seq(ItemOf(Part)) /\ ready \in Seq(Part)
  BY DEF LineInv, OnLine
<1> DEFINE aged == Aged(Restart)
<1>3. /\ aged \in Seq(ItemOf(Part)) /\ Len(aged) = Len(air)
      /\ \A k \in 1..Len(air) :
           aged[k].wait = IF air[k].wait > Restart
                            THEN air[k].wait - Restart ELSE 0
  BY <1>2, AgedLine DEF Restart
<1>4. air' = aged
  BY <1>1
<1> HIDE DEF aged
<1>5. \A k \in 1..Len(air') : air'[k].wait <= 5
  <2>1. \A k \in 1..Len(air) : air[k].wait \in 0..8
    BY <1>2, BytesOf DEF Restart
  <2> QED BY <1>3, <1>4, <2>1 DEF Restart
<1>6. Len(air') \in Nat
  BY <1>3, <1>4, NoneLeft
<1>7. AtDrain'
  <2>1. \A m \in (Len(air') + 1)..Len(air') : FALSE
    BY <1>6
  <2>2. Len(air') \in 0..Len(air')
    BY <1>6
  <2> QED BY <1>5, <2>1, <2>2 DEF AtDrain
<1>8. CalibrationIsOurs' /\ PacketIsOurs'
  BY <1>1 DEF CalibrationIsOurs, PacketIsOurs
<1>9. OnLine(Part)'
  BY <1>1, <1>2, <1>3, <1>4 DEF OnLine
<1> QED BY <1>1, <1>7, <1>8, <1>9 DEF LineInv, Awake, Reading

\* What keeps the line and the child's memory keeps the beginning of drain(5)
LEMMA DrainKeeps ==
  ASSUME AtDrain, UNCHANGED <<kind, misread, air>> PROVE AtDrain'
<1>1. Refused' = Refused
  BY DEF Refused, Unhurt, Pro
<1> QED BY <1>1 DEF AtDrain

LEMMA OpenInv == ASSUME LineInv, NewChannel PROVE LineInv'
<1>1. /\ pc = "open" /\ UNCHANGED <<kind, ready, misread>>
      /\ \/ pc' = "drain5" /\ air' = air
         \/ pc' = "dead" /\ \E n \in {0, 5} : air' = Aged(n)
  BY DEF NewChannel, OpenSerial, OpenTcp, CannotOpen, ghosts
<1>2. CASE pc' = "drain5" /\ air' = air
  <2>1. AtDrain'
    BY <1>1, <1>2, DrainKeeps DEF LineInv
  <2>2. CalibrationIsOurs' /\ PacketIsOurs'
    BY <1>1 DEF LineInv, CalibrationIsOurs, PacketIsOurs
  <2>3. OnLine(Part)'
    BY <1>1, <1>2 DEF LineInv, OnLine
  <2> QED BY <1>2, <2>1, <2>2, <2>3 DEF LineInv, Awake, Reading
<1>3. CASE pc' = "dead" /\ \E n \in {0, 5} : air' = Aged(n)
  <2>1. OnLine(Part)'
    BY <1>1, <1>3, AgedLine DEF LineInv, OnLine
  <2> QED BY <1>1, <1>3, <2>1, DeadInv
<1> QED BY <1>1, <1>2, <1>3

LEMMA DrainInv == ASSUME LineInv, DrainReads PROVE LineInv'
<1>1. /\ pc \in {"drain5", "drain10"} /\ ready' = <<>>
      /\ UNCHANGED <<pc, kind, air, misread>>
  BY DEF DrainReads, childVars, ghosts
<1>2. OnLine(Part)'
  BY <1>1, EmptySeq DEF LineInv, OnLine
<1>3. CalibrationIsOurs' /\ PacketIsOurs' /\ Pro' = Pro
  BY <1>1 DEF LineInv, CalibrationIsOurs, PacketIsOurs, Pro
<1>4. pc = "drain5" => AtDrain'
  BY <1>1, DrainKeeps DEF LineInv
<1> QED BY <1>1, <1>2, <1>3, <1>4 DEF LineInv, Awake, Reading

\* The end of drain(5): nothing is under way but the packets that came during
\* it, and what an old station finds first is the header of one
LEMMA ReadyInv == ASSUME LineInv, Typed, ChannelReady PROVE LineInv'
<1>1. /\ pc = "drain5" /\ TimesOut /\ UNCHANGED <<kind, misread, mode>>
      /\ pc' = IF Pro THEN "wake" ELSE "ask"
  BY DEF ChannelReady, EntersWakeup, consoleVars, Pro
<1>2. PICK c \in 0..Len(air) :
        /\ \A m \in 1..c : air[m].wait <= 5
        /\ \A m \in (c + 1)..Len(air) : Leftover(air[m].bytes, Refused)
  BY <1>1 DEF LineInv, AtDrain
<1>3. OnLine(Part)
  BY DEF LineInv
<1>4. /\ ready' = <<>> /\ ready' \in Seq(Part) /\ air' \in Seq(ItemOf(Part))
      /\ Len(air') = Len(air) /\ Len(air) \in Nat
      /\ \A k \in 1..Len(air) : air'[k].bytes = air[k].bytes
      /\ air # <<>> => Len(air) >= 1 /\ air[1].wait > 5
      /\ Quiet /\ air \in Seq(ItemOf(Part))
  BY <1>1, <1>3, TimesOutLine DEF Patience, OnLine
<1>5. c = 0
  <2>1. SUFFICES ASSUME c >= 1 PROVE FALSE
    BY <1>4
  <2>2. Len(air) >= 1 /\ air # <<>>
    BY <1>4, <2>1, EmptySeq
  <2>3. air[1].wait \in Nat
    BY <1>4, <2>2, BytesOf
  <2> QED BY <1>2, <1>4, <2>1, <2>2, <2>3
<1>6. \A m \in 1..Len(air) : Leftover(air[m].bytes, Refused)
  BY <1>2, <1>5
<1>7. CalibrationIsOurs' /\ PacketIsOurs' /\ Pro' = Pro /\ Quiet'
  BY <1>1, <1>4 DEF LineInv, CalibrationIsOurs, PacketIsOurs, Pro, Quiet
<1>8. OnLine(NotLf)'
  <2>1. ASSUME NEW m \in 1..Len(air'), NEW k \in 1..Len(air'[m].bytes)
        PROVE  air'[m].bytes[k] \in NotLf
    <3>1. m \in 1..Len(air) /\ air'[m].bytes = air[m].bytes
      BY <1>4
    <3>2. air[m].bytes[k] \in Part
      BY <1>4, <3>1, BytesOf
    <3>3. air[m].bytes[k].b # "lf"
      BY <1>6, <3>1 DEF Leftover
    <3> QED BY <3>1, <3>2, <3>3 DEF NotLf
  <2>2. air' \in Seq(ItemOf(NotLf))
    BY <1>4, <2>1, BytesIn
  <2> QED BY <1>4, <2>2, EmptySeq DEF OnLine
<1>9. ASSUME ~Pro, Exact' PROVE AtAsk'
  <2>1. Refused
    BY <1>1, <1>9 DEF Refused, Unhurt, Exact, Pro
  <2>2. CASE air = <<>>
    <3>1. air' = <<>>
      BY <1>4, <2>2, NoneLeft
    <3>2. ready' \in Seq({Noise})
      BY <1>4, EmptySeq
    <3> QED BY <1>7, <3>1, <3>2 DEF AtAsk, Silence
  <2>3. CASE air # <<>>
    <3>1. Len(air) >= 1 /\ air'[1].bytes = air[1].bytes /\ air' # <<>>
      BY <1>4, <2>3, NoneLeft
    <3>2. air[1].bytes # <<>> /\ air[1].bytes[1].b = "hdr"
      BY <1>6, <2>1, <3>1, <1>4 DEF Leftover
    <3> QED BY <1>4, <1>7, <1>9, <3>1, <3>2 DEF AtAsk, NotAckFirst
  <2> QED BY <2>2, <2>3
<1>10. OnLine(Part)'
  BY <1>4 DEF OnLine
<1> QED BY <1>1, <1>7, <1>8, <1>9, <1>10 DEF LineInv, Awake, Reading

-----------------------------------------------------------------------------
(* wakeup()                                                                *)

LEMMA NewlineInv ==
  ASSUME LineInv, Typed, DrainedDelays, SendNewline PROVE LineInv'
<1>1. /\ pc = "wake" /\ pc' = "answer" /\ UNCHANGED <<kind, ready, misread>>
      /\ HearsNewline
  BY DEF SendNewline, ghosts
<1>2. OnLine(Part) /\ Pro /\ OnLine(NotLf)
  BY <1>1 DEF LineInv, Awake
<1>3. mode' # "looping" /\ (Answers(WakeAnswer) \/ Silent)
  BY <1>1 DEF HearsNewline, Typed
<1>4. WakeAnswer \in Seq(Part) /\ WakeLeft(WakeAnswer)
  <2>1. WakeAnswer \in Seq(Part)
    BY DEF WakeAnswer, Byte, Part
  <2>2. WakeAnswer[2].b = "cr" /\ Len(WakeAnswer) = 2
    BY DEF WakeAnswer, Byte
  <2> QED BY <2>1, <2>2 DEF WakeLeft
<1>5. Len(air) \in Nat /\ \A m \in 1..Len(air) : air[m].bytes \in Seq(NotLf)
  BY <1>2, NoneLeft, BytesOf DEF OnLine
<1>6. OnLine(Part)' /\ AnswerToCome'
  <2>1. CASE Answers(WakeAnswer)
    <3>1. /\ air' \in Seq(ItemOf(Part)) /\ Len(air') = Len(air) + 1
          /\ \A k \in 1..Len(air) : air'[k] = air[k]
          /\ air'[Len(air) + 1].bytes = WakeAnswer
      BY <1>2, <1>4, <2>1, AnswersLine DEF OnLine
    <3>2. \A m \in 1..Len(air') :
            \/ air'[m].bytes \in Seq(NotLf)
            \/ m = Len(air') /\ WakeLeft(air'[m].bytes)
      BY <1>4, <1>5, <3>1
    <3>3. ready' \in Seq(NotLf) /\ ready' \in Seq(Part)
      BY <1>1, <1>2 DEF OnLine
    <3> QED BY <3>1, <3>2, <3>3 DEF OnLine, AnswerToCome, WakeLeft
  <2>2. CASE Silent
    BY <1>1, <1>2, <1>5, <2>2 DEF Silent, OnLine, AnswerToCome
  <2> QED BY <1>3, <2>1, <2>2
<1>7. AtAnswer'
  BY <1>3, <1>6 DEF AtAnswer, Quiet
<1>8. CalibrationIsOurs' /\ PacketIsOurs' /\ Pro'
  BY <1>1, <1>2 DEF LineInv, CalibrationIsOurs, PacketIsOurs, Pro
<1> QED BY <1>1, <1>6, <1>7, <1>8 DEF LineInv, Awake, Reading

\* Noise has no header and no line feed
LEMMA NoiseBytes ==
  /\ Noise \in Part /\ Noise \in NotLf /\ Noise \in NotHdr
  /\ Noise.b = "dat"
  BY DEF Noise, Byte, Part, NotLf, NotHdr

\* What is left of a byte sequence once recvString() has taken its part
LEMMA TakenLine ==
  ASSUME NEW S, OnLine(S), Receives, UNCHANGED air, Wanted \in Nat
  PROVE  ready' \in Seq(S) /\ air' \in Seq(ItemOf(S))
  BY ReceivesLine DEF OnLine

\* What recvString() takes
LEMMA TakenBytes ==
  ASSUME NEW w \in Nat, ready \in Seq(Part), Len(ready) >= w
  PROVE  /\ SubSeq(ready, 1, w) \in Seq(Part)
         /\ Len(SubSeq(ready, 1, w)) = w
         /\ \A k \in 1..w : SubSeq(ready, 1, w)[k] = ready[k]
<1>1. Len(ready) \in Nat /\ \A k \in 1..w : ready[k] \in Part
  <2>1. Len(ready) \in Nat /\ \A k \in 1..Len(ready) : ready[k] \in Part
    BY NoneLeft
  <2> QED BY <2>1
<1> DEFINE s == SubSeq(ready, 1, w)
<1>2. /\ s \in Seq(Part) /\ Len(s) = IF 1 <= w THEN w - 1 + 1 ELSE 0
      /\ \A i \in 1..(w - 1 + 1) : s[i] = ready[1 + i - 1]
  BY <1>1, SubSeqProperties
<1> HIDE DEF s
<1>3. Len(s) = w
  BY <1>2
<1>4. ASSUME NEW k \in 1..w PROVE s[k] = ready[k]
  <2>1. k \in 1..(w - 1 + 1) /\ 1 + k - 1 = k
    OBVIOUS
  <2> QED BY <1>2, <2>1
<1> QED BY <1>2, <1>3, <1>4 DEF s

LEMMA AnsweredInv == ASSUME LineInv, Typed, WakeAnswered PROVE LineInv'
<1>1. /\ pc = "answer" /\ Receives /\ UNCHANGED <<kind, misread, air, mode>>
      /\ Wanted = 2
  BY DEF WakeAnswered, consoleVars, Wanted
<1>2. AtAnswer /\ OnLine(Part) /\ Pro
  BY <1>1 DEF LineInv
<1>3. OnLine(Part)'
  BY <1>1, <1>2, TakenLine DEF OnLine
<1>4. CalibrationIsOurs' /\ PacketIsOurs' /\ Pro' /\ Quiet'
  BY <1>1, <1>2 DEF LineInv, CalibrationIsOurs, PacketIsOurs, Pro, Quiet,
     AtAnswer
<1>5. CASE SubSeq(ready, 1, 2) # WakeAnswer
  <2>1. pc' = "drain10"
    BY <1>1, <1>5 DEF WakeAnswered
  <2> QED BY <1>3, <1>4, <2>1 DEF LineInv, Awake, Reading
<1>6. CASE SubSeq(ready, 1, 2) = WakeAnswer
  <2>1. /\ Len(ready) \in Nat /\ Len(ready) >= 2 /\ ready \in Seq(Part)
        /\ ready' \in Seq(Part) /\ Len(ready') = Len(ready) - 2
        /\ \A k \in 1..Len(ready') : ready'[k] = ready[k + 2]
    BY <1>1, <1>2, ReceivesLine DEF OnLine
  <2>2. ready[1].b = "lf"
    <3>1. SubSeq(ready, 1, 2)[1] = ready[1]
      BY <2>1, TakenBytes
    <3>2. WakeAnswer[1].b = "lf"
      BY DEF WakeAnswer, Byte
    <3> QED BY <1>6, <3>1, <3>2
  <2>3. ~AnswerToCome
    <3> SUFFICES ASSUME AnswerToCome PROVE FALSE
      OBVIOUS
    <3>1. ready \in Seq(NotLf)
      BY DEF AnswerToCome
    <3>2. ready[1] \in NotLf
      BY <2>1, <3>1, NoneLeft
    <3> QED BY <2>2, <3>2 DEF NotLf
  <2>4. AnswerHere
    BY <1>2, <2>3 DEF AtAnswer
  <2>5. PICK c \in 0..Len(ready) :
          /\ \A k \in 1..Len(ready) : ready[k].b = "lf" => k = c + 1
          /\ \A k \in 1..Len(ready) : k > c + 2 => ready[k] = Noise
    BY <2>4 DEF AnswerHere
  <2>6. c = 0
    BY <2>1, <2>2, <2>5
  <2>7. Silence'
    <3>1. \A k \in 1..Len(ready') : ready'[k] \in {Noise}
      BY <2>1, <2>5, <2>6
    <3>2. ready' \in Seq({Noise})
      BY <2>1, <3>1, Elements
    <3> QED BY <1>1, <2>4, <3>2 DEF Silence, AnswerHere
  <2>8. OnLine(NotLf)' /\ OnLine(NotHdr)'
    <3>1. \A k \in 1..Len(ready') : ready'[k] = Noise
      BY <2>1, <2>5, <2>6
    <3>2. ready' \in Seq(NotLf) /\ ready' \in Seq(NotHdr)
      BY <2>1, <3>1, NoiseBytes, Elements
    <3>3. air' = <<>>
      BY <2>7 DEF Silence
    <3> QED BY <3>2, <3>3, EmptySeq DEF OnLine
  <2>9. pc' = "dead" \/ pc' = after
    BY <1>1, <1>6 DEF WakeAnswered, WakeupReturns, Dies
  <2>10. CASE pc' = "dead"
    BY <1>1, <1>3, <2>10, DeadInv
  <2>11. CASE pc' = after
    <3>1. pc' \in {"ask", "loop"}
      BY <2>11 DEF Typed
    <3>2. AtAsk'
      BY <1>4, <2>7 DEF AtAsk
    <3> QED BY <1>3, <1>4, <2>8, <3>1, <3>2 DEF LineInv, Awake, Reading
  <2> QED BY <2>9, <2>10, <2>11
<1> QED BY <1>5, <1>6

LEMMA UnansweredInv ==
  ASSUME LineInv, Typed, WakeUnanswered PROVE LineInv'
<1>1. /\ pc = "answer" /\ pc' = "drain10" /\ TimesOut
      /\ UNCHANGED <<kind, misread>>
  BY DEF WakeUnanswered, ghosts
<1>2. OnLine(Part) /\ Pro
  BY <1>1 DEF LineInv
<1>3. OnLine(Part)'
  BY <1>1, <1>2, TimesOutLine DEF OnLine
<1>4. CalibrationIsOurs' /\ PacketIsOurs' /\ Pro'
  BY <1>1, <1>2 DEF LineInv, CalibrationIsOurs, PacketIsOurs, Pro
<1> QED BY <1>1, <1>3, <1>4 DEF LineInv, Awake, Reading

\* After drain(10) nothing is under way
LEMMA AgainInv == ASSUME LineInv, Typed, TryAgain PROVE LineInv'
<1>1. /\ pc = "drain10" /\ pc' \in {"wake", "dead"} /\ TimesOut
      /\ UNCHANGED <<kind, misread>> /\ Patience = 10
  BY DEF TryAgain, Dies, Patience
<1>2. OnLine(Part) /\ Pro
  BY <1>1 DEF LineInv
<1>3. /\ ready' = <<>> /\ air' \in Seq(ItemOf(Part)) /\ Len(air') = Len(air)
      /\ Len(air) \in Nat
      /\ air # <<>> => Len(air) >= 1 /\ air[1].wait > 10
  BY <1>1, <1>2, TimesOutLine
<1>4. air = <<>>
  <2> SUFFICES ASSUME air # <<>> PROVE FALSE
    OBVIOUS
  <2>1. air \in Seq(ItemOf(Part)) /\ 1 \in 1..Len(air)
    BY <1>2, <1>3 DEF OnLine
  <2>2. air[1].wait \in 0..8
    BY <2>1, BytesOf DEF Restart
  <2> QED BY <1>3, <2>2
<1>5. air' = <<>>
  BY <1>3, <1>4, NoneLeft, EmptySeq
<1>6. OnLine(Part)' /\ OnLine(NotLf)'
  BY <1>3, <1>5, EmptySeq DEF OnLine
<1>7. CalibrationIsOurs' /\ PacketIsOurs' /\ Pro'
  BY <1>1, <1>2 DEF LineInv, CalibrationIsOurs, PacketIsOurs, Pro
<1> QED BY <1>1, <1>6, <1>7 DEF LineInv, Awake, Reading

-----------------------------------------------------------------------------
(* The calibration reads                                                   *)

\* The reply to a read, byte by byte
LEMMA OwnBytes ==
  ASSUME Typed
  PROVE  /\ Own \in Seq(Part) /\ Own \in Seq(NotLf)
         /\ Own[1] = Ack /\ Own[2] = Byte("dat", asked + 1, 0)
         /\ (Pro => Len(Own) = 3 /\ Own[3] = Byte("crc", asked + 1, 0))
         /\ (~Pro => Len(Own) = 2)
         /\ pc = "reply" => Wanted = IF Pro THEN 3 ELSE 2
         /\ \A k \in 1..Len(Own) : Own[k] # Noise /\ Own[k].b # "bad"
<1>1. asked + 1 \in Nat /\ asked + 1 # 0
  BY DEF Typed
<1>2. CASE Pro
  <2>1. Own = <<Ack, Byte("dat", asked + 1, 0), Byte("crc", asked + 1, 0)>>
    BY <1>2 DEF Own, ReplyTo, Pro
  <2>2. /\ Ack \in NotLf /\ Byte("dat", asked + 1, 0) \in NotLf
        /\ Byte("crc", asked + 1, 0) \in NotLf
    BY <1>1 DEF Ack, Byte, NotLf, Part
  <2>3. pc = "reply" => Wanted = 3
    BY <1>2 DEF Wanted, ReplyTo, Pro
  <2>4. Own \in Seq(Part) /\ Own \in Seq(NotLf)
    BY <2>1, <2>2 DEF NotLf
  <2>5. /\ Ack # Noise /\ Ack.b # "bad"
        /\ Byte("dat", asked + 1, 0) # Noise
        /\ Byte("dat", asked + 1, 0).b # "bad"
        /\ Byte("crc", asked + 1, 0) # Noise
        /\ Byte("crc", asked + 1, 0).b # "bad"
    BY <1>1 DEF Ack, Byte, Noise
  <2>6. \A k \in 1..Len(Own) : k \in {1, 2, 3}
    BY <2>1
  <2> QED BY <1>2, <2>1, <2>3, <2>4, <2>5, <2>6
<1>3. CASE ~Pro
  <2>1. Own = <<Ack, Byte("dat", asked + 1, 0)>>
    BY <1>3 DEF Own, ReplyTo, Pro
  <2>2. Ack \in NotLf /\ Byte("dat", asked + 1, 0) \in NotLf
    BY <1>1 DEF Ack, Byte, NotLf, Part
  <2>3. pc = "reply" => Wanted = 2
    BY <1>3 DEF Wanted, ReplyTo, Pro
  <2>4. Own \in Seq(Part) /\ Own \in Seq(NotLf)
    BY <2>1, <2>2 DEF NotLf
  <2>5. /\ Ack # Noise /\ Ack.b # "bad"
        /\ Byte("dat", asked + 1, 0) # Noise
        /\ Byte("dat", asked + 1, 0).b # "bad"
    BY <1>1 DEF Ack, Byte, Noise
  <2>6. \A k \in 1..Len(Own) : k \in {1, 2}
    BY <2>1
  <2> QED BY <1>3, <2>1, <2>3, <2>4, <2>5, <2>6
<1> QED BY <1>2, <1>3

\* A command makes the console answer at most once, after what is on the line
LEMMA HearsLine ==
  ASSUME NEW S, air \in Seq(ItemOf(S)), NEW bytes \in Seq(S), DrainedDelays,
         NEW then, NEW count, Hears(bytes, then, count), Typed
  PROVE  /\ air' \in Seq(ItemOf(S))
         /\ \/ air' = air
            \/ /\ Len(air') = Len(air) + 1
               /\ \A k \in 1..Len(air) : air'[k] = air[k]
               /\ air'[Len(air) + 1].bytes = bytes
         /\ (mode' = mode /\ mode \in {"off", "babbling"}) \/ mode' = "awake"
            \/ (mode' = then /\ left' = count)
<1>1. CASE mode \in {"awake", "looping"}
  <2>1. mode' = then /\ left' = count /\ Answers(bytes)
    BY <1>1 DEF Hears
  <2>2. /\ air' \in Seq(ItemOf(S)) /\ Len(air') = Len(air) + 1
        /\ \A k \in 1..Len(air) : air'[k] = air[k]
        /\ air'[Len(air) + 1].bytes = bytes
    BY <2>1, AnswersLine
  <2> QED BY <2>1, <2>2
<1>2. CASE mode = "asleep"
  BY <1>2 DEF Hears, Silent
<1>3. CASE mode \in {"off", "babbling"}
  BY <1>3 DEF Hears, Silent
<1> QED BY <1>1, <1>2, <1>3 DEF Typed

LEMMA AskInv == ASSUME LineInv, Typed, DrainedDelays, Ask PROVE LineInv'
<1>1. /\ pc = "ask" /\ pc' = "reply" /\ Hears(Own, "awake", 0)
      /\ UNCHANGED <<kind, asked, ready, misread>>
  BY DEF Ask, ghosts, Own
<1>2. OnLine(Part) /\ Pro' = Pro /\ Own' = Own /\ Exact' = Exact
  BY <1>1 DEF LineInv, Pro, Own, ReplyTo, Exact
<1>3. Own \in Seq(Part) /\ Own \in Seq(NotLf)
  BY OwnBytes
<1>4. /\ air' \in Seq(ItemOf(Part))
      /\ \/ air' = air
         \/ /\ Len(air') = Len(air) + 1
            /\ \A k \in 1..Len(air) : air'[k] = air[k]
            /\ air'[Len(air) + 1].bytes = Own
      /\ Quiet'
  BY <1>1, <1>2, <1>3, HearsLine DEF OnLine, Quiet
<1>5. OnLine(Part)'
  BY <1>1, <1>2, <1>4 DEF OnLine
<1>6. Pro => OnLine(NotLf)'
  <2>1. ASSUME Pro PROVE OnLine(NotLf)'
    <3>1. OnLine(NotLf)
      BY <1>1, <2>1 DEF LineInv, Awake
    <3>2. air' \in Seq(ItemOf(NotLf))
      BY <1>1, <1>3, <3>1, HearsLine DEF OnLine
    <3> QED BY <1>1, <3>1, <3>2 DEF OnLine
  <2> QED BY <2>1
<1>7. ASSUME Exact PROVE AtReply'
  <2>1. AtAsk
    BY <1>1, <1>7 DEF LineInv
  <2>2. CASE Silence
    <3>1. ready' \in Seq({Noise}) /\ Len(air) = 0
      BY <1>1, <2>2, EmptySeq DEF Silence
    <3>2. air' = <<>> \/ (Len(air') = 1 /\ Fragment(air'[1].bytes, Own, Pro))
      <4>1. CASE air' = air
        BY <2>2, <4>1 DEF Silence
      <4>2. CASE /\ Len(air') = Len(air) + 1
                 /\ air'[Len(air) + 1].bytes = Own
        <5>1. Len(air') = 1 /\ air'[0 + 1].bytes = Own
          BY <3>1, <4>2
        <5>2. air'[1].bytes = Own
          BY <5>1
        <5> QED BY <5>1, <5>2 DEF Fragment
      <4> QED BY <1>4, <4>1, <4>2
    <3>3. ReplyToCome'
      BY <1>2, <3>1, <3>2 DEF ReplyToCome
    <3> QED BY <1>4, <3>3 DEF AtReply
  <2>3. CASE ~Pro /\ NotAckFirst
    <3>1. NotAckFirst'
      <4>1. CASE ready # <<>>
        BY <1>1, <2>3, <4>1 DEF NotAckFirst
      <4>2. CASE ready = <<>>
        <5>1. /\ air # <<>> /\ air[1].bytes # <<>>
              /\ air[1].bytes[1].b # "ack"
          BY <2>3, <4>2 DEF NotAckFirst
        <5>2. Len(air) \in Nat /\ Len(air) >= 1
          BY <1>2, <5>1, NoneLeft DEF OnLine
        <5>3. air' # <<>> /\ air'[1] = air[1]
          <6>1. CASE air' = air
            BY <5>1, <6>1
          <6>2. CASE /\ Len(air') = Len(air) + 1
                     /\ \A k \in 1..Len(air) : air'[k] = air[k]
            BY <1>4, <5>2, <6>2, NoneLeft
          <6> QED BY <1>4, <6>1, <6>2
        <5> QED BY <1>1, <4>2, <5>1, <5>3 DEF NotAckFirst
      <4> QED BY <4>1, <4>2
    <3> QED BY <1>2, <1>4, <2>3, <3>1 DEF AtReply
  <2> QED BY <2>1, <2>2, <2>3 DEF AtAsk
<1>8. CalibrationIsOurs' /\ PacketIsOurs'
  BY <1>1 DEF LineInv, CalibrationIsOurs, PacketIsOurs
<1> QED BY <1>1, <1>2, <1>4, <1>5, <1>6, <1>7, <1>8
        DEF LineInv, Awake, Reading

\* What the child takes for a reply is the reply, or holds noise or a damaged
\* byte, or an old station refuses it
LEMMA TakenReply ==
  ASSUME Typed, OnLine(Part), AtReply, pc = "reply", Receives,
         UNCHANGED air
  PROVE  LET p == SubSeq(ready, 1, Wanted) IN
         \/ p = Own /\ Silence'
         \/ Pro /\ \E k \in DOMAIN p : p[k] = Noise \/ p[k].b = "bad"
         \/ ~Pro /\ Head(ready).b # "ack"
<1> DEFINE p == SubSeq(ready, 1, Wanted)
<1>1. Wanted = (IF Pro THEN 3 ELSE 2) /\ Wanted \in Nat
  BY OwnBytes
<1>2. /\ ready \in Seq(Part) /\ Len(ready) >= Wanted /\ Len(ready) \in Nat
      /\ ready' \in Seq(Part) /\ Len(ready') = Len(ready) - Wanted
      /\ \A k \in 1..Len(ready') : ready'[k] = ready[k + Wanted]
  BY <1>1, ReceivesLine DEF OnLine
<1>3. p \in Seq(Part) /\ Len(p) = Wanted /\ \A k \in 1..Wanted : p[k] = ready[k]
  BY <1>1, <1>2, TakenBytes
<1>4. DOMAIN p = 1..Wanted
  BY <1>3, NoneLeft
<1>5. Head(ready) = ready[1] /\ Noise.b # "ack"
  BY NoiseBytes
<1>6. ready # <<>>
  BY <1>1, <1>2, EmptySeq
<1> HIDE DEF p
<1>7. ASSUME ready[1] = Noise
      PROVE  \/ Pro /\ \E k \in DOMAIN p : p[k] = Noise \/ p[k].b = "bad"
             \/ ~Pro /\ Head(ready).b # "ack"
  <2>1. p[1] = Noise /\ 1 \in DOMAIN p
    BY <1>1, <1>3, <1>4, <1>7
  <2> QED BY <1>5, <1>7, <2>1
<1>8. CASE ReplyToCome
  <2>1. ready[1] = Noise
    <3>1. \A k \in 1..Len(ready) : ready[k] \in {Noise}
      BY <1>8, NoneLeft DEF ReplyToCome
    <3> QED BY <1>1, <1>2, <3>1
  <2> QED BY <1>7, <2>1 DEF p
<1>9. CASE NoiseFirst
  BY <1>7, <1>9 DEF NoiseFirst, p
<1>10. CASE ~Pro /\ NotAckFirst
  BY <1>5, <1>6, <1>10 DEF NotAckFirst
<1>11. CASE ReplyHere
  <2>1. PICK c \in 0..Len(ready) :
       /\ Fragment(SubSeq(ready, 1, c), Own, Pro)
       /\ \A k \in (c + 1)..Len(ready) : ready[k] = Noise
    BY <1>11 DEF ReplyHere
  <2> DEFINE s == SubSeq(ready, 1, c)
  <2>2. s \in Seq(Part) /\ Len(s) = c /\ \A k \in 1..c : s[k] = ready[k]
    BY <1>2, <2>1, TakenBytes
  <2>3. Fragment(s, Own, Pro)
    BY <2>1
  <2> HIDE DEF s
  <2>4. CASE s = Own
    <3>1. c = Wanted
      BY <1>1, <2>2, <2>4, OwnBytes
    <3>2. p = Own
      BY <2>4, <3>1 DEF s, p
    <3>3. \A k \in 1..Len(ready') : ready'[k] \in {Noise}
      BY <1>1, <1>2, <2>1, <3>1
    <3>4. ready' \in Seq({Noise})
      BY <1>2, <3>3, Elements
    <3>5. Silence'
      BY <1>11, <3>4 DEF Silence, ReplyHere
    <3> QED BY <3>2, <3>5 DEF p
  <2>5. CASE Pro /\ Len(s) < 3
    <3>1. c + 1 \in 1..3 /\ ready[c + 1] = Noise
      BY <1>1, <1>2, <2>1, <2>2, <2>5
    <3>2. c + 1 \in DOMAIN p /\ p[c + 1] = Noise
      BY <1>1, <1>3, <1>4, <2>5, <3>1
    <3> QED BY <2>5, <3>2 DEF p
  <2>6. CASE Pro /\ Len(s) = 3 /\ \E k \in 1..3 : s[k].b = "bad"
    <3>1. PICK k \in 1..3 : s[k].b = "bad"
      BY <2>6
    <3>2. k \in DOMAIN p /\ p[k].b = "bad"
      BY <1>1, <1>3, <1>4, <2>2, <2>6, <3>1
    <3> QED BY <2>6, <3>2 DEF p
  <2> QED BY <2>3, <2>4, <2>5, <2>6 DEF Fragment
<1> QED BY <1>8, <1>9, <1>10, <1>11 DEF AtReply

LEMMA ReplyInv == ASSUME LineInv, Typed, Reply PROVE LineInv'
<1>1. /\ pc = "reply" /\ Receives /\ UNCHANGED <<kind, air, mode>>
  BY DEF Reply, consoleVars
<1>2. OnLine(Part) /\ Pro' = Pro /\ Wanted \in Nat
  BY <1>1, OwnBytes DEF LineInv, Pro
<1>3. OnLine(Part)'
  BY <1>1, <1>2, TakenLine DEF OnLine
<1>4. CASE kind = "Old" /\ Head(ready).b # "ack"
  <2>1. pc' = "dead" /\ UNCHANGED misread
    BY <1>4 DEF Reply, Dies
  <2> QED BY <1>1, <1>3, <2>1, DeadInv
<1>5. CASE ~(kind = "Old" /\ Head(ready).b # "ack")
  <2> DEFINE p == SubSeq(ready, 1, Wanted)
  <2>1. /\ pc' \in {"ask", "top"}
        /\ misread' = misread \cup Misreads(p, asked + 1)
    BY <1>5 DEF Reply
  <2>2. \/ /\ Misreads(p, asked + 1) = {"noise"}
           /\ \E k \in DOMAIN p : p[k] = Noise \/ p[k].b = "bad"
        \/ /\ Misreads(p, asked + 1) = {} /\ p = Own
           /\ ~ \E k \in DOMAIN p : p[k] = Noise \/ p[k].b = "bad"
        \/ Misreads(p, asked + 1) = {"calibration"}
           /\ p # Own /\ ~ \E k \in DOMAIN p : p[k] = Noise \/ p[k].b = "bad"
    BY DEF Misreads, Own
  <2>3. ~Pro <=> kind = "Old"
    BY DEF Pro, Typed
  <2>4. Exact' => Exact
    BY <1>2, <2>1 DEF Exact
  <2>5. Quiet => Quiet'
    BY <1>1 DEF Quiet
  <2>6. Exact => /\ Quiet
                 /\ \/ p = Own /\ Silence'
                    \/ Pro /\ \E k \in DOMAIN p : p[k] = Noise \/ p[k].b = "bad"
    <3>1. ASSUME Exact PROVE AtReply
      BY <1>1, <3>1 DEF LineInv
    <3>2. AtReply => \/ p = Own /\ Silence'
                     \/ Pro /\ \E k \in DOMAIN p : p[k] = Noise \/ p[k].b = "bad"
                     \/ ~Pro /\ Head(ready).b # "ack"
      BY <1>1, <1>2, TakenReply
    <3> HIDE DEF p
    <3> QED BY <1>5, <2>3, <3>1, <3>2 DEF AtReply
  <2> HIDE DEF p
  <2>7. Exact' => Silence' /\ Quiet'
    BY <1>2, <2>1, <2>2, <2>4, <2>5, <2>6 DEF Exact
  <2>8. CalibrationIsOurs'
    <3>1. "calibration" \in misread' => "calibration" \in misread
                                        \/ ~Exact
      BY <2>1, <2>2, <2>6
    <3>2. "calibration" \in misread => ~Exact
      BY <2>3 DEF LineInv, CalibrationIsOurs, Exact, Pro
    <3> QED BY <1>1, <2>1, <3>1, <3>2 DEF CalibrationIsOurs, Exact, Pro
  <2>9. PacketIsOurs'
    BY <1>1, <2>1, <2>2 DEF LineInv, PacketIsOurs
  <2>10. Pro => OnLine(NotLf)'
    <3>1. Pro => OnLine(NotLf)
      BY <1>1 DEF LineInv, Awake
    <3> QED BY <1>1, <1>2, <3>1, TakenLine DEF OnLine
  <2>11. Exact' => OnLine(NotHdr)'
    <3>1. ASSUME Silence' PROVE OnLine(NotHdr)'
      <4>1. \A k \in 1..Len(ready') : ready'[k] \in NotHdr
        <5>1. \A k \in 1..Len(ready') : ready'[k] \in {Noise}
          BY <3>1, NoneLeft DEF Silence
        <5> QED BY <5>1, NoiseBytes
      <4>2. ready' \in Seq(NotHdr)
        BY <1>3, <4>1, Elements DEF OnLine
      <4> QED BY <3>1, <4>2, EmptySeq DEF OnLine, Silence
    <3> QED BY <2>7, <3>1
  <2>12. ~Pro' => (Unhurt' <=> Exact')
    BY DEF Unhurt, Exact
  <2> QED BY <1>2, <1>3, <2>1, <2>7, <2>8, <2>9, <2>10, <2>11, <2>12
          DEF LineInv, AtAsk, Awake, Reading
<1> QED BY <1>4, <1>5

-----------------------------------------------------------------------------
(* The LOOP                                                                *)

LEMMA StartInv == ASSUME LineInv, StartLoop PROVE LineInv'
<1>1. /\ pc = "top" /\ pc' = IF Pro THEN "wake" ELSE "loop"
      /\ UNCHANGED <<kind, mode, air, ready, misread>>
  BY DEF StartLoop, EntersWakeup, consoleVars, lineVars, Pro
<1>2. /\ Pro' = Pro /\ Unhurt' = Unhurt /\ Quiet' = Quiet
      /\ CalibrationIsOurs' /\ PacketIsOurs'
  BY <1>1 DEF Pro, Unhurt, Quiet, LineInv, CalibrationIsOurs, PacketIsOurs
<1>3. /\ OnLine(Part)' /\ OnLine(NotLf)' = OnLine(NotLf)
      /\ OnLine(NotHdr)' = OnLine(NotHdr)
  BY <1>1 DEF LineInv, OnLine
<1> QED BY <1>1, <1>2, <1>3 DEF LineInv, Awake, Reading

\* Before the LOOP command there is no header on the line; so what comes with
\* one belongs to this command
LEMMA SendLoopInv ==
  ASSUME LineInv, Typed, DrainedDelays, SendLoop PROVE LineInv'
<1>1. /\ pc = "loop" /\ pc' = "ack" /\ Hears(<<Ack>>, "looping", LoopCount)
      /\ UNCHANGED <<kind, ready, misread>>
  BY DEF SendLoop, ghosts
<1>2. OnLine(Part)
  BY DEF LineInv
<1>3. Ack \in Part /\ Ack \in NotLf /\ Ack \in NotHdr
  BY DEF Ack, Byte, Part, NotLf, NotHdr
<1>4. /\ <<Ack>> \in Seq(Part) /\ <<Ack>> \in Seq(NotLf)
      /\ <<Ack>> \in Seq(NotHdr)
  BY <1>3
<1>5. /\ Pro' = Pro /\ Unhurt' = Unhurt
      /\ CalibrationIsOurs' /\ PacketIsOurs'
  BY <1>1 DEF Pro, Unhurt, LineInv, CalibrationIsOurs, PacketIsOurs
<1>6. OnLine(Part)'
  BY <1>1, <1>2, <1>4, HearsLine DEF OnLine
<1>7. Pro => OnLine(NotLf)'
  <2>1. Pro => OnLine(NotLf)
    BY <1>1 DEF LineInv, Awake
  <2> QED BY <1>1, <1>4, <2>1, HearsLine DEF OnLine
<1>8. Unhurt => Quiet /\ OnLine(NotHdr) /\ OnLine(NotHdr)'
  <2>1. Unhurt => Quiet /\ OnLine(NotHdr)
    BY <1>1 DEF LineInv
  <2>2. OnLine(NotHdr) => OnLine(NotHdr)'
    BY <1>1, <1>4, HearsLine DEF OnLine
  <2> QED BY <2>1, <2>2
<1>9. OnLine(NotHdr)' => OnLine(Current(gen))'
  <2> SUFFICES ASSUME OnLine(NotHdr)' PROVE OnLine(Current(gen))'
    OBVIOUS
  <2>1. \A x \in NotHdr : x \in Current(gen')
    BY DEF NotHdr, Current
  <2>2. ready' \in Seq(Current(gen'))
    <3>1. \A k \in 1..Len(ready') : ready'[k] \in NotHdr
      BY NoneLeft DEF OnLine
    <3> QED BY <2>1, <3>1, Elements DEF OnLine
  <2>3. air' \in Seq(ItemOf(Current(gen')))
    <3>1. \A m \in 1..Len(air') : \A k \in 1..Len(air'[m].bytes) :
            air'[m].bytes[k] \in NotHdr
      BY BytesOf DEF OnLine
    <3>2. \A m \in 1..Len(air') : \A k \in 1..Len(air'[m].bytes) :
            air'[m].bytes[k] \in Current(gen')
      BY <2>1, <3>1
    <3> QED BY <3>2, BytesIn DEF OnLine
  <2> QED BY <2>2, <2>3 DEF OnLine
<1>10. Unhurt => InTurn'
  <2> SUFFICES ASSUME Unhurt PROVE InTurn'
    OBVIOUS
  <2>1. \A k \in 1..Len(ready') : ~Hdr(ready'[k])
    <3>1. \A k \in 1..Len(ready') : ready'[k] \in NotHdr
      BY <1>8, NoneLeft DEF OnLine
    <3> QED BY <3>1 DEF NotHdr, Hdr
  <2>2. \A m \in 1..Len(air') : \A k \in 1..Len(air'[m].bytes) :
          ~Hdr(air'[m].bytes[k])
    <3>1. \A m \in 1..Len(air') : \A k \in 1..Len(air'[m].bytes) :
            air'[m].bytes[k] \in NotHdr
      BY <1>8, BytesOf DEF OnLine
    <3> QED BY <3>1 DEF NotHdr, Hdr
  <2>3. Taken' = 0 /\ Sent' \in {0, LoopCount}
    <3>1. mode' = "looping" => left' = LoopCount
      BY <1>1, <1>4, <1>8, HearsLine DEF OnLine
    <3> QED BY <1>1, <3>1 DEF Taken, Sent
  <2> QED BY <2>1, <2>2, <2>3 DEF InTurn, InTurnOf, HeadOnly, Due, Before
<1> QED BY <1>1, <1>5, <1>6, <1>7, <1>8, <1>9, <1>10
        DEF LineInv, Awake, Reading

\* What is left of bytes in turn is in turn
LEMMA RestInTurn ==
  ASSUME NEW r, NEW s, NEW a, NEW w \in Nat, NEW t, NEW u,
         Len(r) \in Nat, Len(s) = Len(r) - w,
         \A k \in 1..Len(s) : s[k] = r[k + w],
         InTurnOf(r, a, t, u)
  PROVE  InTurnOf(s, a, t, u)
<1>1. \A k \in 1..Len(s) : k + w \in 1..Len(r) /\ s[k] = r[k + w]
  OBVIOUS
<1>2. \A k \in 1..Len(s) : Due(s[k], t, u)
  BY <1>1 DEF InTurnOf
<1>3. ASSUME NEW j \in 1..Len(s), NEW k \in 1..Len(s), j < k
      PROVE  Before(s[j], s[k])
  <2>1. j + w < k + w
    BY <1>3
  <2> QED BY <1>1, <2>1 DEF InTurnOf
<1>4. ASSUME NEW j \in 1..Len(s), NEW m \in 1..Len(a),
             NEW k \in 1..Len(a[m].bytes)
      PROVE  Before(s[j], a[m].bytes[k])
  BY <1>1 DEF InTurnOf
<1> QED BY <1>2, <1>3, <1>4 DEF InTurnOf

LEMMA AwaitInv == ASSUME LineInv, Typed, AwaitAck PROVE LineInv'
<1>1. /\ pc = "ack" /\ Receives /\ UNCHANGED <<kind, air, mode, left, gen, misread>>
      /\ Wanted = 1
      /\ \/ pc' = "dead" \/ pc' = "ack"
         \/ pc' = "packets" /\ packets' = LoopCount
  <2>1. pc = "ack" /\ Receives
        /\ UNCHANGED <<kind, air, mode, left, gen, misread>>
    BY DEF AwaitAck, consoleVars, ghosts
  <2>2. CASE Head(ready).b = "neg"
    BY <2>1, <2>2 DEF AwaitAck, Dies, Wanted
  <2>3. CASE Head(ready).b = "ack"
    BY <2>1, <2>3 DEF AwaitAck, Wanted
  <2>4. CASE Head(ready).b \notin {"neg", "ack"}
    <3>1. UNCHANGED pc
      BY <2>4 DEF AwaitAck
    <3> QED BY <2>1, <3>1 DEF Wanted
  <2> QED BY <2>1, <2>2, <2>3, <2>4
<1>2. OnLine(Part)
  BY DEF LineInv
<1>3. OnLine(Part)'
  BY <1>1, <1>2, TakenLine DEF OnLine
<1>4. CASE pc' = "dead"
  BY <1>1, <1>3, <1>4, DeadInv
<1>5. CASE pc' = "ack" \/ (pc' = "packets" /\ packets' = LoopCount)
  <2>1. /\ Pro' = Pro /\ Unhurt' = Unhurt
        /\ CalibrationIsOurs' /\ PacketIsOurs'
    BY <1>1 DEF Pro, Unhurt, LineInv, CalibrationIsOurs, PacketIsOurs
  <2>2. Pro => OnLine(NotLf)'
    <3>1. Pro => OnLine(NotLf)
      BY <1>1 DEF LineInv, Awake, Reading
    <3> QED BY <1>1, <3>1, TakenLine DEF OnLine
  <2>3. Unhurt => OnLine(Current(gen))'
    <3>1. Unhurt => OnLine(Current(gen))
      BY <1>1 DEF LineInv, Reading
    <3>2. OnLine(Current(gen)) => ready' \in Seq(Current(gen))
                                  /\ air' \in Seq(ItemOf(Current(gen)))
      BY <1>1, TakenLine
    <3> QED BY <1>1, <3>1, <3>2 DEF OnLine
  <2>4. Unhurt /\ ~Pro => InTurn'
    <3> SUFFICES ASSUME Unhurt, ~Pro PROVE InTurn'
      OBVIOUS
    <3>1. InTurnOf(ready, air, Taken, Sent)
      BY <1>1 DEF LineInv, Reading, InTurn
    <3>2. Taken' = Taken /\ Sent' = Sent
      BY <1>1, <1>5 DEF Taken, Sent
    <3>3. /\ Len(ready) \in Nat /\ Len(ready') = Len(ready) - 1
          /\ \A k \in 1..Len(ready') : ready'[k] = ready[k + 1]
      BY <1>1, <1>2, ReceivesLine DEF OnLine
    <3> DEFINE t == Taken
               u == Sent
               s == ready'
    <3>4. InTurnOf(ready, air, t, u) /\ Len(s) = Len(ready) - 1
          /\ \A k \in 1..Len(s) : s[k] = ready[k + 1]
      BY <3>1, <3>3
    <3> HIDE DEF t, u, s
    <3>5. InTurnOf(s, air, t, u)
      BY <3>3, <3>4, RestInTurn
    <3> QED BY <1>1, <3>2, <3>5 DEF InTurn, t, u, s
  <2> QED BY <1>3, <1>5, <2>1, <2>2, <2>3, <2>4 DEF LineInv, Awake, Reading
<1> QED BY <1>1, <1>4, <1>5

\* When an old station has taken LoopCount packets, the console has sent them
\* all and no header is left on the line
LEMMA ExpectInv ==
  ASSUME LineInv, Typed, LoopingHasPackets, ExpectPacket PROVE LineInv'
<1>1. /\ pc = "packets" /\ UNCHANGED <<kind, air, ready, mode, left, gen, misread>>
      /\ \/ packets > 0 /\ pc' = "read" /\ packets' = packets - 1
         \/ ~(packets > 0) /\ pc' = "top"
  BY DEF ExpectPacket, consoleVars, lineVars, ghosts
<1>2. /\ Pro' = Pro /\ Unhurt' = Unhurt /\ Quiet' = Quiet
      /\ CalibrationIsOurs' /\ PacketIsOurs'
  BY <1>1 DEF Pro, Unhurt, Quiet, LineInv, CalibrationIsOurs, PacketIsOurs
<1>3. /\ OnLine(Part)' /\ OnLine(NotLf)' = OnLine(NotLf)
      /\ OnLine(NotHdr)' = OnLine(NotHdr)
      /\ OnLine(Current(gen))' = OnLine(Current(gen))
  BY <1>1 DEF LineInv, OnLine
<1>4. CASE packets > 0 /\ pc' = "read" /\ packets' = packets - 1
  <2>1. Taken' = Taken /\ Sent' = Sent
    BY <1>1, <1>4 DEF Taken, Sent, Typed
  <2>2. InTurn' = InTurn
    BY <1>1, <2>1 DEF InTurn, InTurnOf
  <2> QED BY <1>1, <1>2, <1>3, <1>4, <2>2 DEF LineInv, Awake, Reading
<1>5. CASE ~(packets > 0) /\ pc' = "top"
  <2>1. ASSUME ~Pro, Unhurt PROVE Quiet /\ OnLine(NotHdr)
    <3>1. InTurnOf(ready, air, Taken, Sent)
      BY <1>1, <2>1 DEF LineInv, Reading, InTurn
    <3>2. Taken = LoopCount
      BY <1>1, <1>5 DEF Taken, Typed
    <3>3. Quiet /\ Sent = LoopCount
      BY <3>1, <3>2 DEF InTurnOf, Sent, Quiet, LoopingHasPackets, Typed
    <3>4. \A x \in Part : Due(x, LoopCount, LoopCount) => x \in NotHdr
      BY DEF Due, Hdr, NotHdr, Part
    <3>5. ready \in Seq(NotHdr)
      <4>1. \A k \in 1..Len(ready) : ready[k] \in Part
        BY NoneLeft DEF LineInv, OnLine
      <4>2. \A k \in 1..Len(ready) : ready[k] \in NotHdr
        BY <3>1, <3>2, <3>3, <3>4, <4>1 DEF InTurnOf
      <4> QED BY <4>2, Elements DEF LineInv, OnLine
    <3>6. air \in Seq(ItemOf(NotHdr))
      <4>1. \A m \in 1..Len(air) : \A k \in 1..Len(air[m].bytes) :
              air[m].bytes[k] \in Part
        BY BytesOf DEF LineInv, OnLine
      <4>2. \A m \in 1..Len(air) : \A k \in 1..Len(air[m].bytes) :
              air[m].bytes[k] \in NotHdr
        BY <3>1, <3>2, <3>3, <3>4, <4>1 DEF InTurnOf
      <4> QED BY <4>2, BytesIn DEF LineInv, OnLine
    <3> QED BY <3>3, <3>5, <3>6 DEF OnLine
  <2> QED BY <1>1, <1>2, <1>3, <1>5, <2>1 DEF LineInv, Awake, Reading
<1> QED BY <1>1, <1>4, <1>5

\* A packet with a check sum that holds belongs to the LOOP in force if its
\* header does; the ones behind it are later
LEMMA ReadInv == ASSUME LineInv, Typed, ReadPacket PROVE LineInv'
<1>1. /\ pc = "read" /\ Receives /\ Wanted = 3
      /\ UNCHANGED <<kind, air, mode, left, gen>>
  BY DEF ReadPacket, consoleVars, Wanted
<1>2. /\ ready \in Seq(Part) /\ Len(ready) >= 3 /\ Len(ready) \in Nat
      /\ ready' \in Seq(Part) /\ Len(ready') = Len(ready) - 3
      /\ \A k \in 1..Len(ready') : ready'[k] = ready[k + 3]
  BY <1>1, ReceivesLine DEF LineInv, OnLine
<1>3. OnLine(Part)'
  BY <1>1, <1>2 DEF LineInv, OnLine
<1> DEFINE p == SubSeq(ready, 1, Wanted)
<1>4. p[1] = ready[1]
  BY <1>1, <1>2, TakenBytes
<1>5. CASE ~Accepts(p)
  <2>1. pc' = "dead" /\ UNCHANGED misread
    BY <1>5 DEF ReadPacket, Dies
  <2> QED BY <1>1, <1>3, <2>1, DeadInv
<1>6. CASE Accepts(p)
  <2>1. /\ pc' = "packets" /\ UNCHANGED packets
        /\ misread' = IF Whole(p) THEN misread ELSE misread \cup {"packet"}
    BY <1>6 DEF ReadPacket, GoesOn
  <2> HIDE DEF p
  <2>2. /\ Pro' = Pro /\ Unhurt' = Unhurt
        /\ CalibrationIsOurs'
    BY <1>1, <2>1 DEF Pro, Unhurt, LineInv, CalibrationIsOurs
  <2>3. Hdr(ready[1]) /\ 1 \in 1..Len(ready)
    BY <1>2, <1>4, <1>6 DEF Accepts, Hdr
  <2>4. Unhurt => OnLine(Current(gen))
    BY <1>1 DEF LineInv, Reading
  <2>5. Unhurt => Whole(p)
    <3> SUFFICES ASSUME Unhurt PROVE Whole(p)
      OBVIOUS
    <3>1. ready[1] \in Current(gen)
      BY <2>3, <2>4, NoneLeft DEF OnLine
    <3>2. p[1].g = gen
      BY <1>4, <2>3, <3>1 DEF Current, Hdr
    <3>3. \A k \in 1..3 : k = 1 \/ k \in 2..3
      OBVIOUS
    <3> QED BY <1>6, <3>2, <3>3 DEF Accepts, Whole
  <2>6. PacketIsOurs'
    <3>1. ~Unhurt => kind = "Old" /\ "loss" \in misread
      BY DEF Unhurt, Pro, Typed
    <3> QED BY <1>1, <2>1, <2>5, <3>1 DEF LineInv, PacketIsOurs
  <2>7. Pro => OnLine(NotLf)'
    <3>1. Pro => OnLine(NotLf)
      BY <1>1 DEF LineInv, Awake, Reading
    <3> QED BY <1>1, <3>1, TakenLine DEF OnLine
  <2>8. Unhurt => OnLine(Current(gen))'
    <3>1. OnLine(Current(gen)) => ready' \in Seq(Current(gen))
                                  /\ air' \in Seq(ItemOf(Current(gen)))
      BY <1>1, TakenLine
    <3> QED BY <1>1, <2>4, <3>1 DEF OnLine
  <2>9. Unhurt /\ ~Pro => InTurn'
    <3> SUFFICES ASSUME Unhurt, ~Pro PROVE InTurn'
      OBVIOUS
    <3>1. InTurnOf(ready, air, Taken, Sent)
      BY <1>1 DEF LineInv, Reading, InTurn
    <3>2. Taken' = Taken + 1 /\ Sent' = Sent /\ Taken \in Int /\ Sent \in Int
      BY <1>1, <2>1 DEF Taken, Sent, Typed
    <3>3. /\ Taken <= ready[1].i /\ ready[1].i < Sent /\ ready[1].i \in Int
      <4>1. ready[1] \in Part
        BY <1>2, <2>3, NoneLeft
      <4> QED BY <2>3, <3>1, <4>1 DEF InTurnOf, Due, Part
    <3> DEFINE t == Taken
               u == Sent
               s == ready'
    <3>4. InTurnOf(ready, air, t, u) /\ Len(s) = Len(ready) - 3
          /\ \A k \in 1..Len(s) : s[k] = ready[k + 3]
      BY <1>2, <3>1
    <3>5. t \in Int /\ u \in Int /\ t + 1 <= u /\ t <= ready[1].i
          /\ ready[1].i \in Int
      BY <3>2, <3>3
    <3> HIDE DEF t, u, s
    <3>6. InTurnOf(s, air, t, u)
      BY <1>2, <3>4, RestInTurn
    <3>7. \A x \in Part :
            Before(ready[1], x) /\ Due(x, t, u) => Due(x, t + 1, u)
      BY <2>3, <3>5 DEF Before, Due, Part
    <3>8. \A k \in 1..Len(s) : Due(s[k], t + 1, u)
      <4> SUFFICES ASSUME NEW k \in 1..Len(s) PROVE Due(s[k], t + 1, u)
        OBVIOUS
      <4>1. k + 3 \in 1..Len(ready) /\ 1 < k + 3 /\ s[k] = ready[k + 3]
        BY <1>2, <3>4
      <4>2. Before(ready[1], ready[k + 3]) /\ Due(s[k], t, u)
        BY <2>3, <3>4, <3>6, <4>1 DEF InTurnOf
      <4>3. s[k] \in Part
        BY <1>2, <4>1, NoneLeft
      <4> QED BY <3>7, <4>1, <4>2, <4>3
    <3>9. ASSUME NEW m \in 1..Len(air), NEW k \in 1..Len(air[m].bytes)
          PROVE  Due(air[m].bytes[k], t + 1, u)
      <4>1. Before(ready[1], air[m].bytes[k]) /\ Due(air[m].bytes[k], t, u)
        BY <2>3, <3>4 DEF InTurnOf
      <4>2. air \in Seq(ItemOf(Part))
        BY DEF LineInv, OnLine
      <4>3. air[m].bytes[k] \in Part
        BY <4>2, BytesOf
      <4> QED BY <3>7, <4>1, <4>3
    <3>10. InTurnOf(s, air, t + 1, u)
      BY <3>5, <3>6, <3>8, <3>9 DEF InTurnOf
    <3> QED BY <1>1, <3>2, <3>10 DEF InTurn, t, u, s
  <2> QED BY <1>3, <2>1, <2>2, <2>6, <2>7, <2>8, <2>9
          DEF LineInv, Awake, Reading
<1> QED BY <1>5, <1>6

LEMMA EndsInv == ASSUME LineInv, Typed, ReadTimesOut \/ Alarm PROVE LineInv'
<1>1. pc' = "dead" /\ UNCHANGED <<kind, misread>>
  BY DEF ReadTimesOut, Alarm, Dies, ghosts
<1>2. OnLine(Part)
  BY DEF LineInv
<1>3. OnLine(Part)'
  <2>1. CASE ReadTimesOut
    BY <1>2, <2>1, TimesOutLine DEF ReadTimesOut, OnLine
  <2>2. CASE Alarm
    <3>1. AlarmTimeout - since \in Nat
      BY DEF Typed, AlarmTimeout
    <3>2. air' = Aged(AlarmTimeout - since) /\ ready' = ready
      BY <2>2 DEF Alarm
    <3> QED BY <1>2, <3>1, <3>2, AgedLine DEF OnLine
  <2> QED BY <2>1, <2>2
<1> QED BY <1>1, <1>3, DeadInv

-----------------------------------------------------------------------------
LEMMA LineStep ==
  ASSUME IInv, LineInv, DrainedDelays, [Next]_vars PROVE LineInv'
<1>1. Typed /\ LoopingHasPackets
  BY TypedOK, Zenon DEF IInv
<1>2. CASE Console
  BY <1>1, <1>2, ConsoleInv
<1>3. CASE Connect \/ NewChannel \/ DrainReads \/ ChannelReady
  BY <1>1, <1>3, ConnectInv, OpenInv, DrainInv, ReadyInv
<1>4. CASE SendNewline \/ WakeAnswered \/ WakeUnanswered \/ TryAgain
  BY <1>1, <1>4, NewlineInv, AnsweredInv, UnansweredInv, AgainInv
<1>5. CASE Ask \/ Reply \/ StartLoop \/ SendLoop
  BY <1>1, <1>5, AskInv, ReplyInv, StartInv, SendLoopInv
<1>6. CASE AwaitAck \/ ExpectPacket \/ ReadPacket
  BY <1>1, <1>6, AwaitInv, ExpectInv, ReadInv
<1>7. CASE ReadTimesOut \/ Alarm
  BY <1>1, <1>7, EndsInv
<1>8. CASE UNCHANGED vars
  <2>1. Same /\ UNCHANGED <<air, ready, mode, left>>
    BY <1>8 DEF vars, childVars, consoleVars, lineVars, ghosts, Same
  <2>2. CASE Quiet
    <3>1. Quiet'
      BY <2>1, <2>2 DEF Quiet
    <3> QED BY <1>1, <2>1, <3>1, ModeInv
  <2>3. CASE ~Quiet
    <3>1. /\ Pro' = Pro /\ Unhurt' = Unhurt /\ Exact' = Exact
          /\ pc' = pc /\ gen' = gen /\ Taken' = Taken /\ Sent' = Sent
          /\ Refused' = Refused /\ Quiet' = Quiet
          /\ CalibrationIsOurs' = CalibrationIsOurs
          /\ PacketIsOurs' = PacketIsOurs
      BY <2>1, SameKeeps DEF Same, Sent, Quiet
    <3>2. /\ OnLine(Part)' = OnLine(Part)
          /\ OnLine(NotLf)' = OnLine(NotLf)
          /\ OnLine(NotHdr)' = OnLine(NotHdr)
          /\ OnLine(Current(gen))' = OnLine(Current(gen))
      BY <2>1, <3>1 DEF OnLine
    <3>3. AtDrain' = AtDrain
      BY <2>1, <3>1 DEF AtDrain
    <3>4. InTurn' = InTurn
      BY <2>1, <3>1 DEF InTurn, InTurnOf
    <3>5. ~AtAnswer /\ ~AtAsk /\ ~AtReply
      BY <2>3 DEF AtAnswer, AtAsk, AtReply
    <3> QED BY <3>1, <3>2, <3>3, <3>4, <3>5 DEF LineInv
  <2> QED BY <2>2, <2>3
<1> QED BY <1>2, <1>3, <1>4, <1>5, <1>6, <1>7, <1>8, Zenon DEF Next, Child

LEMMA LineInit == ASSUME Init PROVE LineInv
<1>1. OnLine(Part)
  BY EmptySeq DEF Init, OnLine
<1>2. CalibrationIsOurs /\ PacketIsOurs
  BY DEF Init, CalibrationIsOurs, PacketIsOurs
<1> QED BY <1>1, <1>2 DEF Init, LineInv, Awake, Reading

LEMMA LineInductive == DrainedDelays => (Spec => [](IInv /\ LineInv))
<1> SUFFICES ASSUME DrainedDelays PROVE Spec => [](IInv /\ LineInv)
  OBVIOUS
<1>1. Init => IInv /\ LineInv
  BY InitIInv, LineInit
<1>2. IInv /\ LineInv /\ [Next]_vars => (IInv /\ LineInv)'
  BY Step, LineStep
<1> QED BY <1>1, <1>2, PTL DEF Spec

\* A calibration read takes the reply to its own command, unless noise or a
\* damaged byte was in it (Vantage Pro) or a byte was lost since the child was
\* forked (old stations): for any number of attempts, reads, packets and
\* faults, as long as no answer is later than sleep(3) in meteopoll.cc and
\* drain(5) in Station::newChannel take together
THEOREM CalibrationCorrect ==
  ASSUME DrainedDelays PROVE Spec => []CalibrationIsOurs
<1>1. LineInv => CalibrationIsOurs
  BY DEF LineInv
<1> QED BY <1>1, LineInductive, PTL

\* Under the same assumption a packet that is handed on belongs to the LOOP
\* command in force; for an old station as long as no byte was lost since the
\* child was forked
THEOREM PacketCorrect ==
  ASSUME DrainedDelays PROVE Spec => []PacketIsOurs
<1>1. LineInv => PacketIsOurs
  BY DEF LineInv
<1> QED BY <1>1, LineInductive, PTL

=============================================================================
