---------------------------- MODULE StationLink ----------------------------
(***************************************************************************)
(* A meteopoll child and the console it talks to: the channel (a terminal  *)
(* line or a terminal server), the wakeup sequence and the calibration     *)
(* reads of the station classes, the LOOP command and its packets, and the *)
(* alarm of src/src/meteopoll.cc.                                          *)
(*                                                                         *)
(* The bytes of an answer are abstracted to its parts: "\n\r" are two      *)
(* bytes, a reply to EEBRD or WRD is an ACK and a byte or two that carry   *)
(* the number of the command they answer, a packet is a header, a body and *)
(* a check sum that carry the LOOP command and the packet they belong to.  *)
(* A body may hold the value of ACK or a value above 127.                  *)
(*                                                                         *)
(* Time passes, in seconds, while the child waits in select() and while    *)
(* its parent sleeps before the next one.  Packets of a LOOP follow each   *)
(* other within every timeout.                                             *)
(***************************************************************************)
EXTENDS Naturals, SequencesExt

CONSTANTS Kinds,       \* station classes: "VantagePro", "Old"
          Iterations,  \* the argument of wakeup(): 3
          LoopCount,   \* packets asked for by one LOOP command: 10
          Reads,       \* calibration reads of the constructor
          Late,        \* the seconds a late answer takes
          Faults       \* number of faults of the line and the console

ASSUME LinkAssumption ==
  /\ Kinds \subseteq {"VantagePro", "Old"}
  /\ Iterations \in Nat \ {0} /\ LoopCount \in Nat \ {0}
  /\ Reads \in Nat \ {0} /\ Faults \in Nat
  /\ Late \subseteq Nat \ {0}

VARIABLES kind,
          pc,       \* where the child is
          after,    \* what wakeup() was called for: "ask" or "loop"
          loops,    \* wakeup(): the attempts left
          asked,    \* calibration reads done
          packets,  \* Station::packets
          armed,    \* alarm(ALARMTIMEOUT) was called
          since,    \* how many seconds ago
          mode,     \* the console
          left,     \* packets the console still sends
          gen,      \* LOOP commands the console obeyed, modulo 3
          air,      \* answers under way: [bytes, seconds to go]
          ready,    \* bytes select() and read() see
          faults,
          woke,     \* which attempt of the last wakeup was answered
          verdict,  \* what the last wakeup() returned
          misread   \* what this child took for something it is not, and
                    \* whether the line lost or damaged a byte meanwhile

childVars == <<pc, after, loops, asked, packets, armed, since>>
consoleVars == <<mode, left, gen>>
lineVars == <<air, ready>>
ghosts == <<woke, verdict, misread>>
vars == <<kind, childVars, consoleVars, lineVars, faults, ghosts>>

Byte(b, g, i) == [b |-> b, g |-> g, i |-> i]
WakeAnswer == <<Byte("lf", 0, 0), Byte("cr", 0, 0)>>
Ack == Byte("ack", 0, 0)
Noise == Byte("dat", 0, 0)

Init ==
  /\ kind \in Kinds
  /\ pc = "dead" /\ after = "ask" /\ loops = 0 /\ asked = 0 /\ packets = 0
  /\ armed = FALSE /\ since = 0
  /\ mode = (IF kind = "Old" THEN "awake" ELSE "asleep")
  /\ left = 0 /\ gen = 0
  /\ air = <<>> /\ ready = <<>>
  /\ faults = 0
  /\ woke = 0 /\ verdict = "none" /\ misread = {}

-----------------------------------------------------------------------------
(* The console: not part of the program, modelled from what the station    *)
(* classes expect of it                                                    *)

\* an answer takes its place on the line; one that is late is a fault
Answers(bytes) ==
  \E d \in {0} \cup Late :
    /\ d > 0 => faults < Faults
    /\ faults' = IF d > 0 THEN faults + 1 ELSE faults
    /\ air' = Append(air, [bytes |-> bytes, wait |-> d])

Silent == UNCHANGED <<air, faults>>

\* "\n": wakes the console, that may be too slow to see the character, and
\* ends a LOOP
HearsNewline ==
  CASE mode \in {"awake", "looping"} ->
         mode' = "awake" /\ left' = 0 /\ Answers(WakeAnswer)
    [] mode = "asleep" ->
         mode' = "awake" /\ left' = 0 /\ (Answers(WakeAnswer) \/ Silent)
    [] OTHER -> UNCHANGED <<mode, left>> /\ Silent

\* a console that sleeps does not see a command
Hears(bytes, then, count) ==
  CASE mode \in {"awake", "looping"} ->
         mode' = then /\ left' = count /\ Answers(bytes)
    [] mode = "asleep" -> mode' = "awake" /\ UNCHANGED left /\ Silent
    [] OTHER -> UNCHANGED <<mode, left>> /\ Silent

\* one packet of the LOOP; a Vantage Pro sleeps when it has sent the last
SendPacket ==
  /\ mode = "looping"
  /\ \E body \in {"dat", "ack", "neg"} :
       LET i == LoopCount - left IN
       Answers(<<Byte("hdr", gen, i), Byte(body, gen, i),
                 Byte("crc", gen, i)>>)
  /\ left' = left - 1
  /\ mode' = IF left > 1 THEN mode
             ELSE IF kind = "Old" THEN "awake" ELSE "asleep"
  /\ UNCHANGED <<kind, childVars, gen, ready, ghosts>>

\* two minutes without a character
ConsoleSleeps ==
  /\ kind = "VantagePro" /\ mode = "awake" /\ pc = "dead"
  /\ mode' = "asleep"
  /\ UNCHANGED <<kind, childVars, left, gen, lineVars, faults, ghosts>>

\* the console loses power, or something on the line sends without end
ConsoleFails ==
  /\ faults < Faults
  /\ mode \notin {"off", "babbling"}
  /\ mode' \in {"off", "babbling"}
  /\ left' = 0
  /\ faults' = faults + 1
  /\ UNCHANGED <<kind, childVars, gen, lineVars, ghosts>>

ConsoleReturns ==
  /\ mode \in {"off", "babbling"}
  /\ mode' = IF kind = "Old" THEN "awake" ELSE "asleep"
  /\ UNCHANGED <<kind, childVars, left, gen, lineVars, faults, ghosts>>

\* a byte of what is under way is lost, or damaged
LineFault ==
  /\ faults < Faults
  /\ air # <<>>
  /\ LET bytes == Head(air).bytes IN
     \E k \in DOMAIN bytes :
       \/ air' = [air EXCEPT ![1].bytes = RemoveAt(bytes, k)]
       \/ air' = [air EXCEPT ![1].bytes[k].b = "bad"]
  /\ faults' = faults + 1
  /\ misread' = misread \cup {"loss"}
  /\ UNCHANGED <<kind, childVars, consoleVars, ready, woke, verdict>>

-----------------------------------------------------------------------------
(* The channel                                                             *)

\* what the console answers to calibration read n
ReplyTo(n) ==
  IF kind = "VantagePro"
    THEN <<Ack, Byte("dat", n, 0), Byte("crc", n, 0)>>
    ELSE <<Ack, Byte("dat", n, 0)>>

ReadTimeout == 6
AlarmTimeout == 30
Restart == 3      \* sleep(3) of the parent

\* what the child waits for in select(), and how long
Wanted == CASE pc \in {"drain5", "drain10", "ack"} -> 1
            [] pc = "answer" -> 2
            [] pc = "reply" -> Len(ReplyTo(1))
            [] pc = "read" -> 3
            [] OTHER -> 0

Waits == Len(ready) < Wanted

Patience == CASE pc = "drain5" -> 5 [] pc = "drain10" -> 10
              [] OTHER -> ReadTimeout

\* the packet that comes next, or the noise, does not let it wait that long
Talking == mode \in {"looping", "babbling"}

Comes == air # <<>> /\ Head(air).wait <= Patience

Aged(n) == [k \in DOMAIN air |->
              [air[k] EXCEPT !.wait = IF @ > n THEN @ - n ELSE 0]]

\* n seconds pass, if the alarm does not come first
InTime(n) == armed => since + n < AlarmTimeout
Elapses(n) == InTime(n) /\ since' = IF armed THEN since + n ELSE 0

\* something comes while the child waits, or before it does
Arrive ==
  /\ air # <<>>
  /\ LET n == Head(air).wait IN
     /\ IF Waits THEN Comes ELSE n = 0
     /\ Elapses(n)
     /\ air' = Tail(Aged(n))
  /\ ready' = ready \o Head(air).bytes
  /\ UNCHANGED <<kind, pc, after, loops, asked, packets, armed, consoleVars,
                 faults, ghosts>>

Babble ==
  /\ mode = "babbling" /\ Waits
  /\ Elapses(Patience - 1)
  /\ air' = Aged(Patience - 1)
  /\ ready' = Append(ready, Noise)
  /\ UNCHANGED <<kind, pc, after, loops, asked, packets, armed, consoleVars,
                 faults, ghosts>>

\* recvString(n)
Receives == Wanted > 0 /\ ~Waits
            /\ ready' = SubSeq(ready, Wanted + 1, Len(ready))

\* select() times out; the bytes that recvString() had are gone
TimesOut ==
  /\ Waits /\ ~Talking /\ ~Comes /\ InTime(Patience)
  /\ ready' = <<>>
  /\ air' = Aged(Patience)

Dies == pc' = "dead" /\ armed' = FALSE /\ since' = 0 /\ packets' = 0
GoesOn == UNCHANGED <<armed, since, packets>>

-----------------------------------------------------------------------------
(* The child                                                               *)

\* the parent forks a child, which builds the station
Connect ==
  /\ pc = "dead"
  /\ pc' = "open"
  /\ air' = Aged(Restart)
  /\ asked' = 0 /\ misread' = {}
  /\ GoesOn
  /\ UNCHANGED <<kind, after, loops, consoleVars, ready, faults, woke,
                 verdict>>

CannotOpen(seconds) ==
  /\ faults < Faults
  /\ faults' = faults + 1
  /\ pc' = "dead" /\ air' = Aged(seconds)

\* the settings of a terminal line are checked one after the other
OpenSerial ==
  /\ pc = "open"
  /\ \/ pc' = "drain5" /\ UNCHANGED <<air, faults>>
     \/ CannotOpen(0)
  /\ GoesOn
  /\ UNCHANGED <<kind, after, loops, asked, consoleVars, ready, ghosts>>

\* a terminal server that refuses is left alone for five seconds
OpenTcp ==
  /\ pc = "open"
  /\ \/ pc' = "drain5" /\ UNCHANGED <<air, faults>>
     \/ CannotOpen(5)
  /\ GoesOn
  /\ UNCHANGED <<kind, after, loops, asked, consoleVars, ready, ghosts>>

\* by the scheme of the station's url
NewChannel == OpenSerial \/ OpenTcp

DrainReads ==
  /\ pc \in {"drain5", "drain10"}
  /\ ready # <<>>
  /\ ready' = <<>>
  /\ UNCHANGED <<kind, childVars, consoleVars, air, faults, ghosts>>

\* wakeup(Iterations), called by the constructor and by startLoop()
EntersWakeup(for) ==
  pc' = "wake" /\ after' = for /\ loops' = Iterations
  /\ woke' = 0 /\ verdict' = "none"

\* the end of drain(5)
ChannelReady ==
  /\ pc = "drain5" /\ TimesOut
  /\ IF kind = "VantagePro"
       THEN EntersWakeup("ask")
       ELSE pc' = "ask" /\ UNCHANGED <<after, loops, woke, verdict>>
  /\ GoesOn
  /\ UNCHANGED <<kind, asked, consoleVars, faults, misread>>

SendNewline ==
  /\ pc = "wake"
  /\ pc' = "answer"
  /\ HearsNewline
  /\ GoesOn
  /\ UNCHANGED <<kind, after, loops, asked, gen, ready, ghosts>>

\* mutant of WakeupReturns: an answer to the last attempt counts
WakeupReturnsUp == pc' = after /\ verdict' = "up" /\ GoesOn

\* the test after the loop of wakeup()
WakeupReturns ==
  IF loops = 0
    THEN Dies /\ verdict' = "failed"
    ELSE pc' = after /\ verdict' = "up" /\ GoesOn

Attempt == Iterations - loops + 1

WakeAnswered ==
  /\ pc = "answer" /\ Receives
  /\ IF SubSeq(ready, 1, Wanted) = WakeAnswer
       THEN WakeupReturns /\ woke' = Attempt
       ELSE pc' = "drain10" /\ GoesOn /\ UNCHANGED <<verdict, woke>>
  /\ UNCHANGED <<kind, after, loops, asked, consoleVars, air, faults, misread>>

\* mutant of WakeUnanswered: no drain(10) when nothing was read
WakeUndrained ==
  /\ pc = "answer" /\ TimesOut
  /\ Elapses(Patience)
  /\ IF loops > 0 THEN pc' = "wake" /\ loops' = loops - 1
                  ELSE pc' = "drain10" /\ UNCHANGED loops
  /\ UNCHANGED <<kind, after, asked, packets, armed, consoleVars,
                 faults, ghosts>>

WakeUnanswered ==
  /\ pc = "answer" /\ TimesOut
  /\ Elapses(Patience)
  /\ pc' = "drain10"
  /\ UNCHANGED <<kind, after, loops, asked, packets, armed, consoleVars,
                 faults, ghosts>>

\* drain(10) is over: once more, while loops-- > 0
TryAgain ==
  /\ pc = "drain10" /\ TimesOut
  /\ IF loops > 0
       THEN /\ pc' = "wake" /\ loops' = loops - 1
            /\ Elapses(Patience)
            /\ UNCHANGED <<packets, armed, verdict>>
       ELSE Dies /\ verdict' = "failed" /\ UNCHANGED loops
  /\ UNCHANGED <<kind, after, asked, consoleVars, faults, woke, misread>>

\* EEBRD or WRD
Ask ==
  /\ pc = "ask"
  /\ pc' = "reply"
  /\ Hears(ReplyTo(asked + 1), "awake", 0)
  /\ GoesOn
  /\ UNCHANGED <<kind, after, loops, asked, gen, ready, ghosts>>

\* ghost: what is wrong with bytes taken for the reply to read n
Misreads(bytes, n) ==
  IF \E k \in DOMAIN bytes : bytes[k] = Noise \/ bytes[k].b = "bad"
    THEN {"noise"}
    ELSE IF bytes = ReplyTo(n) THEN {} ELSE {"calibration"}

\* eeprom() looks at nothing, readBytes() at the ACK
Reply ==
  /\ pc = "reply" /\ Receives
  /\ IF kind = "Old" /\ Head(ready).b # "ack"
       THEN Dies /\ UNCHANGED <<asked, misread>>
       ELSE /\ asked' = asked + 1
            /\ pc' = IF asked + 1 < Reads THEN "ask" ELSE "top"
            /\ misread' = misread \cup Misreads(SubSeq(ready, 1, Wanted),
                                                 asked + 1)
            /\ GoesOn
  /\ UNCHANGED <<kind, after, loops, consoleVars, air, faults, woke, verdict>>

\* the top of the loop in meteopoll: startLoop(LoopCount)
StartLoop ==
  /\ pc = "top"
  /\ IF kind = "VantagePro"
       THEN EntersWakeup("loop")
       ELSE pc' = "loop" /\ UNCHANGED <<after, loops, woke, verdict>>
  /\ GoesOn
  /\ UNCHANGED <<kind, asked, consoleVars, lineVars, faults, misread>>

SendLoop ==
  /\ pc = "loop"
  /\ pc' = "ack"
  /\ Hears(<<Ack>>, "looping", LoopCount)
  /\ gen' = IF mode \in {"awake", "looping"} THEN (gen + 1) % 3 ELSE gen
  /\ GoesOn
  /\ UNCHANGED <<kind, after, loops, asked, ready, ghosts>>

\* DavisStation::startLoop: skips what is not an ACK, but not what is
\* negative as a char.  The other acknowledgement it knows, "OK" between empty
\* lines, is left out: the console of the model answers LOOP with an ACK.
AwaitAck ==
  /\ pc = "ack" /\ Receives
  /\ CASE Head(ready).b = "neg" -> Dies
       [] Head(ready).b = "ack" ->
            /\ pc' = "packets" /\ packets' = LoopCount
            /\ UNCHANGED <<armed, since>>
       [] OTHER -> UNCHANGED pc /\ GoesOn
  /\ UNCHANGED <<kind, after, loops, asked, consoleVars, air, faults, ghosts>>

\* expectMorePackets(), alarm(), getPacket()
ExpectPacket ==
  /\ pc = "packets"
  /\ IF packets > 0
       THEN /\ pc' = "read"
            /\ armed' = TRUE /\ since' = 0 /\ packets' = packets - 1
       ELSE pc' = "top" /\ GoesOn
  /\ UNCHANGED <<kind, after, loops, asked, consoleVars, lineVars, faults,
                 ghosts>>

\* ghost: the bytes of one packet of the LOOP in force
Whole(p) ==
  /\ p[1].b = "hdr" /\ p[2].b \in {"dat", "ack", "neg"} /\ p[3].b = "crc"
  /\ \A k \in 1..3 : p[k].g = gen /\ p[k].i = p[1].i

\* mutant of Accepts: the check sum is not looked at
AcceptsHeader(p) == p[1].b = "hdr"

\* header and check sum; the check sum holds for the bytes of one packet
Accepts(p) ==
  /\ p[1].b = "hdr" /\ p[2].b \in {"dat", "ack", "neg"} /\ p[3].b = "crc"
  /\ \A k \in 2..3 : p[k].g = p[1].g /\ p[k].i = p[1].i

ReadPacket ==
  /\ pc = "read" /\ Receives
  /\ LET p == SubSeq(ready, 1, Wanted) IN
     IF Accepts(p)
       THEN /\ pc' = "packets"
            /\ misread' = IF Whole(p) THEN misread
                                      ELSE misread \cup {"packet"}
            /\ GoesOn
       ELSE Dies /\ UNCHANGED misread
  /\ UNCHANGED <<kind, after, loops, asked, consoleVars, air, faults, woke,
                 verdict>>

\* mutant of ReadTimesOut: the wait for the ACK has no timeout
ReadTimesOutUnlessAck ==
  /\ pc \in {"reply", "read"} /\ TimesOut
  /\ Dies
  /\ UNCHANGED <<kind, after, loops, asked, consoleVars, faults, ghosts>>

\* a read timeout outside wakeup() ends the child
ReadTimesOut ==
  /\ pc \in {"reply", "ack", "read"} /\ TimesOut
  /\ Dies
  /\ UNCHANGED <<kind, after, loops, asked, consoleVars, faults, ghosts>>

\* mutant of Alarm: the alarm is off outside getPacket()
AlarmInRead ==
  /\ armed /\ pc = "read" /\ Waits /\ mode # "looping" /\ ~InTime(Patience)
  /\ air' = Aged(AlarmTimeout - since)
  /\ Dies
  /\ UNCHANGED <<kind, after, loops, asked, consoleVars, ready, faults,
                 ghosts>>

\* SIGALRM, AlarmTimeout seconds after the last getPacket(): what the child
\* waits for comes later than that
Alarm ==
  /\ armed /\ Waits /\ mode # "looping"
  /\ LET n == CASE mode = "babbling" -> Patience - 1
                [] mode # "babbling" /\ Comes -> Head(air).wait
                [] OTHER -> Patience IN
     ~InTime(n)
  /\ air' = Aged(AlarmTimeout - since)
  /\ Dies
  /\ UNCHANGED <<kind, after, loops, asked, consoleVars, ready, faults,
                 ghosts>>

-----------------------------------------------------------------------------
Child == \/ Connect \/ NewChannel \/ DrainReads \/ ChannelReady
         \/ SendNewline \/ WakeAnswered \/ WakeUnanswered \/ TryAgain
         \/ Ask \/ Reply \/ StartLoop \/ SendLoop \/ AwaitAck
         \/ ExpectPacket \/ ReadPacket \/ ReadTimesOut

Console == SendPacket \/ ConsoleSleeps \/ ConsoleFails \/ ConsoleReturns
           \/ Babble \/ Arrive \/ LineFault

Next == Child \/ Alarm \/ Console

Spec == Init /\ [][Next]_vars

\* the processes run, the line delivers, the clock of the alarm goes on
FairSpec == Spec /\ WF_vars(Child) /\ WF_vars(Alarm) /\ WF_vars(SendPacket)
                 /\ WF_vars(Arrive) /\ WF_vars(Babble)

-----------------------------------------------------------------------------
Part == [b : {"lf", "cr", "ack", "hdr", "dat", "neg", "crc", "bad"},
         g : Nat, i : Nat]

TypeOK ==
  /\ kind \in Kinds
  /\ pc \in {"dead", "open", "drain5", "drain10", "wake", "answer", "ask",
             "reply", "top", "loop", "ack", "packets", "read"}
  /\ after \in {"ask", "loop"} /\ loops \in 0..Iterations
  /\ asked \in 0..Reads /\ packets \in 0..LoopCount
  /\ armed \in BOOLEAN /\ since \in 0..AlarmTimeout
  /\ mode \in {"asleep", "awake", "looping", "off", "babbling"}
  /\ left \in 0..LoopCount /\ gen \in 0..2
  /\ air \in Seq([bytes : Seq(Part), wait : Nat]) /\ ready \in Seq(Part)
  /\ faults \in 0..Faults
  /\ woke \in 0..(Iterations + 1) /\ verdict \in {"none", "up", "failed"}
  /\ misread \subseteq {"calibration", "packet", "noise", "loss"}

\* What the station classes do agrees with the wakeup procedure of the Vantage
\* Pro (doc/vtechref.txt:95-102): up to three attempts, then an error.  There
\* is a fourth attempt, but loops is tested after it, so that it never counts
WakeupByTheBook ==
  /\ verdict = "up" => woke \in 1..Iterations
  /\ verdict = "failed" => woke \notin 1..Iterations

\* A calibration read takes the reply to its own command: neither the packets
\* of a LOOP that a dead child left behind nor the late answer to a command
\* of it or to an earlier wakeup.  The check sum of the reply is not looked
\* at: bytes that no console sent can pass for a calibration of a Vantage Pro,
\* and an old station, which is not woken up first, can take what is left of
\* a packet for one, if a byte was lost since the child was forked
CalibrationIsOurs ==
  "calibration" \in misread =>
    IF kind = "VantagePro" THEN "noise" \in misread ELSE "loss" \in misread

\* A packet that is handed on belongs to the LOOP command in force, whatever
\* was lost, damaged or late before; for an old station, as long as no byte
\* was lost since the child was forked
PacketIsOurs ==
  "packet" \in misread => kind = "Old" /\ "loss" \in misread

\* A child that the alarm watches does not stay in drain() for ever, even if
\* the line never becomes quiet
WatchedDrainEnds == (armed /\ pc = "drain10") ~> (pc # "drain10")

\* When the faults are over, packets are read again and again: the children
\* that die of what is left on the line are followed by one that does not
PacketsAgain ==
  <>[](mode \notin {"off", "babbling"}) => []<>(pc = "packets")
=============================================================================
