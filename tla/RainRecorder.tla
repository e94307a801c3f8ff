---------------------------- MODULE RainRecorder ----------------------------
(***************************************************************************)
(* lib/RainRecorder.cc inside the polling loop of src/meteopoll.cc.  The   *)
(* station counts the tips of its rain collector in a counter of two bytes *)
(* that it may clear at midnight; the recorder turns the counter into the  *)
(* rain of the current minute, value - startvalue, and sends it to the     *)
(* outlet when the minute ends.  Rain is measured in ticks here: the       *)
(* calibration and the unit conversion are linear.                         *)
(*                                                                         *)
(* Definitions that Recorders has as well begin with Rain here.            *)
(*                                                                         *)
(* The ghost variables seen, reported, dropped and lossy keep the account  *)
(* of what fell against what was sent.                                     *)
(***************************************************************************)
EXTENDS Integers

CONSTANTS CounterSize,     \* 65536 in the packet; the top value is "invalid"
          DailyReset,      \* whether the station clears its counter
          TicksPerPacket,  \* ticks that may fall between two packets
          MaxFallen,       \* bound on the ticks of a behaviour
          Garbage          \* what an uninitialised startvalue may hold

ASSUME RainAssumption ==
  /\ CounterSize \in Nat \ {0}
  /\ DailyReset \in BOOLEAN
  /\ TicksPerPacket \in Nat
  /\ MaxFallen \in Nat
  /\ Garbage \subseteq Int /\ Garbage # {}

VARIABLES counter,     \* the station's rain counter
          lag,         \* ticks since the last packet
          since,       \* ticks since the last sample the recorder took
          restarted,   \* the counter went back to 0 since that sample
          turn,        \* the loop: "packet" waits, "minute" looks at the clock
          valid, rainvalue, startvalue,   \* the members: rainvalue is value
          fallen,      \* all ticks so far
          seen,        \* ticks between two samples of one recorder
          lossy,       \* those of them in intervals with a counter restart
          reported,    \* sum of the rain sent to the outlet
          dropped      \* rain recorded but not sent when the child ended

stationVars == <<counter, lag, since, restarted, fallen>>
recorderVars == <<valid, rainvalue, startvalue>>
rainAccount == <<seen, lossy, reported, dropped>>
rainVars == <<stationVars, recorderVars, rainAccount, turn>>

UnreadableCounter == CounterSize - 1

RainInit ==
  /\ counter \in 0..CounterSize - 1
  /\ lag = 0 /\ since = 0 /\ restarted = FALSE /\ fallen = 0
  /\ turn = "packet"
  /\ valid = FALSE /\ rainvalue = 0 /\ startvalue \in Garbage
  /\ seen = 0 /\ lossy = 0 /\ reported = 0 /\ dropped = 0

-----------------------------------------------------------------------------
(* The station                                                             *)

Tick ==
  /\ fallen < MaxFallen
  /\ lag < TicksPerPacket
  /\ counter' = (counter + 1) % CounterSize
  /\ lag' = lag + 1
  /\ since' = since + 1
  /\ restarted' = (restarted \/ counter + 1 = CounterSize)
  /\ fallen' = fallen + 1
  /\ UNCHANGED <<recorderVars, rainAccount, turn>>

Midnight ==
  /\ DailyReset
  /\ counter' = 0
  /\ restarted' = TRUE
  /\ UNCHANGED <<lag, since, fallen, recorderVars, rainAccount, turn>>

-----------------------------------------------------------------------------
(* The loop of meteopoll, as far as it concerns the rain recorder          *)

\* mutant of Corrected: the rain recorded before the wrap is forgotten
CorrectedWhole(rain) ==
  IF ~valid THEN rain ELSE IF rain < rainvalue THEN -rainvalue ELSE startvalue

\* mutant of Corrected: no wrap around handling
CorrectedNever(rain) == IF ~valid THEN rain ELSE startvalue

\* the startvalue RainRecorder::update leaves for a new counter value
Corrected(rain) ==
  LET start == IF valid THEN startvalue ELSE rain
  IN  IF rain < rainvalue THEN -(rainvalue - start) ELSE start

\* Station::update with a readable counter
RainUpdate ==
  /\ turn = "packet"
  /\ counter # UnreadableCounter
  /\ startvalue' = Corrected(counter)
  /\ rainvalue' = counter
  /\ valid' = TRUE
  /\ seen' = IF valid THEN seen + since ELSE seen
  /\ lossy' = IF valid /\ restarted THEN lossy + since ELSE lossy
  /\ lag' = 0 /\ since' = 0 /\ restarted' = FALSE
  /\ turn' = "minute"
  /\ UNCHANGED <<counter, fallen, reported, dropped>>

\* the reader finds the invalid pattern and throws; SensorStation::update
\* goes on with the next field
UpdateFails ==
  /\ turn = "packet"
  /\ counter = UnreadableCounter
  /\ lag' = 0
  /\ turn' = "minute"
  /\ UNCHANGED <<counter, since, restarted, fallen, recorderVars, rainAccount>>

RainSameMinute ==
  /\ turn = "minute"
  /\ turn' = "packet"
  /\ UNCHANGED <<stationVars, recorderVars, rainAccount>>

\* RainRecorder::reset
RainReset == startvalue' = IF valid THEN rainvalue ELSE 0

\* sendOutlets and reset; a minute without rain is not sent.  The total of the
\* console, sent as the next field in any case, is not counted here.
RainNewMinute ==
  /\ turn = "minute"
  /\ reported' = IF valid /\ rainvalue - startvalue > 0
                   THEN reported + (rainvalue - startvalue) ELSE reported
  /\ RainReset
  /\ turn' = "packet"
  /\ UNCHANGED <<stationVars, valid, rainvalue, seen, lossy, dropped>>

\* the child of meteopoll dies and a new one makes a new recorder
NewChild ==
  /\ turn' = "packet"
  /\ valid' = FALSE /\ rainvalue' = 0 /\ startvalue' \in Garbage
  /\ dropped' = IF valid THEN dropped + (rainvalue - startvalue) ELSE dropped
  /\ UNCHANGED <<stationVars, seen, lossy, reported>>

RainNext == \/ Tick \/ Midnight \/ RainUpdate \/ UpdateFails
            \/ RainSameMinute \/ RainNewMinute \/ NewChild

RainSpec == RainInit /\ [][RainNext]_rainVars

-----------------------------------------------------------------------------
RainTypeOK ==
  /\ counter \in 0..CounterSize - 1
  /\ lag \in 0..MaxFallen /\ since \in 0..MaxFallen
  /\ restarted \in BOOLEAN
  /\ turn \in {"packet", "minute"}
  /\ valid \in BOOLEAN
  /\ rainvalue \in 0..CounterSize - 1
  /\ startvalue \in Int
  /\ fallen \in 0..MaxFallen /\ seen \in 0..MaxFallen
  /\ lossy \in 0..MaxFallen /\ reported \in 0..MaxFallen
  /\ dropped \in 0..MaxFallen

\* what the recorder has noticed and not yet sent
Pending == IF valid THEN rainvalue - startvalue ELSE 0

Accounted == reported + Pending + dropped

(***************************************************************************)
(* Rain is never invented: whatever the counter does between two packets   *)
(* (wraps, is cleared, both, or is unreadable), the rain sent, pending or  *)
(* dropped with a dead child is at most the rain that fell between the     *)
(* first and the last sample.  The negative startvalue that update() sets  *)
(* on a wrap around must not credit the old counter twice.                 *)
(***************************************************************************)
NoPhantomRain == Accounted <= seen

(***************************************************************************)
(* Rain is lost only where the comment in RainRecorder::update says it can *)
(* be: in the interval between two samples in which the counter restarted. *)
(* All other rain is sent, pending, or was dropped with a dead child.      *)
(***************************************************************************)
LossConfinedToWraps == seen - lossy <= Accounted
=============================================================================
