----------------------------- MODULE Recorders -----------------------------
(***************************************************************************)
(* The recorders of lib/ other than rain: what becomes of the readings of  *)
(* one field between two resets, what is sent to the outlet at the end of  *)
(* the minute, and what Averager::addWind makes of the rows afterwards.    *)
(*                                                                         *)
(* The readings come from the packets of a station through the module      *)
(* Readers. A reading is a vector of integers; a recorder of a scalar      *)
(* field uses its first component. Running means are exact: a vector of    *)
(* rationals is a triple <<x, y, d>> for (x/d, y/d) with d > 0. The        *)
(* variables taken, stepped and total are not in the code: they hold what  *)
(* was read and for how long, to compare with what is sent.                *)
(***************************************************************************)
EXTENDS Readers

CONSTANTS Sensors,      \* fields to choose from: a station, the type of its
                        \* rain collector, a field of it, its class and unit in
                        \* the database, the fields the database lacks, and
                        \* the bytes the console answers when asked for the
                        \* calibration
          Packets,      \* Packets[s]: the bytes that sensor s sends
          Gaps,         \* time from one packet to the next
          Backs,        \* how far somebody may set the clock back
          Short,        \* 0.1 seconds: a wind recorder ignores what is shorter
          MaxPackets, MaxMinutes

\* two packets take longer than Short
ASSUME RecordersAssumption ==
  /\ \A s \in Sensors : s.station \in Stations /\ s.answer \in [1..2 -> Byte]
  /\ Packets \in [Sensors -> SUBSET [1..4 -> Byte]]
  /\ Gaps \subseteq Nat \ {0} /\ Backs \subseteq Nat
  /\ Short \in Nat /\ MaxPackets \in Nat /\ MaxMinutes \in Nat
  /\ \A g, h \in Gaps : g + h > Short

VARIABLES sensor,       \* what is recorded
          cal,          \* the calibrator of its reader
          clock,        \* gettimeofday
          isvalid, start, lastupdate, value,   \* BasicRecorder
          min, max,     \* MinmaxRecorder
          gust, samples,                       \* WindRecorder: max and samples
          pc,           \* the loop: "packet" or "minute"
          packets, minutes,  \* bounded counters
          table,        \* the sums addWind takes over the rows sent
          taken,        \* the readings since the reset, with their weights
          stepped,      \* the clock was set back since the reset
          total         \* what table should hold, and the time passed

recorder == <<isvalid, start, lastupdate, value, min, max, gust, samples>>
account == <<taken, stepped, total>>
vars == <<sensor, cal, clock, recorder, pc, packets, minutes, table, account>>

-----------------------------------------------------------------------------
(* Vectors                                                                 *)

\* the vector (x/d, y/d); what is divided by zero is no number
NaN == <<0, 0, 0>>
Quotient(x, y, d) ==
  IF d > 0 THEN <<x, y, d>> ELSE IF d < 0 THEN <<-x, -y, -d>> ELSE NaN

Equal(v, w) ==
  v[3] # 0 /\ w[3] # 0 /\ v[1] * w[3] = w[1] * v[3] /\ v[2] * w[3] = w[2] * v[3]

\* k times v, without a denominator if it can be
Vector(r) == <<r[1], r[2], 1>>
Scaled(k, v) ==
  IF v[3] > 0 /\ k % v[3] = 0
  THEN <<(k \div v[3]) * v[1], (k \div v[3]) * v[2], 1>>
  ELSE <<k * v[1], k * v[2], v[3]>>

\* the order of getAbs is that of the squares
Square(r) == r[1] * r[1] + r[2] * r[2]

Zero == <<0, 0>>
Plus(u, w) == <<u[1] + w[1], u[2] + w[2]>>
Times(k, u) == <<k * u[1], k * u[2]>>

-----------------------------------------------------------------------------
(* Which recorder RecorderFactory::getRecorder makes for a value class;    *)
(* for any other it throws, and the child does not start                   *)

class == sensor.class
KeepsExtremes == class \in {"TemperatureValue", "HumidityValue", "SolarValue",
                            "PressureValue", "UVValue", "MoistureValue",
                            "LeafwetnessValue", "RainRate"}
KeepsMean == KeepsExtremes \/ class = "VoltageValue"
KeepsLast == class = "TimeValue"
KeepsStatus == class = "TransmitterStatus"
KeepsWind == class = "Wind"

Known(c) == c \in {"TemperatureValue", "HumidityValue", "SolarValue",
                   "PressureValue", "UVValue", "MoistureValue",
                   "LeafwetnessValue", "RainRate", "VoltageValue",
                   "TimeValue", "TransmitterStatus", "Wind"}

-----------------------------------------------------------------------------
\* the extremes before the first reading, in any unit
Unset == 1000000

NothingTaken == [sum |-> Zero, time |-> 0, all |-> {}, count |-> 0, absent |-> FALSE]
NoRows == [x |-> 0, y |-> 0, duration |-> 0, samples |-> 0]

\* the constructors
Fresh ==
  /\ isvalid = FALSE /\ start = 0 /\ lastupdate = 0 /\ value = Vector(Zero)
  /\ min = Unset /\ max = -Unset /\ gust = Zero /\ samples = 0
  /\ clock = 0 /\ pc = "packet" /\ packets = 0 /\ minutes = 0
  /\ table = NoRows
  /\ taken = NothingTaken /\ stepped = FALSE
  /\ total = [x |-> 0, y |-> 0, time |-> 0, lived |-> 0, exact |-> TRUE]

\* the station is constructed: RecorderFactory knows the class, the readers
\* to calibrate are there, and the console has answered
Init ==
  /\ sensor \in {s \in Sensors : Known(s.class)}
  /\ CalibratedFields(sensor.station, sensor.collector) \cap sensor.lacks = {}
  /\ cal \in Calibration(sensor.station, sensor.field, sensor.collector,
                        sensor.answer)
  /\ Fresh

-----------------------------------------------------------------------------
(* A packet: the clock has gone on, or was set back meanwhile              *)

\* mutant of Mean: the mean of the old mean and the reading
MeanOfTwo(now, r) ==
  IF isvalid
  THEN Quotient(value[1] + value[3] * r[1], value[2] + value[3] * r[2],
                2 * value[3])
  ELSE Vector(r)

\* BasicRecorder::update: each reading weighs as much as the time since the
\* one before
Mean(now, r) ==
  LET t1 == lastupdate - start
      t2 == now - lastupdate
      w == Scaled(t1, value)
  IN  IF ~isvalid THEN Vector(r)
      ELSE Quotient(w[1] + t2 * w[3] * r[1], w[2] + t2 * w[3] * r[2],
                    w[3] * (t1 + t2))

UpdateMean(now, r) ==
  /\ value' = Mean(now, r)
  /\ lastupdate' = now
  /\ isvalid' = TRUE
  /\ UNCHANGED <<start, gust, samples>>

\* mutant of UpdateExtremes: the first reading does not set them both
UpdateExtremesNoFirst(v) ==
  /\ max' = IF v > max THEN v ELSE max
  /\ min' = IF ~isvalid THEN min ELSE IF v < min THEN v ELSE min

\* MinmaxRecorder::update, before the mean is changed
UpdateExtremes(v) ==
  /\ max' = IF ~isvalid \/ v > max THEN v ELSE max
  /\ min' = IF ~isvalid \/ v < min THEN v ELSE min

\* LastRecorder::update, that is setValue
UpdateLast(now, r) ==
  /\ value' = Vector(r)
  /\ start' = now /\ lastupdate' = now
  /\ isvalid' = TRUE
  /\ UNCHANGED <<min, max, gust, samples>>

\* TransmitterRecorder::update
UpdateStatus(now, r) ==
  /\ value' = Vector(r)
  /\ lastupdate' = now
  /\ isvalid' = TRUE
  /\ UNCHANGED <<start, min, max, gust, samples>>

\* WindRecorder::getDuration
Duration == lastupdate - start

UpdateGust(r) ==
  gust' = IF ~isvalid \/ Square(r) > Square(gust) THEN r ELSE gust

\* mutant of UpdateWind: the duration counts from the first reading
UpdateWindLate(now, r) ==
  /\ value' = IF isvalid THEN Mean(now, r) ELSE Vector(r)
  /\ start' = IF isvalid THEN start ELSE now
  /\ UpdateGust(r)
  /\ samples' = IF isvalid THEN samples + 1 ELSE samples
  /\ lastupdate' = now
  /\ isvalid' = TRUE
  /\ UNCHANGED <<min, max>>

\* WindRecorder::update: the first reading is taken as it is; the mean
\* is not computed when less than a tenth of a second has passed
UpdateWind(now, r) ==
  /\ value' = IF isvalid /\ Duration + (now - lastupdate) > Short
              THEN Mean(now, r) ELSE Vector(r)
  /\ UpdateGust(r)
  /\ samples' = IF isvalid THEN samples + 1 ELSE samples
  /\ lastupdate' = now
  /\ isvalid' = TRUE
  /\ UNCHANGED <<start, min, max>>

\* SensorStation::update with a reading of the recorder's class
Update(now, r) ==
  \/ KeepsExtremes /\ UpdateExtremes(r[1]) /\ UpdateMean(now, r)
  \/ KeepsMean /\ ~KeepsExtremes /\ UpdateMean(now, r) /\ UNCHANGED <<min, max>>
  \/ KeepsLast /\ UpdateLast(now, r)
  \/ KeepsStatus /\ UpdateStatus(now, r)
  \/ KeepsWind /\ UpdateWind(now, r)

\* what Station::readValue gives for the field, if its class is that of the
\* recorder, in the unit of the recorder; the status is not converted
Reading(p) ==
  UNION {IF KeepsStatus THEN {val.v} ELSE Converted(val, sensor.unit) :
           val \in {v \in Value(sensor.station, sensor.field, class, cal, p) :
                      v.class = class}}

\* the bytes say that there is no value
IsAbsent(p) ==
  \E r \in ReadersOf(sensor.station) :
    r[1] = sensor.field /\ Absent(r[2], p)

\* the account: a reading stands for the time since the one before
Take(now, r, p) ==
  LET since == now - (IF isvalid THEN lastupdate ELSE start)
  IN  taken' = [sum |-> Plus(taken.sum, Times(since, r)),
                time |-> taken.time + since,
                all |-> taken.all \cup {r},
                count |-> taken.count + 1,
                absent |-> taken.absent \/ IsAbsent(p)]

Passes(now) ==
  /\ pc = "packet"
  /\ packets < MaxPackets
  /\ packets' = packets + 1
  /\ clock' = now
  /\ pc' = "minute"
  /\ UNCHANGED <<sensor, cal, minutes, table>>

Packet(p) ==
  \E gap \in Gaps, r \in Reading(p) :
    /\ Passes(clock + gap)
    /\ Update(clock + gap, r) /\ Take(clock + gap, r, p)
    /\ total' = [total EXCEPT !.lived = @ + gap]
    /\ UNCHANGED stepped

PacketAfterSetBack(p) ==
  \E back \in Backs, r \in Reading(p) :
    /\ ~stepped
    /\ Passes(clock - back)
    /\ Update(clock - back, r) /\ Take(clock - back, r, p)
    /\ stepped' = TRUE
    /\ UNCHANGED total

\* there is no reader for the field, or it cannot read it, or the unit cannot
\* be converted: SensorStation::update catches the exception and goes on
Unreadable(p) ==
  \E gap \in Gaps :
    /\ Reading(p) = {}
    /\ Passes(clock + gap)
    /\ total' = [total EXCEPT !.lived = @ + gap]
    /\ UNCHANGED <<recorder, taken, stepped>>

-----------------------------------------------------------------------------
(* The end of a minute: sendOutlet and reset                               *)

\* WindRecorder::sendOutlet: windx, windy, duration and samples
WindRow ==
  LET w == Scaled(Duration, value)
  IN  [x |-> w[1], y |-> w[2], duration |-> Duration, samples |-> samples]

Sum(row) == [x |-> table.x + row.x, y |-> table.y + row.y,
             duration |-> table.duration + row.duration,
             samples |-> table.samples + row.samples]

\* MinmaxRecorder::reset and WindRecorder::reset, before that of BasicRecorder
ResetExtremes ==
  IF KeepsExtremes THEN min' = Unset /\ max' = -Unset
                   ELSE UNCHANGED <<min, max>>
ResetGust ==
  IF KeepsWind THEN gust' = Zero /\ samples' = 0 ELSE UNCHANGED <<gust, samples>>

\* mutant of Reset: the time goes on from the last reading
ResetStartKept ==
  /\ ResetExtremes /\ ResetGust
  /\ isvalid' = FALSE /\ value' = Vector(Zero)
  /\ UNCHANGED <<start, lastupdate>>

Reset ==
  /\ ResetExtremes /\ ResetGust
  /\ isvalid' = FALSE /\ value' = Vector(Zero) /\ start' = clock
  /\ UNCHANGED lastupdate

NewMinute ==
  /\ pc = "minute"
  /\ minutes < MaxMinutes
  /\ minutes' = minutes + 1
  /\ table' = IF KeepsWind /\ isvalid THEN Sum(WindRow) ELSE table
  /\ Reset
  /\ total' = [x |-> total.x + taken.sum[1], y |-> total.y + taken.sum[2],
               time |-> total.time + taken.time,
               lived |-> total.lived, exact |-> total.exact /\ ~stepped]
  /\ taken' = NothingTaken
  /\ stepped' = FALSE
  /\ pc' = "packet"
  /\ UNCHANGED <<sensor, cal, clock, packets>>

\* Averager::addWind: no wind when no time has passed
AverageWind ==
  IF table.duration > 0 THEN <<table.x, table.y, table.duration>> ELSE NaN

SameMinute ==
  /\ pc = "minute"
  /\ pc' = "packet"
  /\ UNCHANGED <<sensor, cal, clock, recorder, packets, minutes, table, account>>

Next == \/ \E p \in Packets[sensor] :
             Packet(p) \/ PacketAfterSetBack(p) \/ Unreadable(p)
        \/ NewMinute \/ SameMinute

Spec == Init /\ [][Next]_vars

-----------------------------------------------------------------------------
TypeOK ==
  /\ Known(class) /\ clock \in Int
  /\ isvalid \in BOOLEAN /\ stepped \in BOOLEAN
  /\ start \in Int /\ lastupdate \in Int
  /\ value \in Int \X Int \X Nat
  /\ min \in Int /\ max \in Int
  /\ gust \in Int \X Int /\ samples \in Nat
  /\ pc \in {"packet", "minute"}
  /\ packets \in 0..MaxPackets /\ minutes \in 0..MaxMinutes
  /\ taken.count \in 0..packets

(***************************************************************************)
(* A recorder never takes the bytes with which a station says that it has  *)
(* no value for a number: neither mean nor extremes of the minute, nor the *)
(* averages made of them, contain a temperature of 3276.7 degrees or an    *)
(* index of 25.5.                                                          *)
(***************************************************************************)
AbsentNotTaken == ~taken.absent

(***************************************************************************)
(* Whatever number the console answers for the calibration of humidity,    *)
(* with or without a sign, and whatever the sensor sends, the humidity of  *)
(* a minute, its extremes and its mean are between 0 and 100 for each      *)
(* sensor that is calibrated.                                              *)
(***************************************************************************)
HumidityPossible ==
  isvalid /\ sensor.field \in {"outside.humidity", "console.humidity",
                               "iss.humidity", "extra.humidity"}
  => /\ 0 <= min /\ max <= 100
     /\ ~stepped => 0 <= value[1] /\ value[1] <= 100 * value[3]

(***************************************************************************)
(* What a station can send or answer, a sensor that is missing included,   *)
(* never makes an impossible minute.                                       *)
(***************************************************************************)
ReadingsPossible == AbsentNotTaken /\ HumidityPossible

(***************************************************************************)
(* The running mean, computed anew from the old one at every packet, is    *)
(* the mean of all the readings since the reset, each weighted with the    *)
(* time it stands for, however many were missed in between; unless the     *)
(* clock was set back, which makes weights negative.                       *)
(***************************************************************************)
MeanIsWeighted ==
  isvalid /\ ~stepped /\ KeepsMean
    => Equal(value, <<taken.sum[1], taken.sum[2], taken.time>>)

(***************************************************************************)
(* Minimum and maximum are readings of this minute, even when the clock    *)
(* was set back, and the mean that is sent lies between them when it was   *)
(* not: no minute has a value that the station did not come close to.      *)
(***************************************************************************)
ExtremesHold ==
  isvalid /\ KeepsExtremes =>
    /\ \A r \in taken.all : min <= r[1] /\ r[1] <= max
    /\ \E r \in taken.all : r[1] = min
    /\ \E r \in taken.all : r[1] = max
    /\ ~stepped => min * value[3] <= value[1] /\ value[1] <= max * value[3]

(***************************************************************************)
(* The windx and windy of a minute are the sum of its wind readings, each  *)
(* times the time it stands for, and the duration is that time; the first  *)
(* reading, which only sets the vector, counts from the reset.  The gust   *)
(* is the strongest reading, never weaker than the mean sent with it.      *)
(***************************************************************************)
WindIsVectorSum ==
  isvalid /\ KeepsWind =>
    /\ gust \in taken.all
    /\ \A r \in taken.all : Square(r) <= Square(gust)
    /\ ~stepped =>
         /\ Scaled(Duration, value) = Vector(taken.sum)
         /\ Duration = taken.time
         /\ Square(value) <= Square(gust) * value[3] * value[3]

(***************************************************************************)
(* The average that Averager::addWind makes of the rows of any number of   *)
(* minutes is the weighted mean of all their readings: the minutes cut the *)
(* time into pieces that do not overlap, and the durations never add up to *)
(* more than the time that passed.                                         *)
(***************************************************************************)
MinutesAddUp ==
  KeepsWind /\ total.exact =>
    /\ AverageWind = IF total.time > 0 THEN <<total.x, total.y, total.time>>
                     ELSE NaN
    /\ ~stepped => table.duration + taken.time <= total.lived
=============================================================================
