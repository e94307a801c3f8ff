--------------------------- MODULE RecorderProofs ---------------------------
(***************************************************************************)
(* The recorders of lib/: those of the module Recorders, for every set of  *)
(* sensors and packets, every number of packets and minutes and all the    *)
(* times between them, and that of rain.                                   *)
(***************************************************************************)
EXTENDS Recorders, RainRecorder, TLAPS

-----------------------------------------------------------------------------
(* From the bytes to the reading                                           *)

Bytes4 == [1..4 -> Byte]

Scalars ==
  {"SignedBytePacketReader", "UnsignedBytePacketReader",
   "SignedLittleEndianShortPacketReader", "TemperatureReader",
   "ExtraTemperatureReader", "OldTemperatureReader", "BarometerReader",
   "RainRateReader", "UVReader", "VoltageReader", "TimeReader"}

LEMMA BytesAreNumbers ==
  ASSUME NEW p \in Bytes4
  PROVE  \A i \in 1..4 : p[i] \in 0..255
BY DEF Bytes4, Byte

\* What the readers of one byte, of two, and of three nibbles return.
LEMMA ByteReads ==
  ASSUME NEW p, p[1] \in Int, NEW sign \in BOOLEAN
  PROVE  BytePacketReader(p, sign) \subseteq Int
BY DEF BytePacketReader, ByteValid, Signed

LEMMA ShortReads ==
  ASSUME NEW us \in Int, NEW sign \in BOOLEAN
  PROVE  ShortPacketReader(us, sign) \subseteq Int
BY DEF ShortPacketReader, ShortValid, Signed

LEMMA RawIsNumber ==
  ASSUME NEW p, p[1] \in 0..255, p[2] \in 0..255
  PROVE  RawValue(p) \in Int
<1>1. /\ 0 % 2 = 0 /\ 1 % 2 = 1 /\ 2 % 2 = 0
      /\ 0 \div 2 = 0 /\ 1 \div 2 = 0 /\ 2 \div 2 = 1
  OBVIOUS
<1>2. /\ Nibble(0, p) = p[1] % 16 /\ Nibble(1, p) = p[1] \div 16
      /\ Nibble(2, p) = p[2] % 16
  BY <1>1 DEF Nibble
<1>3. /\ p[1] % 16 \in Int /\ p[1] \div 16 \in Int /\ p[2] % 16 \in Int
  OBVIOUS
<1> QED
  BY <1>2, <1>3 DEF RawValue

LEMMA NibbleReads ==
  ASSUME NEW p, p[1] \in 0..255, p[2] \in 0..255, NEW sign \in BOOLEAN
  PROVE  NibblePacketReader(p, sign) \subseteq Int
BY RawIsNumber DEF NibblePacketReader, NibblesValid, Signed

LEMMA LittleEndianIsNumber ==
  ASSUME NEW p, p[1] \in Int, p[2] \in Int
  PROVE  LittleEndian(p) \in Int
BY DEF LittleEndian

\* Each reader of a number gives an integer or none.
LEMMA NumberIsInt ==
  ASSUME NEW p \in Bytes4, NEW reader \in Scalars
  PROVE  Number(reader, p) \subseteq Int
<1>0. /\ p[1] \in 0..255 /\ p[2] \in 0..255
      /\ p[1] \in Int /\ LittleEndian(p) \in Int
  BY BytesAreNumbers, LittleEndianIsNumber
<1>1. CASE reader = "SignedBytePacketReader"
  BY <1>0, <1>1, ByteReads DEF Number
<1>2. CASE reader = "UnsignedBytePacketReader"
  BY <1>0, <1>2, ByteReads DEF Number
<1>3. CASE reader = "SignedLittleEndianShortPacketReader"
  BY <1>0, <1>3, ShortReads DEF Number
<1>4. CASE reader = "TemperatureReader"
  BY <1>0, <1>4, ShortReads DEF Number, TemperatureReader
<1>5. CASE reader = "ExtraTemperatureReader"
  <2>1. BytePacketReader(p, FALSE) \subseteq Int
    BY <1>0, ByteReads
  <2> SUFFICES ASSUME NEW x \in ExtraTemperatureReader(p) PROVE x \in Int
    BY <1>5 DEF Number
  <2>2. PICK n \in BytePacketReader(p, FALSE) : x = 10 * (n - 90)
    BY DEF ExtraTemperatureReader
  <2> QED
    BY <2>1, <2>2
<1>6. CASE reader = "OldTemperatureReader"
  BY <1>0, <1>6, NibbleReads DEF Number, OldTemperatureReader
<1>7. CASE reader = "BarometerReader"
  BY <1>0, <1>7, ShortReads DEF Number, BarometerReader
<1>8. CASE reader = "RainRateReader"
  BY <1>0, <1>8, ByteReads DEF Number, RainRateReader
<1>9. CASE reader = "UVReader"
  BY <1>0, <1>9, ByteReads DEF Number, UVReader
<1>10. CASE reader = "VoltageReader"
  <2>1. ShortPacketReader(LittleEndian(p), FALSE) \subseteq Int
    BY <1>0, ShortReads
  <2> SUFFICES ASSUME NEW x \in VoltageReader(p) PROVE x \in Int
    BY <1>10 DEF Number
  <2>2. PICK n \in ShortPacketReader(LittleEndian(p), FALSE) : x = 3 * n
    BY DEF VoltageReader
  <2> QED
    BY <2>1, <2>2
<1>11. CASE reader = "TimeReader"
  BY <1>0, <1>11 DEF Number, TimeReader
<1> QED
  BY <1>1, <1>2, <1>3, <1>4, <1>5, <1>6, <1>7, <1>8, <1>9, <1>10, <1>11
  DEF Scalars

\* Each reader of wind gives a vector of integers or none.
LEMMA VelocityIsVector ==
  ASSUME NEW p \in Bytes4, NEW reader \in Winds
  PROVE  Velocity(reader, p) \subseteq Int \X Int
<1>0. /\ p[1] \in Int
      /\ \A i \in 1..4 : p[i] \in 0..255
  BY BytesAreNumbers
<1>1. ASSUME NEW n \in Int, NEW a \in Int PROVE Polar(n, a) \in Int \X Int
  <2>1. (a \div 90) % 4 \in 0..3
    OBVIOUS
  <2> QED
    BY <2>1 DEF Polar
<1>2. BytePacketReader(p, FALSE) \subseteq Int
  BY <1>0, ByteReads
<1>3. CASE reader = "OldWindReader"
  <2> DEFINE q == <<p[2], p[3]>>
             A == NibblePacketReader(q, FALSE)
             S == BytePacketReader(p, FALSE)
  <2>1. q[1] \in 0..255 /\ q[2] \in 0..255
    BY <1>0
  <2>2. A \subseteq Int
    BY <2>1, NibbleReads
  <2>3. Velocity(reader, p) = {Polar(n, a) : n \in S, a \in A}
    BY <1>3 DEF Velocity, OldWindReader
  <2>5. S \subseteq Int
    BY <1>2
  <2> HIDE DEF q, A, S
  <2> QED
    BY <1>1, <2>2, <2>3, <2>5
<1>4. CASE reader = "WMIIWindReader"
  <2> DEFINE q == <<p[2], p[3]>>
             A == ShortPacketReader(LittleEndian(q), FALSE)
             S == BytePacketReader(p, FALSE)
  <2>1. q[1] \in 0..255 /\ q[2] \in 0..255
    BY <1>0
  <2>4. LittleEndian(q) \in Int
    <3>1. q[1] \in Int /\ q[2] \in Int
      BY <2>1
    <3> HIDE DEF q
    <3> QED
      BY <3>1, LittleEndianIsNumber
  <2>2. A \subseteq Int
    BY <2>4, ShortReads
  <2>3. Velocity(reader, p) = {Polar(n, a) : n \in S, a \in A}
    BY <1>4 DEF Velocity, WMIIWindReader
  <2>5. S \subseteq Int
    BY <1>2
  <2> HIDE DEF q, A, S
  <2> QED
    BY <1>1, <2>2, <2>3, <2>5
<1>5. CASE reader = "VantageProWindReader"
  <2> DEFINE q == <<p[3], p[4]>>
             A == ShortPacketReader(LittleEndian(q), FALSE)
             S == BytePacketReader(p, FALSE)
  <2>1. q[1] \in 0..255 /\ q[2] \in 0..255
    BY <1>0
  <2>4. LittleEndian(q) \in Int
    <3>1. q[1] \in Int /\ q[2] \in Int
      BY <2>1
    <3> HIDE DEF q
    <3> QED
      BY <3>1, LittleEndianIsNumber
  <2>2. A \subseteq Int
    BY <2>4, ShortReads
  <2>3. Velocity(reader, p) = {Polar(n, a) : n \in S, a \in A}
    BY <1>5 DEF Velocity, VantageProWindReader
  <2>5. S \subseteq Int
    BY <1>2
  <2> HIDE DEF q, A, S
  <2> QED
    BY <1>1, <2>2, <2>3, <2>5
<1> QED
  BY <1>3, <1>4, <1>5 DEF Winds
\* What the tables of readers say.
LEMMA ReaderKinds ==
  ASSUME NEW st \in Stations, NEW r \in ReadersOf(st)
  PROVE  r[2] \in Scalars \cup Winds
<1>1. CASE st \in {"WMII", "Perception", "Wizard"}
  BY <1>1 DEF ReadersOf, WMIIReaders, Scalars, Winds
<1>2. CASE st = "GroWeather"
  BY <1>2 DEF ReadersOf, GroWeatherReaders, Scalars, Winds
<1>3. CASE st = "Energy"
  BY <1>3 DEF ReadersOf, EnergyReaders, Scalars, Winds
<1>4. CASE st = "Health"
  BY <1>4 DEF ReadersOf, HealthReaders, Scalars, Winds
<1>5. CASE st = "VantagePro"
  BY <1>5 DEF ReadersOf, VantageProReaders, Scalars, Winds
<1> QED
  BY <1>1, <1>2, <1>3, <1>4, <1>5 DEF Stations

LEMMA OneReader ==
  ASSUME NEW st \in Stations, NEW r \in ReadersOf(st), NEW s \in ReadersOf(st),
         r[1] = s[1]
  PROVE  r = s
<1>1. CASE st \in {"WMII", "Perception", "Wizard"}
  BY <1>1 DEF ReadersOf, WMIIReaders
<1>2. CASE st = "GroWeather"
  BY <1>2 DEF ReadersOf, GroWeatherReaders
<1>3. CASE st = "Energy"
  BY <1>3 DEF ReadersOf, EnergyReaders
<1>4. CASE st = "Health"
  BY <1>4 DEF ReadersOf, HealthReaders
<1>5. CASE st = "VantagePro"
  BY <1>5 DEF ReadersOf, VantageProReaders
<1> QED
  BY <1>1, <1>2, <1>3, <1>4, <1>5 DEF Stations

ClippedFields ==
  {"outside.humidity", "console.humidity", "iss.humidity", "extra.humidity"}

LEMMA HumidityReader ==
  ASSUME NEW st \in Stations, NEW r \in ReadersOf(st), r[1] \in ClippedFields
  PROVE  /\ r[2] = "SignedBytePacketReader" /\ r[3] = "%"
         /\ r[1] = "outside.humidity" <=> st # "VantagePro"
<1>1. CASE st \in {"WMII", "Perception", "Wizard"}
  BY <1>1 DEF ReadersOf, WMIIReaders, ClippedFields
<1>2. CASE st = "GroWeather"
  BY <1>2 DEF ReadersOf, GroWeatherReaders, ClippedFields
<1>3. CASE st = "Energy"
  BY <1>3 DEF ReadersOf, EnergyReaders, ClippedFields
<1>4. CASE st = "Health"
  BY <1>4 DEF ReadersOf, HealthReaders, ClippedFields
<1>5. CASE st = "VantagePro"
  BY <1>5 DEF ReadersOf, VantageProReaders, ClippedFields
<1> QED
  BY <1>1, <1>2, <1>3, <1>4, <1>5 DEF Stations

\* The calibrators that the constructors of the stations make.
Calibrators == [slope : Int, y0 : Int, top : Int, bottom : Int]

LEMMA CalibratorKinds ==
  /\ \A m, y \in Int : Linear(m, y) \in Calibrators
  /\ \A y, b \in Int : Clipped(y, b) \in Calibrators
BY DEF Linear, Clipped, Far, Calibrators

\* A number calibrated is a number, one that is clipped is a percentage.
LEMMA CalibratedIsInt ==
  ASSUME NEW c \in Calibrators, NEW x \in Int
  PROVE  Calibrator(c, x) \in Int
BY DEF Calibrator, Calibrators

LEMMA ClippedIsPercentage ==
  ASSUME NEW y \in Int, NEW b \in {0, 100}, NEW x \in Int
  PROVE  Calibrator(Clipped(y, b), x) \in 0..100
BY DEF Calibrator, Clipped

\* What a constructor makes of the answer of the console.
LEMMA AnswerReads ==
  ASSUME NEW a \in [1..2 -> Byte]
  PROVE  /\ \A sign \in BOOLEAN : BytePacketReader(a, sign) \subseteq Int
         /\ TemperatureReader(a) \subseteq Int
         /\ ShortPacketReader(LittleEndian(a), TRUE) \subseteq Int
         /\ NibblePacketReader(a, TRUE) \subseteq Int
         /\ HumidityAnswer(a) \subseteq Int
<1>1. a[1] \in 0..255 /\ a[2] \in 0..255 /\ a[1] \in Int /\ a[2] \in Int
  BY DEF Byte
<1>2. LittleEndian(a) \in Int
  BY <1>1, LittleEndianIsNumber
<1>3. LittleEndian(<<a[1], 0>>) \in Int
  BY <1>1 DEF LittleEndian
<1> QED
  BY <1>1, <1>2, <1>3, ByteReads, ShortReads, NibbleReads
  DEF TemperatureReader, HumidityAnswer

\* A field whose humidity is clipped has a calibrator that clips, if the field
\* is one of the station.
LEMMA CalibrationIsTyped ==
  ASSUME NEW st \in Stations, NEW field, NEW collector,
         NEW a \in [1..2 -> Byte], NEW c \in Calibration(st, field, collector, a)
  PROVE  \/ \E y \in Int, b \in {0, 100} : c = Clipped(y, b)
         \/ /\ \E m, y \in Int : c = Linear(m, y)
            /\ field = "outside.humidity" => st = "VantagePro"
            /\ field \in ClippedFields \ {"outside.humidity"}
                 => st # "VantagePro"
<1> DEFINE T == TemperatureReader(a)
           N == NibblePacketReader(a, TRUE)
           S == ShortPacketReader(LittleEndian(a), TRUE)
           H == HumidityAnswer(a)
           B == BytePacketReader(a, TRUE)
<1>0. T \subseteq Int /\ N \subseteq Int /\ S \subseteq Int /\ H \subseteq Int
      /\ B \subseteq Int
  BY AnswerReads
<1>1. CASE st \in {"WMII", "Perception", "Wizard"}
  <2>1. \/ \E t \in T : c = Linear(1, t) /\ field # "outside.humidity"
        \/ \E t \in S : c = Linear(1, -t) /\ field = "inside.barometer"
        \/ \E t \in H : c = Clipped(t, 0)
        \/ c = Linear(1, 0) /\ field # "outside.humidity"
    BY <1>1 DEF Calibration, WMII, Temperatures
  <2> HIDE DEF T, N, S, H, B
  <2>2. CASE \E t \in T : c = Linear(1, t) /\ field # "outside.humidity"
    <3>1. PICK t \in T : c = Linear(1, t) /\ field # "outside.humidity"
      BY <2>2
    <3> QED
      BY <3>1, <1>0, <1>1 DEF ClippedFields, Temperatures
  <2> QED
    BY <1>0, <1>1, <2>1, <2>2 DEF ClippedFields
<1>2. CASE st = "GroWeather"
  <2>1. \/ \E t \in N : c = Linear(1, 10 * t) /\ field # "outside.humidity"
        \/ \E t \in S : c = Linear(1, -t) /\ field = "inside.barometer"
        \/ \E t \in H : c = Clipped(t, 0)
        \/ c = Linear(1, 0) /\ field # "outside.humidity"
    BY <1>2 DEF Calibration, GroWeather, Temperatures
  <2> HIDE DEF T, N, S, H, B
  <2>2. CASE \E t \in N : c = Linear(1, 10 * t) /\ field # "outside.humidity"
    <3>1. PICK t \in N : c = Linear(1, 10 * t) /\ field # "outside.humidity"
      BY <2>2
    <3> QED
      BY <3>1, <1>0, <1>2 DEF ClippedFields, Temperatures
  <2> QED
    BY <1>0, <1>2, <2>1, <2>2 DEF ClippedFields
<1>3. CASE st = "Energy"
  <2>1. \/ \E t \in N : c = Linear(0, t) /\ field # "outside.humidity"
        \/ \E t \in S : c = Linear(1, -t) /\ field = "inside.barometer"
        \/ \E t \in B : c = Clipped(t, 0)
        \/ c = Linear(1, 0) /\ field # "outside.humidity"
    BY <1>3 DEF Calibration, Energy, Temperatures
  <2> HIDE DEF T, N, S, H, B
  <2>2. CASE \E t \in N : c = Linear(0, t) /\ field # "outside.humidity"
    <3>1. PICK t \in N : c = Linear(0, t) /\ field # "outside.humidity"
      BY <2>2
    <3> QED
      BY <3>1, <1>0, <1>3 DEF ClippedFields, Temperatures
  <2> QED
    BY <1>0, <1>3, <2>1, <2>2 DEF ClippedFields
<1>4. CASE st = "Health"
  <2>1. \/ \E t \in N : c = Linear(1, t) /\ field # "outside.humidity"
        \/ \E t \in S : c = Linear(1, -t) /\ field = "inside.barometer"
        \/ \E t \in H : c = Clipped(t, 100)
        \/ c = Linear(1, 0) /\ field # "outside.humidity"
    BY <1>4 DEF Calibration, Health, Temperatures
  <2> HIDE DEF T, N, S, H, B
  <2>2. CASE \E t \in N : c = Linear(1, t) /\ field # "outside.humidity"
    <3>1. PICK t \in N : c = Linear(1, t) /\ field # "outside.humidity"
      BY <2>2
    <3> QED
      BY <3>1, <1>0, <1>4 DEF ClippedFields, Temperatures
  <2> QED
    BY <1>0, <1>4, <2>1, <2>2 DEF ClippedFields
<1>5. CASE st = "VantagePro"
  <2> DEFINE Others == ClippedFields \ {"outside.humidity"}
  <2>1. \/ \E t \in B : c = Linear(1, t) /\ field \notin Others
        \/ \E t \in B : c = Linear(1, 10 * t) /\ field \notin Others
        \/ \E t \in B : c = Clipped(t, 0)
        \/ c = Linear(CollectorSlope(collector), 0) /\ field \notin Others
        \/ c = Linear(1, 0) /\ field \notin Others
    BY <1>5 DEF Calibration, VantagePro, ClippedFields
  <2>2. CollectorSlope(collector) \in Int
    BY DEF CollectorSlope
  <2> HIDE DEF T, N, S, H, B, Others
  <2>3. CASE field \notin Others /\ \E m, y \in Int : c = Linear(m, y)
    BY <1>5, <2>3 DEF Others
  <2>4. CASE \E t \in B : c = Clipped(t, 0)
    BY <1>0, <2>4
  <2>5. ASSUME NEW t \in B PROVE t \in Int /\ 10 * t \in Int
    BY <1>0
  <2> QED
    BY <2>1, <2>2, <2>3, <2>4, <2>5
<1> QED
  BY <1>1, <1>2, <1>3, <1>4, <1>5 DEF Stations
-----------------------------------------------------------------------------
(* From the reading to the unit of the recorder                            *)

LEMMA MultipliedIsInt ==
  ASSUME NEW source, NEW target, NEW from, NEW to, NEW v \in Int,
         \A f \in DOMAIN source : source[f] \in Int,
         \A t \in DOMAIN target : target[t] \in Int
  PROVE  Multiplied(source, target, from, to, v) \subseteq Int
<1> SUFFICES ASSUME NEW x \in Multiplied(source, target, from, to, v),
                    from # to
             PROVE  x \in Int
  BY DEF Multiplied
<1>1. PICK f \in {from} \cap DOMAIN source, t \in {to} \cap DOMAIN target :
        x = v * source[f] * target[t]
  BY DEF Multiplied
<1>2. source[f] \in Int /\ target[t] \in Int
  OBVIOUS
<1> QED
  BY <1>1, <1>2

\* Each converter gives a number, or none.
LEMMA ConvertIsInt ==
  ASSUME NEW c, Known(c), NEW from, NEW to, NEW v \in Int
  PROVE  Convert(c, from, to, v) \subseteq Int
<1>1. CASE c = "TemperatureValue"
  <2>1. Kelvin(from, v) \subseteq Int
    BY SMT DEF Kelvin
  <2>2. \A k \in Int : FromKelvin(from, to, k) \subseteq Int
    BY SMT DEF FromKelvin
  <2> QED
    BY SMT, <1>1, <2>1, <2>2 DEF Convert, TemperatureConverter
<1>2. CASE c = "PressureValue"
  <2> DEFINE s == [hPa |-> 1000000, mmHg |-> 1333224, inHg |-> 33863900]
             t == [hPa |-> 1, mmHg |-> 1, inHg |-> 3970079]
  <2>1. /\ \A f \in DOMAIN s : s[f] \in Int
        /\ \A f \in DOMAIN t : t[f] \in Int
    BY SMT
  <2>2. Convert(c, from, to, v) = Multiplied(s, t, from, to, v)
    BY SMT, <1>2 DEF Convert, PressureConverter
  <2> HIDE DEF s, t
  <2> QED
    BY <2>1, <2>2, MultipliedIsInt
<1>3. CASE c = "Wind"
  <2> DEFINE s == [u \in Speeds |-> IF u = "m/s" THEN 3600000
                    ELSE IF u = "mph" THEN 1609344 ELSE 1000000]
             t == [u \in Speeds |-> IF u = "m/s" THEN 1
                    ELSE IF u = "mph" THEN 3600000 ELSE 36]
  <2>1. /\ \A f \in DOMAIN s : s[f] \in Int
        /\ \A f \in DOMAIN t : t[f] \in Int
    BY SMT DEF Speeds
  <2>2. Convert(c, from, to, v) = Multiplied(s, t, from, to, v)
    BY SMT, <1>3 DEF Convert, WindConverter
  <2> HIDE DEF s, t
  <2> QED
    BY <2>1, <2>2, MultipliedIsInt
<1>4. CASE c = "RainRate"
  <2> DEFINE s == [u \in Rates |-> IF u = "in/h" THEN 254 ELSE 10]
             t == [u \in Rates |-> IF u = "in/h" THEN 10 ELSE 1]
  <2>1. /\ \A f \in DOMAIN s : s[f] \in Int
        /\ \A f \in DOMAIN t : t[f] \in Int
    BY SMT
  <2>2. Convert(c, from, to, v) = Multiplied(s, t, from, to, v)
    BY <1>4 DEF Convert, RainRateConverter
  <2> HIDE DEF s, t
  <2> QED
    BY <2>1, <2>2, MultipliedIsInt
<1>5. CASE c = "UVValue"
  <2> DEFINE s == [med |-> 7, index |-> 3]
             t == [med |-> 3, index |-> 1]
  <2>1. /\ \A f \in DOMAIN s : s[f] \in Int
        /\ \A f \in DOMAIN t : t[f] \in Int
    BY SMT
  <2>2. Convert(c, from, to, v) = Multiplied(s, t, from, to, v)
    BY <1>5 DEF Convert, UVConverter
  <2> HIDE DEF s, t
  <2> QED
    BY <2>1, <2>2, MultipliedIsInt
<1>6. CASE c \notin {"TemperatureValue", "PressureValue", "Wind", "RainRate",
                     "UVValue"}
  BY <1>6 DEF Known, Convert, SameUnit
<1> QED
  BY <1>1, <1>2, <1>3, <1>4, <1>5, <1>6

\* A value is a vector of integers, in the unit of its reader.
LEMMA ValueIsVector ==
  ASSUME NEW st \in Stations, NEW field, NEW cls, NEW c \in Calibrators,
         NEW p \in Bytes4, NEW val \in Value(st, field, cls, c, p)
  PROVE  /\ val.v \in Int \X Int
         /\ \E r \in ReadersOf(st) :
              /\ r[1] = field
              /\ r[2] \in Winds => Velocity(r[2], p) # {}
              /\ r[2] \notin Winds =>
                   \E x \in Number(r[2], p) :
                     val = [class |-> cls, unit |-> r[3],
                            v |-> <<Calibrator(c, x), 0>>]
<1> DEFINE Of(r) ==
      IF r[2] \in Winds
      THEN {WindValue(w, "mph") : w \in Velocity(r[2], p)}
      ELSE UNION {NewValue(cls, Calibrator(c, x), r[3]) : x \in Number(r[2], p)}
<1>1. PICK r \in ReadersOf(st) : r[1] = field /\ val \in Of(r)
  BY DEF Value
<1>2. CASE r[2] \in Winds
  <2>1. PICK w \in Velocity(r[2], p) : val = WindValue(w, "mph")
    BY <1>1, <1>2
  <2>2. w \in Int \X Int
    BY <1>2, VelocityIsVector
  <2>3. val.v = w
    BY <2>1 DEF WindValue
  <2> QED
    BY <1>1, <1>2, <2>1, <2>2, <2>3
<1>3. CASE r[2] \notin Winds
  <2>1. PICK x \in Number(r[2], p) : val \in NewValue(cls, Calibrator(c, x), r[3])
    BY <1>1, <1>3
  <2>2. val = [class |-> cls, unit |-> r[3], v |-> <<Calibrator(c, x), 0>>]
    BY <2>1 DEF NewValue
  <2>3. x \in Int
    BY <1>3, ReaderKinds, NumberIsInt
  <2>4. Calibrator(c, x) \in Int
    BY <2>3, CalibratedIsInt
  <2> QED
    BY <1>1, <1>3, <2>2, <2>4
<1> QED
  BY <1>2, <1>3

\* The bytes with which a station says that it has no value are not read.
LEMMA AbsentReads ==
  ASSUME NEW p \in Bytes4, NEW reader \in Scalars \cup Winds, Absent(reader, p)
  PROVE  /\ reader \in Scalars => Number(reader, p) = {}
         /\ reader \in Winds => Velocity(reader, p) = {}
<1>0. /\ p[1] \in 0..255 /\ p[2] \in 0..255
      /\ LittleEndian(p) = p[1] + 256 * p[2]
  BY BytesAreNumbers DEF LittleEndian
<1>1. CASE reader \in {"TemperatureReader", "SignedLittleEndianShortPacketReader"}
  <2>1. (p[1] = 255 /\ p[2] = 127) \/ (p[1] = 0 /\ p[2] = 128)
    BY <1>1 DEF Absent
  <2>2. LittleEndian(p) \in {32767, 32768}
    BY SMT, <1>0, <2>1
  <2>3. ShortPacketReader(LittleEndian(p), TRUE) = {}
    BY SMT, <2>2 DEF ShortPacketReader, ShortValid
  <2> QED
    BY <1>1, <2>3 DEF Number, TemperatureReader, Winds
<1>2. CASE reader = "OldTemperatureReader"
  <2>1. p[1] = 255 /\ p[2] % 16 = 7
    BY <1>2 DEF Absent
  <2>2. /\ 0 % 2 = 0 /\ 1 % 2 = 1 /\ 2 % 2 = 0
        /\ 0 \div 2 = 0 /\ 1 \div 2 = 0 /\ 2 \div 2 = 1
    OBVIOUS
  <2>3. /\ Nibble(0, p) = p[1] % 16 /\ Nibble(1, p) = p[1] \div 16
        /\ Nibble(2, p) = p[2] % 16
    BY <2>2 DEF Nibble
  <2>4. RawValue(p) = 2047
    BY SMT, <2>1, <2>3 DEF RawValue
  <2>5. NibblePacketReader(p, TRUE) = {}
    BY SMT, <2>4 DEF NibblePacketReader, NibblesValid
  <2> QED
    BY <1>2, <2>5 DEF Number, OldTemperatureReader, Winds
<1>3. CASE reader = "SignedBytePacketReader"
  <2>1. BytePacketReader(p, TRUE) = {}
    BY <1>3 DEF Absent, BytePacketReader, ByteValid
  <2> QED
    BY <1>3, <2>1 DEF Number, Winds
<1>4. CASE reader \in {"BarometerReader", "VoltageReader"}
  <2>1. p[1] = 255 /\ p[2] = 255
    BY <1>4 DEF Absent
  <2>2. LittleEndian(p) = 65535
    BY SMT, <1>0, <2>1
  <2>3. ShortPacketReader(LittleEndian(p), FALSE) = {}
    BY SMT, <2>2 DEF ShortPacketReader, ShortValid
  <2> QED
    BY <1>4, <2>3 DEF Number, BarometerReader, VoltageReader, Winds
<1>5. CASE reader = "TimeReader"
  BY <1>5 DEF Absent
<1>6. CASE reader \in {"UnsignedBytePacketReader", "ExtraTemperatureReader",
                       "RainRateReader", "UVReader"} \cup Winds
  <2>1. p[1] = 255
    BY <1>6 DEF Absent, Winds
  <2>2. BytePacketReader(p, FALSE) = {}
    BY <2>1 DEF BytePacketReader, ByteValid
  <2>3. CASE reader \in Winds
    <3>1. /\ OldWindReader(p) = {} /\ WMIIWindReader(p) = {}
          /\ VantageProWindReader(p) = {}
      <4> DEFINE S == BytePacketReader(p, FALSE)
                 Old == NibblePacketReader(<<p[2], p[3]>>, FALSE)
                 New == ShortPacketReader(LittleEndian(<<p[2], p[3]>>), FALSE)
                 Pro == ShortPacketReader(LittleEndian(<<p[3], p[4]>>), FALSE)
      <4>1. /\ OldWindReader(p) = {Polar(n, a) : n \in S, a \in Old}
            /\ WMIIWindReader(p) = {Polar(n, a) : n \in S, a \in New}
            /\ VantageProWindReader(p) = {Polar(n, a) : n \in S, a \in Pro}
        BY DEF OldWindReader, WMIIWindReader, VantageProWindReader
      <4>2. S = {}
        BY <2>2
      <4> HIDE DEF S, Old, New, Pro
      <4> QED
        BY <4>1, <4>2
    <3> QED
      BY <2>3, <3>1 DEF Velocity, Winds, Scalars
  <2>4. CASE reader \notin Winds
    BY <1>6, <2>2, <2>4
    DEF Number, ExtraTemperatureReader, RainRateReader, UVReader
  <2> QED
    BY <2>3, <2>4
<1> QED
  BY <1>1, <1>2, <1>3, <1>4, <1>5, <1>6 DEF Scalars

\* A percentage is not converted, or it cannot be.
LEMMA PercentConverted ==
  ASSUME NEW c, Known(c), NEW to, NEW v \in Int, NEW x \in Convert(c, "%", to, v)
  PROVE  x = v
<1>1. CASE c = "TemperatureValue"
  <2>1. Kelvin("%", v) = {}
    BY SMT DEF Kelvin
  <2> QED
    BY SMT, <1>1, <2>1 DEF Convert, TemperatureConverter
<1>2. ASSUME NEW s, NEW t, "%" \notin DOMAIN s, x \in Multiplied(s, t, "%", to, v)
      PROVE  x = v
  BY <1>2 DEF Multiplied
<1>3. CASE c = "PressureValue"
  BY SMT, <1>2, <1>3 DEF Convert, PressureConverter
<1>4. CASE c = "Wind"
  BY SMT, <1>2, <1>4 DEF Convert, WindConverter, Speeds
<1>5. CASE c = "RainRate"
  BY SMT, <1>2, <1>5 DEF Convert, RainRateConverter, Rates
<1>6. CASE c = "UVValue"
  BY SMT, <1>2, <1>6 DEF Convert, UVConverter
<1>7. CASE c \notin {"TemperatureValue", "PressureValue", "Wind", "RainRate",
                     "UVValue"}
  BY <1>7 DEF Known, Convert, SameUnit
<1> QED
  BY <1>1, <1>3, <1>4, <1>5, <1>6, <1>7

-----------------------------------------------------------------------------
(* The types                                                               *)

Takes == [sum : Int \X Int, time : Int, all : SUBSET (Int \X Int), count : Nat,
          absent : BOOLEAN]

\* The sensor is one the child can start for.
SensorInv ==
  /\ sensor \in Sensors /\ Known(class)
  /\ cal \in Calibration(sensor.station, sensor.field, sensor.collector,
                         sensor.answer)

TypeInv ==
  /\ SensorInv
  /\ clock \in Int /\ start \in Int /\ lastupdate \in Int
  /\ isvalid \in BOOLEAN /\ stepped \in BOOLEAN
  /\ value \in Int \X Int \X Nat
  /\ min \in Int /\ max \in Int
  /\ gust \in Int \X Int /\ samples \in Nat
  /\ pc \in {"packet", "minute"}
  /\ packets \in 0..MaxPackets /\ minutes \in 0..MaxMinutes
  /\ taken \in Takes /\ taken.count <= packets
  /\ table \in [x : Int, y : Int, duration : Int, samples : Nat]
  /\ total \in [x : Int, y : Int, time : Int, lived : Int, exact : BOOLEAN]

\* The packets of a sensor are bytes.
LEMMA PacketIsBytes ==
  ASSUME SensorInv, NEW p \in Packets[sensor]
  PROVE  p \in Bytes4
BY RecordersAssumption DEF SensorInv, Bytes4

\* A reading is a vector of integers; it is taken from bytes that are a value,
\* and what is clipped is a percentage.
LEMMA ReadingIsTyped ==
  ASSUME SensorInv, NEW p \in Packets[sensor], NEW r \in Reading(p)
  PROVE  /\ r \in Int \X Int
         /\ ~IsAbsent(p)
         /\ sensor.field \in ClippedFields => r[1] \in 0..100
<1> DEFINE st == sensor.station
           fd == sensor.field
<1>0. /\ p \in Bytes4 /\ st \in Stations /\ sensor.answer \in [1..2 -> Byte]
  BY PacketIsBytes, RecordersAssumption DEF SensorInv
<1>1. cal \in Calibrators
  BY <1>0, CalibrationIsTyped, CalibratorKinds DEF SensorInv
<1>2. PICK val \in Value(st, fd, class, cal, p) :
        /\ val.class = class
        /\ r \in IF KeepsStatus THEN {val.v} ELSE Converted(val, sensor.unit)
  BY DEF Reading
<1>3. val.v \in Int \X Int
  BY <1>0, <1>1, ValueIsVector
<1>4. PICK e \in ReadersOf(st) :
        /\ e[1] = fd
        /\ e[2] \in Winds => Velocity(e[2], p) # {}
        /\ e[2] \notin Winds =>
             \E x \in Number(e[2], p) :
               val = [class |-> class, unit |-> e[3], v |-> <<Calibrator(cal, x), 0>>]
  BY <1>0, <1>1, ValueIsVector
<1>5. ASSUME ~KeepsStatus
      PROVE  \E x \in Convert(class, val.unit, sensor.unit, val.v[1]),
                y \in IF class = "Wind"
                      THEN Convert(class, val.unit, sensor.unit, val.v[2])
                      ELSE {k \in {0} : class \in CopiedClasses} :
               r = <<x, y>>
  BY <1>2, <1>5 DEF Converted
<1>6. r \in Int \X Int
  <2>1. CASE KeepsStatus
    BY <1>2, <1>3, <2>1
  <2>2. CASE ~KeepsStatus
    <3>1. /\ Convert(class, val.unit, sensor.unit, val.v[1]) \subseteq Int
          /\ Convert(class, val.unit, sensor.unit, val.v[2]) \subseteq Int
      BY <1>3, ConvertIsInt DEF SensorInv
    <3> QED
      BY <1>5, <2>2, <3>1
  <2> QED
    BY <2>1, <2>2
<1>7. ~IsAbsent(p)
  <2> SUFFICES ASSUME NEW o \in ReadersOf(st), o[1] = fd, Absent(o[2], p)
               PROVE  FALSE
    BY DEF IsAbsent
  <2>1. o = e
    BY <1>0, <1>4, OneReader
  <2>2. e[2] \in Scalars \cup Winds
    BY <1>0, ReaderKinds
  <2> QED
    BY <1>0, <1>4, <2>1, <2>2, AbsentReads
<1>8. ASSUME fd \in ClippedFields
      PROVE  r[1] \in 0..100
  <2>1. /\ e[2] = "SignedBytePacketReader" /\ e[3] = "%"
        /\ fd = "outside.humidity" <=> st # "VantagePro"
    BY <1>0, <1>4, <1>8, HumidityReader
  <2>2. PICK x \in Number(e[2], p) :
          val = [class |-> class, unit |-> e[3], v |-> <<Calibrator(cal, x), 0>>]
    BY <1>4, <2>1 DEF Winds
  <2>3. x \in Int
    BY <1>0, <2>1, NumberIsInt DEF Scalars
  <2>4. PICK y \in Int, b \in {0, 100} : cal = Clipped(y, b)
    BY <1>0, <1>8, <2>1, CalibrationIsTyped DEF SensorInv
  <2>5. Calibrator(cal, x) \in 0..100
    BY <2>3, <2>4, ClippedIsPercentage
  <2>6. val.unit = "%" /\ val.v = <<Calibrator(cal, x), 0>>
    BY <2>1, <2>2
  <2>7. val.v[1] \in 0..100 /\ val.v[1] \in Int
    BY <2>5, <2>6
  <2>8. CASE KeepsStatus
    BY <1>2, <2>7, <2>8
  <2>9. CASE ~KeepsStatus
    BY <1>5, <2>6, <2>7, <2>9, PercentConverted DEF SensorInv
  <2> QED
    BY <2>8, <2>9
<1> QED
  BY <1>6, <1>7, <1>8

Means == Int \X Int \X Nat

LEMMA ScaledIsTyped ==
  ASSUME NEW k \in Int, NEW v \in Means
  PROVE  Scaled(k, v) \in Means
<1>1. v[1] \in Int /\ v[2] \in Int /\ v[3] \in Nat
  BY DEF Means
<1>2. ASSUME v[3] > 0 PROVE k \div v[3] \in Int
  BY <1>1, <1>2
<1>3. /\ k * v[1] \in Int /\ k * v[2] \in Int
      /\ v[3] > 0 => (k \div v[3]) * v[1] \in Int /\ (k \div v[3]) * v[2] \in Int
  BY <1>1, <1>2
<1> QED
  BY <1>1, <1>3 DEF Scaled, Means

LEMMA QuotientIsTyped ==
  ASSUME NEW x \in Int, NEW y \in Int, NEW d \in Int
  PROVE  Quotient(x, y, d) \in Means
BY DEF Quotient, NaN, Means

LEMMA MeanIsTyped ==
  ASSUME value \in Means, lastupdate \in Int, start \in Int, NEW now \in Int,
         NEW r \in Int \X Int
  PROVE  Mean(now, r) \in Means
<1> DEFINE t1 == lastupdate - start
           t2 == now - lastupdate
           w == Scaled(t1, value)
<1>1. t1 \in Int /\ t2 \in Int
  OBVIOUS
<1>2. w \in Means
  BY <1>1, ScaledIsTyped
<1>3. w[1] \in Int /\ w[2] \in Int /\ w[3] \in Int /\ r[1] \in Int /\ r[2] \in Int
  BY <1>2 DEF Means
<1>4. Mean(now, r) = IF ~isvalid THEN Vector(r)
                     ELSE Quotient(w[1] + t2 * w[3] * r[1], w[2] + t2 * w[3] * r[2],
                                   w[3] * (t1 + t2))
  BY DEF Mean
<1> HIDE DEF t1, t2, w
<1>5. /\ w[1] + t2 * w[3] * r[1] \in Int /\ w[2] + t2 * w[3] * r[2] \in Int
      /\ w[3] * (t1 + t2) \in Int
  BY <1>1, <1>3
<1>6. Vector(r) \in Means
  BY <1>3 DEF Vector, Means
<1> QED
  BY <1>4, <1>5, <1>6, QuotientIsTyped

LEMMA UnsetIsNumber == Unset \in Int
BY SMT DEF Unset

LEMMA InitTypes == Init => TypeInv
<1> SUFFICES ASSUME Init PROVE TypeInv
  OBVIOUS
<1> USE RecordersAssumption
<1>1. SensorInv
  BY DEF Init, SensorInv, class
<1>2. /\ value \in Means /\ gust \in Int \X Int /\ min \in Int /\ max \in Int
  BY UnsetIsNumber DEF Init, Fresh, Vector, Zero, Means
<1>3. taken \in Takes /\ taken.count = 0
  BY DEF Init, Fresh, NothingTaken, Takes, Zero
<1>4. table \in [x : Int, y : Int, duration : Int, samples : Nat]
  BY DEF Init, Fresh, NoRows
<1>5. total \in [x : Int, y : Int, time : Int, lived : Int, exact : BOOLEAN]
  BY DEF Init, Fresh
<1>6. /\ clock \in Int /\ start \in Int /\ lastupdate \in Int /\ samples \in Nat
      /\ isvalid \in BOOLEAN /\ stepped \in BOOLEAN
      /\ pc \in {"packet", "minute"}
      /\ packets = 0 /\ packets \in 0..MaxPackets /\ minutes \in 0..MaxMinutes
  <2>1. /\ clock = 0 /\ start = 0 /\ lastupdate = 0 /\ samples = 0
        /\ pc = "packet" /\ packets = 0 /\ minutes = 0
    BY DEF Init, Fresh
  <2>2. isvalid \in BOOLEAN /\ stepped \in BOOLEAN
    BY Zenon DEF Init, Fresh
  <2>3. MaxPackets \in Nat /\ MaxMinutes \in Nat
    OBVIOUS
  <2> HIDE DEF Init
  <2> QED
    BY <2>1, <2>2, <2>3
<1>7. taken.count <= packets
  BY <1>3, <1>6
<1> HIDE DEF Init
<1> QED
  BY <1>1, <1>2, <1>3, <1>4, <1>5, <1>6, <1>7 DEF TypeInv, Means

\* What an update leaves.
LEMMA UpdateIsTyped ==
  ASSUME TypeInv, NEW now \in Int, NEW r \in Int \X Int, Update(now, r)
  PROVE  /\ start' \in Int /\ lastupdate' \in Int /\ isvalid' = TRUE
         /\ value' \in Means /\ min' \in Int /\ max' \in Int
         /\ gust' \in Int \X Int /\ samples' \in Nat
<1>1. Mean(now, r) \in Means
  BY MeanIsTyped DEF TypeInv, Means
<1>2. Vector(r) \in Means
  BY DEF Vector, Means
<1>3. CASE KeepsExtremes /\ UpdateExtremes(r[1]) /\ UpdateMean(now, r)
  BY <1>1, <1>3 DEF TypeInv, UpdateExtremes, UpdateMean
<1>4. CASE UpdateMean(now, r) /\ UNCHANGED <<min, max>>
  BY <1>1, <1>4 DEF TypeInv, UpdateMean
<1>5. CASE UpdateLast(now, r)
  BY <1>2, <1>5 DEF TypeInv, UpdateLast
<1>6. CASE UpdateStatus(now, r)
  BY <1>2, <1>6 DEF TypeInv, UpdateStatus
<1>7. CASE UpdateWind(now, r)
  BY <1>1, <1>2, <1>7 DEF TypeInv, UpdateWind, UpdateGust
<1> QED
  BY <1>3, <1>4, <1>5, <1>6, <1>7 DEF Update

\* What a step leaves in the account.
LEMMA TakeIsTyped ==
  ASSUME TypeInv, NEW now \in Int, NEW r \in Int \X Int, NEW p, Take(now, r, p)
  PROVE  taken' \in Takes /\ taken'.count = taken.count + 1
<1> DEFINE passed == now - (IF isvalid THEN lastupdate ELSE start)
<1>1. passed \in Int
  BY DEF TypeInv
<1>2. taken' = [sum |-> Plus(taken.sum, Times(passed, r)),
                time |-> taken.time + passed,
                all |-> taken.all \cup {r},
                count |-> taken.count + 1,
                absent |-> taken.absent \/ IsAbsent(p)]
  BY DEF Take
<1> HIDE DEF passed
<1>3. /\ taken.sum \in Int \X Int /\ taken.time \in Int
      /\ taken.all \in SUBSET (Int \X Int) /\ taken.count \in Nat
  BY DEF TypeInv, Takes
<1>4. Plus(taken.sum, Times(passed, r)) \in Int \X Int
  <2>1. /\ r[1] \in Int /\ r[2] \in Int
        /\ taken.sum[1] \in Int /\ taken.sum[2] \in Int
        /\ passed * r[1] \in Int /\ passed * r[2] \in Int
    BY <1>1, <1>3
  <2> QED
    BY <2>1 DEF Plus, Times
<1>5. (taken.absent \/ IsAbsent(p)) \in BOOLEAN
  OBVIOUS
<1> QED
  BY <1>1, <1>2, <1>3, <1>4, <1>5 DEF Takes

LEMMA NextTypes ==
  ASSUME TypeInv, [Next]_vars
  PROVE  TypeInv'
<1> USE RecordersAssumption
<1>1. ASSUME NEW now \in Int, NEW p \in Packets[sensor], NEW r \in Reading(p),
             Passes(now), Update(now, r), Take(now, r, p)
      PROVE  /\ clock' \in Int /\ start' \in Int /\ lastupdate' \in Int
             /\ isvalid' \in BOOLEAN /\ value' \in Means
             /\ min' \in Int /\ max' \in Int
             /\ gust' \in Int \X Int /\ samples' \in Nat
             /\ taken' \in Takes /\ taken'.count <= packets'
             /\ pc' = "minute" /\ packets' \in 0..MaxPackets
             /\ UNCHANGED <<sensor, cal, minutes, table>>
  <2>1. r \in Int \X Int
    BY <1>1, ReadingIsTyped DEF TypeInv
  <2>2. taken' \in Takes /\ taken'.count = taken.count + 1
    BY <1>1, <2>1, TakeIsTyped
  <2>3. /\ pc' = "minute" /\ packets' = packets + 1 /\ packets < MaxPackets
        /\ clock' = now /\ UNCHANGED <<sensor, cal, minutes, table>>
    BY <1>1 DEF Passes
  <2>4. taken'.count <= packets' /\ packets' \in 0..MaxPackets
    <3>1. /\ packets \in 0..MaxPackets /\ taken.count \in Nat
          /\ taken.count <= packets
      BY DEF TypeInv, Takes
    <3> QED
      BY <3>1, <2>2, <2>3
  <2>5. /\ start' \in Int /\ lastupdate' \in Int /\ isvalid' = TRUE
        /\ value' \in Means /\ min' \in Int /\ max' \in Int
        /\ gust' \in Int \X Int /\ samples' \in Nat
    BY <1>1, <2>1, UpdateIsTyped
  <2> QED
    BY <1>1, <2>2, <2>3, <2>4, <2>5
<1>2. ASSUME NEW p \in Packets[sensor], Packet(p)
      PROVE  TypeInv'
  <2>1. PICK gap \in Gaps, r \in Reading(p) :
          /\ Passes(clock + gap)
          /\ Update(clock + gap, r) /\ Take(clock + gap, r, p)
          /\ total' = [total EXCEPT !.lived = @ + gap]
          /\ UNCHANGED stepped
    BY <1>2 DEF Packet
  <2>2. gap \in Int /\ clock + gap \in Int
    BY DEF TypeInv
  <2>3. total' \in [x : Int, y : Int, time : Int, lived : Int, exact : BOOLEAN]
    BY <2>1, <2>2 DEF TypeInv
  <2> QED
    BY <1>1, <2>1, <2>2, <2>3 DEF TypeInv, SensorInv, Means, Takes, class
<1>3. ASSUME NEW p \in Packets[sensor], PacketAfterSetBack(p)
      PROVE  TypeInv'
  <2>1. PICK back \in Backs, r \in Reading(p) :
          /\ Passes(clock - back)
          /\ Update(clock - back, r) /\ Take(clock - back, r, p)
          /\ stepped' = TRUE
          /\ UNCHANGED total
    BY <1>3 DEF PacketAfterSetBack
  <2>2. back \in Int /\ clock - back \in Int
    <3>1. back \in Nat
      OBVIOUS
    <3> QED
      BY <3>1 DEF TypeInv
  <2> QED
    BY <1>1, <2>1, <2>2 DEF TypeInv, SensorInv, Means, Takes, class
<1>4. ASSUME NEW p \in Packets[sensor], Unreadable(p)
      PROVE  TypeInv'
  <2>1. PICK gap \in Gaps :
          /\ Passes(clock + gap)
          /\ total' = [total EXCEPT !.lived = @ + gap]
          /\ UNCHANGED <<recorder, taken, stepped>>
    BY <1>4 DEF Unreadable
  <2>2. gap \in Int /\ clock + gap \in Int
    BY DEF TypeInv
  <2>3. total' \in [x : Int, y : Int, time : Int, lived : Int, exact : BOOLEAN]
    BY <2>1, <2>2 DEF TypeInv
  <2>4. taken'.count <= packets' /\ packets' \in 0..MaxPackets
    <3>1. /\ packets \in 0..MaxPackets /\ taken.count \in Nat
          /\ taken.count <= packets
      BY DEF TypeInv, Takes
    <3> QED
      BY <3>1, <2>1 DEF Passes
  <2> QED
    BY <2>1, <2>2, <2>3, <2>4 DEF TypeInv, SensorInv, Passes, recorder, class
<1>5. ASSUME NewMinute
      PROVE  TypeInv'
  <2>1. table' \in [x : Int, y : Int, duration : Int, samples : Nat]
    <3>1. Duration \in Int /\ value \in Means
      BY DEF TypeInv, Duration, Means
    <3>2. Scaled(Duration, value) \in Means
      BY <3>1, ScaledIsTyped
    <3>3. WindRow \in [x : Int, y : Int, duration : Int, samples : Nat]
      BY <3>1, <3>2 DEF WindRow, Means, TypeInv
    <3>4. Sum(WindRow) \in [x : Int, y : Int, duration : Int, samples : Nat]
      BY <3>3 DEF Sum, TypeInv
    <3> QED
      BY <1>5, <3>4 DEF NewMinute, TypeInv
  <2>2. /\ total' \in [x : Int, y : Int, time : Int, lived : Int, exact : BOOLEAN]
        /\ taken' = NothingTaken
        /\ minutes' \in 0..MaxMinutes
    BY <1>5 DEF NewMinute, TypeInv, Takes
  <2>3. /\ start' \in Int /\ lastupdate' \in Int /\ isvalid' = FALSE
        /\ value' \in Means /\ min' \in Int /\ max' \in Int
        /\ gust' \in Int \X Int /\ samples' \in Nat
    BY <1>5, UnsetIsNumber
    DEF NewMinute, Reset, ResetExtremes, ResetGust, TypeInv, Vector, Zero, Means
  <2>4. taken' \in Takes /\ taken'.count <= packets
    BY <2>2 DEF NothingTaken, Takes, Zero, TypeInv
  <2> QED
    BY <1>5, <2>1, <2>2, <2>3, <2>4
    DEF NewMinute, TypeInv, SensorInv, Means, class
<1>6. CASE SameMinute
  BY <1>6 DEF SameMinute, TypeInv, SensorInv, recorder, account, class
<1>7. CASE UNCHANGED vars
  BY <1>7 DEF vars, TypeInv, SensorInv, recorder, account, class
<1> QED
  BY <1>2, <1>3, <1>4, <1>5, <1>6, <1>7 DEF Next
-----------------------------------------------------------------------------
(* The inductive invariant                                                 *)

\* Before the first reading of a minute nothing is in the account, and what
\* is read is a value; a field that is clipped is a percentage.
TakenInv ==
  /\ IF isvalid THEN taken.all # {} ELSE taken = NothingTaken
  /\ ~taken.absent
  /\ sensor.field \in ClippedFields => \A r \in taken.all : r[1] \in 0..100

\* Unless the clock was set back, time goes on from the reset to the last
\* reading, and from that to now.
ClockInv ==
  ~stepped =>
    /\ IF isvalid THEN lastupdate <= clock ELSE start <= clock
    /\ taken.time >= 0
    /\ isvalid /\ (KeepsMean \/ KeepsWind) =>
         /\ taken.time = lastupdate - start
         /\ \E h \in Gaps : h <= taken.time

\* The mean is the sum of the account over its time, or the first reading.
MeanInv ==
  isvalid /\ ~stepped /\ (KeepsMean \/ KeepsWind) =>
    \/ value = <<taken.sum[1], taken.sum[2], taken.time>>
    \/ \E r \in taken.all : value = Vector(r) /\ taken.sum = Times(taken.time, r)

\* A recorder that does not average has one of the readings.
LastInv ==
  isvalid /\ (KeepsLast \/ KeepsStatus) => \E r \in taken.all : value = Vector(r)

\* The sum is as long as what bounds each reading allows.
SumInv ==
  ~stepped =>
    \A lo, hi \in Int :
      (\A r \in taken.all : lo <= r[1] /\ r[1] <= hi)
        => lo * taken.time <= taken.sum[1] /\ taken.sum[1] <= hi * taken.time

SquareInv ==
  ~stepped =>
    \A g \in Nat :
      (\A r \in taken.all : Square(r) <= g)
        => Square(taken.sum) <= g * (taken.time * taken.time)

ExtremesInv ==
  IF KeepsExtremes
  THEN isvalid => /\ \A r \in taken.all : min <= r[1] /\ r[1] <= max
                  /\ \E r \in taken.all : r[1] = min
                  /\ \E r \in taken.all : r[1] = max
  ELSE min = Unset /\ max = -Unset

GustInv ==
  isvalid /\ KeepsWind =>
    gust \in taken.all /\ \A r \in taken.all : Square(r) <= Square(gust)

\* The rows sent are the sums of their minutes, which do not overlap.
TotalInv ==
  KeepsWind /\ total.exact =>
    /\ table.x = total.x /\ table.y = total.y /\ table.duration = total.time
    /\ ~stepped => clock = total.lived /\ total.time <= start

-----------------------------------------------------------------------------
(* The steps                                                               *)

\* A reading is taken: time has passed, or the clock was set back.
Reads(now, r) ==
  /\ now \in Int /\ r \in Int \X Int
  /\ sensor.field \in ClippedFields => r[1] \in 0..100
  /\ Update(now, r)
  /\ \E p : ~IsAbsent(p) /\ Take(now, r, p)
  /\ clock' = now /\ UNCHANGED <<sensor, cal, table>>
  /\ \/ \E gap \in Gaps :
          /\ now = clock + gap /\ total' = [total EXCEPT !.lived = @ + gap]
          /\ stepped' = stepped
     \/ stepped' = TRUE /\ total' = total

\* Only time passes, if anything happens.
Idles ==
  /\ \E d \in Nat : clock' = clock + d /\ total' = [total EXCEPT !.lived = @ + d]
  /\ UNCHANGED <<sensor, cal, recorder, taken, stepped, table>>

LEMMA Steps ==
  ASSUME TypeInv, [Next]_vars
  PROVE  \/ \E now, r : Reads(now, r)
         \/ NewMinute
         \/ Idles
<1> USE RecordersAssumption
<1>1. ASSUME NEW p \in Packets[sensor], Packet(p)
      PROVE  \E now, r : Reads(now, r)
  <2>1. PICK gap \in Gaps, r \in Reading(p) :
          /\ Passes(clock + gap)
          /\ Update(clock + gap, r) /\ Take(clock + gap, r, p)
          /\ total' = [total EXCEPT !.lived = @ + gap]
          /\ UNCHANGED stepped
    BY <1>1 DEF Packet
  <2>2. gap \in Int /\ clock + gap \in Int
    BY DEF TypeInv
  <2>3. /\ r \in Int \X Int /\ ~IsAbsent(p)
        /\ sensor.field \in ClippedFields => r[1] \in 0..100
    BY ReadingIsTyped DEF TypeInv
  <2>4. Reads(clock + gap, r)
    BY <2>1, <2>2, <2>3 DEF Reads, Passes
  <2> QED
    BY <2>4
<1>2. ASSUME NEW p \in Packets[sensor], PacketAfterSetBack(p)
      PROVE  \E now, r : Reads(now, r)
  <2>1. PICK back \in Backs, r \in Reading(p) :
          /\ Passes(clock - back)
          /\ Update(clock - back, r) /\ Take(clock - back, r, p)
          /\ stepped' = TRUE
          /\ UNCHANGED total
    BY <1>2 DEF PacketAfterSetBack
  <2>2. clock - back \in Int
    <3>1. back \in Nat
      OBVIOUS
    <3> QED
      BY <3>1 DEF TypeInv
  <2>3. /\ r \in Int \X Int /\ ~IsAbsent(p)
        /\ sensor.field \in ClippedFields => r[1] \in 0..100
    BY ReadingIsTyped DEF TypeInv
  <2>4. Reads(clock - back, r)
    BY <2>1, <2>2, <2>3 DEF Reads, Passes
  <2> QED
    BY <2>4
<1>3. ASSUME NEW p \in Packets[sensor], Unreadable(p)
      PROVE  Idles
  <2>1. PICK gap \in Gaps :
          /\ Passes(clock + gap)
          /\ total' = [total EXCEPT !.lived = @ + gap]
          /\ UNCHANGED <<recorder, taken, stepped>>
    BY <1>3 DEF Unreadable
  <2> QED
    BY <2>1 DEF Idles, Passes
<1>4. ASSUME UNCHANGED <<sensor, cal, clock, recorder, table, account>>
      PROVE  Idles
  <2>1. clock' = clock + 0 /\ total' = [total EXCEPT !.lived = @ + 0]
    <3>1. clock \in Int /\ total.lived \in Int
      BY DEF TypeInv
    <3>2. total = [total EXCEPT !.lived = @ + 0]
      BY <3>1 DEF TypeInv
    <3> QED
      BY <1>4, <3>1, <3>2 DEF account
  <2> QED
    BY <1>4, <2>1 DEF Idles, account
<1> QED
  BY <1>1, <1>2, <1>3, <1>4 DEF Next, SameMinute, vars

\* What a reading leaves.
LEMMA ReadTakes ==
  ASSUME TypeInv, TakenInv, ClockInv, NEW now, NEW r, Reads(now, r)
  PROVE  /\ isvalid' = TRUE /\ lastupdate' = now
         /\ taken'.all = taken.all \cup {r}
         /\ ~taken'.absent
         /\ ~stepped' =>
              /\ ~stepped
              /\ \E t \in Nat :
                   /\ t = now - (IF isvalid THEN lastupdate ELSE start)
                   /\ \E gap \in Gaps : gap <= t
                   /\ taken'.time = taken.time + t
                   /\ taken'.sum = Plus(taken.sum, Times(t, r))
<1> USE RecordersAssumption
<1>1. isvalid' = TRUE /\ lastupdate' = now
  <2>1. Update(now, r)
    BY DEF Reads
  <2> QED
    BY <2>1 DEF Update, UpdateMean, UpdateLast, UpdateStatus, UpdateWind
<1>2. PICK p : ~IsAbsent(p) /\ Take(now, r, p)
  BY DEF Reads
<1> DEFINE passed == now - (IF isvalid THEN lastupdate ELSE start)
<1>3. /\ taken'.all = taken.all \cup {r}
      /\ taken'.time = taken.time + passed
      /\ taken'.sum = Plus(taken.sum, Times(passed, r))
      /\ taken'.absent = (taken.absent \/ IsAbsent(p))
  BY <1>2 DEF Take
<1>4. ~taken'.absent
  BY <1>2, <1>3 DEF TakenInv
<1>5. ASSUME ~stepped'
      PROVE  ~stepped /\ passed \in Nat /\ \E gap \in Gaps : gap <= passed
  <2>1. PICK gap \in Gaps : now = clock + gap /\ stepped' = stepped
    BY <1>5 DEF Reads
  <2>2. ~stepped
    BY <1>5, <2>1
  <2>3. gap \in Nat /\ clock \in Int /\ start \in Int /\ lastupdate \in Int
    BY DEF TypeInv
  <2>4. IF isvalid THEN lastupdate <= clock ELSE start <= clock
    BY <2>2 DEF ClockInv
  <2> QED
    BY <2>1, <2>2, <2>3, <2>4
<1> HIDE DEF passed
<1>6. ASSUME ~stepped'
      PROVE  \E t \in Nat :
               /\ t = now - (IF isvalid THEN lastupdate ELSE start)
               /\ \E gap \in Gaps : gap <= t
               /\ taken'.time = taken.time + t
               /\ taken'.sum = Plus(taken.sum, Times(t, r))
  BY <1>3, <1>5, <1>6 DEF passed
<1> QED
  BY <1>1, <1>3, <1>4, <1>5, <1>6

LEMMA MinuteForgets ==
  ASSUME NewMinute
  PROVE  /\ ~isvalid' /\ ~stepped' /\ taken' = NothingTaken
         /\ start' = clock /\ clock' = clock
         /\ taken'.sum = Zero /\ taken'.time = 0 /\ taken'.all = {}
         /\ ~taken'.absent
         /\ UNCHANGED <<sensor, cal>>
<1>1. /\ isvalid' = FALSE /\ stepped' = FALSE /\ taken' = NothingTaken
      /\ start' = clock /\ clock' = clock /\ UNCHANGED <<sensor, cal>>
  BY DEF NewMinute, Reset
<1> QED
  BY <1>1 DEF NothingTaken

LEMMA TakenKept ==
  ASSUME TypeInv, TakenInv, ClockInv, [Next]_vars
  PROVE  TakenInv'
<1>1. ASSUME NEW now, NEW r, Reads(now, r)
      PROVE  TakenInv'
  <2>1. /\ isvalid' = TRUE /\ taken'.all = taken.all \cup {r} /\ ~taken'.absent
    BY <1>1, ReadTakes
  <2>2. sensor' = sensor /\ (sensor.field \in ClippedFields => r[1] \in 0..100)
    BY <1>1 DEF Reads
  <2> QED
    BY <2>1, <2>2 DEF TakenInv
<1>2. CASE NewMinute
  BY <1>2, MinuteForgets DEF TakenInv
<1>3. CASE Idles
  BY <1>3 DEF Idles, recorder, TakenInv
<1> QED
  BY <1>1, <1>2, <1>3, Steps

LEMMA ClockKept ==
  ASSUME TypeInv, TakenInv, ClockInv, [Next]_vars
  PROVE  ClockInv'
<1> USE RecordersAssumption
<1>0. clock \in Int /\ start \in Int /\ lastupdate \in Int /\ taken.time \in Int
  BY DEF TypeInv, Takes
<1>1. ASSUME NEW now, NEW r, Reads(now, r), ~stepped'
      PROVE  ClockInv'
  <2>1. isvalid' = TRUE /\ lastupdate' = now /\ ~stepped
    BY <1>1, ReadTakes
  <2>2. PICK t \in Nat :
          /\ t = now - (IF isvalid THEN lastupdate ELSE start)
          /\ \E gap \in Gaps : gap <= t
          /\ taken'.time = taken.time + t
    BY <1>1, ReadTakes
  <2>3. clock' = now /\ now \in Int /\ sensor' = sensor
    BY <1>1 DEF Reads
  <2>4. taken.time >= 0
    BY <2>1 DEF ClockInv
  <2>5. ASSUME KeepsMean \/ KeepsWind
        PROVE  /\ taken'.time = lastupdate' - start'
               /\ \E h \in Gaps : h <= taken'.time
    <3>1. start' = start
      <4>1. Update(now, r)
        BY <1>1 DEF Reads
      <4>2. ~KeepsLast /\ ~KeepsStatus
        BY <2>5 DEF KeepsMean, KeepsWind, KeepsLast, KeepsStatus, KeepsExtremes
      <4> QED
        BY <4>1, <4>2 DEF Update, UpdateMean, UpdateWind
    <3>2. CASE isvalid
      <4>1. taken.time = lastupdate - start /\ \E h \in Gaps : h <= taken.time
        BY <2>1, <2>5, <3>2 DEF ClockInv
      <4>2. t = now - lastupdate
        BY <2>2, <3>2
      <4>3. taken'.time = lastupdate' - start'
        BY <1>0, <2>1, <2>2, <2>3, <3>1, <4>1, <4>2
      <4>4. taken.time <= taken'.time
        BY <1>0, <2>2
      <4>5. PICK h \in Gaps : h <= taken.time
        BY <4>1
      <4>6. h <= taken'.time
        <5>1. h \in Nat
          OBVIOUS
        <5>2. taken'.time \in Int
          BY <1>0, <2>2
        <5> QED
          BY <1>0, <4>4, <4>5, <5>1, <5>2
      <4> QED
        BY <4>3, <4>6
    <3>3. CASE ~isvalid
      <4>1. taken.time = 0
        BY <3>3 DEF TakenInv, NothingTaken
      <4> QED
        BY <1>0, <2>1, <2>2, <2>3, <3>1, <3>3, <4>1
    <3> QED
      BY <3>2, <3>3
  <2>6. (KeepsMean \/ KeepsWind)' <=> (KeepsMean \/ KeepsWind)
    BY <2>3 DEF KeepsMean, KeepsWind, KeepsExtremes, class
  <2>7. taken'.time >= 0
    BY <1>0, <2>2, <2>4
  <2> QED
    BY <2>1, <2>3, <2>5, <2>6, <2>7 DEF ClockInv
<1>2. CASE NewMinute
  BY <1>0, <1>2, MinuteForgets DEF ClockInv
<1>3. CASE Idles
  <2>1. PICK d \in Nat : clock' = clock + d
    BY <1>3 DEF Idles
  <2>2. /\ isvalid' = isvalid /\ stepped' = stepped /\ taken' = taken
        /\ lastupdate' = lastupdate /\ start' = start /\ sensor' = sensor
    BY <1>3 DEF Idles, recorder
  <2>3. (KeepsMean \/ KeepsWind)' <=> (KeepsMean \/ KeepsWind)
    BY <2>2 DEF KeepsMean, KeepsWind, KeepsExtremes, class
  <2>4. (lastupdate <= clock => lastupdate <= clock + d)
        /\ (start <= clock => start <= clock + d)
    BY <1>0
  <2> QED
    BY <2>1, <2>2, <2>3, <2>4 DEF ClockInv
<1>4. ASSUME stepped' PROVE ClockInv'
  BY <1>4 DEF ClockInv
<1> QED
  BY <1>1, <1>2, <1>3, <1>4, Steps

LEMMA DivideBySelf ==
  ASSUME NEW t \in Nat, t > 0
  PROVE  t % t = 0 /\ t \div t = 1 /\ t % 1 = 0 /\ t \div 1 = t
BY SMT

\* A mean of the account, times its time, is its sum.
LEMMA ScaledIsSum ==
  ASSUME NEW t \in Nat, t > 0, NEW s \in Int \X Int, NEW v,
         \/ v = <<s[1], s[2], t>>
         \/ \E r \in Int \X Int : v = Vector(r) /\ s = Times(t, r)
  PROVE  Scaled(t, v) = Vector(s)
<1>0. s[1] \in Int /\ s[2] \in Int
  OBVIOUS
<1>1. CASE v = <<s[1], s[2], t>>
  <2>1. v[1] = s[1] /\ v[2] = s[2] /\ v[3] = t
    BY <1>1
  <2>2. Scaled(t, v) = <<(t \div t) * v[1], (t \div t) * v[2], 1>>
    BY <2>1, DivideBySelf DEF Scaled
  <2>3. (t \div t) * v[1] = s[1] /\ (t \div t) * v[2] = s[2]
    BY <1>0, <2>1, DivideBySelf
  <2> QED
    BY <2>2, <2>3 DEF Vector
<1>2. ASSUME NEW r \in Int \X Int, v = Vector(r), s = Times(t, r)
      PROVE  Scaled(t, v) = Vector(s)
  <2>1. v[1] = r[1] /\ v[2] = r[2] /\ v[3] = 1
    BY <1>2 DEF Vector
  <2>2. Scaled(t, v) = <<(t \div 1) * v[1], (t \div 1) * v[2], 1>>
    BY <2>1, DivideBySelf DEF Scaled
  <2>3. s[1] = t * r[1] /\ s[2] = t * r[2]
    BY <1>2 DEF Times
  <2>4. t \div 1 = t
    BY DivideBySelf
  <2> QED
    BY <2>1, <2>2, <2>3, <2>4 DEF Vector
<1> QED
  BY <1>1, <1>2

\* What the time and the mean are like at any moment of a minute.
LEMMA SumIsMean ==
  ASSUME TypeInv, TakenInv, ClockInv, MeanInv,
         isvalid, ~stepped, KeepsMean \/ KeepsWind
  PROVE  /\ taken.time \in Nat /\ taken.time > 0 /\ Duration = taken.time
         /\ Scaled(Duration, value) = Vector(taken.sum)
<1>1. taken.time \in Nat /\ taken.time > 0 /\ Duration = taken.time
  <2>1. /\ taken.time = lastupdate - start
        /\ \E h \in Gaps : h <= taken.time
    BY DEF ClockInv
  <2>2. taken.time \in Int
    BY DEF TypeInv, Takes
  <2> QED
    BY <2>1, <2>2, RecordersAssumption DEF Duration
<1>2. taken.sum \in Int \X Int /\ taken.all \subseteq Int \X Int
  BY DEF TypeInv, Takes
<1>3. \/ value = <<taken.sum[1], taken.sum[2], taken.time>>
      \/ \E r \in Int \X Int : value = Vector(r) /\ taken.sum = Times(taken.time, r)
  BY <1>2 DEF MeanInv
<1> QED
  BY <1>1, <1>2, <1>3, ScaledIsSum

LEMMA MeanKept ==
  ASSUME TypeInv, TakenInv, ClockInv, MeanInv, [Next]_vars
  PROVE  MeanInv'
<1> USE RecordersAssumption
<1>1. ASSUME NEW now, NEW r, Reads(now, r), ~stepped', KeepsMean \/ KeepsWind
      PROVE  \/ value' = <<taken'.sum[1], taken'.sum[2], taken'.time>>
             \/ \E q \in taken'.all :
                  value' = Vector(q) /\ taken'.sum = Times(taken'.time, q)
  <2>1. ~stepped /\ taken'.all = taken.all \cup {r}
    BY <1>1, ReadTakes
  <2>2. PICK t \in Nat :
          /\ t = now - (IF isvalid THEN lastupdate ELSE start)
          /\ \E gap \in Gaps : gap <= t
          /\ taken'.time = taken.time + t
          /\ taken'.sum = Plus(taken.sum, Times(t, r))
    BY <1>1, ReadTakes
  <2>3. now \in Int /\ r[1] \in Int /\ r[2] \in Int
    BY <1>1 DEF Reads
  <2>4. value' = Mean(now, r)
        \/ value' = IF isvalid /\ Duration + (now - lastupdate) > Short
                    THEN Mean(now, r) ELSE Vector(r)
    <3>1. Update(now, r)
      BY <1>1 DEF Reads
    <3>2. ~KeepsLast /\ ~KeepsStatus
      BY <1>1 DEF KeepsMean, KeepsWind, KeepsLast, KeepsStatus, KeepsExtremes
    <3> QED
      BY <3>1, <3>2 DEF Update, UpdateMean, UpdateWind
  <2>5. CASE ~isvalid
    <3>1. value' = Vector(r)
      BY <2>4, <2>5 DEF Mean
    <3>2. taken.sum = Zero /\ taken.time = 0
      BY <2>5 DEF TakenInv, NothingTaken
    <3>3. taken'.sum = Times(taken'.time, r)
      BY <2>2, <2>3, <3>2 DEF Plus, Times, Zero
    <3> QED
      BY <2>1, <3>1, <3>3
  <2>6. CASE isvalid
    <3> DEFINE T == taken.time
    <3>1. /\ T \in Nat /\ T > 0 /\ Duration = T
          /\ Scaled(Duration, value) = Vector(taken.sum)
      BY <1>1, <2>1, <2>6, SumIsMean
    <3>2. t = now - lastupdate
      BY <2>2, <2>6
    <3>3. Duration + (now - lastupdate) > Short
      <4>1. PICK h \in Gaps : h <= T
        BY <1>1, <2>1, <2>6 DEF ClockInv
      <4>2. PICK gap \in Gaps : gap <= t
        BY <2>2
      <4>3. h + gap > Short /\ h \in Nat /\ gap \in Nat /\ Short \in Nat
        OBVIOUS
      <4> QED
        BY <3>1, <3>2, <4>1, <4>2, <4>3
    <3>4. value' = Mean(now, r)
      BY <2>4, <2>6, <3>3
    <3>5. /\ taken.sum[1] \in Int /\ taken.sum[2] \in Int
      BY DEF TypeInv, Takes
    <3>6. Mean(now, r) = Quotient(taken.sum[1] + t * 1 * r[1],
                                  taken.sum[2] + t * 1 * r[2], 1 * (T + t))
      <4>1. Scaled(lastupdate - start, value) = Vector(taken.sum)
            /\ lastupdate - start = T
        BY <3>1 DEF Duration
      <4>2. /\ Vector(taken.sum)[1] = taken.sum[1]
            /\ Vector(taken.sum)[2] = taken.sum[2] /\ Vector(taken.sum)[3] = 1
        BY DEF Vector
      <4> QED
        BY <2>6, <3>2, <4>1, <4>2 DEF Mean
    <3>7. /\ taken.sum[1] + t * 1 * r[1] = taken.sum[1] + t * r[1]
          /\ taken.sum[2] + t * 1 * r[2] = taken.sum[2] + t * r[2]
          /\ 1 * (T + t) = T + t /\ T + t > 0
      BY <2>3, <3>1, <3>5
    <3>8. value' = <<taken.sum[1] + t * r[1], taken.sum[2] + t * r[2], T + t>>
      BY <3>4, <3>6, <3>7 DEF Quotient
    <3>9. /\ taken'.sum[1] = taken.sum[1] + t * r[1]
          /\ taken'.sum[2] = taken.sum[2] + t * r[2]
      BY <2>2 DEF Plus, Times
    <3> QED
      BY <2>2, <3>8, <3>9
  <2> QED
    BY <2>5, <2>6
<1>2. ASSUME NEW now, NEW r, Reads(now, r)
      PROVE  MeanInv'
  <2>1. (KeepsMean \/ KeepsWind)' <=> (KeepsMean \/ KeepsWind)
    BY <1>2 DEF Reads, KeepsMean, KeepsWind, KeepsExtremes, class
  <2> QED
    BY <1>1, <1>2, <2>1 DEF MeanInv
<1>3. CASE NewMinute
  BY <1>3, MinuteForgets DEF MeanInv
<1>4. CASE Idles
  BY <1>4 DEF Idles, recorder, MeanInv, KeepsMean, KeepsWind, KeepsExtremes, class
<1> QED
  BY <1>2, <1>3, <1>4, Steps

LEMMA LastKept ==
  ASSUME TypeInv, TakenInv, ClockInv, LastInv, [Next]_vars
  PROVE  LastInv'
<1>1. ASSUME NEW now, NEW r, Reads(now, r)
      PROVE  LastInv'
  <2>1. taken'.all = taken.all \cup {r}
    BY <1>1, ReadTakes
  <2>2. (KeepsLast \/ KeepsStatus)' <=> (KeepsLast \/ KeepsStatus)
    BY <1>1 DEF Reads, KeepsLast, KeepsStatus, class
  <2>3. ASSUME KeepsLast \/ KeepsStatus
        PROVE  value' = Vector(r)
    <3>1. Update(now, r)
      BY <1>1 DEF Reads
    <3>2. ~KeepsMean /\ ~KeepsWind /\ ~KeepsExtremes
      BY <2>3 DEF KeepsMean, KeepsWind, KeepsLast, KeepsStatus, KeepsExtremes
    <3> QED
      BY <3>1, <3>2 DEF Update, UpdateLast, UpdateStatus
  <2> QED
    BY <2>1, <2>2, <2>3 DEF LastInv
<1>2. CASE NewMinute
  BY <1>2, MinuteForgets DEF LastInv
<1>3. CASE Idles
  BY <1>3 DEF Idles, recorder, LastInv, KeepsLast, KeepsStatus, class
<1> QED
  BY <1>1, <1>2, <1>3, Steps

LEMMA ExtremesKept ==
  ASSUME TypeInv, TakenInv, ClockInv, ExtremesInv, [Next]_vars
  PROVE  ExtremesInv'
<1>1. ASSUME NEW now, NEW r, Reads(now, r)
      PROVE  ExtremesInv'
  <2>1. isvalid' = TRUE /\ taken'.all = taken.all \cup {r}
    BY <1>1, ReadTakes
  <2>2. KeepsExtremes' <=> KeepsExtremes
    BY <1>1 DEF Reads, KeepsExtremes, class
  <2>3. Update(now, r) /\ r[1] \in Int
    BY <1>1 DEF Reads
  <2>4. CASE KeepsExtremes
    <3>1. UpdateExtremes(r[1])
      <4>1. ~KeepsLast /\ ~KeepsStatus /\ ~KeepsWind
        BY <2>4 DEF KeepsWind, KeepsLast, KeepsStatus, KeepsExtremes
      <4> QED
        BY <2>3, <2>4, <4>1 DEF Update
    <3>2. min \in Int /\ max \in Int /\ taken.all \subseteq Int \X Int
      BY DEF TypeInv, Takes
    <3>3. CASE ~isvalid
      <4>1. min' = r[1] /\ max' = r[1] /\ taken'.all = {r}
        BY <2>1, <3>1, <3>3 DEF UpdateExtremes, TakenInv, NothingTaken
      <4> QED
        BY <2>2, <2>3, <2>4, <4>1 DEF ExtremesInv
    <3>4. CASE isvalid
      <4>1. /\ \A q \in taken.all : min <= q[1] /\ q[1] <= max
            /\ \E q \in taken.all : q[1] = min
            /\ \E q \in taken.all : q[1] = max
        BY <2>4, <3>4 DEF ExtremesInv
      <4>2. /\ max' = IF r[1] > max THEN r[1] ELSE max
            /\ min' = IF r[1] < min THEN r[1] ELSE min
        BY <3>1, <3>4 DEF UpdateExtremes
      <4>3. \A q \in taken'.all : min' <= q[1] /\ q[1] <= max'
        <5> SUFFICES ASSUME NEW q \in taken'.all PROVE min' <= q[1] /\ q[1] <= max'
          OBVIOUS
        <5>1. CASE q = r
          BY <2>3, <3>2, <4>2, <5>1
        <5>2. CASE q \in taken.all
          BY <2>3, <3>2, <4>1, <4>2, <5>2
        <5> QED
          BY <2>1, <5>1, <5>2
      <4>4. \E q \in taken'.all : q[1] = min'
        BY <2>1, <4>1, <4>2
      <4>5. \E q \in taken'.all : q[1] = max'
        BY <2>1, <4>1, <4>2
      <4> QED
        BY <2>2, <2>4, <4>3, <4>4, <4>5 DEF ExtremesInv
    <3> QED
      BY <3>3, <3>4
  <2>5. CASE ~KeepsExtremes
    <3>1. min' = min /\ max' = max
      BY <2>3, <2>5 DEF Update, UpdateLast, UpdateStatus, UpdateWind
    <3> QED
      BY <2>2, <2>5, <3>1 DEF ExtremesInv
  <2> QED
    BY <2>4, <2>5
<1>2. CASE NewMinute
  <2>1. KeepsExtremes' <=> KeepsExtremes
    BY <1>2, MinuteForgets DEF KeepsExtremes, class
  <2>2. ~isvalid'
    BY <1>2, MinuteForgets
  <2>3. ASSUME ~KeepsExtremes PROVE min' = min /\ max' = max
    BY <1>2, <2>3 DEF NewMinute, Reset, ResetExtremes
  <2> QED
    BY <2>1, <2>2, <2>3 DEF ExtremesInv
<1>3. CASE Idles
  BY <1>3 DEF Idles, recorder, ExtremesInv, KeepsExtremes, class
<1> QED
  BY <1>1, <1>2, <1>3, Steps

LEMMA SquareIsNat ==
  ASSUME NEW r \in Int \X Int
  PROVE  Square(r) \in Nat
<1>1. \A x \in Int : x * x \in Nat
  OBVIOUS
<1> QED
  BY <1>1 DEF Square

LEMMA GustKept ==
  ASSUME TypeInv, TakenInv, ClockInv, GustInv, [Next]_vars
  PROVE  GustInv'
<1>1. ASSUME NEW now, NEW r, Reads(now, r)
      PROVE  GustInv'
  <2>1. isvalid' = TRUE /\ taken'.all = taken.all \cup {r}
    BY <1>1, ReadTakes
  <2>2. KeepsWind' <=> KeepsWind
    BY <1>1 DEF Reads, KeepsWind, class
  <2>3. ASSUME KeepsWind
        PROVE  gust' \in taken'.all /\ \A q \in taken'.all : Square(q) <= Square(gust')
    <3>1. UpdateGust(r)
      <4>1. Update(now, r)
        BY <1>1 DEF Reads
      <4>2. ~KeepsLast /\ ~KeepsStatus /\ ~KeepsMean /\ ~KeepsExtremes
        BY <2>3 DEF KeepsMean, KeepsWind, KeepsLast, KeepsStatus, KeepsExtremes
      <4> QED
        BY <4>1, <4>2 DEF Update, UpdateWind
    <3>2. /\ Square(r) \in Nat /\ Square(gust) \in Nat
          /\ \A q \in taken.all : Square(q) \in Nat
      BY <1>1, SquareIsNat DEF TypeInv, Takes, Reads
    <3>3. CASE ~isvalid
      <4>1. taken'.all = {r} /\ gust' = r
        BY <2>1, <3>1, <3>3 DEF TakenInv, NothingTaken, UpdateGust
      <4> QED
        BY <3>2, <4>1
    <3>4. CASE isvalid
      <4>1. gust \in taken.all /\ \A q \in taken.all : Square(q) <= Square(gust)
        BY <2>3, <3>4 DEF GustInv
      <4>2. gust' = IF Square(r) > Square(gust) THEN r ELSE gust
        BY <3>1, <3>4 DEF UpdateGust
      <4>3. CASE Square(r) > Square(gust)
        <5>1. gust' = r
          BY <4>2, <4>3
        <5>2. \A q \in taken.all : Square(q) <= Square(r)
          BY <3>2, <4>1, <4>3
        <5> QED
          BY <2>1, <3>2, <5>1, <5>2
      <4>4. CASE ~(Square(r) > Square(gust))
        <5>1. gust' = gust /\ Square(r) <= Square(gust)
          BY <3>2, <4>2, <4>4
        <5> QED
          BY <2>1, <4>1, <5>1
      <4> QED
        BY <4>3, <4>4
    <3> QED
      BY <3>3, <3>4
  <2> QED
    BY <2>2, <2>3 DEF GustInv
<1>2. CASE NewMinute
  BY <1>2, MinuteForgets DEF GustInv
<1>3. CASE Idles
  BY <1>3 DEF Idles, recorder, GustInv, KeepsWind, class
<1> QED
  BY <1>1, <1>2, <1>3, Steps

LEMMA TimesKeepsOrder ==
  ASSUME NEW k \in Nat, NEW u \in Int, NEW v \in Int, u <= v
  PROVE  k * u <= k * v
BY SMT

LEMMA TimesReflectsOrder ==
  ASSUME NEW k \in Nat, k > 0, NEW u \in Int, NEW v \in Int, k * u <= k * v
  PROVE  u <= v
<1>1. ASSUME u >= v + 1 PROVE k * u >= k * v + k
  <2>1. k * (v + 1) <= k * u
    BY <1>1, TimesKeepsOrder
  <2> QED
    BY <2>1
<1> QED
  BY <1>1

\* A sum of vectors none of which is longer than the root of g, each times its
\* weight, is not longer than that root times the weights: the inequality of
\* Cauchy and Schwarz, for one more vector.
LEMMA SumIsNotLonger ==
  ASSUME NEW g \in Nat, NEW T \in Nat, NEW t \in Nat,
         NEW a \in Int, NEW b \in Int, NEW x \in Int, NEW y \in Int,
         a * a + b * b <= g * (T * T), x * x + y * y <= g
  PROVE  (a + t * x) * (a + t * x) + (b + t * y) * (b + t * y)
           <= g * ((T + t) * (T + t))
<1> DEFINE n == a * a + b * b
           m == x * x + y * y
           p == a * x + b * y
<1>0. n \in Int /\ m \in Int /\ p \in Int /\ T * T \in Nat /\ t * t \in Nat
      /\ n <= g * (T * T) /\ m <= g /\ g * T \in Int
  BY SMT
<1>1. 2 * (T * p) <= n + (T * T) * m
  <2>1. (a - T * x) * (a - T * x) >= 0 /\ (b - T * y) * (b - T * y) >= 0
    <3>1. \A z \in Int : z * z >= 0
      BY SMT
    <3>2. a - T * x \in Int /\ b - T * y \in Int
      BY SMT
    <3> QED
      BY <3>1, <3>2
  <2>2. (a - T * x) * (a - T * x) + (b - T * y) * (b - T * y)
          = n - 2 * (T * p) + (T * T) * m
    BY SMT
  <2> DEFINE u == (a - T * x) * (a - T * x)
             w == (b - T * y) * (b - T * y)
             h == T * p
             k == (T * T) * m
  <2>3. u \in Int /\ w \in Int /\ h \in Int /\ k \in Int
    BY SMT, <1>0
  <2>4. u + w = n - 2 * h + k /\ u >= 0 /\ w >= 0
    BY <2>1, <2>2
  <2> HIDE DEF u, w, h, k, n
  <2>5. 2 * h <= n + k
    BY <1>0, <2>3, <2>4
  <2> QED
    BY <2>5 DEF h, k
<1>2. (T * T) * m <= (T * T) * g
  BY <1>0, TimesKeepsOrder
<1>3. T * p <= T * (g * T)
  <2>1. (T * T) * g = T * (g * T) /\ g * (T * T) = T * (g * T)
    BY SMT
  <2> DEFINE h == T * p
             k == (T * T) * m
             j == T * (g * T)
  <2>2. h \in Int /\ k \in Int /\ j \in Int
    BY SMT, <1>0
  <2>3. 2 * h <= n + k /\ k <= j /\ n <= j
    BY <1>0, <1>1, <1>2, <2>1
  <2> HIDE DEF h, k, j, n
  <2>4. h <= j
    BY <1>0, <2>2, <2>3
  <2> QED
    BY <2>4 DEF h, j
<1>4. p <= g * T
  <2>1. CASE T > 0
    BY <1>0, <1>3, <2>1, TimesReflectsOrder
  <2>2. CASE T = 0
    <3>1. n <= 0
      BY <1>0, <2>2
    <3>2. a = 0 /\ b = 0
      BY SMT, <3>1
    <3> QED
      BY <2>2, <3>2
  <2> QED
    BY <2>1, <2>2
<1>5. (2 * t) * p <= (2 * t) * (g * T)
  <2>1. 2 * t \in Nat
    OBVIOUS
  <2> QED
    BY <1>0, <1>4, <2>1, TimesKeepsOrder
<1>6. (t * t) * m <= (t * t) * g
  BY <1>0, TimesKeepsOrder
<1>7. (a + t * x) * (a + t * x) + (b + t * y) * (b + t * y)
        = n + (2 * t) * p + (t * t) * m
  BY SMT
<1>8. g * ((T + t) * (T + t)) = g * (T * T) + (2 * t) * (g * T) + (t * t) * g
  BY SMT
<1> DEFINE A1 == (2 * t) * p
           A2 == (t * t) * m
           B0 == g * (T * T)
           B1 == (2 * t) * (g * T)
           B2 == (t * t) * g
<1>9. A1 \in Int /\ A2 \in Int /\ B0 \in Int /\ B1 \in Int /\ B2 \in Int
  BY SMT, <1>0
<1>10. n <= B0 /\ A1 <= B1 /\ A2 <= B2
  BY <1>0, <1>5, <1>6
<1>11. n + A1 + A2 <= B0 + B1 + B2
  <2> HIDE DEF n, A1, A2, B0, B1, B2
  <2> QED
    BY <1>0, <1>9, <1>10
<1> QED
  BY <1>7, <1>8, <1>11

LEMMA SumKept ==
  ASSUME TypeInv, TakenInv, ClockInv, SumInv, [Next]_vars
  PROVE  SumInv'
<1>0. /\ taken.time \in Int /\ taken.sum[1] \in Int
      /\ taken.all \subseteq Int \X Int
  BY DEF TypeInv, Takes
<1>1. ASSUME NEW now, NEW r, Reads(now, r), ~stepped',
             NEW lo \in Int, NEW hi \in Int,
             \A q \in taken'.all : lo <= q[1] /\ q[1] <= hi
      PROVE  lo * taken'.time <= taken'.sum[1] /\ taken'.sum[1] <= hi * taken'.time
  <2>1. ~stepped /\ taken'.all = taken.all \cup {r}
    BY <1>1, ReadTakes
  <2>2. PICK t \in Nat : taken'.time = taken.time + t
                         /\ taken'.sum = Plus(taken.sum, Times(t, r))
    BY <1>1, ReadTakes
  <2>3. /\ lo * taken.time <= taken.sum[1] /\ taken.sum[1] <= hi * taken.time
        /\ lo <= r[1] /\ r[1] <= hi
    BY <1>1, <2>1 DEF SumInv
  <2>4. r[1] \in Int
    BY <1>1 DEF Reads
  <2>5. t * lo <= t * r[1] /\ t * r[1] <= t * hi
    BY <2>3, <2>4, TimesKeepsOrder
  <2>6. taken'.sum[1] = taken.sum[1] + t * r[1]
    BY <2>2 DEF Plus, Times
  <2>7. /\ lo * (taken.time + t) = lo * taken.time + t * lo
        /\ hi * (taken.time + t) = hi * taken.time + t * hi
    BY <1>0
  <2>8. /\ lo * taken.time \in Int /\ hi * taken.time \in Int
        /\ t * lo \in Int /\ t * hi \in Int /\ t * r[1] \in Int
    BY <1>0, <2>4
  <2> QED
    BY <1>0, <2>2, <2>3, <2>5, <2>6, <2>7, <2>8
<1>2. ASSUME NEW now, NEW r, Reads(now, r)
      PROVE  SumInv'
  BY <1>1, <1>2 DEF SumInv
<1>3. CASE NewMinute
  <2>1. taken'.sum[1] = 0 /\ taken'.time = 0
    BY <1>3, MinuteForgets DEF Zero
  <2> QED
    BY <2>1 DEF SumInv
<1>4. CASE Idles
  BY <1>4 DEF Idles, recorder, SumInv
<1> QED
  BY <1>2, <1>3, <1>4, Steps

LEMMA SquareKept ==
  ASSUME TypeInv, TakenInv, ClockInv, SquareInv, [Next]_vars
  PROVE  SquareInv'
<1>0. /\ taken.time \in Int /\ taken.sum[1] \in Int /\ taken.sum[2] \in Int
  BY DEF TypeInv, Takes
<1>1. ASSUME NEW now, NEW r, Reads(now, r), ~stepped', NEW g \in Nat,
             \A q \in taken'.all : Square(q) <= g
      PROVE  Square(taken'.sum) <= g * (taken'.time * taken'.time)
  <2>1. ~stepped /\ taken'.all = taken.all \cup {r}
    BY <1>1, ReadTakes
  <2>2. PICK t \in Nat : taken'.time = taken.time + t
                         /\ taken'.sum = Plus(taken.sum, Times(t, r))
    BY <1>1, ReadTakes
  <2>3. Square(taken.sum) <= g * (taken.time * taken.time) /\ Square(r) <= g
    BY <1>1, <2>1 DEF SquareInv
  <2>4. r[1] \in Int /\ r[2] \in Int
    BY <1>1 DEF Reads
  <2>5. taken.time \in Nat
    BY <1>0, <2>1 DEF ClockInv
  <2>6. taken'.sum[1] = taken.sum[1] + t * r[1]
        /\ taken'.sum[2] = taken.sum[2] + t * r[2]
    BY <2>2 DEF Plus, Times
  <2> QED
    BY <1>0, <2>2, <2>3, <2>4, <2>5, <2>6, SumIsNotLonger DEF Square
<1>2. ASSUME NEW now, NEW r, Reads(now, r)
      PROVE  SquareInv'
  BY <1>1, <1>2 DEF SquareInv
<1>3. CASE NewMinute
  <2>1. Square(taken'.sum) = 0 /\ taken'.time = 0
    BY <1>3, MinuteForgets DEF Zero, Square
  <2> QED
    BY <2>1 DEF SquareInv
<1>4. CASE Idles
  BY <1>4 DEF Idles, recorder, SquareInv
<1> QED
  BY <1>2, <1>3, <1>4, Steps

LEMMA TotalKept ==
  ASSUME TypeInv, TakenInv, ClockInv, MeanInv, TotalInv, [Next]_vars
  PROVE  TotalInv'
<1>0. /\ clock \in Int /\ start \in Int /\ lastupdate \in Int
      /\ taken.time \in Int /\ taken.sum \in Int \X Int
      /\ taken.sum[1] \in Int /\ taken.sum[2] \in Int
      /\ table \in [x : Int, y : Int, duration : Int, samples : Nat]
      /\ total \in [x : Int, y : Int, time : Int, lived : Int, exact : BOOLEAN]
  BY DEF TypeInv, Takes
<1>1. ASSUME NEW now, NEW r, Reads(now, r)
      PROVE  TotalInv'
  <2>1. table' = table /\ clock' = now /\ (KeepsWind' <=> KeepsWind)
    BY <1>1 DEF Reads, KeepsWind, class
  <2>2. /\ total'.x = total.x /\ total'.y = total.y /\ total'.time = total.time
        /\ total'.exact = total.exact
    BY <1>0, <1>1 DEF Reads
  <2>3. ASSUME ~stepped', KeepsWind, total.exact
        PROVE  clock' = total'.lived /\ total'.time <= start'
    <3>1. PICK gap \in Gaps :
            /\ now = clock + gap /\ total' = [total EXCEPT !.lived = @ + gap]
            /\ stepped' = stepped
      BY <1>1, <2>3 DEF Reads
    <3>2. clock = total.lived /\ total.time <= start
      BY <2>3, <3>1 DEF TotalInv
    <3>3. start' = start
      <4>1. Update(now, r)
        BY <1>1 DEF Reads
      <4>2. ~KeepsLast /\ ~KeepsStatus /\ ~KeepsMean /\ ~KeepsExtremes
        BY <2>3 DEF KeepsMean, KeepsWind, KeepsLast, KeepsStatus, KeepsExtremes
      <4> QED
        BY <4>1, <4>2 DEF Update, UpdateWind
    <3>4. total'.lived = total.lived + gap
      BY <1>0, <3>1
    <3> QED
      BY <1>1, <2>1, <2>2, <3>1, <3>2, <3>3, <3>4
  <2> QED
    BY <2>1, <2>2, <2>3 DEF TotalInv
<1>2. CASE NewMinute
  <2>1. KeepsWind' <=> KeepsWind
    BY <1>2, MinuteForgets DEF KeepsWind, class
  <2>2. /\ total'.x = total.x + taken.sum[1] /\ total'.y = total.y + taken.sum[2]
        /\ total'.time = total.time + taken.time
        /\ total'.lived = total.lived
        /\ total'.exact = (total.exact /\ ~stepped)
    BY <1>2 DEF NewMinute
  <2>3. start' = clock /\ clock' = clock
    BY <1>2, MinuteForgets
  <2>4. ASSUME KeepsWind, total'.exact
        PROVE  /\ table'.x = total'.x /\ table'.y = total'.y
               /\ table'.duration = total'.time
               /\ clock' = total'.lived /\ total'.time <= start'
    <3>1. /\ table.x = total.x /\ table.y = total.y /\ table.duration = total.time
          /\ clock = total.lived /\ total.time <= start /\ ~stepped
      BY <2>2, <2>4 DEF TotalInv
    <3>2. CASE isvalid
      <4>1. /\ taken.time \in Nat /\ Duration = taken.time
            /\ Scaled(Duration, value) = Vector(taken.sum)
        BY <2>4, <3>1, <3>2, SumIsMean
      <4>2. /\ WindRow.x = taken.sum[1] /\ WindRow.y = taken.sum[2]
            /\ WindRow.duration = taken.time
        BY <4>1 DEF WindRow, Vector
      <4>3. table' = Sum(WindRow)
        BY <1>2, <2>4, <3>2 DEF NewMinute
      <4>4. /\ table'.x = table.x + taken.sum[1] /\ table'.y = table.y + taken.sum[2]
            /\ table'.duration = table.duration + taken.time
        BY <4>2, <4>3 DEF Sum
      <4>5. taken.time = lastupdate - start /\ lastupdate <= clock
        BY <2>4, <3>1, <3>2 DEF ClockInv
      <4> QED
        BY <1>0, <2>2, <2>3, <3>1, <4>4, <4>5
    <3>3. CASE ~isvalid
      <4>1. taken.sum = Zero /\ taken.time = 0
        BY <3>3 DEF TakenInv, NothingTaken
      <4>2. table' = table
        BY <1>2, <3>3 DEF NewMinute
      <4>3. start <= clock
        BY <3>1, <3>3 DEF ClockInv
      <4>4. taken.sum[1] = 0 /\ taken.sum[2] = 0
        BY <4>1 DEF Zero
      <4> QED
        BY <1>0, <2>2, <2>3, <3>1, <4>1, <4>2, <4>3, <4>4
    <3> QED
      BY <3>2, <3>3
  <2> QED
    BY <2>1, <2>4 DEF TotalInv
<1>3. CASE Idles
  <2>1. PICK d \in Nat : clock' = clock + d /\ total' = [total EXCEPT !.lived = @ + d]
    BY <1>3 DEF Idles
  <2>2. /\ stepped' = stepped /\ start' = start /\ table' = table
        /\ KeepsWind' <=> KeepsWind
    BY <1>3 DEF Idles, recorder, KeepsWind, class
  <2>3. /\ total'.x = total.x /\ total'.y = total.y /\ total'.time = total.time
        /\ total'.exact = total.exact /\ total'.lived = total.lived + d
    BY <1>0, <2>1
  <2> QED
    BY <1>0, <2>1, <2>2, <2>3 DEF TotalInv
<1> QED
  BY <1>1, <1>2, <1>3, Steps

-----------------------------------------------------------------------------
(* The theorems                                                            *)

IInv ==
  /\ TypeInv /\ TakenInv /\ ClockInv /\ MeanInv /\ LastInv
  /\ SumInv /\ SquareInv /\ ExtremesInv /\ GustInv /\ TotalInv

LEMMA InitHolds == Init => IInv
<1> SUFFICES ASSUME Init PROVE IInv
  OBVIOUS
<1>1. TypeInv
  BY InitTypes
<1>2. /\ clock = 0 /\ start = 0 /\ taken = NothingTaken
      /\ min = Unset /\ max = -Unset /\ table = NoRows
      /\ total = [x |-> 0, y |-> 0, time |-> 0, lived |-> 0, exact |-> TRUE]
  BY DEF Init, Fresh
<1>3. ~isvalid
  BY DEF Init, Fresh
<1>4. /\ taken.sum[1] = 0 /\ Square(taken.sum) = 0 /\ taken.time = 0
      /\ taken.all = {} /\ ~taken.absent
  BY <1>2 DEF NothingTaken, Zero, Square
<1>5. TakenInv /\ ClockInv /\ ExtremesInv
  BY <1>2, <1>3, <1>4 DEF TakenInv, ClockInv, ExtremesInv
<1>6. MeanInv /\ LastInv /\ GustInv
  BY <1>3 DEF MeanInv, LastInv, GustInv
<1>7. SumInv /\ SquareInv
  BY <1>4 DEF SumInv, SquareInv
<1>8. TotalInv
  BY <1>2 DEF TotalInv, NoRows
<1> QED
  BY <1>1, <1>5, <1>6, <1>7, <1>8 DEF IInv

\* The invariant of the recorders holds for every sensor, packet and time.
THEOREM InvariantHolds == Spec => []IInv
<1>1. IInv /\ [Next]_vars => IInv'
  BY NextTypes, TakenKept, ClockKept, MeanKept, LastKept, SumKept, SquareKept,
     ExtremesKept, GustKept, TotalKept
  DEF IInv
<1> QED
  BY InitHolds, <1>1, PTL DEF Spec

\* Every variable of a recorder has its type, and no more readings are in the
\* account than packets came.
THEOREM TypeCorrect == Spec => []TypeOK
<1>1. IInv => TypeOK
  BY DEF IInv, TypeInv, SensorInv, TypeOK, Takes
<1> QED
  BY InvariantHolds, <1>1, PTL

\* Either form of the mean, in numbers.
LEMMA MeanForms ==
  ASSUME IInv, isvalid, ~stepped, KeepsMean \/ KeepsWind
  PROVE  /\ taken.time \in Nat /\ taken.time > 0
         /\ taken.sum[1] \in Int /\ taken.sum[2] \in Int
         /\ \/ /\ value[1] = taken.sum[1] /\ value[2] = taken.sum[2]
               /\ value[3] = taken.time
            \/ \E r \in taken.all :
                 /\ r[1] \in Int /\ r[2] \in Int
                 /\ value[1] = r[1] /\ value[2] = r[2] /\ value[3] = 1
                 /\ taken.sum[1] = taken.time * r[1]
                 /\ taken.sum[2] = taken.time * r[2]
<1>1. taken.time \in Nat /\ taken.time > 0
  BY SumIsMean DEF IInv
<1>2. taken.sum \in Int \X Int /\ taken.all \subseteq Int \X Int
  BY DEF IInv, TypeInv, Takes
<1>3. \/ value = <<taken.sum[1], taken.sum[2], taken.time>>
      \/ \E r \in taken.all : value = Vector(r) /\ taken.sum = Times(taken.time, r)
  BY DEF IInv, MeanInv
<1>4. ASSUME NEW r \in taken.all, value = Vector(r), taken.sum = Times(taken.time, r)
      PROVE  /\ r[1] \in Int /\ r[2] \in Int
             /\ value[1] = r[1] /\ value[2] = r[2] /\ value[3] = 1
             /\ taken.sum[1] = taken.time * r[1]
             /\ taken.sum[2] = taken.time * r[2]
  BY <1>2, <1>4 DEF Vector, Times
<1> QED
  BY <1>1, <1>2, <1>3, <1>4

\* The mean lies between any bounds of the readings.
LEMMA MeanBetween ==
  ASSUME IInv, isvalid, ~stepped, KeepsMean \/ KeepsWind,
         NEW lo \in Int, NEW hi \in Int,
         \A r \in taken.all : lo <= r[1] /\ r[1] <= hi
  PROVE  lo * value[3] <= value[1] /\ value[1] <= hi * value[3]
<1>1. lo * taken.time <= taken.sum[1] /\ taken.sum[1] <= hi * taken.time
  BY DEF IInv, SumInv
<1> QED
  BY <1>1, MeanForms

\* The running mean is the mean of all readings, weighted with their times:
\* BasicRecorder::update, for any number of readings.
THEOREM MeanCorrect == Spec => []MeanIsWeighted
<1>1. ASSUME IInv, isvalid, ~stepped, KeepsMean
      PROVE  Equal(value, <<taken.sum[1], taken.sum[2], taken.time>>)
  <2> DEFINE w == <<taken.sum[1], taken.sum[2], taken.time>>
  <2>1. w[1] = taken.sum[1] /\ w[2] = taken.sum[2] /\ w[3] = taken.time
    OBVIOUS
  <2> HIDE DEF w
  <2>2. ASSUME value[1] = taken.sum[1], value[2] = taken.sum[2],
               value[3] = taken.time
        PROVE  Equal(value, w)
    BY <1>1, <2>1, <2>2, MeanForms DEF Equal
  <2>3. ASSUME NEW r \in taken.all,
               /\ r[1] \in Int /\ r[2] \in Int
               /\ value[1] = r[1] /\ value[2] = r[2] /\ value[3] = 1
               /\ taken.sum[1] = taken.time * r[1]
               /\ taken.sum[2] = taken.time * r[2]
        PROVE  Equal(value, w)
    <3>1. taken.time \in Nat /\ taken.time > 0
      BY <1>1, MeanForms
    <3>2. /\ value[1] * w[3] = w[1] * value[3] /\ value[2] * w[3] = w[2] * value[3]
      BY <2>1, <2>3, <3>1
    <3> QED
      BY <2>1, <2>3, <3>1, <3>2 DEF Equal
  <2>4. Equal(value, w)
    BY <1>1, <2>2, <2>3, MeanForms
  <2> QED
    BY <2>4 DEF w
<1>2. IInv => MeanIsWeighted
  BY <1>1 DEF MeanIsWeighted
<1> QED
  BY InvariantHolds, <1>2, PTL

\* Minimum and maximum are readings of the minute and enclose its mean:
\* MinmaxRecorder::update and reset.
THEOREM ExtremesCorrect == Spec => []ExtremesHold
<1>1. ASSUME IInv, isvalid, KeepsExtremes
      PROVE  /\ \A r \in taken.all : min <= r[1] /\ r[1] <= max
             /\ \E r \in taken.all : r[1] = min
             /\ \E r \in taken.all : r[1] = max
  BY <1>1 DEF IInv, ExtremesInv
<1>2. ASSUME IInv, isvalid, KeepsExtremes, ~stepped
      PROVE  min * value[3] <= value[1] /\ value[1] <= max * value[3]
  <2>1. min \in Int /\ max \in Int /\ KeepsMean
    BY <1>2 DEF IInv, TypeInv, KeepsMean
  <2> QED
    BY <1>1, <1>2, <2>1, MeanBetween
<1>3. IInv => ExtremesHold
  BY <1>1, <1>2 DEF ExtremesHold
<1> QED
  BY InvariantHolds, <1>3, PTL

\* windx and windy are the sum of the wind of the minute, duration is its time
\* and the gust the strongest reading: WindRecorder::update and sendOutlet.
THEOREM WindCorrect == Spec => []WindIsVectorSum
<1>1. ASSUME IInv, isvalid, KeepsWind
      PROVE  gust \in taken.all /\ \A r \in taken.all : Square(r) <= Square(gust)
  BY <1>1 DEF IInv, GustInv
<1>2. ASSUME IInv, isvalid, KeepsWind, ~stepped
      PROVE  /\ Scaled(Duration, value) = Vector(taken.sum)
             /\ Duration = taken.time
             /\ Square(value) <= Square(gust) * value[3] * value[3]
  <2>1. /\ Scaled(Duration, value) = Vector(taken.sum)
        /\ Duration = taken.time
    BY <1>2, SumIsMean DEF IInv
  <2> DEFINE g == Square(gust)
  <2>2. g \in Nat
    BY <1>2, SquareIsNat DEF IInv, TypeInv
  <2>3. \A r \in taken.all : Square(r) <= g
    BY <1>1, <1>2
  <2> HIDE DEF g
  <2>4. Square(taken.sum) <= g * (taken.time * taken.time)
    BY <1>2, <2>2, <2>3 DEF IInv, SquareInv
  <2>5. ASSUME value[1] = taken.sum[1], value[2] = taken.sum[2],
               value[3] = taken.time
        PROVE  Square(value) <= g * value[3] * value[3]
    <3>1. Square(value) = Square(taken.sum)
      BY <2>5 DEF Square
    <3>2. taken.time \in Nat
      BY <1>2, MeanForms
    <3>3. g * value[3] * value[3] = g * (taken.time * taken.time)
      BY <2>2, <2>5, <3>2
    <3> QED
      BY <2>4, <3>1, <3>3
  <2>6. ASSUME NEW r \in taken.all, value[1] = r[1], value[2] = r[2], value[3] = 1
        PROVE  Square(value) <= g * value[3] * value[3]
    <3>1. Square(value) = Square(r)
      BY <2>6 DEF Square
    <3>2. g * value[3] * value[3] = g
      BY <2>2, <2>6
    <3> QED
      BY <2>3, <3>1, <3>2
  <2>7. Square(value) <= g * value[3] * value[3]
    BY <1>2, <2>5, <2>6, MeanForms
  <2> QED
    BY <2>1, <2>7 DEF g
<1>3. IInv => WindIsVectorSum
  BY <1>1, <1>2 DEF WindIsVectorSum
<1> QED
  BY InvariantHolds, <1>3, PTL

\* What Averager::addWind makes of the rows of any number of minutes is the
\* mean of all their readings, and no time is counted twice.
THEOREM MinutesCorrect == Spec => []MinutesAddUp
<1>1. ASSUME IInv, KeepsWind, total.exact
      PROVE  AverageWind = IF total.time > 0 THEN <<total.x, total.y, total.time>>
                           ELSE NaN
  BY <1>1 DEF IInv, TotalInv, AverageWind
<1>2. ASSUME IInv, KeepsWind, total.exact, ~stepped
      PROVE  table.duration + taken.time <= total.lived
  <2>1. clock = total.lived /\ total.time <= start /\ table.duration = total.time
    BY <1>2 DEF IInv, TotalInv
  <2>2. /\ clock \in Int /\ start \in Int /\ lastupdate \in Int
        /\ total.time \in Int /\ taken.time \in Int
    BY <1>2 DEF IInv, TypeInv, Takes
  <2>3. CASE isvalid
    <3>1. taken.time = lastupdate - start /\ lastupdate <= clock
      BY <1>2, <2>3 DEF IInv, ClockInv
    <3> QED
      BY <2>1, <2>2, <3>1
  <2>4. CASE ~isvalid
    <3>1. taken.time = 0 /\ start <= clock
      BY <1>2, <2>4 DEF IInv, ClockInv, TakenInv, NothingTaken
    <3> QED
      BY <2>1, <2>2, <3>1
  <2> QED
    BY <2>3, <2>4
<1>3. IInv => MinutesAddUp
  BY <1>1, <1>2 DEF MinutesAddUp
<1> QED
  BY InvariantHolds, <1>3, PTL

\* Whatever a station sends or answers, no missing value is recorded and a
\* humidity that is calibrated is a percentage: the readers with their valid(),
\* and Calibrator::operator().
THEOREM ReadingsCorrect == Spec => []ReadingsPossible
<1>1. IInv => AbsentNotTaken
  BY DEF IInv, TakenInv, AbsentNotTaken
<1>2. ASSUME IInv, isvalid, sensor.field \in ClippedFields
      PROVE  0 <= min /\ max <= 100
  <2>0. \A r \in taken.all : r[1] \in 0..100
    BY <1>2 DEF IInv, TakenInv
  <2>1. CASE KeepsExtremes
    <3>1. /\ \E r \in taken.all : r[1] = min
          /\ \E r \in taken.all : r[1] = max
      BY <1>2, <2>1 DEF IInv, ExtremesInv
    <3> QED
      BY <2>0, <3>1
  <2>2. CASE ~KeepsExtremes
    <3>1. min = Unset /\ max = -Unset
      BY <1>2, <2>2 DEF IInv, ExtremesInv
    <3> QED
      BY SMT, <3>1 DEF Unset
  <2> QED
    BY <2>1, <2>2
<1>3. ASSUME IInv, isvalid, sensor.field \in ClippedFields, ~stepped
      PROVE  0 <= value[1] /\ value[1] <= 100 * value[3]
  <2>0. \A r \in taken.all : r[1] \in 0..100
    BY <1>3 DEF IInv, TakenInv
  <2>1. CASE KeepsMean \/ KeepsWind
    <3>1. 0 * value[3] <= value[1] /\ value[1] <= 100 * value[3]
      <4>1. \A r \in taken.all : 0 <= r[1] /\ r[1] <= 100
        BY <2>0
      <4> QED
        BY <1>3, <2>1, <4>1, MeanBetween
    <3>2. value[3] \in Int
      BY <1>3 DEF IInv, TypeInv
    <3> QED
      BY <3>1, <3>2
  <2>2. CASE KeepsLast \/ KeepsStatus
    <3>1. PICK r \in taken.all : value = Vector(r)
      BY <1>3, <2>2 DEF IInv, LastInv
    <3>2. value[1] = r[1] /\ value[3] = 1
      BY <3>1 DEF Vector
    <3> QED
      BY <2>0, <3>2
  <2>3. KeepsMean \/ KeepsWind \/ KeepsLast \/ KeepsStatus
    BY <1>3
    DEF IInv, TypeInv, SensorInv, Known, KeepsMean, KeepsExtremes, KeepsWind,
        KeepsLast, KeepsStatus
  <2> QED
    BY <2>1, <2>2, <2>3
<1>4. IInv => HumidityPossible
  BY <1>2, <1>3 DEF HumidityPossible, ClippedFields
<1>5. IInv => ReadingsPossible
  BY <1>1, <1>4 DEF ReadingsPossible
<1> QED
  BY InvariantHolds, <1>5, PTL

-----------------------------------------------------------------------------
(* Rain: the account, for every counter size, every number of ticks        *)
(* between two packets and every length of behaviour                       *)

\* What the counter can be, given what the recorder saw last: unless it was
\* cleared or wrapped, it went up by the ticks that fell since.
CounterFollows ==
  valid => IF restarted THEN counter <= since ELSE counter = rainvalue + since

\* The rain of the minute is never negative, and a new recorder holds 0.
StartBelowValue == /\ valid => startvalue <= rainvalue
                   /\ ~valid => rainvalue = 0

\* Ticks not sampled yet have fallen as well.
SeenHasFallen == seen + since <= fallen /\ lag <= since

\* The part of TypeOK that does not rest on the account, in two halves.
Flags ==
  /\ restarted \in BOOLEAN
  /\ valid \in BOOLEAN

Numbers ==
  /\ counter \in 0..CounterSize - 1
  /\ lag \in Nat /\ since \in Nat
  /\ turn \in {"packet", "minute"}
  /\ rainvalue \in 0..CounterSize - 1
  /\ startvalue \in Int
  /\ fallen \in 0..MaxFallen
  /\ seen \in Nat /\ lossy \in Nat /\ reported \in Nat /\ dropped \in Nat

RainIInv ==
  /\ Flags
  /\ Numbers
  /\ CounterFollows
  /\ StartBelowValue
  /\ SeenHasFallen
  /\ lossy <= seen
  /\ NoPhantomRain
  /\ LossConfinedToWraps

LEMMA RainInitHolds == RainInit => RainIInv
<1> SUFFICES ASSUME RainInit PROVE RainIInv
  OBVIOUS
<1>1. Flags
  BY Zenon DEF RainInit, Flags
<1>2. Numbers
  BY RainAssumption DEF RainInit, Numbers, RainAssumption
<1>3. /\ CounterFollows /\ StartBelowValue /\ SeenHasFallen /\ lossy <= seen
      /\ NoPhantomRain /\ LossConfinedToWraps
  BY DEF RainInit, CounterFollows, StartBelowValue, SeenHasFallen,
         NoPhantomRain, LossConfinedToWraps, Accounted, Pending
<1> QED
  BY <1>1, <1>2, <1>3 DEF RainIInv

\* A sample credits the recorder with at most what fell since the previous
\* one, and with all of it unless the counter restarted in between.
LEMMA SampleCredit ==
  ASSUME RainIInv, RainUpdate, valid
  PROVE  /\ startvalue' <= rainvalue'
         /\ rainvalue' - startvalue' <= (rainvalue - startvalue) + since
         /\ rainvalue - startvalue <= rainvalue' - startvalue'
         /\ ~restarted =>
              rainvalue' - startvalue' = (rainvalue - startvalue) + since
<1>1. rainvalue' = counter
  BY DEF RainUpdate
<1>2. startvalue' = IF counter < rainvalue THEN -(rainvalue - startvalue)
                                       ELSE startvalue
  BY DEF RainUpdate, Corrected
<1> QED
  BY <1>1, <1>2 DEF RainIInv, Numbers, CounterFollows, StartBelowValue

\* Rain falls.
LEMMA TickKeepsRain == RainIInv /\ Tick => RainIInv'
<1> SUFFICES ASSUME RainIInv, Tick PROVE RainIInv'
  OBVIOUS
<1>1. Flags'
  BY Zenon DEF RainIInv, Flags, Tick, recorderVars
<1>2. Numbers'
  BY RainAssumption
  DEF RainIInv, Numbers, Tick, recorderVars, rainAccount, RainAssumption
<1>3. CounterFollows'
  <2>1. CASE counter + 1 = CounterSize
    <3>1. restarted'
      BY <2>1, Zenon DEF Tick
    <3>2. counter' = 0
      BY <2>1, RainAssumption DEF Tick, RainAssumption
    <3> QED
      BY <1>2, <3>1, <3>2 DEF CounterFollows, Numbers
  <2>2. CASE counter + 1 # CounterSize
    <3>1. restarted' <=> restarted
      BY <2>2, Zenon DEF Tick, RainIInv, Flags
    <3>2. counter' = counter + 1
      BY <2>2, RainAssumption DEF Tick, RainIInv, Numbers, RainAssumption
    <3> QED
      BY <3>1, <3>2 DEF RainIInv, Numbers, CounterFollows, Tick, recorderVars
  <2> QED
    BY <2>1, <2>2
<1>4. StartBelowValue' /\ SeenHasFallen' /\ (lossy <= seen)'
  BY DEF RainIInv, Numbers, StartBelowValue, SeenHasFallen, Tick, recorderVars,
         rainAccount
<1>5. NoPhantomRain' /\ LossConfinedToWraps'
  BY DEF RainIInv, NoPhantomRain, LossConfinedToWraps, Accounted, Pending,
         Tick, recorderVars, rainAccount
<1> QED
  BY <1>1, <1>2, <1>3, <1>4, <1>5 DEF RainIInv

\* The station clears its counter.
LEMMA MidnightKeepsRain == RainIInv /\ Midnight => RainIInv'
<1> SUFFICES ASSUME RainIInv, Midnight PROVE RainIInv'
  OBVIOUS
<1>1. Flags'
  BY Zenon DEF RainIInv, Flags, Midnight, stationVars, recorderVars
<1>2. Numbers'
  BY RainAssumption DEF RainIInv, Numbers, StartBelowValue, Midnight, stationVars,
       recorderVars, rainAccount, RainAssumption
<1>3. CounterFollows' /\ StartBelowValue' /\ SeenHasFallen' /\ (lossy <= seen)'
  BY RainAssumption DEF RainIInv, Numbers, CounterFollows, StartBelowValue,
       SeenHasFallen, Midnight, stationVars, recorderVars, rainAccount,
       RainAssumption
<1>4. NoPhantomRain' /\ LossConfinedToWraps'
  BY RainAssumption DEF RainIInv, Numbers, NoPhantomRain, LossConfinedToWraps,
       Accounted, Pending, StartBelowValue, Midnight, stationVars,
       recorderVars, rainAccount, RainAssumption
<1> QED
  BY <1>1, <1>2, <1>3, <1>4 DEF RainIInv

\* A packet without a readable counter.
LEMMA UpdateFailsKeepsIInv == RainIInv /\ UpdateFails => RainIInv'
<1> SUFFICES ASSUME RainIInv, UpdateFails PROVE RainIInv'
  OBVIOUS
<1>1. Flags'
  BY Zenon DEF RainIInv, Flags, UpdateFails, stationVars, recorderVars
<1>2. Numbers'
  BY DEF RainIInv, Numbers, StartBelowValue, UpdateFails, stationVars,
       recorderVars, rainAccount
<1>3. CounterFollows' /\ StartBelowValue' /\ SeenHasFallen' /\ (lossy <= seen)'
  BY DEF RainIInv, Numbers, CounterFollows, StartBelowValue, SeenHasFallen,
       UpdateFails, stationVars, recorderVars, rainAccount
<1>4. NoPhantomRain' /\ LossConfinedToWraps'
  BY DEF RainIInv, Numbers, NoPhantomRain, LossConfinedToWraps, Accounted, Pending,
       StartBelowValue, UpdateFails, stationVars, recorderVars, rainAccount
<1> QED
  BY <1>1, <1>2, <1>3, <1>4 DEF RainIInv

\* Nothing to send.
LEMMA SameMinuteKeepsIInv == RainIInv /\ RainSameMinute => RainIInv'
<1> SUFFICES ASSUME RainIInv, RainSameMinute PROVE RainIInv'
  OBVIOUS
<1>1. Flags'
  BY Zenon DEF RainIInv, Flags, RainSameMinute, stationVars, recorderVars
<1>2. Numbers'
  BY DEF RainIInv, Numbers, StartBelowValue, RainSameMinute, stationVars, recorderVars,
       rainAccount
<1>3. CounterFollows' /\ StartBelowValue' /\ SeenHasFallen' /\ (lossy <= seen)'
  BY DEF RainIInv, Numbers, CounterFollows, StartBelowValue, SeenHasFallen,
       RainSameMinute, stationVars, recorderVars, rainAccount
<1>4. NoPhantomRain' /\ LossConfinedToWraps'
  BY DEF RainIInv, Numbers, NoPhantomRain, LossConfinedToWraps, Accounted, Pending,
       StartBelowValue, RainSameMinute, stationVars, recorderVars, rainAccount
<1> QED
  BY <1>1, <1>2, <1>3, <1>4 DEF RainIInv

\* The pending rain becomes reported rain.
LEMMA NewMinuteKeepsIInv == RainIInv /\ RainNewMinute => RainIInv'
<1> SUFFICES ASSUME RainIInv, RainNewMinute PROVE RainIInv'
  OBVIOUS
<1>1. Flags'
  BY Zenon DEF RainIInv, Flags, RainNewMinute, stationVars, recorderVars
<1>2. Numbers'
  BY DEF RainIInv, Numbers, StartBelowValue, RainNewMinute, stationVars, recorderVars,
       rainAccount, RainReset
<1>3. CounterFollows' /\ StartBelowValue' /\ SeenHasFallen' /\ (lossy <= seen)'
  BY DEF RainIInv, Numbers, CounterFollows, StartBelowValue, SeenHasFallen,
       RainNewMinute, stationVars, recorderVars, rainAccount, RainReset
<1>4. NoPhantomRain' /\ LossConfinedToWraps'
  BY DEF RainIInv, Numbers, NoPhantomRain, LossConfinedToWraps, Accounted, Pending,
       StartBelowValue, RainNewMinute, stationVars, recorderVars, rainAccount, RainReset
<1> QED
  BY <1>1, <1>2, <1>3, <1>4 DEF RainIInv

\* The pending rain is dropped.
LEMMA NewChildKeepsIInv == RainIInv /\ NewChild => RainIInv'
<1> SUFFICES ASSUME RainIInv, NewChild PROVE RainIInv'
  OBVIOUS
<1>1. Flags'
  BY Zenon DEF RainIInv, Flags, NewChild, stationVars, recorderVars
<1>2. Numbers'
  BY RainAssumption DEF RainIInv, Numbers, StartBelowValue, NewChild, stationVars,
       recorderVars, rainAccount, RainAssumption
<1>3. CounterFollows' /\ StartBelowValue' /\ SeenHasFallen' /\ (lossy <= seen)'
  BY RainAssumption DEF RainIInv, Numbers, CounterFollows, StartBelowValue,
       SeenHasFallen, NewChild, stationVars, recorderVars, rainAccount,
       RainAssumption
<1>4. NoPhantomRain' /\ LossConfinedToWraps'
  BY RainAssumption DEF RainIInv, Numbers, NoPhantomRain, LossConfinedToWraps,
       Accounted, Pending, StartBelowValue, NewChild, stationVars,
       recorderVars, rainAccount, RainAssumption
<1> QED
  BY <1>1, <1>2, <1>3, <1>4 DEF RainIInv

\* The account after a sample, in numbers alone.
LEMMA SampleArithmetic ==
  ASSUME NEW r \in Int, NEW d \in Int, NEW p \in Int, NEW q \in Int,
         NEW n \in Int, NEW s \in Int, NEW l \in Int,
         r + p + d <= s, s - l <= r + p + d, q <= p + n, p <= q
  PROVE  /\ r + q + d <= s + n
         /\ (s + n) - (l + n) <= r + q + d
         /\ q = p + n => (s + n) - l <= r + q + d
OBVIOUS

\* The recorder takes a sample: see SampleCredit.
LEMMA UpdateKeepsIInv == RainIInv /\ RainUpdate => RainIInv'
<1> SUFFICES ASSUME RainIInv, RainUpdate PROVE RainIInv'
  OBVIOUS
<1>1. Flags'
  BY Zenon DEF RainUpdate, Flags
<1>2. Numbers'
  BY DEF RainIInv, Numbers, RainUpdate, Corrected
<1>3. CounterFollows' /\ SeenHasFallen' /\ (lossy <= seen)'
  BY DEF RainIInv, Numbers, CounterFollows, SeenHasFallen, RainUpdate
<1>4. CASE valid
  <2>0. /\ startvalue' <= rainvalue'
        /\ rainvalue' - startvalue' <= (rainvalue - startvalue) + since
        /\ rainvalue - startvalue <= rainvalue' - startvalue'
        /\ ~restarted => rainvalue' - startvalue' = (rainvalue - startvalue) + since
    BY <1>4, SampleCredit
  <2>1. StartBelowValue'
    BY <2>0 DEF StartBelowValue, RainUpdate
  <2>2. /\ Pending' = rainvalue' - startvalue' /\ Pending = rainvalue - startvalue
        /\ Pending' \in Int /\ Pending \in Int
    BY <1>2, <1>4 DEF RainUpdate, Pending, RainIInv, Numbers
  <2>3. /\ seen' = seen + since
        /\ lossy' = IF restarted THEN lossy + since ELSE lossy
        /\ reported' = reported /\ dropped' = dropped
    BY <1>4 DEF RainUpdate
  <2>4. /\ Pending' <= Pending + since
        /\ Pending <= Pending'
        /\ ~restarted => Pending' = Pending + since
    BY <2>0, <2>2
  <2>5. /\ reported + Pending + dropped <= seen
        /\ seen - lossy <= reported + Pending + dropped
    BY DEF RainIInv, NoPhantomRain, LossConfinedToWraps, Accounted
  <2>6. /\ reported + Pending' + dropped <= seen'
        /\ seen' - lossy' <= reported + Pending' + dropped
    BY <2>2, <2>3, <2>4, <2>5, SampleArithmetic DEF RainIInv, Numbers
  <2> QED
    BY <1>1, <1>2, <1>3, <2>1, <2>3, <2>6
    DEF RainIInv, NoPhantomRain, LossConfinedToWraps, Accounted
<1>5. CASE ~valid
  <2>1. rainvalue' = counter /\ startvalue' = counter /\ counter \in Int
    BY <1>5 DEF RainUpdate, Corrected, RainIInv, Numbers, StartBelowValue
  <2>2. seen' = seen /\ lossy' = lossy /\ reported' = reported
        /\ dropped' = dropped /\ valid'
    BY <1>5 DEF RainUpdate
  <2>3. StartBelowValue' /\ Pending' = 0 /\ Pending = 0
    BY <1>5, <2>1, <2>2 DEF StartBelowValue, Pending
  <2>4. NoPhantomRain' /\ LossConfinedToWraps'
    BY <2>2, <2>3 DEF RainIInv, NoPhantomRain, LossConfinedToWraps, Accounted
  <2> QED
    BY <1>1, <1>2, <1>3, <2>3, <2>4 DEF RainIInv
<1> QED
  BY <1>4, <1>5

\* The account balances in every state.
THEOREM RainInvariance == RainSpec => []RainIInv
<1>1. RainInit => RainIInv
  BY RainInitHolds
<1>2. RainIInv /\ [RainNext]_rainVars => RainIInv'
  <2> SUFFICES ASSUME RainIInv, [RainNext]_rainVars PROVE RainIInv'
    OBVIOUS
  <2>1. CASE UNCHANGED rainVars
    BY <2>1 DEF rainVars, stationVars, recorderVars, rainAccount, RainIInv,
                Flags, Numbers, CounterFollows, StartBelowValue, SeenHasFallen,
                NoPhantomRain,
                LossConfinedToWraps, Accounted, Pending
  <2> QED
    BY <2>1, TickKeepsRain, MidnightKeepsRain, UpdateKeepsIInv,
       UpdateFailsKeepsIInv, SameMinuteKeepsIInv, NewMinuteKeepsIInv,
       NewChildKeepsIInv DEF RainNext
<1> QED
  BY <1>1, <1>2, PTL DEF RainSpec

\* Nothing overflows the number of ticks that fell, and the members of the
\* recorder stay within the range of the counter.
THEOREM RainTypeCorrect == RainSpec => []RainTypeOK
<1>1. RainIInv => RainTypeOK
  <2> SUFFICES ASSUME RainIInv PROVE RainTypeOK
    OBVIOUS
  <2>1. /\ since \in Nat /\ lag \in Nat /\ seen \in Nat /\ lossy \in Nat
        /\ reported \in Nat /\ dropped \in Nat /\ fallen \in 0..MaxFallen
        /\ seen + since <= fallen /\ lag <= since /\ lossy <= seen
        /\ reported + Pending + dropped <= seen
    BY DEF RainIInv, Numbers, SeenHasFallen, NoPhantomRain, Accounted
  <2>2. Pending \in Nat
    BY DEF RainIInv, Numbers, StartBelowValue, Pending
  <2>3. /\ lag \in 0..MaxFallen /\ since \in 0..MaxFallen
        /\ seen \in 0..MaxFallen /\ lossy \in 0..MaxFallen
        /\ reported \in 0..MaxFallen /\ dropped \in 0..MaxFallen
    BY <2>1, <2>2, RainAssumption DEF RainAssumption
  <2> QED
    BY <2>3 DEF RainIInv, Flags, Numbers, RainTypeOK
<1> QED
  BY <1>1, RainInvariance, PTL

\* RainRecorder never reports rain that did not fall, whatever the counter
\* of the station does between two packets.
THEOREM NoRainInvented == RainSpec => []NoPhantomRain
<1>1. RainIInv => NoPhantomRain
  BY DEF RainIInv
<1> QED
  BY <1>1, RainInvariance, PTL

\* RainRecorder loses rain only in sampling intervals with a restart of the
\* counter, or with a child that dies.
THEOREM RainLostOnlyAtWraps == RainSpec => []LossConfinedToWraps
<1>1. RainIInv => LossConfinedToWraps
  BY DEF RainIInv
<1> QED
  BY <1>1, RainInvariance, PTL
=============================================================================
