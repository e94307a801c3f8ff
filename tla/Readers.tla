------------------------------ MODULE Readers ------------------------------
(***************************************************************************)
(* From the packet of a station to the reading a recorder takes: the table *)
(* of readers of each type of station, the readers, the calibration that   *)
(* was read from the console when the station was constructed, and the     *)
(* conversion to the unit of the recorder.                                 *)
(*                                                                         *)
(* What throws an exception is the empty set, what returns v is {v}.  A    *)
(* packet is the four bytes from the offset of its reader on, so that      *)
(* offsets do not show.  Readings are counted in the smallest step of the  *)
(* reader (tenths of a degree Fahrenheit, thousandths of an inch...), so   *)
(* that divisions by constants do not show either.  Sensors that differ    *)
(* in their number only (extra1 ... extra7, soil1 ... soil4, leaf1 ...)    *)
(* are one.                                                                *)
(***************************************************************************)
EXTENDS Integers

Byte == 0..255

-----------------------------------------------------------------------------
(* Numbers in packets                                                      *)

\* two's complement, half the numbers of the width being negative
Signed(half, n) == IF n < half THEN n ELSE n - 2 * half

ByteValid(c, sign) == IF sign THEN c \notin {127, 128} ELSE c # 255

BytePacketReader(p, sign) ==
  {IF sign THEN Signed(128, c) ELSE c : c \in {b \in {p[1]} : ByteValid(b, sign)}}

LittleEndian(p) == p[1] + 256 * p[2]
BigEndian(p) == p[2] + 256 * p[1]

\* mutant of ShortValid: the pattern of unsigned numbers whatever the sign
ShortValidUnsigned(us, sign) == us # 65535

ShortValid(us, sign) == IF sign THEN us \notin {32767, 32768} ELSE us # 65535

ShortPacketReader(us, sign) ==
  {IF sign THEN Signed(32768, n) ELSE n : n \in {m \in {us} : ShortValid(m, sign)}}

\* getNibble: nibbles are numbered from the least significant one; the
\* readers of the old stations take three
Nibble(i, p) ==
  IF i % 2 = 1 THEN p[1 + (i \div 2)] \div 16 ELSE p[1 + (i \div 2)] % 16

RawValue(p) == Nibble(0, p) + 16 * Nibble(1, p) + 256 * Nibble(2, p)

\* valid: an unsigned number is compared with the pattern of signed ones,
\* and a signed one with that of unsigned ones as well, so that -1 is invalid
NibblesValid(c, sign) == c # 2047 /\ (sign => c # 4095)

NibblePacketReader(p, sign) ==
  {IF sign THEN Signed(2048, n) ELSE n :
     n \in {c \in {RawValue(p)} : NibblesValid(c, sign)}}

-----------------------------------------------------------------------------
(* Quantities in packets                                                   *)

TemperatureReader(p) == ShortPacketReader(LittleEndian(p), TRUE)
ExtraTemperatureReader(p) == {10 * (n - 90) : n \in BytePacketReader(p, FALSE)}
OldTemperatureReader(p) == NibblePacketReader(p, TRUE)
BarometerReader(p) == ShortPacketReader(LittleEndian(p), FALSE)
VoltageReader(p) == {3 * n : n \in ShortPacketReader(LittleEndian(p), FALSE)}
RainRateReader(p) == BytePacketReader(p, FALSE)
UVReader(p) == BytePacketReader(p, FALSE)

\* hours and minutes of today as the station writes them, in minutes since
\* midnight: value() does not ask valid()
TimeReader(p) ==
  LET stationtime == LittleEndian(p)
  IN  {60 * (stationtime \div 100) + (stationtime % 100)}

\* Vector(speed, azideg, true), for the four winds
Polar(speed, azideg) ==
  LET quarter == (azideg \div 90) % 4
  IN  CASE quarter = 0 -> <<0, speed>> [] quarter = 1 -> <<speed, 0>>
        [] quarter = 2 -> <<0, -speed>> [] quarter = 3 -> <<-speed, 0>>

\* the three readers of wind: speed, and where the direction is
OldWindReader(p) ==
  {Polar(s, a) : s \in BytePacketReader(p, FALSE),
                 a \in NibblePacketReader(<<p[2], p[3]>>, FALSE)}
WMIIWindReader(p) ==
  {Polar(s, a) : s \in BytePacketReader(p, FALSE),
                 a \in ShortPacketReader(LittleEndian(<<p[2], p[3]>>), FALSE)}
VantageProWindReader(p) ==
  {Polar(s, a) : s \in BytePacketReader(p, FALSE),
                 a \in ShortPacketReader(LittleEndian(<<p[3], p[4]>>), FALSE)}

-----------------------------------------------------------------------------
(* Which reader reads which field, and the unit it gives: ReaderInfo       *)

WMIIReaders ==
  {<<"inside.temperature", "TemperatureReader", "F">>,
   <<"outside.temperature", "TemperatureReader", "F">>,
   <<"outside.wind", "WMIIWindReader", "mph">>,
   <<"inside.barometer", "BarometerReader", "inHg">>,
   <<"inside.humidity", "SignedBytePacketReader", "%">>,
   <<"outside.humidity", "SignedBytePacketReader", "%">>}

GroWeatherReaders ==
  {<<"soil.temperature", "OldTemperatureReader", "F">>,
   <<"outside.temperature", "OldTemperatureReader", "F">>,
   <<"outside.wind", "OldWindReader", "mph">>,
   <<"inside.barometer", "BarometerReader", "inHg">>,
   <<"outside.rainrate", "RainRateReader", "in/h">>,
   <<"outside.humidity", "SignedBytePacketReader", "%">>,
   <<"outside.solar", "SignedLittleEndianShortPacketReader", "W/m2">>}

EnergyReaders ==
  {<<"inside.temperature", "TemperatureReader", "F">>,
   <<"outside.temperature", "TemperatureReader", "F">>,
   <<"outside.wind", "OldWindReader", "mph">>,
   <<"inside.barometer", "BarometerReader", "inHg">>,
   <<"outside.rainrate", "RainRateReader", "in/h">>,
   <<"outside.humidity", "SignedBytePacketReader", "%">>,
   <<"outside.solar", "SignedLittleEndianShortPacketReader", "W/m2">>}

HealthReaders ==
  {<<"inside.temperature", "OldTemperatureReader", "F">>,
   <<"outside.temperature", "OldTemperatureReader", "F">>,
   <<"outside.wind", "OldWindReader", "mph">>,
   <<"inside.barometer", "BarometerReader", "inHg">>,
   <<"outside.rainrate", "RainRateReader", "in/h">>,
   <<"outside.solar", "SignedLittleEndianShortPacketReader", "W/m2">>,
   <<"inside.humidity", "SignedBytePacketReader", "%">>,
   <<"outside.humidity", "SignedBytePacketReader", "%">>,
   <<"outside.uv", "UnsignedBytePacketReader", "index">>}

VantageProReaders ==
  {<<"console.barometer", "BarometerReader", "inHg">>,
   <<"console.temperature", "TemperatureReader", "F">>,
   <<"console.humidity", "SignedBytePacketReader", "%">>,
   <<"iss.temperature", "TemperatureReader", "F">>,
   <<"iss.wind", "VantageProWindReader", "mph">>,
   <<"extra.temperature", "ExtraTemperatureReader", "F">>,
   <<"soil.temperature", "ExtraTemperatureReader", "F">>,
   <<"leaf.temperature", "ExtraTemperatureReader", "F">>,
   <<"iss.humidity", "SignedBytePacketReader", "%">>,
   <<"extra.humidity", "SignedBytePacketReader", "%">>,
   <<"iss.rainrate", "RainRateReader", "in/h">>,
   <<"iss.uv", "UVReader", "index">>,
   <<"iss.solar", "SignedLittleEndianShortPacketReader", "W/m2">>,
   <<"soil.moisture", "UnsignedBytePacketReader", "cb">>,
   <<"leaf.wetness", "UnsignedBytePacketReader", "index">>,
   <<"iss.transmitter", "UnsignedBytePacketReader", "none">>,
   <<"console.battery", "VoltageReader", "V">>,
   <<"console.sunrise", "TimeReader", "unix">>,
   <<"console.sunset", "TimeReader", "unix">>}

Stations == {"WMII", "Perception", "Wizard", "GroWeather", "Energy", "Health",
             "VantagePro"}

\* getReaders, and StationFactory: three types are a WMII
ReadersOf(station) ==
  CASE station \in {"WMII", "Perception", "Wizard"} -> WMIIReaders
    [] station = "GroWeather" -> GroWeatherReaders
    [] station = "Energy" -> EnergyReaders
    [] station = "Health" -> HealthReaders
    [] station = "VantagePro" -> VantageProReaders

Winds == {"OldWindReader", "WMIIWindReader", "VantageProWindReader"}

\* newPacketReader: what a reader of this name makes of the bytes
Number(reader, p) ==
  CASE reader = "SignedBytePacketReader" -> BytePacketReader(p, TRUE)
    [] reader = "UnsignedBytePacketReader" -> BytePacketReader(p, FALSE)
    [] reader = "SignedLittleEndianShortPacketReader" -> ShortPacketReader(LittleEndian(p), TRUE)
    [] reader = "UnsignedLittleEndianShortPacketReader" -> ShortPacketReader(LittleEndian(p), FALSE)
    [] reader = "SignedBigEndianShortPacketReader" -> ShortPacketReader(BigEndian(p), TRUE)
    [] reader = "UnsignedBigEndianShortPacketReader" -> ShortPacketReader(BigEndian(p), FALSE)
    [] reader = "SignedNibblePacketReader" -> NibblePacketReader(p, TRUE)
    [] reader = "UnsignedNibblePacketReader" -> NibblePacketReader(p, FALSE)
    [] reader = "TemperatureReader" -> TemperatureReader(p)
    [] reader = "ExtraTemperatureReader" -> ExtraTemperatureReader(p)
    [] reader = "OldTemperatureReader" -> OldTemperatureReader(p)
    [] reader = "BarometerReader" -> BarometerReader(p)
    [] reader = "RainRateReader" -> RainRateReader(p)
    [] reader = "UVReader" -> UVReader(p)
    [] reader = "VoltageReader" -> VoltageReader(p)
    [] reader = "TimeReader" -> TimeReader(p)

\* how a station says that it has no value for the number: every bit set or,
\* in a number with a sign, every bit but the sign, or only the sign.  The
\* time of sunrise is always there
Absent(reader, p) ==
  CASE reader \in {"TemperatureReader", "SignedLittleEndianShortPacketReader"} ->
         <<p[1], p[2]>> \in {<<255, 127>>, <<0, 128>>}
    [] reader = "OldTemperatureReader" -> p[1] = 255 /\ p[2] % 16 = 7
    [] reader = "SignedBytePacketReader" -> p[1] \in {127, 128}
    [] reader \in {"BarometerReader", "VoltageReader"} -> p[1] = 255 /\ p[2] = 255
    [] reader = "TimeReader" -> FALSE
    [] OTHER -> p[1] = 255

Velocity(reader, p) ==
  CASE reader = "OldWindReader" -> OldWindReader(p)
    [] reader = "WMIIWindReader" -> WMIIWindReader(p)
    [] reader = "VantageProWindReader" -> VantageProWindReader(p)

-----------------------------------------------------------------------------
(* Calibration: what the constructors of the stations make of the numbers  *)
(* the console answers.  The slopes of rain and wind are left out: rain    *)
(* has a module of its own, and the readers of wind do not apply theirs.   *)

Far == 1000000
Linear(m, y) == [slope |-> m, y0 |-> y, top |-> Far, bottom |-> -Far]
Clipped(y, b) == [slope |-> 1, y0 |-> y, top |-> 100, bottom |-> b]

Calibrator(c, x) ==
  LET y == c.slope * x + c.y0
      z == IF y > c.top THEN c.top ELSE y
  IN  IF z < c.bottom THEN c.bottom ELSE z

Temperatures == {"inside.temperature", "outside.temperature", "soil.temperature"}

\* the answer to a request for one byte, read as two bytes, has no sign
HumidityAnswer(a) == ShortPacketReader(LittleEndian(<<a[1], 0>>), TRUE)

WMII(field, a) ==
  CASE field \in Temperatures -> {Linear(1, t) : t \in TemperatureReader(a)}
    [] field = "inside.barometer" ->
         {Linear(1, -b) : b \in ShortPacketReader(LittleEndian(a), TRUE)}
    [] field = "outside.humidity" -> {Clipped(h, 0) : h \in HumidityAnswer(a)}
    [] OTHER -> {Linear(1, 0)}

\* the number is in tenths of a degree but taken for degrees
GroWeather(field, a) ==
  CASE field \in Temperatures ->
         {Linear(1, 10 * t) : t \in NibblePacketReader(a, TRUE)}
    [] field = "inside.barometer" ->
         {Linear(1, -b) : b \in ShortPacketReader(LittleEndian(a), TRUE)}
    [] field = "outside.humidity" -> {Clipped(h, 0) : h \in HumidityAnswer(a)}
    [] OTHER -> {Linear(1, 0)}

\* the slope of temperatures is zero
Energy(field, a) ==
  CASE field \in Temperatures ->
         {Linear(0, t) : t \in NibblePacketReader(a, TRUE)}
    [] field = "inside.barometer" ->
         {Linear(1, -b) : b \in ShortPacketReader(LittleEndian(a), TRUE)}
    [] field = "outside.humidity" -> {Clipped(h, 0) : h \in BytePacketReader(a, TRUE)}
    [] OTHER -> {Linear(1, 0)}

\* humidity is clipped to a hundred from above and from below
Health(field, a) ==
  CASE field \in Temperatures ->
         {Linear(1, t) : t \in NibblePacketReader(a, TRUE)}
    [] field = "inside.barometer" ->
         {Linear(1, -b) : b \in ShortPacketReader(LittleEndian(a), TRUE)}
    [] field = "outside.humidity" -> {Clipped(h, 100) : h \in HumidityAnswer(a)}
    [] OTHER -> {Linear(1, 0)}

\* the rain collector tips for 0.01 inch, 0.2 or 0.1 mm; rates are counted in
\* steps of 1/127 tip.  Nothing is calibrated for a collector nobody knows
CollectorSlope(collector) ==
  CASE collector = 1 -> 100 [] collector = 2 -> 50 [] OTHER -> 127

\* the numbers are tenths of a degree, but those of the extra sensors are
\* taken for degrees
VantagePro(field, collector, a) ==
  CASE field \in {"console.temperature", "iss.temperature", "soil.temperature",
                  "leaf.temperature"} ->
         {Linear(1, t) : t \in BytePacketReader(a, TRUE)}
    [] field = "extra.temperature" ->
         {Linear(1, 10 * t) : t \in BytePacketReader(a, TRUE)}
    [] field \in {"console.humidity", "iss.humidity", "extra.humidity"} ->
         {Clipped(h, 0) : h \in BytePacketReader(a, TRUE)}
    [] field = "iss.rainrate" -> {Linear(CollectorSlope(collector), 0)}
    [] OTHER -> {Linear(1, 0)}

\* the calibrator of a field once the station is constructed; a number that
\* cannot be read is an exception, and the station is not constructed
Calibration(station, field, collector, a) ==
  CASE station \in {"WMII", "Perception", "Wizard"} -> WMII(field, a)
    [] station = "GroWeather" -> GroWeather(field, a)
    [] station = "Energy" -> Energy(field, a)
    [] station = "Health" -> Health(field, a)
    [] station = "VantagePro" -> VantagePro(field, collector, a)

\* the fields a constructor calibrates: without a reader for one of them,
\* because the database does not know the field, calibrateReader throws.  A
\* VantagePro asks with hasReader for the sensors that need not be there
CalibratedFields(station, collector) ==
  CASE station \in {"WMII", "Perception", "Wizard"} ->
         {"outside.rain", "outside.temperature", "inside.temperature",
          "outside.humidity", "inside.barometer"}
    [] station = "GroWeather" ->
         {"soil.temperature", "outside.temperature", "inside.barometer",
          "outside.humidity", "outside.wind", "outside.rain"}
    [] station \in {"Energy", "Health"} ->
         {"inside.temperature", "outside.temperature", "outside.rain",
          "outside.wind", "inside.barometer", "outside.humidity"}
    [] station = "VantagePro" ->
         {"console.temperature", "iss.temperature", "console.humidity",
          "iss.humidity"}
         \cup {f \in {"iss.rain", "iss.rainrate"} : collector \in {1, 2}}

-----------------------------------------------------------------------------
(* Conversion                                                              *)

\* A converter multiplies a reading with the factor of the source unit, and
\* with that of the target unit; divisions by a constant are left to the step
\* in which the result is counted.  It throws for a unit it does not know.
Multiplied(source, target, from, to, v) ==
  IF from = to THEN {v}
  ELSE {v * source[f] * target[t] : f \in {from} \cap DOMAIN source,
                                    t \in {to} \cap DOMAIN target}

PressureConverter(from, to, v) ==
  Multiplied([hPa |-> 1000000, mmHg |-> 1333224, inHg |-> 33863900],
             [hPa |-> 1, mmHg |-> 1, inHg |-> 3970079], from, to, v)

Speeds == {"m/s", "mph", "km/h"}
WindConverter(from, to, v) ==
  Multiplied([u \in Speeds |-> IF u = "m/s" THEN 3600000
                              ELSE IF u = "mph" THEN 1609344 ELSE 1000000],
             [u \in Speeds |-> IF u = "m/s" THEN 1
                              ELSE IF u = "mph" THEN 3600000 ELSE 36],
             from, to, v)

RainConverter(from, to, v) ==
  Multiplied([in |-> 254, mm |-> 10], [in |-> 10, mm |-> 1], from, to, v)

Rates == {"in/h", "mm/h"}
RainRateConverter(from, to, v) ==
  Multiplied([u \in Rates |-> IF u = "in/h" THEN 254 ELSE 10],
             [u \in Rates |-> IF u = "in/h" THEN 10 ELSE 1], from, to, v)

UVConverter(from, to, v) ==
  Multiplied([med |-> 7, index |-> 3], [med |-> 3, index |-> 1], from, to, v)

\* the converters of classes with one unit
SameUnit(from, to, v) == {w \in {v} : from = to}

\* from tenths to steps of 1/180 degree, or 1/100 degree Fahrenheit; 273.15
\* degrees are 49167 steps
Kelvin(from, v) ==
  CASE from = "F" -> {49167 + 10 * v - 3200}
    [] from = "C" -> {49167 + 18 * v}
    [] from = "K" -> {18 * v}
    [] OTHER -> {}

\* the last branch asks for the source unit, not the target: F to K throws,
\* and K to a unit that nobody knows does not
FromKelvin(from, to, k) ==
  CASE to = "F" -> {k - 49167 + 3200}
    [] to = "C" -> {k - 49167}
    [] OTHER -> {j \in {k} : from = "K"}

TemperatureConverter(from, to, v) ==
  IF from = to THEN {v}
  ELSE UNION {FromKelvin(from, to, k) : k \in Kelvin(from, v)}

\* Converter::operator() with the converter of the class
Convert(class, from, to, v) ==
  CASE class = "TemperatureValue" -> TemperatureConverter(from, to, v)
    [] class = "PressureValue" -> PressureConverter(from, to, v)
    [] class \in {"Wind", "WindSpeed"} -> WindConverter(from, to, v)
    [] class = "Rain" -> RainConverter(from, to, v)
    [] class = "RainRate" -> RainRateConverter(from, to, v)
    [] class = "UVValue" -> UVConverter(from, to, v)
    [] class = "TransmitterStatus" -> {v}
    [] class \in {"HumidityValue", "MoistureValue", "LevelValue", "SolarValue",
                  "LeafwetnessValue", "VoltageValue", "TimeValue"} ->
         SameUnit(from, to, v)

-----------------------------------------------------------------------------
(* Station::readValue, and the conversion in the update of the recorder    *)

ValueClasses ==
  {"BasicValue", "TemperatureValue", "HumidityValue", "PressureValue", "Wind",
   "WindSpeed", "Rain", "RainRate", "SolarValue", "UVValue", "LevelValue",
   "MoistureValue", "LeafwetnessValue", "VoltageValue", "TransmitterStatus",
   "TimeValue"}

\* the classes a value of which can be copied
CopiedClasses == ValueClasses \ {"BasicValue"}

NewValue(class, x, unit) ==
  {[class |-> c, unit |-> unit, v |-> <<x, 0>>] : c \in {class} \cap ValueClasses}

WindValue(w, unit) == [class |-> "Wind", unit |-> unit, v |-> w]

\* the value of a field with the class of the database in it; wind is a
\* Wind whatever the class, and is not calibrated
Value(station, field, class, cal, p) ==
  UNION {IF r[2] \in Winds
         THEN {WindValue(w, "mph") : w \in Velocity(r[2], p)}
         ELSE UNION {NewValue(class, Calibrator(cal, x), r[3]) : x \in Number(r[2], p)}
         : r \in {s \in ReadersOf(station) : s[1] = field}}

\* a copy of the value is given the converted number
Converted(val, to) ==
  {<<x, y>> : x \in Convert(val.class, val.unit, to, val.v[1]),
              y \in IF val.class = "Wind" THEN Convert(val.class, val.unit, to, val.v[2])
                                          ELSE {k \in {0} : val.class \in CopiedClasses}}
=============================================================================
