---------------------------- MODULE MCRecorders ----------------------------
(* Model-checking instances of Recorders: for each reader, a sensor whose  *)
(* database has its class and a unit, and the bytes it sends.              *)
EXTENDS Recorders, Sequences

Sensor(s, f, c, u, a) ==
  [station |-> s, collector |-> 0, field |-> f, class |-> c, unit |-> u,
   answer |-> a, lacks |-> {}]

MCSensors ==
  {Sensor("VantagePro", "console.temperature", "TemperatureValue", "C", <<254, 0>>),
   Sensor("VantagePro", "extra.temperature", "TemperatureValue", "F", <<3, 0>>),
   Sensor("VantagePro", "iss.temperature", "TemperatureValue", "K", <<10, 0>>),
   Sensor("VantagePro", "console.temperature", "TemperatureValue", "F", <<127, 0>>),
   Sensor("VantagePro", "console.barometer", "PressureValue", "inHg", <<0, 0>>),
   Sensor("VantagePro", "iss.humidity", "HumidityValue", "%", <<254, 0>>),
   Sensor("VantagePro", "iss.uv", "UVValue", "med", <<0, 0>>),
   Sensor("VantagePro", "console.battery", "VoltageValue", "V", <<0, 0>>),
   Sensor("VantagePro", "console.sunrise", "TimeValue", "unix", <<0, 0>>),
   Sensor("VantagePro", "iss.transmitter", "TransmitterStatus", "V", <<0, 0>>),
   Sensor("VantagePro", "iss.wind", "Wind", "mph", <<0, 0>>),
   Sensor("VantagePro", "pool.waterlevel", "LevelValue", "m", <<0, 0>>),
   [Sensor("VantagePro", "iss.rainrate", "RainRate", "in/h", <<0, 0>>)
      EXCEPT !.collector = 1, !.lacks = {"iss.rain"}],
   [Sensor("VantagePro", "iss.rainrate", "RainRate", "in/h", <<0, 0>>)
      EXCEPT !.collector = 2],
   Sensor("WMII", "outside.wind", "Wind", "mph", <<0, 0>>),
   Sensor("WMII", "outside.temperature", "TemperatureValue", "C", <<255, 255>>),
   Sensor("WMII", "outside.temperature", "TemperatureValue", "F", <<255, 127>>),
   Sensor("Perception", "outside.humidity", "HumidityValue", "%", <<254, 0>>),
   [Sensor("Wizard", "inside.barometer", "PressureValue", "inHg", <<1, 0>>)
      EXCEPT !.lacks = {"outside.rain"}],
   Sensor("GroWeather", "soil.temperature", "TemperatureValue", "F", <<1, 0>>),
   Sensor("GroWeather", "outside.wind", "Wind", "mph", <<0, 0>>),
   Sensor("Energy", "outside.humidity", "HumidityValue", "%", <<254, 0>>),
   Sensor("Energy", "outside.rainrate", "RainRate", "mm/h", <<0, 0>>),
   Sensor("Health", "outside.humidity", "HumidityValue", "%", <<3, 0>>)}

ReaderOf(s) == CHOOSE r \in ReadersOf(s.station) : r[1] = s.field
HasReader(s) == \E r \in ReadersOf(s.station) : r[1] = s.field

\* two readings, and the bytes of a sensor that is absent
Bytes(s) ==
  CASE ~HasReader(s) -> {<<0, 0>>}
    [] s.field = "console.sunrise" -> {<<144, 1>>, <<203, 2>>}
    [] OTHER ->
  LET reader == ReaderOf(s)[2]
  IN  CASE reader = "VantageProWindReader" ->
             {<<0, 0, 0, 0>>, <<2, 1, 90, 0>>, <<1, 1, 14, 1>>, <<255, 255, 255, 127>>,
              <<3, 1, 255, 255>>}
        [] reader = "WMIIWindReader" ->
             {<<1, 180, 0>>, <<2, 14, 1>>, <<255, 0, 0>>, <<4, 255, 255>>}
        [] reader = "OldWindReader" ->
             {<<1, 180, 0>>, <<2, 90, 16>>, <<255, 0, 0>>, <<1, 255, 7>>}
        [] reader = "TemperatureReader" ->
             {<<64, 1>>, <<0, 255>>, <<255, 127>>, <<0, 128>>}
        [] reader = "OldTemperatureReader" ->
             {<<16, 17>>, <<0, 15>>, <<255, 7>>, <<255, 15>>}
        [] reader = "SignedBytePacketReader" -> {<<99>>, <<1>>, <<127>>, <<128>>}
        [] reader \in {"BarometerReader", "VoltageReader"} ->
             {<<2, 1>>, <<1, 0>>, <<255, 255>>}
        [] OTHER -> {<<90>>, <<128>>, <<255>>}

MCPackets ==
  [s \in MCSensors |->
     {[i \in 1..4 |-> IF i <= Len(p) THEN p[i] ELSE 0] : p \in Bytes(s)}]
=============================================================================
