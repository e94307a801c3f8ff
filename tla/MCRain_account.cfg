SPECIFICATION RainSpec
CONSTANTS
  CounterSize = 4
  DailyReset = TRUE
  TicksPerPacket = 3
  MaxFallen = 7
  Garbage = {0, 2}
INVARIANTS
  NoPhantomRain
  LossConfinedToWraps
