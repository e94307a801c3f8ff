SPECIFICATION Spec
CONSTANTS
  Sensors <- MCSensors
  Packets <- MCPackets
  Gaps = {1, 2}
  Backs = {4}
  Short = 1
  MaxPackets = 4
  MaxMinutes = 2
CHECK_DEADLOCK FALSE
INVARIANTS
  MeanIsWeighted
  ExtremesHold
  WindIsVectorSum
  ReadingsPossible
  MinutesAddUp
