SPECIFICATION FairSpec
CONSTANTS
  Kinds = {"VantagePro", "Old"}
  Iterations = 3
  LoopCount = 2
  Reads = 2
  Late = {7}
  Faults = 2
INVARIANTS
  WakeupByTheBook
  CalibrationIsOurs
  PacketIsOurs
PROPERTIES
  WatchedDrainEnds
  PacketsAgain
