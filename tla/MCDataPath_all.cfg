SPECIFICATION FairSpec
CONSTANTS
  Fields = {1, 2}
  Plain = {2}
  Preferences <- MCPreferences
  QueueMax = 2
  AutoReconnect = TRUE
  MaxMinute = 2
  MaxPackets = 2
  MaxDeaths = 1
  MaxCrashes = 1
  MaxOutages = 1
  MaxSetBacks = 1
  MaxFaults = 2
INVARIANTS ReadingsUsedOnce MinuteRows LossBounded
PROPERTIES ImplementsSdata StoredAfterRecovery
CHECK_DEADLOCK FALSE
