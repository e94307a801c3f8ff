SPECIFICATION CopySpec
CONSTANTS
  Times = {6, 8, 9, 10, 12}
  Intervals = {60, 300}
  Stationdata = 60
  Behind <- MCBehind
  Minute = 2
  Hour = 4
  ChunkTime = 4
  ChunkRows = 2
  SummerStart = 2
  SummerEnd = 8
  Uninitialized <- MCUninitialized
  MaxCopies = 2
  MaxNew = 2
CHECK_DEADLOCK FALSE
INVARIANTS
  RowsCopiedOnce
  FixLosesAnHour
