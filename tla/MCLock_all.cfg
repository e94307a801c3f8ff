SPECIFICATION FairSpec
CONSTANTS
  Procs = {p1, p2, p3}
  MaxProcesses = 2
  MaxRunning = 1
  Modes = {"none", "block", "nowait"}
  CrashAt = {"start", "locked", "ready", "noid", "queued", "running", "left"}
  FcntlFails = TRUE
  NoProc = NoProc
  p1 = p1
  p2 = p2
  p3 = p3
INVARIANTS
  SlotsAccounted
PROPERTY ImplementsSlots
PROPERTY WaiterLeavesQueue
