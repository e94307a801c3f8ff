SPECIFICATION Spec
CONSTANTS
  Daemon = avgd
  Runs = {run1, run2}
  avgd = avgd
  run1 = run1
  run2 = run2
  Fields = {1, 2}
  Base = 2
  Delay = 1
  Intervals = {2}
  Offset = 2
  Watched <- TheAverage
  MaxTime = 3
  MaxData = 2
  MaxJobs = 1
  MaxRuns = 2
  MaxFaults = 1
SYMMETRY Symmetry
INVARIANTS
  LostOnlyByFailure
  DaemonSeesAll
  DaemonComputesOnce
