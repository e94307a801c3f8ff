SPECIFICATION DrawSpec
CONSTANTS
  Failed = Failed
  None = None
  Fields = {"a", "b"}
  Raw = 1
  Nodes <- MCNodes
  Formula <- MCFormula
  Drawers = {d1, d2}
  Graphs = {"sound", "broken", "stored"}
  Drawn <- DrawnGraphics
  Exception = Failed
  AtStart = AtStart
  Graph <- MCGraph
  Requests <- MCRequests
  Histories <- MCHistories
  Feed <- MCFeed
  Daylight <- MCDaylight
  Begin = 15
  Horizon = 19
  MaxRuns = 2
  MaxKills = 1
  MaxDraw = 1
SYMMETRY Symmetry
CHECK_DEADLOCK FALSE
INVARIANTS
  ColumnsShowTheirRows
  DerivedFromRows
  TicksFitScale
  ImagesAreRecent
