SPECIFICATION FairSpec
CONSTANTS
  Pids = {c1, c2}
  c1 = c1
  c2 = c2
  Zero = Zero
CHECK_DEADLOCK FALSE
INVARIANTS
  OneChild
  OnlyTermEndsUnlessEarly
PROPERTIES
  ChildReplaced
  HungChildEnds
  TermEndsAll
