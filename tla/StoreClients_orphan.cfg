SPECIFICATION Spec
CONSTANTS
  p1 = p1
  p2 = p2
  Procs <- TwoProcs
  MaxTotalActions = 1
  MaxClockTicks = 1
  MaxSaves = 3
  Candidates <- ManyStates
INVARIANT OrphanTailDetected
CHECK_DEADLOCK FALSE
