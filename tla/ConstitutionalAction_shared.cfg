SPECIFICATION Spec
CONSTANTS
  p1 = p1
  p2 = p2
  Procs <- TwoProcs
  MaxTotalActions = 1
  MaxClockTicks = 1
  MaxTransactions = 1
  MaxRevision = 2
  MaxHistory = 2
  MaxEvents = 2
INVARIANT WrittenAhead
SYMMETRY Symmetry
CHECK_DEADLOCK FALSE
