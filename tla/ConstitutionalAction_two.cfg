SPECIFICATION Spec
CONSTANTS
  p1 = p1
  p2 = p2
  Procs <- TwoProcs
  MaxTotalActions = 1
  MaxClockTicks = 1
  MaxTransactions = 2
  MaxRevision = 2
  MaxHistory = 2
  MaxEvents = 8
INVARIANT ExecutedWithinLease
CHECK_DEADLOCK FALSE
