SPECIFICATION Spec
CONSTANTS
  p1 = p1
  p2 = p2
  Procs <- OneProc
  MaxTotalActions = 1
  MaxClockTicks = 1
  MaxTransactions = 2
  MaxRevision = 5
  MaxHistory = 6
  MaxEvents = 8
INVARIANT CommittedIsSettled
CHECK_DEADLOCK FALSE
