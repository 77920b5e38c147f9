SPECIFICATION Spec
CONSTANTS
  p1 = p1
  p2 = p2
  Procs <- OneProc
  MaxTotalActions = 2
  MaxClockTicks = 2
  MaxTransactions = 2
  MaxRevision = 2
  MaxHistory = 2
  MaxEvents = 8
PROPERTY OutcomeRecoveryRestarts
CHECK_DEADLOCK FALSE
