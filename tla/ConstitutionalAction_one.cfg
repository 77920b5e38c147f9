SPECIFICATION Spec
CONSTANTS
  p1 = p1
  p2 = p2
  Procs <- OneProc
  MaxTotalActions = 2
  MaxClockTicks = 2
  MaxTransactions = 3
  MaxRevision = 2
  MaxHistory = 2
  MaxEvents = 8
INVARIANT ActionTypeOK
INVARIANT JournalTellsOneStory
INVARIANT PendingIsReconcilable
PROPERTY HonoursLease
CHECK_DEADLOCK FALSE
