SPECIFICATION MCSpec
CONSTANTS
  o1 = o1
  i1 = i1
  i2 = i2
  w1 = w1
  Operators <- OneOperator
  MaxCommands = 5
  MaxGateCommands = 3
  Initializers <- TwoInitializers
  MaxAnchors = 3
  Writers <- OneWriter
INVARIANT TypeOK
INVARIANT AuditNeverAhead
INVARIANT ContainmentNested
INVARIANT NextStepLeadsHome
INVARIANT SealedIsVerifiable
PROPERTY SealNeedsRecovery
PROPERTY ClimbsLadder
PROPERTY ClosedGateDrains
CHECK_DEADLOCK FALSE
