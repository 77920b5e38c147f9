SPECIFICATION MCSpec
CONSTANTS
  p1 = p1
  p2 = p2
  b1 = b1
  b2 = b2
  Procs <- TwoProcs
  MaxTotalActions = 1
  MaxClockTicks = 1
  MaxSaves = 3
  Candidates <- ManyStates
  Binders <- TwoBinders
  MaxAttestations = 2
  MaxEvents = 1
INVARIANT StoreTypeOK
INVARIANT NeverGoesBack
INVARIANT AttestedPrefixHolds
SYMMETRY Symmetry
CHECK_DEADLOCK FALSE
