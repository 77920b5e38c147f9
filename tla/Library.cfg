SPECIFICATION LibrarySpec
CONSTANTS
  Clauses <- OneClause
  Texts <- TwoTexts
  Evidence <- Challenges
  Minimum = 1
  Maximum = 3
  Actors = {"a", "b"}
  WeatherKeys = {"k"}
  MaxPressure = 2
  MaxAmendments = 3
  MaxRevision = 2
  MaxOpen = 2
  MaxGrants = 2
  Scars = {"scar"}
  Contradictions = {"dispute"}
  MaxSeverity = 2
  ChallengeThreshold = 1
  QuarantineThreshold = 3
  ChallengedPressure = 1
  QuarantinedPressure = 2
  MaxChallenges = 2
  MaxEvaluations = 2
  MaxResolutions = 1
  Claims = {"claim"}
  Refs = {"ref"}
  MaxCarriages = 2
  MaxContradictions = 1
  MaxReceipts = 4
  Skins <- TwoSkins
  Mode <- Modes
  TickRate = 1
  GrantedTicks = 2
  CostPerTick = 2
  WarrantLimit = 5
  WarrantExpiry = 2
  MaxWallTime = 2
  MaxAdvances = 2
  Coalitions = {"a", "b"}
  Members = {"m1", "m2", "m3"}
  CharterExpiry <- Expiries
  SponsorExpiry = 2
  SponsorLimit = 2
  MaxTime = 3
  MaxChildren = 2
  Routes <- ThreeRoutes
  BaseCost <- Costs
  Coalesced = {2, 3}
  Lent = {3}
  MaxChanges = 2
  MaxComparisons = 1
  WitnessCases <- FourCases
  BenchPolicy <- TwoOfTwo
  Contracts = {"c1", "c2"}
  Rehearsals <- ThreeRehearsals
  CaseKinds = {"happy", "veto"}
  LeaseActions = 2
  MaxProposals = 4
  MaxRevisions = 6
  MaxSessions = 1
  Kinds <- TwoKinds
  Granted <- OneGranted
  Limit <- Budget
  Scopes <- TwoRules
  Rules <- TwoRules
  MaxCount <- Counts
  MaxTotalActions = 3
  MaxClockTicks = 4
  Requests <- SomeRequests
INVARIANT LibraryTypeOK
INVARIANT EnactedIsSpent
INVARIANT RestrictionIsFounded
INVARIANT LineageIsSound
INVARIANT LocalTimeIsEarned
INVARIANT WarrantPaysForTicks
INVARIANT BudgetIsConserved
INVARIANT PromotionIsWitnessed
INVARIANT StaleProposalsAreDead
INVARIANT SessionTypeOK
INVARIANT WithinContract
INVARIANT ReceiptsAlternate
PROPERTY OnlyResolutionLifts
PROPERTY SpendingIsAlive
PROPERTY LosersDoNotSteer
PROPERTY SteeringIsCurrent
PROPERTY StopIsFinal
PROPERTY SessionHonoursLease
CHECK_DEADLOCK FALSE
