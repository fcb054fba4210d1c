SPECIFICATION FairSpec
CONSTANTS
  Setups <- MCSetups
  MaxTime = 1
  MaxQueued = 1
  Grace = 2
  CleanTicks = 2
  RearmGap = 1
  EstopLens <- MCEstopLens
  EstopMin = 1
  Distances <- MCDistances
  Throttles <- MCThrottles
  Steerings <- MCSteerings
  Samples = 2
  MaxLeaky = 7
  MaxFaults = 1
INVARIANTS
  ClosedGateIsNeutral
  EstopLatched
  BlindIsBounded
  OverrunsReachSafeState
  ReturnsNeutral
PROPERTY ShutdownReturns
CHECK_DEADLOCK FALSE
