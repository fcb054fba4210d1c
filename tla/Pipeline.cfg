CONSTANTS
  MaxFailures = 0
  MaxOutdated = 1
  MaxLag = 1
  EngageDwell = 2
  FallbackDwell = 2
  MinLap = 1
  Saturation = 2
  MaxRev = 2
  MaxResets = 1
SPECIFICATION FairSpec
INVARIANTS
  LineNeverAheadOfMap
  UsableLineIsRecent
  RaceLineIsEarned
PROPERTIES
  SolvedAtMostOnce
  PlannerCatchesUp
CHECK_DEADLOCK FALSE
