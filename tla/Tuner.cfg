SPECIFICATION Spec
CONSTANTS
  InnerWalls <- MCInner
  OuterWalls <- MCOuter
  Waypoints <- MCWaypoints
  HalfLength = 2
  HalfWidth = 1
  LidarRange = 6
  Cell = 5
  SteerUnit = 2
  FullThrottle = 2
  MotorGain = 1
  DragK = 2
  AccelMax = 1
  BaseParams <- MCBase
  SpeedChanges <- MCSpeedChanges
  TopSpeed = 1
  ForcedYawRates <- MCForcedYawRates
  Commands <- MCCommands
  TickUs = 2
  MaxTicks = 6
  TargetLaps = 1
  TargetSpeed = 1
  MinAvgSpeed = 1
  Weights <- MCWeights
  Jobs <- MCJobs
  Params <- MCParams
  Overrides <- MCOverrides
  Defaults <- MCDefaults
  CompatDefaults <- MCCompatDefaults
  RawValues = {3, 7}
  MinKey = "min_lookahead"
  MaxKey = "max_lookahead"
  MapperKey = "mapping_enabled"
  ReplayCosts = {120}
INVARIANTS
  SensesTheWalls
  LapsAreDriven
  ScoresTellOutcomes
  BestOfTheSpaceIsWritten
