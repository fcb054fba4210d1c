CONSTANTS
  Width = 11
  Height = 11
  INF = 1000000
  MinSharedBorder = 4
  DominancePercent = 80
  Maps <- MCMaps
  Radii = {0, 1}
  SavgolWindow = 7
  SavgolOrder = 3
  Samples = 3
  Widths = {0, 4, 8}
  Clearance = 4
  Slope = 4
  Damping = 2
  MaxIterations = 2
  Offsets <- MCOffsets
  Caps = {1, 4, 9}
  AccelTwiceDs = 2
  BrakeTwiceDs = 6
  ClosedPasses = 4
SPECIFICATION SolverSpec
INVARIANTS
  DistancesAreNearest
  ThickObstaclesStay
  ContourSeparatesWalls
  ProfileIsDriveable
CHECK_DEADLOCK FALSE
