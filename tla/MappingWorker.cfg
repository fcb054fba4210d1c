CONSTANTS
  Capacity = 2
  MaxScans = 4
SPECIFICATION FairSpec
INVARIANTS
  EveryScanAccounted
  StatusLeadsMap
PROPERTIES
  ShutdownReturns
  QueuedLapMarkTakesEffect
  ImplementsMapFeed
CHECK_DEADLOCK FALSE
