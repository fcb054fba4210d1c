SPECIFICATION FairSpec
CONSTANTS
  Required <- MCRequired
  MaxUnplugs = 2
INVARIANTS
  FaultWhileWaiting
  NothingLeftBehind
PROPERTY ShutdownEndsSession
CHECK_DEADLOCK FALSE
