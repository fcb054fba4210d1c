SPECIFICATION FairSpec
CONSTANTS
  Required <- MCRequired
  MaxUnplugs = 2
PROPERTY FailedSessionEnds
CHECK_DEADLOCK FALSE
