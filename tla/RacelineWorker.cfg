CONSTANTS
  MaxRev = 3
  MaxUnread = 3
SPECIFICATION FairSpec
INVARIANTS
  RevisionOrder
  NoLostWakeup
  EventsFaithful
PROPERTIES
  ShutdownReturns
  ImplementsLatestWins
CHECK_DEADLOCK FALSE
