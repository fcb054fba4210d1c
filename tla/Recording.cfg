SPECIFICATION FairSpec
CONSTANTS
  MaxTicks = 2
  BusCapacity = 1
  ReplayCapacity = 2
  CalibrationTicks = 1
  MaxWriteErrors = 1
  MaxRev = 1
INVARIANTS
  MessagesMatchSchema
  ReplayFaithful
PROPERTY SessionsEnd
CHECK_DEADLOCK FALSE
