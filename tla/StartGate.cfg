SPECIFICATION GateSpec
CONSTANTS
  Setups <- MCSetups
  MaxTime = 3
  MaxQueued = 3
INVARIANTS
  SwitchGoverns
PROPERTIES
  DisarmWins
