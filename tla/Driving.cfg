SPECIFICATION Spec
CONSTANTS
  Apex <- MCApex
  Speed <- MCSpeed
  Gains <- MCGains
  Stanley <- MCStanley
  Lateral <- MCLateral
  Steering <- MCSteering
  Longitudinal <- MCLongitudinal
  Scans <- MCScans
  Cars <- MCCars
  Line <- MCLine
  MaxScans = 3
INVARIANTS
  AimsNearTheApex
  TurnsBackToTheLine
PROPERTIES
  BrakesForWhatIsAhead
