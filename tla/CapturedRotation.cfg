SPECIFICATION Spec
CONSTANTS
  Operations = {"review", "angle"}
  Found <- MCFound
  Measured = "R2"
  MaxOps = 2
  MaxLost = 0
  MaxDrops = 0
  MaxAlarms = 0
PROPERTIES
  RotationWaitsForRest
CHECK_DEADLOCK FALSE
