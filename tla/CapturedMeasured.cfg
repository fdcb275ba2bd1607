SPECIFICATION Spec
CONSTANTS
  Operations = {"review", "routine", "measured"}
  Found <- MCFound
  Measured = "R2"
  MaxOps = 3
  MaxLost = 0
  MaxDrops = 0
  MaxAlarms = 0
INVARIANTS
  MeasuredModesComeBack
CHECK_DEADLOCK FALSE
