SPECIFICATION Spec
CONSTANTS
  Operations = {"review", "routine", "angle", "rotary", "measured", "return", "repeat",
                "zero", "recorded", "rotaryzero", "levelzero", "align", "rotate"}
  Found <- MCFound
  Measured = "R2"
  MaxOps = 4
  MaxLost = 1
  MaxDrops = 1
  MaxAlarms = 1
INVARIANTS
  NumbersAreMetric
  SuccessGivesBack
  ErrorGivesBackOrSays
  NoOldContactInMotion
PROPERTIES
  RestoresAtRest
  StopIsHeeded
CHECK_DEADLOCK FALSE
