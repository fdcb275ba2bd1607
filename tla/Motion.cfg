SPECIFICATION Spec
CONSTANTS
  Travel = 5
  Backoff = 3
  Tolerance = 1
  Overtravel = 1
  StopRange = 2
  Guarded = {4, 8}
  Lifts <- MCLifts
  Low <- MCLow
  High = 6
  Surfaces = {1, 4, 9}
  MaxOvershoot = 3
  TriggerKnown = TRUE
  Capacity = 2
  MaxJobs = 1
  None = None
INVARIANTS
  CommandsWaitForRest SafeOutcomesAtRest MeasuredSurface NoFalseMiss
  StaysInLimits
CHECK_DEADLOCK FALSE
