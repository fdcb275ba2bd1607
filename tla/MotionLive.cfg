SPECIFICATION HealthySpec
CONSTANTS
  Travel = 5
  Backoff = 3
  Tolerance = 1
  Overtravel = 1
  StopRange = 2
  Guarded = {4, 8}
  Lifts <- MCLifts
  Low <- MCLow
  High = 6
  Surfaces = {2, 9}
  MaxOvershoot = 1
  TriggerKnown = TRUE
  Capacity = 2
  MaxJobs = 2
  None = None
PROPERTIES
  StagesFinish
CHECK_DEADLOCK FALSE
