SPECIFICATION Spec
CONSTANTS
  None = None
  Slack = 2
  Grain = 2
  MaxActions = 2
  Limits <- MCLimits
  ProbeOffset <- MCProbeOffset
  Cases <- MCCases
  Clearances <- MCClearances
  Jogs <- MCJogs
  Offsets <- MCOffsets
INVARIANTS
  StaysInTravel
  ReviewCoversPreview
  EndsWhereReviewed
  MotionIsAnnounced
PROPERTIES
  FlagsSayWhereItIs
  ZeroIsWhereMeasured
  StopsAfterChange
CHECK_DEADLOCK FALSE
