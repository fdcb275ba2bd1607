SPECIFICATION FairSpec
CONSTANTS
  Capacity = 2
  MaxSessions = 2
INVARIANTS
  ExtendedIsOut
PROPERTIES
  PendingClears
CHECK_DEADLOCK FALSE
