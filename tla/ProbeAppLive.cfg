\* Liveness: two requests, a shutdown and clients that leave.
SPECIFICATION FairSpec
CONSTANTS
  Tasks = {t1, t2}
  NoOne = NoOne
  Service = Service
  Stores = {"routine"}
  Kinds = {"repeat", "other"}
  MaxReviews = 1
  MaxSessions = 1
  Capacity = 1
CHECK_DEADLOCK FALSE
PROPERTIES ShutdownCompletes DroppedOperationEnds
