\* Two callers under fairness: shutdown, reconnection and waits end.
SPECIFICATION FairSpec
CONSTANTS
  c1 = c1
  c2 = c2
  NoOne = NoOne
  NoReport = NoReport
  NotFinite = NotFinite
  Callers <- MCCallers
  Wcs <- MCWcs
  Reports <- LiveReports
  Frames <- LiveFrames
  MaxSockets = 1
  EventCapacity = 1
PROPERTIES
  ShutdownCompletes
  PoisonedSessionIsReplaced
  LossEndsWaits
