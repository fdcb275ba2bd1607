\* Two callers, two connections: every safety property of the client.
SPECIFICATION Spec
CONSTANTS
  c1 = c1
  c2 = c2
  NoOne = NoOne
  NoReport = NoReport
  NotFinite = NotFinite
  Callers <- MCCallers
  Wcs <- MCWcs
  Reports <- MixedReports
  Frames <- MixedFrames
  MaxSockets = 2
  EventCapacity = 1
SYMMETRY CallerSymmetry
INVARIANTS
  WriterBelongsToSession
  TornSocketIsNotReused
  ConnectedCanWrite
PROPERTIES
  SessionNamesConnection
  ConfirmedByOwnConnection
