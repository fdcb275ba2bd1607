SPECIFICATION Spec
CONSTANTS
  r1 = r1
  r2 = r2
  a = a
  Runs <- MCRuns
  Clients <- MCClients
  Wcs = {54, 55}
  Kinds = {"zero"}
  NoRun = NoRun
  NoResult = NoResult
  Shown = 1
  MaxRecords = 3
  MaxEvents = 2
SYMMETRY Symmetry
INVARIANTS
  SavedRunIsShown
PROPERTIES
  LogIsKept ZeroIsOfAskedRun
CHECK_DEADLOCK FALSE
