\* Two requests compete for the machine, for a review and for its result, across a
\* reconnect; every progress event finds the channel full.
SPECIFICATION Spec
CONSTANTS
  Tasks = {t1, t2}
  NoOne = NoOne
  Service = Service
  Stores = {"routine"}
  Kinds = {"review", "run", "return", "keep", "repeat", "zero"}
  MaxReviews = 1
  MaxSessions = 2
  Capacity = 1
SYMMETRY Symmetry
CHECK_DEADLOCK FALSE
INVARIANTS RecoveryIsSettled ContactIsCurrent TerminalEventFits RunsAsReviewed
PROPERTIES OwnsMachine MotionsAreOneShot
