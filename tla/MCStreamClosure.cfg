SPECIFICATION Spec
CONSTANTS
  Requests = {r1, r2}
  MaxSessions = 2
  MaxChunks = 1
  QueueSize = 1
  Gone = Gone
SYMMETRY Symmetry
INVARIANT
  ClosureObserved
CHECK_DEADLOCK FALSE
