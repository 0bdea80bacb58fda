SPECIFICATION Spec
CONSTANTS
  Requests = {r1, r2}
  MaxSessions = 2
  MaxChunks = 3
  QueueSize = 1
  Gone = Gone
SYMMETRY Symmetry
INVARIANTS
  TypeOK
  OneUpstream
  StreamWhole
  NoIdleUpstream
  ViewersServed
CHECK_DEADLOCK FALSE
