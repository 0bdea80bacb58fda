SPECIFICATION FairSpec
CONSTANTS
  Requests = {r1, r2}
  MaxSessions = 1
  MaxChunks = 2
  QueueSize = 1
  Gone = Gone
PROPERTIES
  NobodyHangs
CHECK_DEADLOCK FALSE
