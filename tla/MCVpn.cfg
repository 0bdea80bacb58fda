SPECIFICATION FairSpec
CONSTANTS
  Requests = {r1, r2}
  Operations = {"status", "disconnect", "wireguard", "warp", "rotate"}
  Faults = {"crash", "profile", "stop", "route"}
  MaxFaults = 1
INVARIANTS
  TypeOK
  OneTunnelUnlessRotated
  ReachableUnlessFault
PROPERTIES
  LockGranted
  StaleEnds
