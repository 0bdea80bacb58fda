SPECIFICATION Spec
CONSTANTS
  Workers = {w1, w2}
  Readers = {r1, r2}
  Items = {"items", "empty"}
  MaxGen = 2
  MaxChunks = 2
  MaxCrashes = 0
  Operations = {"fill", "warm", "purge", "refresh", "remove"}
  Faults = {"chunk", "write"}
  None = None
SYMMETRY Symmetry
INVARIANTS
  TypeOK
  ActiveComplete
  PinnedReadable
  OwnsLock
  NothingLeaks
  RefreshPending
