SPECIFICATION FairSpec
CONSTANTS
  Workers = {w1, w2}
  Readers = {r1}
  Items = {"items"}
  MaxGen = 2
  MaxChunks = 2
  MaxCrashes = 1
  Operations = {"fill", "purge", "refresh"}
  Faults = {"write"}
  None = None
PROPERTIES
  ImplementsContract
  LeftoversGo
