SPECIFICATION FairSpec
CONSTANTS
  Callers = {c1, c2}
  Providers = {p1, p2}
  Seeds = {"none", "short", "long"}
  MaxBackups = 2
  MaxFaults = 3
INVARIANTS
  TypeOK
  ClientsKept
  ReadyMeansMigrated
  OriginalKept
PROPERTIES
  Recovers
