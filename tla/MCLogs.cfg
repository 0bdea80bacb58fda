SPECIFICATION FairSpec
CONSTANTS
  MaxWrites = 2
  Kinds = {"k1", "k2"}
  KindOf <- MCKindOf
  Filters <- MCFilters
  All = All
  QueueSize = 1
  PageSize = 1
  TailSize = 1
  MaxEdits = 1
  MaxFaults = 1
  None = None
INVARIANTS
  TypeOK
  SentOnce
  FilterKept
  PostedInOrder
PROPERTIES
  Delivered
CHECK_DEADLOCK FALSE
