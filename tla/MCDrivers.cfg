SPECIFICATION Spec
CONSTANTS
  Pids = {i1, i2, i3}
  MaxCalls = 4
  MaxFaults = 2
  None = None
SYMMETRY Symmetry
INVARIANTS
  TypeOK
  
  ActiveIsOwn
CHECK_DEADLOCK FALSE
