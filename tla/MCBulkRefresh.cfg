SPECIFICATION FairSpec
CONSTANTS
  Callers = {c1, c2}
  NumItems = 2
  MaxJobs = 2
  Faults = {"crash", "write"}
  MaxFaults = 1
  None = None
INVARIANTS
  TypeOK
  OneOperation
  SucceededMeansAll
PROPERTIES
  OperationEnds
