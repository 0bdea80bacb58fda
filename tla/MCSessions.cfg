SPECIFICATION Spec
CONSTANTS
  Browsers = {b1, b2}
  Names = {n1, n2}
  Words = {w1, w2}
  MaxAttempts = 2
  MaxChanges = 2
  MaxRestarts = 1
  None = None
INVARIANTS
  TypeOK
  SessionsCurrent
