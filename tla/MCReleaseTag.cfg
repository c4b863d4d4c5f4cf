CONSTANTS
  Runs = {r1, r2}
  Versions = {v1}
  None = None
  MaxAttempts = 3
  MaxSrc = 1
SPECIFICATION Spec
SYMMETRY RunSymmetry
CHECK_DEADLOCK FALSE
INVARIANT TagResolves
