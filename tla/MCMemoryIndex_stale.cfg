CONSTANTS
  None = none
  Request = {r1, r2, r3}
SPECIFICATION Spec
SYMMETRY RequestSymmetry
INVARIANTS SearchReadsCurrent
CHECK_DEADLOCK FALSE
