CONSTANTS
  None = none
  Request = {r1, r2, r3, r4}
SPECIFICATION Spec
SYMMETRY RequestSymmetry
INVARIANTS TypeOK IndexFollowsStore RememberIsTrue StoreReadsCurrent
CHECK_DEADLOCK FALSE
