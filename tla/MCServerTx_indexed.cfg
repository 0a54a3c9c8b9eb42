\* What ARCHITECTURE.md says of vector errors, against the code.
CONSTANTS
  None = none
  Session = {s1}
  Writer = {s1}
  Tx = {t1}
  Request = {r1, r2, r3}
  VectorEnabled = TRUE
SPECIFICATION Spec
SYMMETRY RequestSymmetry
INVARIANTS CommitIndexed
CHECK_DEADLOCK FALSE
