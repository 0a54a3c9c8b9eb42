\* Two transactions, two calls at a time.
CONSTANTS
  Tx = {t1, t2}
  Key = {k1, k2}
  Call = {c1, c2}
  None = none
  MaxWrites = 2
  MaxLog = 1
  Deployments <- MCDeployments
SPECIFICATION Spec
SYMMETRY MCSymmetry
INVARIANTS TypeOK OutcomesAreTrue OneOutcome NoTwoWriters OpenCanBeEnded
CHECK_DEADLOCK FALSE
