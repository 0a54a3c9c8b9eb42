\* A session with a write scope and one without, one transaction, four requests.
CONSTANTS
  None = none
  Session = {s1, s2}
  Writer = {s1}
  Tx = {t1}
  Request = {r1, r2, r3, r4}
  VectorEnabled = TRUE
SPECIFICATION Spec
SYMMETRY RequestSymmetry
INVARIANTS TypeOK AtomicCommit AtMostOnce CommitDurable RollbackFinal IndexFollowsCore OnlyWritersStore IInv
PROPERTIES EndedSessionStoresNothing
CHECK_DEADLOCK FALSE
