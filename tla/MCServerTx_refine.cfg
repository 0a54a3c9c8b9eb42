\* Two transactions: closing one leaves the other alone. No symmetry: it is not
\* sound for liveness.
CONSTANTS
  None = none
  Session = {s1}
  Writer = {s1}
  Tx = {t1, t2}
  Request = {r1, r2, r3}
  VectorEnabled = TRUE
SPECIFICATION FairSpec
PROPERTIES ImplementsAtomicTx EveryRequestAnswered
CHECK_DEADLOCK FALSE
