\* A stage and two that close its transaction, or its begin, each sent up to twice.
CONSTANTS
  None = none
  Command = {c1, c2, c3}
  Tx = {t1}
  MaxRetries = 1
SPECIFICATION Spec
SYMMETRY CommandSymmetry
INVARIANTS TypeOK ToldIsTrue
PROPERTIES SettledIsFinal
CHECK_DEADLOCK FALSE
