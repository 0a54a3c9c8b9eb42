\* What ARCHITECTURE.md says of plugin hooks, against a dispatcher that lags.
CONSTANTS
  None = none
  Dispatcher = dispatcher
  Call = {c1, c2, c3}
  Plugins = 1
  Capacity = 1
SPECIFICATION FairSpec
PROPERTIES EveryEventDispatched
CHECK_DEADLOCK FALSE
