\* Four calls against a channel of one: the dispatcher may fall behind, or keep
\* up. No symmetry: it is not sound for liveness.
CONSTANTS
  None = none
  Dispatcher = dispatcher
  Call = {c1, c2, c3, c4}
  Plugins = 2
  Capacity = 1
SPECIFICATION FairSpec
INVARIANTS TypeOK PluginsSeePrefix EventsAreTrue
PROPERTIES EveryCallReturns
CHECK_DEADLOCK FALSE
