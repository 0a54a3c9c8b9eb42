CONSTANTS MaxRequests = 2
SPECIFICATION FairSpec
INVARIANTS TypeOK OkMeansStopped
PROPERTIES ShutdownEnds
CHECK_DEADLOCK FALSE
