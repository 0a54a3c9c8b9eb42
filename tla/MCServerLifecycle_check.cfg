\* Two servers, three commands, two pids.
CONSTANTS
  Unset = unset
  Malformed = malformed
  Home = "home"
  None = none
  Stranger = stranger
  MaxServers = 2
  MaxCommands = 3
  Pid = {p1, p2}
  grpc1 = grpc1
  http1 = http1
  metrics1 = metrics1
  grpc2 = grpc2
  http2 = http2
  Args <- MCArgs
  Env <- MCEnv
SPECIFICATION Spec
INVARIANTS TypeOK ServesWhole StopFindsIt StrangersAreSafe
PROPERTIES StartAndStopEnd
CHECK_DEADLOCK FALSE
