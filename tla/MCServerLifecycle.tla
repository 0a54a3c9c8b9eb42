--------------------------- MODULE MCServerLifecycle ---------------------------
EXTENDS ServerLifecycle, TLC

CONSTANTS grpc1, http1, metrics1, grpc2, http2

FirstPorts  == [grpc |-> grpc1, http |-> http1, metrics |-> metrics1]
SecondPorts == [grpc |-> grpc2, http |-> http2, metrics |-> metrics1]

\* A file that gives no secret, and one that does.
Silent == [data_dir |-> Unset, stores |-> Unset, jwt_secret |-> Unset]
Full   == [data_dir |-> Blank, stores |-> Unset, jwt_secret |-> "chosen"]

\* Command lines of one server, and of a second one on another gRPC and HTTP
\* port that has left the metrics port as it was.
MCArgs ==
  {[config |-> Unset,  data_dir |-> Unset, ports |-> FirstPorts,  certificate |-> FALSE],
   [config |-> Full,   data_dir |-> Unset, ports |-> SecondPorts, certificate |-> FALSE],
   [config |-> Silent, data_dir |-> Unset, ports |-> FirstPorts,  certificate |-> TRUE]}

MCEnv ==
  {[data_dir |-> Unset, jwt_secret |-> Unset, parsed |-> TRUE],
   [data_dir |-> Unset, jwt_secret |-> DefaultMark, parsed |-> TRUE]}
=============================================================================
