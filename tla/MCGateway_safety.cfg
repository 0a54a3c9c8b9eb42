\* Two requests of any kind, over both protocols, against a session that may end.
CONSTANTS
  s1 = s1
  s2 = s2
  None = none
  Session = {s1, s2}
  Existing = {s1}
  Request = {r1, r2}
  ScopesOf <- MCScopesOf
  Op = {"create_session", "revoke_session", "validate_session", "active_session_count", "health", "ready", "metrics", "merge", "get_branch", "sync", "push_sync", "reflect_get_job"}
  Ttl = {0, 1, 9}
  TtlBits = 4
  DefaultTtl = 2
  LocalOnly = TRUE
  Reflect = FALSE
  MaxTick = 2
SPECIFICATION Spec
SYMMETRY RequestSymmetry
INVARIANTS TypeOK AnswersAreTrue OnlyTheEntitled GaugeIsTrue
PROPERTIES NeverBornDead
CHECK_DEADLOCK FALSE
