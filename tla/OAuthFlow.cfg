SPECIFICATION Spec
CONSTANTS
  Instances = {i1}
  Daemons = {d1, d2}
  Sessions = {s1, s2}
  DaemonOf <- MCDaemonOf
  Mock = {s2}
  NoSession = NoSession
  d1 = d1
  d2 = d2
  s1 = s1
  s2 = s2
  Second = 2
  FlowTtl = 2
  SeenTtl = 2
  MaxSeen = 1
  Tolerance = 0
  Skew = 0
  MaxRequests = 1
  MaxTime = 4
INVARIANTS
  TypeOK
  TokenUsedOnce
  TokenReachesItsDaemon
PROPERTY FlowWindow
CHECK_DEADLOCK FALSE
