SPECIFICATION Spec
CONSTANTS
  Instances = {i1}
  Daemons = {d1}
  Sessions = {s1}
  DaemonOf <- MCOneDaemon
  Mock = {}
  NoSession = NoSession
  d1 = d1
  d2 = d2
  s1 = s1
  s2 = s2
  Second = 2
  FlowTtl = 3
  SeenTtl = 3
  MaxSeen = 2
  Tolerance = 1
  Skew = 0
  MaxRequests = 1
  MaxTime = 5
INVARIANTS
  SessionUsedOnce
CHECK_DEADLOCK FALSE
