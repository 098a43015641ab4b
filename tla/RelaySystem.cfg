\* Two connections, so one reconnect, one of them fragile, and one call.
SPECIFICATION SystemFairSpec
CONSTANTS
  Uuids = {u1}
  Uuid = u1
  Sockets = {s1, s2}
  Calls = {c1}
  NoUuid = NoUuid
  NoSocket = NoSocket
  MaxPending = 1
  PingIntervalMs = 30000
  PongTimeoutMs = 10000
  Fragile = {s1}
  InitialWait = 1
  MaxWait = 1
  MaxAttempts = 0
INVARIANTS
  SystemTypeOK
  RunsOnceAndRouted
PROPERTIES
  ComponentsBehave
  DaemonNoticesLoss
CHECK_DEADLOCK FALSE
