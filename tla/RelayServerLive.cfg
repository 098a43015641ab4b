SPECIFICATION FairSpec
CONSTANTS
  Uuids = {u1}
  Sockets = {s1, s2}
  Calls = {c1}
  NoUuid = NoUuid
  NoSocket = NoSocket
  MaxPending = 1
  PingIntervalMs = 10
  PongTimeoutMs = 30
  Fragile = {s1, s2}
PROPERTIES
  ForwardSettles
  HalfOpenIsEvicted
CHECK_DEADLOCK FALSE
