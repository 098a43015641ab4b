\* close() with one connection: expected to fail, see CloseSettles.
SPECIFICATION FairSpec
CONSTANTS
  Uuids = {u1}
  Sockets = {s1}
  Calls = {c1}
  NoUuid = NoUuid
  NoSocket = NoSocket
  MaxPending = 1
  PingIntervalMs = 30000
  PongTimeoutMs = 10000
  Fragile = {}
PROPERTY CloseSettles
CHECK_DEADLOCK FALSE
