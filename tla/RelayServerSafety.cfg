\* Two daemons, two connections (so two daemons, or one that reconnects), and
\* three calls against a cap of two.
SPECIFICATION Spec
CONSTANTS
  Uuids = {u1, u2}
  Sockets = {s1, s2}
  Calls = {c1, c2, c3}
  NoUuid = NoUuid
  NoSocket = NoSocket
  MaxPending = 2
  PingIntervalMs = 30000
  PongTimeoutMs = 10000
  Fragile = {}
SYMMETRY Symmetry
INVARIANTS
  TypeOK
  CapBookkeeping
  WaitersArePending
  RegistryBacked
  WelcomedIsRouted
  MetricsInSync
  RequestsWellRouted
PROPERTY ForwardKeepsContract
CHECK_DEADLOCK FALSE
