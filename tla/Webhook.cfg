\* Two calls against a cap of one.  In units of 10 s or so: a fetch of two, a
\* request timeout that holds the fetch and a trip and one that does not, a
\* pong timeout shorter and one longer than the ping interval, and round trips
\* from none to longer than either.
SPECIFICATION Spec
CONSTANTS
  Calls = {c1, c2}
  MaxPending = 1
  LocalStatuses = {"200", "503", "504"}
  FetchTimeout = 2
  RequestTimeouts = {2, 4}
  PingIntervals = {2}
  PongTimeouts = {1, 3}
  Trips = {0, 1, 2}
SYMMETRY Symmetry
INVARIANTS
  TypeOK
  StatusTellsTheTruth
  HealthyIsKept
  DeadIsEvictedInTime
