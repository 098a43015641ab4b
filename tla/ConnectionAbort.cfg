SPECIFICATION FairSpec
CONSTANTS
  Requests = {"r1", "r2", "r3"}
  InitialWait = 1
  MaxWait = 3
  MaxAttempts = 2
PROPERTY AbortStops
CHECK_DEADLOCK FALSE
