SPECIFICATION FairSpec
CONSTANTS
  Requests = {"r1", "r2", "r3"}
  InitialWait = 1
  MaxWait = 3
  MaxAttempts = 2
INVARIANTS
  TypeOK
  NoRequestLost
PROPERTIES
  ReportsLikeEndpoint
  EveryPhaseEnds
  KeepsTrying
  AbortIsFinal
CHECK_DEADLOCK FALSE
