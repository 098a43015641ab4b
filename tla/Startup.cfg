SPECIFICATION FairSpec
CONSTANTS
  Instances = {i1, i2}
  Configs <- MCConfigs
  MaxCrashes = 2
INVARIANTS
  TypeOK
  IdentityIsStable
  FleetPresentsOneIdentity
  CheckPredictsStart
PROPERTY ComesUp
CHECK_DEADLOCK FALSE
