SPECIFICATION Spec
CONSTANTS
  Uuids = {u1, u2}
  SecondsPerHour = 2
  HoursPerDay = 2
  MaxTime = 4
  MaxRequests = 2
SYMMETRY Symmetry
INVARIANTS
  TypeOK
  RatesAreTrue
  PeaksAreSound
PROPERTY ShownIsTrue
CHECK_DEADLOCK FALSE
