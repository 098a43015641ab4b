\* Every option object with lists of up to three entries, so up to three
\* connections; clock readings that repeat, advance and step back.
SPECIFICATION Spec
CONSTANTS
  Urls = {b1, b2, b3}
  EmptyUrl = EmptyUrl
  Absent = Absent
  MaxUrls = 3
  MaxAttempts = 2
  MaxSecond = 2
SYMMETRY Symmetry
INVARIANTS
  TypeOK
  ToldTheTruth
PROPERTY NoReportAfterRun
CHECK_DEADLOCK FALSE
