CONSTANTS
  a = a
  b = b
  Rows <- OneStream
  NewRows <- SecondRow
  Handlers = {h1}
  Dispatchers = {d1, d2}
  BatchSize = 2
  MaxFailures = 2
  MaxLosses = 2
SPECIFICATION FairSpec
INVARIANTS
  AtLeastOnce
  LocksExclusive
PROPERTIES
  OnceWithoutFailure
  EverythingDispatched
  CancelStops
  RunRests
