CONSTANTS
  a = a
  b = b
  Rows <- TwoStreams
  NewRows <- SecondRow
  Handlers = {h1, h2}
  Dispatchers = {d1}
  BatchSize = 2
  MaxFailures = 2
  MaxLosses = 0
SPECIFICATION Spec
SYMMETRY Symmetry
INVARIANTS
  TypeOK
  NoOvertaking
  DispatchedInOrder
