CONSTANTS
  a = a
  b = b
  Rows <- OneStream
  NewRows <- NoRows
  Handlers = {h1}
  Dispatchers = {d1}
  BatchSize = 1
  MaxFailures = 1
  MaxLosses = 0
SPECIFICATION Spec
SYMMETRY Symmetry
PROPERTIES
  BacksOffAfterCommitError
