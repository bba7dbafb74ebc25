CONSTANTS
  a = a
  b = b
  Rows <- OneStream
  NewRows <- NoRows
  Handlers = {h1}
  Dispatchers = {d1, d2}
  BatchSize = 1
  MaxFailures = 1
  MaxLosses = 1
SPECIFICATION Spec
SYMMETRY Symmetry
INVARIANTS
  ClaimsExclusive
