CONSTANTS
  Aggregates = {g1}
  Workers = {w1}
  MaxRaised = 1
SPECIFICATION Spec
SYMMETRY Symmetry
INVARIANTS
  CommittedReflectsStore
