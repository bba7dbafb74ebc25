CONSTANTS
  Aggregates = {g1}
  Workers = {w1, w2}
  MaxRaised = 2
SPECIFICATION Spec
SYMMETRY Symmetry
INVARIANTS
  TypeOK
  DecidedOnHistory
  StoredOnce
  SequenceIsPosition
  SavedIsStored
  PublishedIsStored
  PublishedOrForgotten
