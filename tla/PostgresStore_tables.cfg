CONSTANTS
  g1 = g1
  g2 = g2
  c1 = c1
  c2 = c2
  c3 = c3
  Aggregates <- OneAggregate
  Connections <- ThreeConnections
  MaxSequence = 3
  MaxBatch = 2
  MaxOutboxId = 3
SPECIFICATION Spec
SYMMETRY Symmetry
INVARIANTS
  TypeOK
  StreamsGapFree
  OutboxMirrorsEvents
  OutboxFollowsSequence
  WaiterHoldsNoRows
PROPERTY VisibleInOrder
