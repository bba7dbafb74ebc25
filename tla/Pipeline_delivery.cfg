CONSTANTS
  a = a
  b = b
  c1 = c1
  c2 = c2
  Aggregates <- TwoAggregates
  Connections <- TwoConnections
  MaxSequence = 2
  MaxBatch = 2
  MaxOutboxId = 1
  Handlers = {h1, h2}
  Dispatchers = {d1}
  BatchSize = 2
  MaxFailures = 1
  MaxLosses = 0
SPECIFICATION FairSpec
PROPERTIES
  StoreFeedsDispatcher
  HeardInOrder
  StoredIsHeard
