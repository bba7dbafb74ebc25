CONSTANTS
  g1 = g1
  g2 = g2
  c1 = c1
  c2 = c2
  c3 = c3
  Aggregates <- TwoAggregates
  Connections <- TwoConnections
  MaxSequence = 2
  MaxBatch = 2
  MaxOutboxId = 2
SPECIFICATION FairSpec
PROPERTIES
  AppendContract
  AppendEnds
