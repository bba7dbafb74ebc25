CONSTANTS
  OrderIDs = {o1}
  Callers = {c1, c2}
  MaxRedeliveries = 2
SPECIFICATION FairSpec
INVARIANTS
  TypeOK
  OneLife
  ReadsOwnWrites
  StoredIsTold
  SummaryAgrees
  SummaryAsAsked
PROPERTIES
  OneIsTold
  ShippingShows
  NeverUnshipped
