SPECIFICATION Spec
CONSTANTS
  g1 = g1
  g2 = g2
  Goroutines = {g1, g2}
  Routed <- AllRouted
  EventBus = "events"
  Names = {"n"}
  MaxCalls = 4
CHECK_DEADLOCK FALSE
INVARIANT TypeOK
PROPERTIES NeverDisplaced RunsTheRegistered CallsReturn
