CONSTANTS
  p1 = p1  p2 = p2
  Producers <- TwoProducers
  Service = service
  Size = 3
  Pushes = 3
  Serial = FALSE
  StartMayFail = FALSE
  Torn = Torn  Mixed = Mixed
SPECIFICATION Spec
INVARIANT NeverOverfilled
