CONSTANTS
  p1 = p1  p2 = p2
  Producers <- OneProducer
  Service = service
  Size = 3
  Pushes = 2
  Serial = TRUE
  StartMayFail = FALSE
  Torn = Torn  Mixed = Mixed
SPECIFICATION Spec
INVARIANT NothingLeftBehind
