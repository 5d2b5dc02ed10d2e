CONSTANTS
  p1 = p1  p2 = p2
  Producers <- TwoProducers
  Service = service
  Size = 3
  Pushes = 3
  Serial = TRUE
  StartMayFail = TRUE
  Torn = Torn  Mixed = Mixed
SPECIFICATION FairSpec
INVARIANTS TypeOK NeverOverfilled PrintedInOrder CopyAwayFromPrint
PROPERTIES FifoSpec AcceptedGetsPrinted
CHECK_DEADLOCK FALSE
