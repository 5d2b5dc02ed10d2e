CONSTANTS
  p1 = p1  p2 = p2
  Producers <- TwoProducers
  Service = service
  Size = 2
  Pushes = 2
  Serial = FALSE
  StartMayFail = FALSE
  Torn = Torn  Mixed = Mixed
SPECIFICATION FairSpec
INVARIANT LockNeverOrphaned
PROPERTIES PushesReturn ShutdownCompletes
