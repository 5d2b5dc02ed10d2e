CONSTANTS
  MaxThreadTot = 2
  JoinTot = 2
  MayFail = {}
SPECIFICATION Spec
INVARIANT GatherAlwaysFirst
