CONSTANTS
  MaxThreadTot = 3
  JoinTot = 2
  MayFail = {}
SPECIFICATION Spec
INVARIANT FrameOutlivesAll
