CONSTANTS
  MaxThreadTot = 3
  JoinTot = 2
  MayFail = {"queue", "malloc", "create"}
  ArgLists <- MCArgLists
SPECIFICATION MainFairSpec
INVARIANTS TypeOK MainTypeOK GatherFirst FrameOutlivesJoined CursorRestored ParsedRight PrintsAfterWorkers 
PROPERTY ProgramEnds
