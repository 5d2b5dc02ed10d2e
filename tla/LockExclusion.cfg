CONSTANTS
  t1 = t1  t2 = t2
  Threads <- MCThreads
SPECIFICATION Spec
INVARIANT MutualExclusion
