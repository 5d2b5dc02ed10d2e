CONSTANTS
  a = a  b = b  blank = blank
  Chars <- MCChars
  WordList <- MCWords
  Inputs <- MCInputs
  ThreadTot = 3
  Depths = 2
  Frequency = 2
  ColCount = 2
SPECIFICATION FairSpec
INVARIANTS TypeOK FramesCounted FindsAnagrams FindsAll NothingTwice DepthInBounds PrintsSubset
PROPERTY ThreadsEnd
