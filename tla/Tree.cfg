CONSTANTS
  Words <- MCWords
  TieLimit = 2
  Dictionaries <- MCDictionaries
  Letters <- MCLetters
SPECIFICATION FairSpec
INVARIANTS TypeOK ParentsRight NodesOwned ReadsEveryLine FindsWords DistanceRight FreesAll
PROPERTIES DictionarySpec ReaderEnds
