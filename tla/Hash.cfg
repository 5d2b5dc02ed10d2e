CONSTANTS
  c1 = c1  c2 = c2  c3 = c3
  master = master  candidate = candidate
  Chars <- MCChars
  Hashes <- MCHashes
  MaxCount = 2
  Short = TRUE
  FromWord = {}
  Residues <- MCResidues
SPECIFICATION Spec
INVARIANTS TypeOK CountsRight IndexFits CompareRight SubsetRight
