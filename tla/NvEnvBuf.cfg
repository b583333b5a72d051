SPECIFICATION BufSpec
CONSTANTS
  Size = 11
  Beyond = 4
  NULL = NULL
  Names <- MCNames
  Vals <- MCVals
INVARIANTS
  BlockIsEnvironment
