SPECIFICATION Spec
CONSTANTS
  rtclog = rtclog
  ethaddr = ethaddr
  v1 = v1
  v2 = v2
  NULL = NULL
  Names <- MCNames
  Vals <- MCVals1
INVARIANTS
  SourceIntact
  ReadFindsOne
PROPERTIES
  SavedIsCurrent
  IsStore
