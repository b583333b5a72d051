SPECIFICATION FairSpec
CONSTANTS
  RX_DESCS = 3
  Budget = 2
  MaxSegs = 3
  NrCpus = 2
INVARIANTS
  CreditExact
  HwOwnsFresh
  FragIsPrefix
  DmaNotForgotten
PROPERTIES
  TakesInOrder
  SegmentsTaken
