SPECIFICATION FairSpec
CONSTANTS
  s1 = s1
  s2 = s2
  NULL = NULL
  Skbs <- MCSkbs
  TX_DESCS = 4
  TX_DESC_RESERVE = 1
  MaxFrags = 1
  NrCpus = 2
INVARIANTS
  RingAccounting
  SkbHeldOnce
  NoFreeUnderDma
  WholeFrames
  StoppedMeansFull
PROPERTIES
  NoOverwrite
  RingIsFifo
  SkbsComeBack
  QueueWakes
