SPECIFICATION MCSpec
CONSTANTS
  Ports = {p0, p1}
  LinkPorts = {p0}
  Speeds = {100}
  NrCpus = 2
  MaxFails = 1
  MaxDepth = 2
INVARIANTS
  OpenIsServed
  
  LinkIsKnown
PROPERTIES
  FramesAreTaken
CHECK_DEADLOCK FALSE
