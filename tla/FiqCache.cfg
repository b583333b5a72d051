SPECIFICATION Spec
CONSTANTS
  Bufs = {b1, b2}
  DrainedFirst = TRUE
  MaxTries = 2
INVARIANTS
  BootedIsReleased
  CpuSeesFresh
  DeviceSeesFresh
  FiqHasRequest
