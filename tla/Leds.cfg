SPECIFICATION LedsFairSpec
CONSTANTS
  Cpus = {c1, c2}
  Inputs = {0, 2, 6, 9, 11}
  TIMER = TIMER
  NULL = NULL
INVARIANTS
  LedsShowState
  TimerFollowsState
PROPERTIES
  Blinks
