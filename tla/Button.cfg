SPECIFICATION FairSpec
CONSTANTS
  FACTORY_DEFAULT = button
  Pins = {button, other}
  HOLD = 3
  Readers = {r1, r2}
INVARIANTS
  OneEventPerHold
PROPERTIES
  HoldIsReported
  EventIsTaken
