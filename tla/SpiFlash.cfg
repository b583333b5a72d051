SPECIFICATION Spec
CONSTANTS
  Chips = {0, 1}
  MaxData = 2
  NrPins = 3
INVARIANTS
  FrameIsMessage
  MessageExecuted
  PinsMatch
