SPECIFICATION FlannelSpec
CONSTANTS
  MaxAddr = 11
  Given <- MCGiven
  Inputs = {}
  None = None
  Bad = Bad
INVARIANT AcceptedIsConsistent
CHECK_DEADLOCK FALSE
