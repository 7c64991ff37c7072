SPECIFICATION FlannelSpec
CONSTANTS
  MaxAddr = 11
  Given <- MCGiven
  Inputs <- MCInputs
  None = None
  Bad = Bad
INVARIANT DelegateHasNoName
CHECK_DEADLOCK FALSE
