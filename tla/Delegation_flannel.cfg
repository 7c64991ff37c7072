SPECIFICATION Spec
CONSTANTS
  Chain <- FlannelChain
  ConfSize = 3
  Cap = 1
  Faults = FALSE
INVARIANT FlannelGetsResult
CHECK_DEADLOCK FALSE
