SPECIFICATION Spec
CONSTANTS
  Chain <- FlannelChain
  ConfSize = 3
  Cap = 1
  Faults = TRUE
INVARIANTS ChainTypeOK ResultMeansWorked
PROPERTY EveryPluginEnds
CHECK_DEADLOCK FALSE
