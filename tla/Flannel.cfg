SPECIFICATION FlannelSpec
CONSTANTS
  MaxAddr = 11
  Given <- MCGiven
  Inputs <- MCInputs
  None = None
  Bad = Bad
INVARIANTS VerdictIsExact ScanIsExact LastComesLast FlannelVerdict NodeSubnetOnly
PROPERTY ScanEnds
CHECK_DEADLOCK FALSE
