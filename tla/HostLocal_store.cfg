SPECIFICATION Spec
CONSTANTS
  MaxAddr = 7
  Base = 3
  p1 = p1
  p2 = p2
  a1 = a1
  a2 = a2
  Proc = {p1, p2}
  Att = {a1, a2}
  Conf <- TwoNetworks
  NoFile = NoFile
  Blank = Blank
  NoAtt = NoAtt
  NoProc = NoProc
  SerialRuntime = TRUE
  Crashes = TRUE
  IoErrors = TRUE
SYMMETRY Slots
INVARIANTS TypeInv LeaseInv LeaseBacked OneAddressPerSet LeaseExclusive ExhaustedMeansTaken
PROPERTIES PoolSpec ReleaseIsComplete
