SPECIFICATION Spec
CONSTANTS
  MaxAddr = 7
  Base = 10
  p1 = p1
  p2 = p2
  a1 = a1
  a2 = a2
  Proc = {p1}
  Att = {a1, a2}
  Conf <- TwoSets
  NoFile = NoFile
  Blank = Blank
  NoAtt = NoAtt
  NoProc = NoProc
  SerialRuntime = TRUE
  Crashes = TRUE
  IoErrors = FALSE
INVARIANT EveryFileNamesItsOwner
