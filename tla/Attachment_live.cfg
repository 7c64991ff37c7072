SPECIFICATION FairSpec
CONSTANTS
  MaxAddr = 8
  FirstV6 = 8
  Base = 10
  p1 = p1
  p2 = p2
  a1 = a1
  a2 = a2
  Proc = {p1, p2}
  Att = {a1, a2}
  NetConf <- Plain
  Conf <- Contended
  IpamRoutes <- NoRoutes
  NoAtt = NoAtt
  NoProc = NoProc
  NoAnswer = NoAnswer
  NoChain = NoChain
  NoFile = NoFile
  Blank = Blank
  MaxFaults = 0
  SerialRuntime = TRUE
  Crashes = TRUE
  IoErrors = FALSE
PROPERTY EveryCommandEnds
