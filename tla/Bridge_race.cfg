SPECIFICATION Spec
CONSTANTS
  MaxAddr = 15
  FirstV6 = 8
  p1 = p1
  p2 = p2
  a1 = a1
  a2 = a2
  Proc = {p1, p2}
  Att = {a1, a2}
  Conf <- RaceConf
  Answers <- RaceAnswers
  NoAtt = NoAtt
  NoAnswer = NoAnswer
  NoChain = NoChain
  Faults = FALSE
SYMMETRY Slots
INVARIANT OneAddressPerSubnet
