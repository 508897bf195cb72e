CONSTANTS
  p1 = p1  p2 = p2  p3 = p3  p4 = p4
  s1 = s1  s2 = s2
  NULL = NULL
  Clock = Clock
  UIntMod = 8
  Pcbs = {p1, p2, p3}
  USems = {s1}
  Regs = {0, 1, 33}
  Installed = {0, 1, 33}
  KillScope = {"self", "ancestor"}
  CarefulIO = TRUE
SPECIFICATION FairSpec
INVARIANTS
  NobodyLost
  Verdict
  IOUnderWay
PROPERTIES
  ImplementsLife
  ReadyRuns
  SoftWaitEnds
CHECK_DEADLOCK FALSE
