CONSTANTS
  p1 = p1  p2 = p2  p3 = p3  p4 = p4
  s1 = s1  s2 = s2
  NULL = NULL
  Clock = Clock
  UIntMod = 8
  Pcbs = {p1, p2}
  USems = {s1}
  Regs = {32, 33}
  Installed = {32, 33}
  KillScope = {}
  CarefulIO = TRUE
SPECIFICATION Spec
PROPERTIES
  DoIOBlocks
CHECK_DEADLOCK FALSE
