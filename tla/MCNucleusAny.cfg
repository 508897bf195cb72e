CONSTANTS
  p1 = p1  p2 = p2  p3 = p3  p4 = p4
  s1 = s1
  NULL = NULL
  Clock = Clock
  UIntMod = 8
  Pcbs = {p1, p2, p3, p4}
  USems = {s1}
  Regs = {0, 32, 33}
  Installed = {32, 33}
  KillScope = {"self", "ancestor", "other"}
  CarefulIO = FALSE
SPECIFICATION ContextSpec
INVARIANTS
  TypeOK
  OnePlace
  Accounting
  Family
  SemaphoreSides
  GoesOn
PROPERTIES
  FIFO
  ForgottenOnlyBy
  StrandedOnlyBy
SYMMETRY Symmetric4
CHECK_DEADLOCK FALSE
