CONSTANTS
  p1 = p1  p2 = p2
  NULL = NULL
  Pcbs = {p1, p2}
  MaxTime = 7
SPECIFICATION Spec
INVARIANTS
  NotMoreThanReal
CHECK_DEADLOCK FALSE
