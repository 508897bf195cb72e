CONSTANTS
  p1 = p1  p2 = p2  p3 = p3  p4 = p4
  n1 = n1  n2 = n2
  NULL = NULL
  Pcbs = {p1, p2, p3, p4}
  Spaces = {n1, n2}
SPECIFICATION Spec
INVARIANTS
  TreeLinked
  SameView
PROPERTIES
  KeepSpace
  ImplementsFamily
SYMMETRY Symmetric
CHECK_DEADLOCK FALSE
