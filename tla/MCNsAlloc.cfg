CONSTANTS
  p1 = p1  p2 = p2  p3 = p3
  n1 = n1  n2 = n2  n3 = n3
  NULL = NULL
  nsFree = nsFree
  nsList = nsList
  Procs = {p1, p2, p3}
  Spaces = {n1, n2, n3}
SPECIFICATION Spec
INVARIANTS
  PoolWhole
PROPERTIES
  ImplementsPool
CONSTRAINT NotMet
SYMMETRY Symmetric
