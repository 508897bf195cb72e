CONSTANTS
  p1 = p1  p2 = p2  p3 = p3  p4 = p4
  h1 = h1  h2 = h2
  NULL = NULL
  pcbFree = pcbFree
  Pcbs = {p1, p2, p3, p4}
  Heads = {h1, h2}
SPECIFICATION Spec
INVARIANTS
  LinksAgree
  OneRing
PROPERTIES
  ImplementsProcQueues
SYMMETRY Symmetric
