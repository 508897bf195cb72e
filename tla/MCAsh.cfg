CONSTANTS
  p1 = p1  p2 = p2  p3 = p3  p4 = p4
  s1 = s1  s2 = s2  s3 = s3  s4 = s4
  d1 = d1  d2 = d2  d3 = d3
  b1 = b1  b2 = b2
  NULL = NULL
  Pcbs = {p1, p2, p3, p4}
  Keys = {s1, s2, s3, s4}
  Semds = {d1, d2, d3}
  Buckets = {b1, b2}
  Hash <- MCHash
SPECIFICATION Spec
INVARIANTS
  TypeOK
  DescriptorsConserved
  KeysHashed
  WaitersLinked
PROPERTIES
  ImplementsQueues
SYMMETRY Symmetric
