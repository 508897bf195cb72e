CONSTANTS
  WordBits = 18
  BuffSize = 24
  Messages <- SmallMessages
SPECIFICATION Spec
INVARIANTS
  FormatRight
  ShownIfTrue
PROPERTIES
  PrintEnds
CHECK_DEADLOCK FALSE
