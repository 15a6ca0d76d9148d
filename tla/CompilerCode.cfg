SPECIFICATION Spec
CONSTANTS
  Byte = 2
  Sources <- MCSources
  Values <- MCValues
INVARIANTS NoIncorrectResults
CHECK_DEADLOCK FALSE
