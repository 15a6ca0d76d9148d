SPECIFICATION Spec
CONSTANTS
  Byte = 2
  Sources <- MCSources
  Values <- MCValues
INVARIANTS AssignmentKept ControlKept ParserKept ReadyForCode AssignmentCode ControlCode ParserCoded
PROPERTIES Terminates
CHECK_DEADLOCK FALSE
