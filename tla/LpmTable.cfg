SPECIFICATION Spec
CONSTANTS
  ByteBits = 1
  LpmBytes = 2
  DefaultPrefixLen = 2
  ControlOrder = "network"
  Actions = {a1, a2}
  NoMatch = none
  Tables <- MCTables
  MaxEntries = 3
INVARIANTS TypeOK MatchesLikeP4
CHECK_DEADLOCK FALSE
