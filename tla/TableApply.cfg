SPECIFICATION Spec
CONSTANTS
  CPUs = {1}
  Keys = {k1, k2}
  Kinds = {"hash", "lpm", "array"}
  Element <- MCElement
  ActionIds = {0, 1, 2}
  WrongId = 9
  Params = {0, 1}
  DefaultAction <- MCDefaultAction
  Slots = {e1, e2, e3}
  NoSlot = null
  MaxUpdates = 3
INVARIANTS TypeOK AppliesOneEntry
