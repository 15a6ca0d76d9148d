SPECIFICATION Spec
CONSTANTS
  CPUs = {1}
  Members <- MCMembers
  Slots = {e1, e2, e3, e4, e5}
  NoSlot = null
  MaxClones = 4
INVARIANTS TypeOK AtMostOnce WholeList
