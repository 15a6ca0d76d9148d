SPECIFICATION Spec
CONSTANTS
  CPUs = {c1, c2, c3}
  Kinds = {TRUE, FALSE}
  Size = 2
  Indices = {0, 1, 2}
  Increments = {2}
  Methods = {"increment", "add"}
  Modulus = 4
  MaxCalls = 5
INVARIANTS TypeOK ExactUnlessLost DenseExact
SYMMETRY Symmetry
CHECK_DEADLOCK FALSE
