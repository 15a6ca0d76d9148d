SPECIFICATION Spec
CONSTANTS
  t1 = t1  t2 = t2  t3 = t3  n1 = n1  n2 = n2  long = long
  Tables = {t1, t2, t3}
  Names = {n1, n2, long}
  LongNames = {long}
  NameIn <- MCNameIn
  Keys = {k1, k2}
  Values = {v1, v2}
  Failure = failure
  Success = success
  NULL = null
  MaxId = 3
  k1 = k1  k2 = k2  v1 = v1  v2 = v2
INVARIANTS TypeOK OneToOne
PROPERTIES ImplementsStore
SYMMETRY Symmetry
CHECK_DEADLOCK FALSE
