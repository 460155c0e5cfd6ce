SPECIFICATION Spec
CONSTANTS
  Keys = {k1, k2}
  Collections = {"list", "hash", "set", "zset"}
  MaxLen = 2
  MaxTime = 1
SYMMETRY KeySymmetry
INVARIANTS
  TypeOK
  IndexConsistent
  NoEmptyCollection
CHECK_DEADLOCK FALSE
