SPECIFICATION Spec
CONSTANTS
  Keys = {k1, k2}
  Collections = {"list"}
  MaxLen = 1
  MaxTime = 1
INVARIANTS
  NoPanic
CHECK_DEADLOCK FALSE
