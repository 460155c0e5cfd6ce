SPECIFICATION Spec
CONSTANTS
  Keys = {k1, k2}
  Collections = {"list", "zset"}
  MaxLen = 1
  MaxTime = 1
SYMMETRY KeySymmetry
CONSTRAINT Unsaved
PROPERTIES
  ImplementsKeyspace
  CommandsAsPromised
CHECK_DEADLOCK FALSE
