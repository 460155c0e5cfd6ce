SPECIFICATION Spec
CONSTANTS
  k1 = k1
  k2 = k2
  Keys = {k1}
  Collections = {"list"}
  Writes <- Strings
  MaxLen = 1
  MaxTime = 2
  Milli = 2
  MaxFailures = 1
INVARIANTS
  ExpiredStaysGone
