SPECIFICATION Spec
CONSTANTS
  k1 = k1
  k2 = k2
  Keys = {k1, k2}
  Collections = {"list"}
  Writes <- EachType
  MaxLen = 1
  MaxTime = 2
  Milli = 2
  MaxFailures = 1
INVARIANTS
  TypeOK
  KillLosesOnlyTheUnsaved
  CleanMeansSaved
  NothingMadePermanent
PROPERTIES
  EventuallySaved
