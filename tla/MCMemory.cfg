SPECIFICATION Spec
CONSTANTS
  Modes = {"SEARCH", "VECTOR", "HYBRID"}
  MaxId = 2
  Texts <- LongOrShort
  Vectors = {"v", "w"}
  MaxAssigned = 1
  Ttls = {1}
  Requests <- EachKind
  Caps <- LimitChanges
  MaxRecords = 2
  Unlimited = 2
  MaxPostings = 2
  MaxTime = 1
INVARIANTS
  TypeOK
  VectorIndexAgrees
  TextIndexAgrees
PROPERTIES
  AssignedIdIsNew
  ExpiredReclaimed
