SPECIFICATION Spec
CONSTANTS
  Clients = {c1, c2}
  Keys = {k1}
  MaxVersion = 2
  MaxQueue = 1
SYMMETRY ClientSymmetry
INVARIANTS
  TypeOK
  WatchersCounted
  VersionTellsSignals
  NoTrappedTransaction
PROPERTIES
  ExecAllOrNothing
  WriteAbortsExec
CHECK_DEADLOCK FALSE
