SPECIFICATION Spec
CONSTANTS
  k1 = k1
  k2 = k2
  Clients = {c1, c2, c3, c4}
  Keys = {k1, k2}
  Commands <- Waking
  MaxSent = 1
  MaxClients = {4}
  Leaves = {"eof"}
SYMMETRY ClientSymmetry
INVARIANTS
  NoLostWakeUp
PROPERTIES
  OldestFirst
