SPECIFICATION Spec
CONSTANTS
  k1 = k1
  k2 = k2
  Clients = {c1, c2}
  Keys = {k1}
  Commands <- Timing
  MaxSent = 2
  MaxClients = {1, 2}
  Leaves = {"eof", "reset"}
INVARIANTS
  TypeOK
  ParkedOnce
  AnsweredOnce
  NothingStranded
PROPERTIES
  PassEnds
  TimeoutAnswered
  GoneIsForgotten
