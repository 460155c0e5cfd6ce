SPECIFICATION Spec
CONSTANTS
  Channels = {"a", "b"}
  Patterns = {"p"}
  Matches <- OnlyA
  Resp3 = {1}
  MaxIds = 2
  MaxPublished = 2
INVARIANTS
  TypeOK
  RegistryAgrees
  LateInThePassOnly
  OncePerSubscription
  InOrder
