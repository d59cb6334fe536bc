SPECIFICATION FairSpec
CONSTANTS
  x1 = x1  x2 = x2  t1 = t1  k1 = k1  k2 = k2  None = None  NoAnswer = NoAnswer
  Clients = {x1, x2, t1}
  Terminals = {t1}
  Containers = {k1, k2}
  ContainerOf <- MCContainerOf
  MaxCommands = 1
  MaxConn = 2
  Faults = TRUE
INVARIANTS
  TypeOK
  NoStaleChannel
  OutputOfOwnContainer
  OwnOutputWhenSequential
  HandlerGoesOn
PROPERTIES
  KeepsPromise
  EveryCallReturns
CHECK_DEADLOCK FALSE
