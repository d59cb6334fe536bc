SPECIFICATION Spec
CONSTANTS
  x1 = x1  x2 = x2  t1 = t1  k1 = k1  k2 = k2  None = None  NoAnswer = NoAnswer
  Clients = {x1, t1}
  Terminals = {t1}
  Containers = {k1, k2}
  ContainerOf <- MCContainerOf
  MaxCommands = 2
  MaxConn = 1
  Faults = FALSE
INVARIANTS
  OwnOutput
CHECK_DEADLOCK FALSE
