SPECIFICATION Spec
CONSTANTS
  EmptyId = EmptyId  ZeroBody = ZeroBody  NoSpec = NoSpec  Nil = Nil
  Ids = {EmptyId}
  Bodies = {ZeroBody, b1}
  Hosts = {h1}
  Reqs = {r1, r2, r3}
  MaxConn = 2
  Faults = TRUE
  StoreFails = TRUE
SYMMETRY Symmetry
INVARIANTS
  TypeOK
  SpecDurable
  StatusLag
  RunningWasStarted
  EveryRecordHasItsSpec
