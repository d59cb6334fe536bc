SPECIFICATION FairSpec
CONSTANTS
  EmptyId = EmptyId  ZeroBody = ZeroBody  NoSpec = NoSpec  Nil = Nil
  Ids = {EmptyId}
  Bodies = {ZeroBody}
  Hosts = {h1, h2}
  Reqs = {r1, r2, r3}
  MaxConn = 1
  Faults = FALSE
  StoreFails = FALSE
PROPERTIES
  EveryRecordSettles
CHECK_DEADLOCK FALSE
