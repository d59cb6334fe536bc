SPECIFICATION Spec
CONSTANTS
  EmptyId = EmptyId  ZeroBody = ZeroBody  NoSpec = NoSpec  Nil = Nil
  Ids = {EmptyId}
  Bodies = {ZeroBody}
  Hosts = {h1}
  Reqs = {r1, r2}
  MaxConn = 2
  Faults = TRUE
  StoreFails = FALSE
PROPERTIES
  StatusSurvivesRestart
