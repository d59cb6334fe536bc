SPECIFICATION FairSpec
CONSTANTS
  h1 = h1  h2 = h2  c1 = c1  NoRecord = NoRecord  Waiting = Waiting  NotOk = NotOk
  Hosts = {h1, h2}
  Containers = {c1}
  Fetches = {1, 2}
  Posts = {1, 2}
  LastVersion = 2
  FleetAt <- MCFleetAt
INVARIANTS
  TypeOK
  NothingSaidTooSoon
  ActsOnWhatWas
PROPERTIES
  MirrorsMaster
  LoadingEnds
  ViewConverges
CHECK_DEADLOCK FALSE
