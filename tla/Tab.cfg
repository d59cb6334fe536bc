SPECIFICATION FairSpec
CONSTANTS
  h1 = h1  c1 = c1
  rootfs = rootfs  memory = memory
  none = none  dflt = dflt  start = start  other = other
  NoHost = NoHost  BadId = BadId  Nil = Nil  Global = Global  NoTarget = NoTarget
  Hosts = {h1}
  Ids = {c1}
  DefaultId = c1
  Fields <- MCFields
  Values <- MCValues
  Empty = none
  Default <- MCDefault
  Initial <- MCInitial
  Acceptable <- MCAcceptable
  Specs <- MCSpecs
  Submissions = {1, 2}
  MaxTimers = 2
  MaxSockets = 2
  MaxCommands = 3
INVARIANTS
  TypeOK
  DoesWhatItWasOpenedFor
  UntouchedUpdateIsFaithful
  SuccessIsRecorded
  LoadingIsPending
  FlagIsHonest
  AnswersInOrder
PROPERTIES
  EveryWaitEnds
CHECK_DEADLOCK FALSE
