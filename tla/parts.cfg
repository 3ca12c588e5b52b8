SPECIFICATION PartsSpec
CONSTANTS
  r1 = r1
  Others = {r1}
  ActionCap = 1
  c1 = c1
  c2 = c2
  Callers = {c1, c2}
  FailureThreshold = 2
  SuccessThreshold = 2
  Timeout = 1
  Cooldown = 2
  h1 = h1
  h2 = h2
  Handlers = {h1, h2}
  Threshold = 2
  Limit = 1
  Window = 2
  Bucket = 7
  Cost = 3
  Refill = 2
  n1 = n1
  n2 = n2
  Nodes = {n1, n2}
  NoNode = NoNode
  LeaseTTL = 2
  Difficulties = {0, 2}
  Rounds = 2
  MaxSubmits = 1
  MaxLosses = 1
INVARIANT NoCircle
INVARIANT FailuresOpen
INVARIANT AtMostLimit
INVARIANT BlockLasts
 
INVARIANT HasWholeAnswer
INVARIANT NotAskedAgain
PROPERTY ClosesOnRecovery
PROPERTY Recovers
PROPERTY OrphanLapses
 
PROPERTY ImplementsLeakyBucket
CHECK_DEADLOCK FALSE
