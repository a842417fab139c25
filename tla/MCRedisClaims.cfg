SPECIFICATION Spec
CONSTANTS
  w1 = w1 w2 = w2 p1 = p1 p2 = p2 k1 = k1
  Workers = {w1, w2}
  WorkerId <- OwnIds
  Skew <- FastW2
  Payloads = {p1}
  Undecodable = {}
  NoOne = NoOne
  Timeout = 2
  BackoffSteps <- Backoff0
  ReleaseDelays = {0}
  MaxJobs = 0
  MaxTime = 0
  StopWhenEmpty = FALSE
  MaxConsecutiveFailures = 2
  MaxFaults = 0
  Queues <- OneQueue
  Levels = {0}
  Delays = {0}
  Budgets = {1, 2}
  Keys = {k1}
  NoKey = NoKey
  Tries = 1
  ClaimRounds = 2
  PromoteLimit = 1
  Admins = {a1}
  MaxIds = 1
  MaxEntries = 4
  MaxNow = 4
INVARIANTS JobsKept NoOrphan KeyOwner
PROPERTIES ImplementsJobQueue
