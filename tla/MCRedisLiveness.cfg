SPECIFICATION FairSpec
CONSTANTS
  w1 = w1 w2 = w2 p1 = p1 p2 = p2 k1 = k1
  Workers = {w1, w2}
  WorkerId <- SharedId
  Skew <- NoSkew
  Payloads = {p1, p2}
  Undecodable = {p2}
  NoOne = NoOne
  Timeout = 1
  BackoffSteps <- Backoff1
  ReleaseDelays = {0}
  MaxJobs = 0
  MaxTime = 0
  StopWhenEmpty = FALSE
  MaxConsecutiveFailures = 2
  MaxFaults = 1
  Queues <- OneQueue
  Levels = {0, 1}
  Delays = {0}
  Budgets = {2}
  Keys = {}
  NoKey = NoKey
  Tries = 1
  ClaimRounds = 2
  PromoteLimit = 1
  Admins = {}
  MaxIds = 1
  MaxEntries = 6
  MaxNow = 7
INVARIANTS CrashSafe
PROPERTIES EventuallyEnds
