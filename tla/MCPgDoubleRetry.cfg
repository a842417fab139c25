SPECIFICATION Spec
CONSTANTS
  w1 = w1 w2 = w2 p1 = p1 p2 = p2 p3 = p3
  Workers = {w1}
  WorkerId <- SharedId
  Skew <- NoSkew
  Payloads = {p1}
  Undecodable = {}
  NoOne = NoOne
  Timeout = 2
  BackoffSteps <- Backoff1
  ReleaseDelays = {0}
  MaxJobs = 0
  MaxTime = 0
  StopWhenEmpty = FALSE
  MaxConsecutiveFailures = 2
  MaxFaults = 0
  Queues <- OneQueue
  Priorities = {0}
  Delays = {0}
  Budgets = {1}
  Tries = 1
  ClaimRounds = 2
  Admins = {a1, a2}
  MaxIds = 3
  MaxNow = 5
INVARIANT OneCopy
