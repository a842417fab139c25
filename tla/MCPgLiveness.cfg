SPECIFICATION FairSpec
CONSTANTS
  w1 = w1 w2 = w2 p1 = p1 p2 = p2 p3 = p3
  Workers = {w1}
  WorkerId <- SharedId
  Skew <- NoSkew
  Payloads = {p1, p2, p3}
  Undecodable = {p2, p3}
  NoOne = NoOne
  Timeout = 1
  BackoffSteps <- Backoff1
  ReleaseDelays = {0}
  MaxJobs = 1
  MaxTime = 0
  StopWhenEmpty = FALSE
  MaxConsecutiveFailures = 2
  MaxFaults = 1
  Queues <- TwoQueues
  Priorities = {0}
  Delays = {0}
  Budgets = {1, 2}
  Tries = 1
  ClaimRounds = 1
  Admins = {}
  MaxIds = 2
  MaxNow = 10
PROPERTIES EventuallyEnds StopsWhenAsked
