SPECIFICATION Spec
CONSTANTS
  w1 = w1 w2 = w2 p1 = p1 p2 = p2 p3 = p3
  Workers <- Workers2
  WorkerId <- SharedId
  Skew <- FastW2
  Payloads = {p1}
  Undecodable = {}
  NoOne = NoOne
  Timeout = 2
  BackoffSteps <- Backoff1
  ReleaseDelays = {0}
  MaxJobs = 0
  MaxTime = 0
  StopWhenEmpty = FALSE
  MaxConsecutiveFailures = 1
  MaxFaults = 2
  Queues <- OneQueue
  Priorities = {0}
  Delays = {0}
  Budgets = {2}
  Tries = 1
  ClaimRounds = 2
  Admins = {a1}
  MaxIds = 2
  MaxNow = 4
INVARIANTS TypeOK OneHolder CandidateStable NoJobLost AttemptBudget OneCopy
PROPERTIES SettledByHolder ClaimKept ImplementsJobQueue
