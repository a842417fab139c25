SPECIFICATION RelayFairSpec
CONSTANTS
  c1 = c1
  u1 = u1
  Conns = {c1, c2}
  Users = {u1, u2}
  None = None
  Messages <- MCMessages
  MaxMessages = 2
  ReadCount = 2
  MaxFaults = 1
INVARIANTS WorkedOnce ListsServe
PROPERTIES ManagerGoesOn
CHECK_DEADLOCK FALSE
