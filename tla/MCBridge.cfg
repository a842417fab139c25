SPECIFICATION Spec
CONSTANTS
  Conns = {c1}
  u1 = u1
  u2 = u2
  t1 = t1
  t2 = t2
  Users = {u1, u2}
  Tokens = {t1, t2}
  Subject <- MCSubject
  Impersonator <- MCImpersonator
  Keys = {k1}
  Forged = forged
  None = None
  MaxChanges = 2
  MaxLapses = 1
  MaxFaults = 1
INVARIANTS MapsBacked ServedFresh ServedAsSaid
CHECK_DEADLOCK FALSE
