SPECIFICATION PushSpec
CONSTANTS
  c1 = c1 c2 = c2 c3 = c3 k1 = k1 k2 = k2
  Clients = {c1, c2, c3}
  InTx = {c1}
  Keys = {k1, k2}
  MaxIds = 3
INVARIANT PushesOnce
SYMMETRY KeySymmetry
CHECK_DEADLOCK FALSE
