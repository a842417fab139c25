SPECIFICATION RecordsFairSpec
CONSTANTS
  Ids = {1, 2, 3}
  Groups = {1, 2}
  Txns = {a1, a2}
  Pruners = {p1, p2}
  NoOne = NoOne
  Tables <- MCTables
  MaxRows = 2
  Strict = TRUE
  RotateBatch = 2
  PruneBatch = 1
  MaxOps = 2
INVARIANTS TrailTrue NothingLeft
PROPERTIES CommandsEnd
CHECK_DEADLOCK FALSE
