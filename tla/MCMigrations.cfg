SPECIFICATION FairSpec
CONSTANTS
  main = main gis = gis sql = sql outside = outside refused = refused broken = broken
  d1 = d1 d2 = d2 x1 = x1 x2 = x2
  Deployers = {d1, d2}
  Targets <- TwoTargets
  Configs <- OneDatabase
  Physical <- OneName
  Checkouts = {x1, x2}
  CheckoutOf <- OwnCheckout
  Names = {1, 2}
  Contents = {sql, outside, refused, broken}
  Malformed = {broken}
  Refused = {refused}
  NoTransaction = {outside}
  Template = sql
  InitFiles <- InBoth
  Absent = Absent
  NoOne = NoOne
  Steps = {"apply", "dry", "baseline", "repair", "status"}
  Limits = {0, 1}
  MaxStarts = 2
  MaxEdits = 1
  MaxFaults = 1
CHECK_DEADLOCK FALSE
INVARIANTS RunsOnce RecordedIsTrue AnswersTrue AdviceIsOwn
PROPERTIES InOrder ListingHolds CommandsEnd
