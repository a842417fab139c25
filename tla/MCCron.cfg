SPECIFICATION FairSpec
CONSTANTS
  Ticks = {t1, t2}
  Jobs = {mail}
  Due <- EveryMinute
  Timed = {mail}
  Stubborn = {mail}
  NoOne = NoOne
  MaxFaults = 1
CHECK_DEADLOCK FALSE
INVARIANTS NoOverlap EndsClean
PROPERTIES CommandsEnd
