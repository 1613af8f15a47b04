SPECIFICATION FairSpec
CONSTANTS
  Request = {r1, r2}
  Stopper = {k1}
  Symbol = {s1, s2}
  MaxSession = 2
  MaxTick = 1
  MaxIncarnation = 2
INVARIANTS
  TypeOK
  OrphansAborted
  StoppedClean
  NoLoopOnCompleted
PROPERTIES
  StopEndsPipelines
CHECK_DEADLOCK FALSE
