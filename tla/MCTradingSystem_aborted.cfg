SPECIFICATION Spec
CONSTANTS
  Request = {r1, r2}
  Stopper = {k1}
  Symbol = {s1, s2}
  MaxSession = 2
  MaxTick = 1
  MaxIncarnation = 2
INVARIANTS
  OnlyOrphansAborted
CHECK_DEADLOCK FALSE
