SPECIFICATION PairSpec
CONSTANTS
  Node = {"a", "b"}
  First = "a"
  Threshold = 2
  Interval = 1
  MaxDelay = 1
  MayCrash = TRUE
  MaxTime = 6
  MaxSnapshots = 2
CHECK_DEADLOCK FALSE
INVARIANTS
  PairTypeOK
  AcceptedGenuine
  TakeoverOnlyAfterCrash
