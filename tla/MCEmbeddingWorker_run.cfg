SPECIFICATION FairSpec
CONSTANTS
  Stopper = {k1, k2}
  MaxStarts = 3
  MaxItems = 4
INVARIANTS
  TypeOK
PROPERTIES
  AppliedInOrder
  QueueHandled
CHECK_DEADLOCK FALSE
