SPECIFICATION FairSpec
CONSTANTS
  Event <- RunEvent
  InitialSubscribers <- RunSubscribers
  Hash <- MCHash
  Publisher = {b1, b2}
  Handler = {"strategy", "risk"}
  NumPartitions = 1
  Capacity = 2
  WarningThreshold = 0
  ThrottleThreshold = 0
  MaxRetries = 1
  Dynamic = {"strategy"}
  MaxStarts = 2
  OverlapLifecycle = FALSE
CHECK_DEADLOCK FALSE
INVARIANTS
  TypeOK
  SerialPerPartition
  StoredAfterDelivery
  AcceptedAccounted
PROPERTIES
  ImplementsPartitionLog
  QueueDrains
  StopReturns
