SPECIFICATION Spec
CONSTANTS
  Event <- SplitEvent
  InitialSubscribers <- SplitSubscribers
  Hash <- MCHash
  Publisher = {b1, b2}
  Handler = {"audit", "risk"}
  NumPartitions = 2
  Capacity = 2
  WarningThreshold = 0
  ThrottleThreshold = 1
  MaxRetries = 0
  Dynamic = {}
  MaxStarts = 3
  OverlapLifecycle = TRUE
CHECK_DEADLOCK FALSE
INVARIANTS
  AllWorkersShutDown
