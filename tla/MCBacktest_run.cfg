SPECIFICATION MCSpec
CONSTANTS
  InitialCapital = 1200
  Latency = 2
  FeeRate = 10
  SlippageBps = 1000
  MaxPositionUsd = 250
  MaxDrawdown = 10
  Price = {20, 40}
  Gap = {1, 2}
  MaxBars = 6
  DurationMs = 7
  SliceCount = 3
  Start = {4, 6}
  FirstId = {0, 2}
  Stamp = {1, 4, 6, 7, 8, 9, 11, 14}
  MaxCalls = 4
INVARIANTS
  TypeOK
  ExposureChecked
  AverageAmongFills
  TwapOnSchedule
CHECK_DEADLOCK FALSE
