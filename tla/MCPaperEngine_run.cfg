SPECIFICATION EngineSpec
CONSTANTS
  BaseStopLoss = 20
  BaseTakeProfit = 30
  BasePositionSize = 200
  Step = 5
  MaxSLAdjustment = 30
  MaxTPAdjustment = 50
  MinStopLoss = 10
  MinTakeProfit = 10
  MinPosition = 50
  MaxPosition = 500
  LossCritical = 3
  WinStable = 2
  WinReward = 3
  MaxWindows = 6
  Price = {190, 200, 220}
  FirstPrice = 200
  Strength = {50}
  ReversalThreshold = 35
  Quantity = {2}
  Slip = {1}
  StartingCapital = 3400000
  TakerFee = 6
  PerformanceFee = 15
  MinTradeNotional = 10000
  MaxConcurrent = 10
  ExternalOrder <- TwoSided
  MaxLots = 3
  MaxFills = 1
CHECK_DEADLOCK FALSE
INVARIANTS
  EngineTypeOK
  LedgerBalances
  ClosesTriggeredLot
  HighWaterMark
