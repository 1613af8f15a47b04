SPECIFICATION FairSpec
CONSTANTS
  Order <- MCOrder
  Symbol = {"BTC"}
  Brokers = 2
  Run = {"r1", "r2"}
  Reason = {"drawdown"}
  MaxHold = 1
  AutoLiquidate = TRUE
  AnswersLost = TRUE
  Trading = TRUE
CHECK_DEADLOCK FALSE
INVARIANTS
  TypeOK
  SafetyRunComplete
  NoFlip
PROPERTIES
  LiquidationEnds
