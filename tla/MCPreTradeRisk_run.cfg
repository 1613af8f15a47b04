SPECIFICATION Spec
CONSTANTS
  Symbol = {BTC, ETH}
  Quantity = {1, 3}
  Price = {2, 3}
  MaxQuantity = 2
  MaxNotional = 5
  MaxPosition = 2
  MaxDeviation = 50
  MaxConcentration = 100
  PerSecond = 1
  PerMinute = 2
  Second = 2
  Minute = 4
  MaxStamps = 3
  Position = {2}
  Value = {6}
  MaxTime = 5
  MaxAttempts = 6
SYMMETRY SymbolSymmetry
INVARIANTS
  TypeOK
  RateLimited
  RefusedForCause
CHECK_DEADLOCK FALSE
