SPECIFICATION Spec
CONSTANTS
  Symbol = {"BTC", "ETH"}
  OrderId = {"o1", "o2"}
  Price = {1}
  Delta <- SellOne
  MaxPositions = 1
  MaxActiveOrders = 1
  MaxEquityPoints = 1
  UseRedis = TRUE
  MaxVersion = 3
CHECK_DEADLOCK FALSE
INVARIANTS
  TypeOK
  PublishedInOrder
