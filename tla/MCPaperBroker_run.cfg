SPECIFICATION Spec
CONSTANTS
  Order <- TwoWayOrders
  Quote <- MCQuote
  FirstQuote <- MCFirstQuote
  Reader = {api, web}
  SlippageDivisor = 10
  FeePercent = 15
  InitialBalance = 100000
  UseRedis = TRUE
  MaxSubmissions = 2
  MaxEvents = 2
  Absent = Absent
SYMMETRY ReaderSymmetry
CHECK_DEADLOCK FALSE
INVARIANTS
  TypeOK
  PnLIdentity
  LimitHonoured
  NoFillCountedTwice
