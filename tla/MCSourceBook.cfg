SPECIFICATION FairSpec
CONSTANTS
  OrderIds <- MCOrderIds
  Times <- MCTimes
  Threshold = 1
  Histories <- MCNoHistories
  MaxEvents = 4
  MaxReceived = 0
INVARIANTS GraceKept ArrivalOrderKept
PROPERTIES TradeSeesItsOrders DestroyedIsQuiet RefinesOrderBook CallbacksReturn DeletedArePurged ShutdownCompletes
