\* Order matching with settlement, and ledger indexing with re-organisations.
SPECIFICATION EnginesSpec
CONSTANTS
  Contracts = {gold, land}
  LimitPrices = {1, 2}
  OrderAmounts = {1, 2}
  Timestamps = {1, 2}
  MaxOrders = 3
  Ledgers <- SomeLedgers
  NumWorkers = 2
  MaxCalls = 4
  MaxExits = 1
CHECK_DEADLOCK FALSE
INVARIANTS EnginesTypeOK OrdersConserved BooksUncrossed PoolFull HeadIsTip ServedEventsExact
PROPERTIES PriceTimePriority BlocksAnswered
