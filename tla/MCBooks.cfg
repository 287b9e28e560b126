\* The share books: two holders, three shares, two orders, one schedule, the bridge.
SPECIFICATION Spec
CONSTANTS
  alice = alice
  bob = bob
  None = None
  Holders <- HolderPair
  MaxTime = 2
  Expiries = {}
  Tiers = {}
  GateSettings = {}
  TransferGated = {}
  Restrictions = {}
  PausableFns = {}
  BreakerSettings = {}
  InitialPrice = 1
  Prices = {}
  OraclePrices = {}
  UserCaps = {}
  MintLimits = {}
  LimitConfigs = {}
  Multipliers = {}
  ExemptSettings = {}
  MaxU32 = 3
  InitialShares = 2
  LockupPeriod = 0
  Scale = 1
  OrderIds <- TwoOrders
  Grants = {1}
  VestingTerms = {2}
  Supplies = {1, 3}
  Bridging = TRUE
  Batches <- MixedBuys
  Funds = {}
  MaxFunds = 0
  MaxAcc = 0
CONSTRAINT BooksOnly
INVARIANTS TypeOK SharesConserved BooksCoherent SellersCanAlwaysExit
PROPERTIES ImplementsRegistry
CHECK_DEADLOCK FALSE
