\* Pause, wind-down, delisting, function pauses and the breaker against trading.
SPECIFICATION Spec
CONSTANTS
  alice = alice
  bob = bob
  None = None
  Holders <- HolderPair
  MaxTime = 1
  Expiries = {}
  Tiers = {}
  GateSettings = {}
  TransferGated = {}
  Restrictions = {}
  PausableFns = {3, 5}
  BreakerSettings = {TRUE}
  InitialPrice = 1
  Prices = {2}
  OraclePrices = {}
  UserCaps = {}
  MintLimits = {}
  LimitConfigs = {}
  Multipliers = {}
  ExemptSettings = {}
  MaxU32 = 2
  InitialShares = 2
  LockupPeriod = 0
  Scale = 1
  OrderIds <- OneOrder
  Grants = {1}
  VestingTerms = {1}
  Supplies = {2}
  Bridging = FALSE
  Batches <- SingleBuys
  Funds = {2}
  MaxFunds = 2
  MaxAcc = 0
CONSTRAINT AllOrNobodyWhitelisted
PROPERTIES PausedMeansNoTrade ClosedForGood
CHECK_DEADLOCK FALSE
