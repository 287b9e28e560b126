\* Income distribution: deposits, claims and every way a balance moves between them.
SPECIFICATION Spec
CONSTANTS
  alice = alice
  bob = bob
  None = None
  Holders <- HolderPair
  MaxTime = 1
  Expiries = {}
  Tiers = {}
  GateSettings = {}
  TransferGated = {}
  Restrictions = {}
  PausableFns = {}
  BreakerSettings = {}
  InitialPrice = 1
  Prices = {}
  OraclePrices = {}
  UserCaps = {}
  MintLimits = {}
  LimitConfigs = {}
  Multipliers = {}
  ExemptSettings = {}
  MaxU32 = 2
  InitialShares = 2
  LockupPeriod = 0
  Scale = 3
  OrderIds <- OneOrder
  Grants = {1}
  VestingTerms = {1}
  Supplies = {}
  Bridging = TRUE
  Batches <- SingleBuys
  Funds = {1}
  MaxFunds = 2
  MaxAcc = 6
CONSTRAINT IncomeOnly
INVARIANTS DistributionSolvent
PROPERTIES EntitlementsExact
CHECK_DEADLOCK FALSE
