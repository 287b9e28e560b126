\* Unpausing after a delisting.
SPECIFICATION Spec
CONSTANTS
  alice = alice
  bob = bob
  None = None
  Holders <- HolderPair
  MaxTime = 0
  Expiries = {}
  Tiers = {}
  GateSettings = {}
  TransferGated = {}
  Restrictions = {}
  PausableFns = {}
  BreakerSettings = {}
  InitialPrice = 1
  Prices = {}
  OraclePrices = {}
  UserCaps = {}
  MintLimits = {}
  LimitConfigs = {}
  Multipliers = {}
  ExemptSettings = {}
  MaxU32 = 3
  InitialShares = 2
  LockupPeriod = 0
  Scale = 1
  OrderIds <- OneOrder
  Grants = {}
  VestingTerms = {}
  Supplies = {}
  Bridging = FALSE
  Batches = {}
  Funds = {}
  MaxFunds = 0
  MaxAcc = 0
CONSTRAINT AllOrNobodyWhitelisted
INVARIANTS DelistedStaysHalted
CHECK_DEADLOCK FALSE
