\* Time: lock-ups and vesting schedules against every way a share can leave.
SPECIFICATION Spec
CONSTANTS
  alice = alice
  bob = bob
  None = None
  Holders <- HolderPair
  MaxTime = 4
  Expiries = {}
  Tiers = {}
  GateSettings = {}
  TransferGated = {}
  Restrictions = {}
  PausableFns = {}
  BreakerSettings = {}
  InitialPrice = 1
  Prices = {}
  OraclePrices = {}
  UserCaps = {}
  MintLimits = {}
  LimitConfigs = {}
  Multipliers = {}
  ExemptSettings = {}
  MaxU32 = 3
  InitialShares = 3
  LockupPeriod = 2
  Scale = 1
  OrderIds <- OneOrder
  Grants = {1}
  VestingTerms = {2, 3}
  Supplies = {}
  Bridging = TRUE
  Batches = {}
  Funds = {}
  MaxFunds = 0
  MaxAcc = 0
CONSTRAINT IncomeOnly
PROPERTIES LockupHolds VestingOnSchedule
CHECK_DEADLOCK FALSE
