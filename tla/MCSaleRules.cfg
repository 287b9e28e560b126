\* Eligibility, price sources, caps and purchase limits, at most two of them changed at a time.
SPECIFICATION Spec
CONSTANTS
  alice = alice
  bob = bob
  None = None
  Holders <- HolderPair
  MaxTime = 1
  Expiries = {1}
  Tiers = {1}
  GateSettings = {TRUE, FALSE}
  TransferGated <- HolderPair
  Restrictions <- RestrictionChoices
  PausableFns = {}
  BreakerSettings = {}
  InitialPrice = 1
  Prices = {}
  OraclePrices = {2}
  UserCaps = {0, 1}
  MintLimits = {1}
  LimitConfigs <- LimitChoices
  Multipliers = {5000}
  ExemptSettings = {TRUE, FALSE}
  MaxU32 = 2
  InitialShares = 2
  LockupPeriod = 0
  Scale = 1
  OrderIds <- OneOrder
  Grants = {1}
  VestingTerms = {1}
  Supplies = {}
  Bridging = FALSE
  Batches = {}
  Funds = {}
  MaxFunds = 0
  MaxAcc = 0
CONSTRAINT RulesOnly
SYMMETRY HolderSymmetry
PROPERTIES LimitedPurchasesCounted
CHECK_DEADLOCK FALSE
