\* The guard under nested calls, returns and panics; and, apart from it, dividends
\* declared, withheld, accrued and claimed while shares move and the supply changes.
SPECIFICATION ContractSpec
CONSTANTS
  alice = alice
  bob = bob
  None = None
  Holders <- HolderPair
  MaxTime = 1
  Expiries = {}
  Tiers = {}
  GateSettings = {}
  TransferGated = {}
  Restrictions = {}
  PausableFns = {}
  BreakerSettings = {}
  InitialPrice = 1
  Prices = {}
  OraclePrices = {}
  UserCaps = {}
  MintLimits = {}
  LimitConfigs = {}
  Multipliers = {}
  ExemptSettings = {}
  MaxU32 = 2
  InitialShares = 2
  LockupPeriod = 0
  Scale = 1
  OrderIds <- OneOrder
  Grants = {}
  VestingTerms = {}
  Supplies = {1}
  Bridging = FALSE
  Batches = {}
  Funds = {3}
  MaxFunds = 3
  MaxAcc = 0
  DividendAmounts = {3}
  DividendTokens = {1}
  Policies <- PolicyChoices
  ReinvestSettings = {TRUE}
  Schedules <- ScheduleChoices
  Migrating = TRUE
  MaxDeclared = 5
  Entries <- SomeEntries
  MaxDepth = 4
SYMMETRY HolderSymmetry
CONSTRAINT DividendsOnly
INVARIANTS ContractTypeOK DividendsWithinDeclared OneGuardedBody NeverLockedOut
CHECK_DEADLOCK FALSE
