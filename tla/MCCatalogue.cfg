\* The catalogue with its cache, or with its webhooks.
SPECIFICATION SetupSpec
CONSTANTS
  AssetIds = {c1, r1}
  RandomIds = {r1}
  Uploads = {u1}
  MaxWrites = 3
  MaxPending = 2
  MaxOutages = 1
  Hooks = {h1, h2}
  Events = {"asset.updated"}
  MaxAttempts = 2
  FailureLimit = 2
  MaxEdits = 3
  MaxFirings = 2
CHECK_DEADLOCK FALSE
INVARIANTS ServerTypeOK CacheFollowsFile SearchIndexFresh FailuresCounted
PROPERTIES CacheConverges FiringsEnd
