\* The live feed and its hub, the wallet session and the offline queue.
SPECIFICATION SideSpec
CONSTANTS
  Sockets = {1, 2, 3, 4, 5}
  Topics = {a, b}
  BufferSize = 2
  MaxBroadcasts = 3
  AssetTopics = {a, b}
  MaxSockets = 5
  MaxDisturbances = 2
  Accounts = {alice, bob}
  Networks = {testnet, public}
  DefaultNetwork = testnet
  ExpectedNetwork = public
  Null = Null
  MaxRequests = 3
  MaxMoves = 2
  Actions = {1, 2}
  Flushes = {f1, f2}
  MaxRetries = 2
  MaxFaults = 4
CHECK_DEADLOCK FALSE
INVARIANTS ClientTypeOK SubscriptionsMirrored ReplayExact BothEndsAgree KeyOnlyWhileLinked ClearedWasExecuted
PROPERTIES FeedRecovers TopicRestored RequestsEnd FlushesSettle
