SPECIFICATION Spec
CONSTANTS
  d1 = d1
  d2 = d2
  Deposits = {d1, d2}
  Malformed = {d1}
  DepositAmount <- MCDepositAmount
  Posts = {1, 2}
  DepositDepth = 1
  DepositLedgers = 2
  MaxOutages = 1
  Actions = {1}
  Txs = {11, 12}
  Submits = {1, 2}
  Readers = {1}
  CacheTtl = 1
  FallbackAge = 1
  MaxClock = 2
  MaxRpcErrors = 1
  Services = {"soroban", "horizon"}
  NProviders <- MCNProviders
  RpcCalls = {1, 2}
  MaxAttempts = 2
  Threshold = 2
  Loads <- MCLoads
  NUsers = 2
  Notified = {1}
  Tokens = {21, 22}
  Kinds <- MCKinds
  Notifies = {1}
  ChunkSize = 1
  MaxPushes = 1
INVARIANTS
  CreditIsEarned
  ServedConfigIsRecent
  NobodyElseReads
PROPERTIES
  WatchersSettle
  PreferredRecovers
CHECK_DEADLOCK FALSE
