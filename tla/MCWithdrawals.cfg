SPECIFICATION Spec
CONSTANTS
  col = col
  w1 = w1
  w2 = w2
  k1 = k1
  Assets = {col}
  Collateral = col
  Withdrawals = {w1, w2}
  Calls <- MCCalls
  Deltas = {1}
  Amount <- MCAmount
  Keys = {k1}
  KeysOf <- MCKeysOf
  MaxRequests = 2
  Depth = 1
  Seed <- MCSeed
  Ratio = 8
  MaxLedger = 2
  MaxEvents = 1
  MaxErrors = 1
  MaxWipes = 1
  Malformed = {w2}
INVARIANTS
  PositionIsSumOfWrites
  DebitIsEarned
  OneWithdrawalPerKey
PROPERTIES
  WithdrawalsSettle
CHECK_DEADLOCK FALSE
