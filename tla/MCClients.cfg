SPECIFICATION Spec
CONSTANTS
  w1 = w1
  w2 = w2
  Wallets = {w1, w2}
  NoWallet = NoWallet
  Lendings = {1, 2}
  Holdings = {1, 2}
  Quotas <- MCQuotas
  MaxAttempts = 2
  MaxLogouts = 1
  ga = ga
  gb = gb
  xa = xa
  usdc = usdc
  NoAddress = none
  Accounts = {ga, gb}
  Misformed = {xa}
  Assets = {usdc}
  Amounts = {1, 2}
  Contexts <- MCContexts
  MaxMoves = 5
  MaxFailures = 2
  MaxSubmits = 3
  Holders = {ga, gb}
  Nobody = nobody
  MaxSignIns = 2
  MaxReloads = 1
  MaxShifts = 2
  Tallies <- MCTallies
  Keys = {1, 2}
  NoKey = 0
  Budgets <- MCBudgets
INVARIANTS
  SecretsAreGuarded
  OneLendingAtATime
  FailedCallsLeaveNoTrace
  ForeignDataIsFlagged
  StoreMatchesOutcomes
  ShownWalletIsProven
PROPERTIES
  ClientsSettle
CHECK_DEADLOCK FALSE
