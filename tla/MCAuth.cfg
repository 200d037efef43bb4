SPECIFICATION AuthSpec
CONSTANTS
    w1 = w1
    w2 = w2
    r1 = r1
    r2 = r2
    Wallets <- MCWallets
    Requests <- MCRequests
    MaxNonces = 2
    MaxSessions = 3
    MaxPairs = 3
    Horizon = 1
    NonceTTL = 1
    AccessTTL = 1
    RefreshTTL = 1
    MaxRetries = 2
    LegacyAllow = TRUE
    LegacyOwner = w1
INVARIANTS
    ChallengesOpenOneSession
    RevocationHolds
PROPERTIES
    ImplementsRefreshChain
SYMMETRY RequestSymmetry
CHECK_DEADLOCK FALSE
