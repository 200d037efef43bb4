SPECIFICATION ProfileSpec
CONSTANTS
    alice = alice
    bob = bob
    xlm = xlm
    usdc = usdc
    BPS = 20
    RATE_SCALE = 100
    SECONDS_PER_YEAR = 1
    U32 = 4096
    Asset <- TwoAssets
    Prices <- MCPrices
    MaxChanges = {0,10,20}
    Bounds <- MCBounds
    MaxAges = {0,1}
    User <- MCUser
    Amounts = {1,2}
    Batches <- XlmTwice
    LiquidationPairs <- NoPairs
    InitMinRatio = 30
    InitMaxAge = 10
    DUST_THRESHOLD = 1
    RateChoices <- Kinked
    CapChoices <- MCCaps
    RiskChoices <- MCRisk
    RatioChoices = {20}
    LiquidationChoices <- NoChoice
    FeeLimits = {10,11}
    FeeAmounts = {1}
    Pausing = {TRUE}
    Configuring = {TRUE,FALSE}
    InitiallySupported <- OneAsset
    InitPrice <- UsdcUnpriced
    MaxBalance = 8
    MaxTime = 2
    MaxTotal = 24
    MaxIndex = 7
INVARIANTS
    OutstandingWithinCaps
    RatesAreSound
    ExtraSettlementBounded
PROPERTIES
    PriceDiscipline
    PauseStopsNewRisk
    BorrowIsNotLiquidatable
    InterestMovesForward
SYMMETRY Sym
CHECK_DEADLOCK FALSE
