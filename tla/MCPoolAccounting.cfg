SPECIFICATION ProfileSpec
CONSTANTS
    alice = alice
    bob = bob
    xlm = xlm
    usdc = usdc
    BPS = 20
    RATE_SCALE = 20
    SECONDS_PER_YEAR = 1
    U32 = 4096
    Asset <- TwoAssets
    Prices <- Doubled
    MaxChanges = {}
    Bounds <- NoChoice
    MaxAges = {}
    User <- MCUser
    Amounts = {1,3}
    Batches <- MixedBatches
    LiquidationPairs <- CrossPairs
    InitMinRatio = 30
    InitMaxAge = 10
    DUST_THRESHOLD = 1
    RateChoices <- NoChoice
    CapChoices <- NoChoice
    RiskChoices <- NoChoice
    RatioChoices = {}
    LiquidationChoices <- MCLiquidation
    FeeLimits = {}
    FeeAmounts = {}
    Pausing = {}
    Configuring = {TRUE,FALSE}
    InitiallySupported <- OneAsset
    InitPrice <- UnitPrices
    MaxBalance = 3
    MaxTime = 3
    Speeds <- MCSpeeds
    Schedules <- MCSchedules
    Payments = {2}
INVARIANTS
    BalanceSheet
    TotalsMatchPositions
    NoTrappedPosition
    RewardsWithinEmission
PROPERTIES
    LiquidationReducesShortfall
SYMMETRY Sym
