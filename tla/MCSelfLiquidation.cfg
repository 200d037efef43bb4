SPECIFICATION Spec
CONSTANTS
    alice = alice
    bob = bob
    xlm = xlm
    usdc = usdc
    BPS = 20
    RATE_SCALE = 20
    SECONDS_PER_YEAR = 1
    U32 = 4096
    Asset <- OneAsset
    Prices <- NoChoice
    MaxChanges = {}
    Bounds <- NoChoice
    MaxAges = {}
    User <- MCUser
    Amounts = {1,2,4}
    Batches <- NoChoice
    LiquidationPairs <- SelfPairs
    InitMinRatio = 30
    InitMaxAge = 10
    DUST_THRESHOLD = 0
    RateChoices <- NoChoice
    CapChoices <- NoChoice
    RiskChoices <- NoChoice
    RatioChoices = {20,40}
    LiquidationChoices <- NoChoice
    FeeLimits = {}
    FeeAmounts = {}
    Pausing = {}
    Configuring = {}
    InitiallySupported <- OneAsset
    InitPrice <- UnitPrices
    MaxBalance = 4
    MaxTime = 0
INVARIANTS
    TotalsMatchPositions
