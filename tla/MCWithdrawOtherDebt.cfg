SPECIFICATION Spec
CONSTANTS
    alice = alice
    bob = bob
    xlm = xlm
    usdc = usdc
    BPS = 20
    RATE_SCALE = 20
    SECONDS_PER_YEAR = 1
    U32 = 4096
    Asset <- TwoAssets
    Prices <- NoChoice
    MaxChanges = {}
    Bounds <- NoChoice
    MaxAges = {}
    User <- MCUser
    Amounts = {1,4}
    Batches <- NoChoice
    LiquidationPairs <- NoPairs
    InitMinRatio = 30
    InitMaxAge = 10
    DUST_THRESHOLD = 0
    RateChoices <- NoChoice
    CapChoices <- NoChoice
    RiskChoices <- NoChoice
    RatioChoices = {}
    LiquidationChoices <- NoChoice
    FeeLimits = {}
    FeeAmounts = {}
    Pausing = {}
    Configuring = {}
    InitiallySupported <- TwoAssets
    InitPrice <- UnitPrices
    MaxBalance = 4
    MaxTime = 0
PROPERTIES
    WithdrawalLeavesDebtCovered
