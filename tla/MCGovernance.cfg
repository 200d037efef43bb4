SPECIFICATION FocusSpec
CONSTANTS
    a1 = a1
    a2 = a2
    cap = cap
    pause = pause
    wasmA = wasmA
    wasmB = wasmB
    deposit = deposit
    borrow = borrow
    Address <- MCAddress
    Founder = a1
    Payload <- MCPayload
    KindOf <- MCKindOf
    WasmVersion <- MCWasmVersion
    WasmSchema <- MCWasmSchema
    InitVersion = 11
    InitSchema = 8
    DEFAULT_TIMELOCK_LEDGERS = 1
    MIN_TIMELOCK_LEDGERS = 1
    MAX_TIMELOCK_LEDGERS = 2
    UPGRADE_MIN_TIMELOCK_LEDGERS = 3
    MaxLedger = 4
    MaxActions = 2
    Owner <- MCAddress
    Terms <- MCTerms
    Deadlines = {0,1}
    MaxNonce = 2
    MaxPermits = 3
    MaxEpoch = 1
    LastTime = 1
INVARIANTS
    AdminSetNeverEmpty
    TimelockHonoured
PROPERTIES
    OutcomeIsFinal
    PermitsAreSpent
    NoDowngrade
    EveryActionMatures
\* The bound on permits ends a behaviour about them.
CHECK_DEADLOCK FALSE
