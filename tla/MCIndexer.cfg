SPECIFICATION IndexerSpec
CONSTANTS
    Events <- MCEvents
    Ledger <- MCLedger
    Kind <- MCKind
    Amount <- MCAmount
    MaxLedger = 3
    StartLedger = 1
    Retention = 2
    Replays <- MCReplays
    DefaultChunk = 2
    PageSize = 3
    MaxReplays = 1
    MaxCrashes = 1
INVARIANTS
    NoSilentGap
    PositionMatchesHistory
PROPERTIES
    CatchesUp
CHECK_DEADLOCK FALSE
