SPECIFICATION IndexerSpec
CONSTANTS
    Events <- MCEvents
    Ledger <- MCLedger
    Kind <- WithInterest
    Amount <- MCAmount
    MaxLedger = 3
    StartLedger = 1
    Retention = 2
    Replays <- MCReplays
    DefaultChunk = 2
    PageSize = 3
    MaxReplays = 0
    MaxCrashes = 0
PROPERTIES
    CatchesUp
CHECK_DEADLOCK FALSE
