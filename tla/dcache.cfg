SPECIFICATION FairSpec
CONSTANTS
    Nodes <- TwoNodes
    Keys <- OneKey
    Values <- OneValue
    NoEntry = NoEntry
    Pending = Pending
    NoSource = NoSource
    Gets <- TwoGets
    At <- AllAtA
    KeyOf <- AllOfK
    Tokens <- CancellationToken
    Changers <- OnlyB
    MaxChanges = 1
INVARIANTS TypeOK AloneIsFresh
PROPERTIES OnlyCleanupAbandons GetReturns
CHECK_DEADLOCK FALSE
