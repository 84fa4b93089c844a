CONSTANTS
    None = None
    Null = Null
    i1 = i1
    i2 = i2
    t1 = t1
    Ids <- TwoIds
    Tools <- MCTools
    Payloads <- Batches
    PipeCap = 1
    MaxLines <- Lines
    MaxAsks <- Asks31
    Faults = {}

SPECIFICATION SessionSpec

INVARIANTS
    RoundTripsExact
    ToolsCredited
    PendingIsUnanswered
