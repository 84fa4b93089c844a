CONSTANTS
    None = None
    i1 = i1
    i2 = i2
    t1 = t1
    Ids <- MCIds
    Tools <- MCTools
    Payloads <- Shapes
    MaxEvents = 4

SPECIFICATION Spec

INVARIANTS
    PendingIsLatest
    RequestsConserved
    KindsTellTheTruth
