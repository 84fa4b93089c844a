CONSTANTS
    LF = LF
    CR = CR
    Colon = Colon
    Space = Space
    DataField = DataField
    x = x
    MaxEventBytes = 2
    Chunks <- Pieces
    MaxStream = 10

SPECIFICATION Spec

INVARIANTS
    EventsOfStream
    KeepsWithinLimit
