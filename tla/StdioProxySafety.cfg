CONSTANTS
    None = None
    i1 = i1
    t1 = t1
    Ids <- MCIds
    Tools <- MCTools
    Payloads <- BothLines
    PipeCap = 1
    MaxLines <- TwoEach
    Faults = {"kill"}

CONSTRAINT DifferentLines

SPECIFICATION Spec

INVARIANTS
    TypeOK
    LinesInOrder
    ObservedExactly
    RecordedAtExit
