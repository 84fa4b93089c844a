CONSTANTS
    None = None
    Null = Null
    i1 = i1
    t1 = t1
    Ids <- MCIds
    Tools <- MCTools
    Payloads <- MCPayloads
    ClientLines <- MCClientLines
    Blank <- MCBlank
    PipeCap = 1
    MaxLines <- TwoLines
    MaxAsks <- Asks20
    Faults = {"panic"}

SPECIFICATION FairFixture

INVARIANT AnswersFollow

PROPERTIES
    ImplementsServer
    RequestsMeasured
    SessionEnds
