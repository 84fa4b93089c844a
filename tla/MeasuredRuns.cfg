CONSTANTS
    None = None
    i1 = i1
    i2 = i2
    Malformed = Malformed
    Ids <- MCIds
    Tools <- MCTools
    Payloads <- MCPayloads
    Runs = {1, 2}
    Setups <- MCSetups
    Exported <- MCExported
    MaxEvents <- MCMaxEvents
    MaxSamples = 210

SPECIFICATION Spec

INVARIANTS
    TraceReadBack
    TotalsAgree
    LatestIsFirst
    LedgerInOrder
    ChargedOnce
    PercentilesExact
    CsvReadBack
    HtmlReadBack
