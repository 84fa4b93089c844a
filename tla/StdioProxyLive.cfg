CONSTANTS
    None = None
    i1 = i1
    t1 = t1
    Ids <- MCIds
    Tools <- MCTools
    Payloads <- OneLine
    PipeCap = 1
    MaxLines <- OneAndTwo
    Faults = {"write", "panic"}

SPECIFICATION FairSpec

PROPERTIES
    ImplementsPipes
    ExitsAfterChild
    DeliversLines
