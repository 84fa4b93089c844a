CONSTANTS
    w1 = w1
    w2 = w2
    Writers <- TwoWriters
    Capacity = 3
    Sizes <- SmallEvents
    MaxEvents = 2
    DiskFaults = TRUE

SPECIFICATION Spec

SYMMETRY Swap

INVARIANTS
    InterruptedRunsReadable
    WrittenIsRead
    EventsInOrder

PROPERTY ImplementsLog
