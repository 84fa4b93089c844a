CONSTANTS
    w1 = w1
    w2 = w2
    Writers <- TwoWriters
    Capacity = 3
    Sizes <- LargeEvents
    MaxEvents = 1
    DiskFaults = FALSE

SPECIFICATION Spec

INVARIANT InterruptedRunsInspectable
