SPECIFICATION Spec
CONSTANTS
    Faults = {"low_oil"}
    People = {p1, p2}
    Workers = {w1, w2}
    MaxEvents = 2
    MaxCalls = 4
    MaxCrashes = 1
    MaxStops = 1
    MaxResends = 1
SYMMETRY Symmetry
INVARIANTS OneEmailEach OnlyOwed OwedIsSent ClearNotForgotten
CHECK_DEADLOCK FALSE
