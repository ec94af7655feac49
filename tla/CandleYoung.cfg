CONSTANTS
    MaxLen = 4
    Minimum = 2
    Age = 2
    Reordered = FALSE
    MaxTime = 9
    MaxUpdates = 3
    MaxWire = 3
SPECIFICATION CandleSpec
INVARIANTS InOrder
