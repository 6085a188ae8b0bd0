SPECIFICATION ProfilesSpec
CONSTANTS
    a1 = a1
    a2 = a2
    c = c
    d = d
    NoContext = NoContext
    Actors = {a1, a2}
    Keys = {c, d}
    LargestBatch = 3
    Shown <- MCShown
    Ttl = 2
    MaxEntries = 1
    MaxSizes = 2
    MaxCalls = 3
    MaxTicks = 2
    MaxRestarts = 1
SYMMETRY Alike
INVARIANTS
    OnlyDelivered
PROPERTIES
    PriorExact
CHECK_DEADLOCK FALSE
