SPECIFICATION Spec
CONSTANTS
    a = a
    None = None
    Contexts = {a}
    Rooms <- MCRooms
    MaxBatch = 4
    SuccessesBeforeGrowth = 2
    CooldownSuccesses = 1
    MaxProbeOoms = 2
    GrowthDivisor = 4
    OomReprobeSuccesses = 2
    MaxOomReprobes = 2
    MaxRetriesPerSlice = 2
    MaxFloorRetries = 1
INVARIANTS
    Lossless
    BoundsConsistent
    ProofReal
PROPERTIES
    RetriesShrink
    OomsStop
    SeedOvercome
CHECK_DEADLOCK FALSE
