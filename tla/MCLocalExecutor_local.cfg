SPECIFICATION Spec
CONSTANTS
    Rows <- MCRows
    Source <- FourRows
    Ops = {"a", "b", "c", "none", "m", "u", "v", "w", "g"}
    Drops <- MCDrops
    Makes <- MCMakes
    SharedVar <- MCSharedVar
    Safe = {"u", "v", "w"}
    Reads <- MCReads
    Writes <- MCWrites
    Vram <- MCVram
    VramLimit = 90
    Parts <- MCParts
    BatchRows = 3
    Recipes <- MCRecipes
    Probes <- SlowFirst
    ShardSizes = {0, 2}
    None = None
    Torn = Torn
    MaxStarts = 3
    MaxFaults = 2
INVARIANTS
    OutputCorrect
    CheckpointSound
    ProgressKept
