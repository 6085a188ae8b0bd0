\* A checkpoint that cannot be read when its partition resumes.
SPECIFICATION Spec
CONSTANTS
    r1 = r1
    r2 = r2
    r3 = r3
    r4 = r4
    None = None
    Corrupt = Corrupt
    Rows <- MCRows
    Inputs <- OneInput
    Ops <- MCOps
    GlobalOps = {"g"}
    Commands <- OneCommand
    Names <- MCNames
    Plan <- MCPlan
    PartitionCounts = {1, 2}
    SizeTarget = 0
    MaxPartitions = 2
    MaxOps = 4
    Strategy <- EveryNth
    EveryN = 1
    ManualOps = {}
    MaxWorkers = 2
    Gpu = FALSE
    GroupSize = 2
    Modes <- Strictly
    Faults = {"crash", "load"}
    MaxRuns = 3
INVARIANT
    OutputCorrect
CHECK_DEADLOCK FALSE
