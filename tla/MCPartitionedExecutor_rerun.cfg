\* A job run again under its --job_id, with or without --resume, by its recipe or by one that
\* begins with a global operator, on inputs that change, with partition counts that follow the
\* cluster; fresh runs in execution groups, checkpoints after b only, checkpoints that fail to load.
SPECIFICATION FairSpec
CONSTANTS
    r1 = r1
    r2 = r2
    r3 = r3
    r4 = r4
    None = None
    Corrupt = Corrupt
    Rows <- MCRows
    Inputs <- AllInputs
    Ops <- MCOps
    GlobalOps = {"g"}
    Commands <- WithGlobalFirst
    Names <- MCNames
    Plan <- MCPlan
    PartitionCounts = {2, 3}
    SizeTarget = 0
    MaxPartitions = 3
    MaxOps = 4
    Strategy <- Manually
    EveryN = 1
    ManualOps = {"b"}
    MaxWorkers = 2
    Gpu = TRUE
    GroupSize = 2
    Modes <- AnyWay
    Faults = {"crash", "op", "load", "export"}
    MaxRuns = 2
INVARIANTS
    OutputCorrect
    PartsCoverInput
PROPERTIES
    ResumeReadOnly
    RunEnds
CHECK_DEADLOCK FALSE
