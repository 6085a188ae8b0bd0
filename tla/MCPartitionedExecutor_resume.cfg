\* A job started once and resumed with --resume, by commands that may differ in the text of the
\* recipe or in their overrides, by which they checkpoint after every operator or after b only,
\* on an input that may have changed.
SPECIFICATION Spec
CONSTANTS
    r1 = r1
    r2 = r2
    r3 = r3
    r4 = r4
    None = None
    Corrupt = Corrupt
    Rows <- MCRows
    Inputs <- TwoInputs
    Ops <- MCOps
    GlobalOps = {"g"}
    Commands <- Attempts
    Names <- MCNames
    Plan <- MCPlan
    PartitionCounts = {1, 2}
    SizeTarget = 2
    MaxPartitions = 2
    MaxOps = 4
    Strategy <- PerCommand
    EveryN = 1
    ManualOps = {"b"}
    MaxWorkers = 2
    Gpu = FALSE
    GroupSize = 2
    Modes <- Strictly
    Faults = {"crash", "op"}
    MaxRuns = 4
INVARIANTS
    CheckpointsSound
    ResumeSameRecipe
    OnlyUnfinishedWork
PROPERTIES
    ImplementsJob
CHECK_DEADLOCK FALSE
