SPECIFICATION Spec
CONSTANTS
    RowsOf <- FiveRows
    Keys <- FourKeys
    TableOf <- OneKeyPerActor
    Inputs <- MCInputs
    ParallelNum = 3
    BatchSize = 1
    BlockRows = 3
    Threshold = 2
    MaxPending = 2
INVARIANTS
    OnePerGroup
    FirstSurvives
PROPERTIES
    MergeEnds
