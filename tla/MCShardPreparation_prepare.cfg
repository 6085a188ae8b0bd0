\* Two processes that prepare one job directory, each possibly killed.
SPECIFICATION Spec
CONSTANTS
    p1 = p1
    p2 = p2
    small = small
    medium = medium
    large = large
    NoJob = NoJob
    Preparers <- TwoPreparers
    Records = {small, medium, large}
    Size <- MCSize
    Inputs <- MCInputs
    ShardCounts = {1, 2, 3, 4}
SYMMETRY Alike
INVARIANTS
    JobWellCut
    JobBalanced
    NoInternalError
PROPERTIES
    JobStable
CHECK_DEADLOCK FALSE
