SPECIFICATION Spec
CONSTANTS
    w1 = w1
    w2 = w2
    w3 = w3
    None = None
    Workers <- TwoWorkers
    NumShards = 2
    MaxRetries = 1
    MaxShards = 1
    Faults = {"slow"}
    MaxAttempts = 5
    MaxCrashes = 1
    MaxLaunches = 2
    MaxRequeues = 1
SYMMETRY Alike2
INVARIANTS
    DoneRecorded
    FailureJustified
PROPERTIES
    PublishedByOwner
CHECK_DEADLOCK FALSE
