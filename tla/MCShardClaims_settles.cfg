SPECIFICATION FairSpec
CONSTANTS
    w1 = w1
    w2 = w2
    w3 = w3
    None = None
    Workers <- TwoWorkers
    NumShards = 1
    MaxRetries = 1
    MaxShards = 0
    Faults = {"early"}
    MaxAttempts = 9
    MaxCrashes = 1
    MaxLaunches = 1
    MaxRequeues = 1
INVARIANTS
    OneOwner
PROPERTIES
    JobSettles
    WorkersReturn
CHECK_DEADLOCK FALSE
