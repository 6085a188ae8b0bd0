SPECIFICATION FairSpec
CONSTANTS
    i1 = i1
    i2 = i2
    i3 = i3
    None = None
    Instances <- TwoInstances
    NumShards = 2
    Nodes = 2
    Strict = TRUE
    MaxRetries = 0
    MaxSubmissions = 2
    Faults = {"prepare", "attempt", "slow", "error", "merge", "timeout", "kill"}
INVARIANTS
    ElectedOnce
    PreparedFirst
    StrictSpread
    HonestSuccess
PROPERTIES
    InstancesReturn
CHECK_DEADLOCK FALSE
