CONSTANTS
    img = img
    score = score
    e1 = e1
    e2 = e2
    None = None
    Recipes <- MCRecipes
    Names <- MCNames
    Columns = {img, score}
    Envs = {e1, e2}
    Dataset <- MCDataset
    Gpus <- MCGpus
    MaxWorkers = 3
    Limit = 2
    Faults = {"error", "empty", "hardware", "kill"}
    MaxStarts = 2
    MaxActors = 3
SPECIFICATION Spec
INVARIANTS
    LineageMeasured
    DeviceFits
    TimeoutHonest
CHECK_DEADLOCK FALSE
