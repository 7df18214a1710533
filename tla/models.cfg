\* Two writers of any calls, one loader, one crash.
SPECIFICATION Spec
CONSTANTS
    random_forest = random_forest
    xgboost = xgboost
    Writers = {one, two}
    Loaders = {api}
    Ensemble <- TwoModels
    Versions = {v1, v2}
    NoValue = none
    MaxTrainings = 2
    MaxCalls = 3
    MaxCrashes = 1
SYMMETRY Interchangeable
CHECK_DEADLOCK FALSE
INVARIANTS
    LoadedTogether
    MetadataIsLast
    LatestLoads
