SPECIFICATION FairSpec
CONSTANTS
    Processes = {p, q}
    Script <- TablesColumnTable
    Repeatable <- AllButTheColumn
    MaxCrashes = 1
    MaxBusy = 1
CHECK_DEADLOCK FALSE
INVARIANTS
    VersionIsComplete
    ReadyIsComplete
    InterruptionVisible
PROPERTY
    CallReturns
