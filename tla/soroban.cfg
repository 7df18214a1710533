\* Two scores, a circuit that opens at the first failure, one fault.
SPECIFICATION FairSpec
CONSTANTS
    Scores = {a, b}
    Threshold = 1
    Window = 2
    Reset = 1
    Errors <- AllErrors
    MaxTime = 3
    MaxFaults = 1
    NoScore = NoScore
CHECK_DEADLOCK FALSE
INVARIANTS
    BreakerBounds
    SubmittedLanded
    TwiceOnlyAfterTimeout
    AuditedOnce
    LandedIsReported
PROPERTY
    BatchEnds
