SPECIFICATION FairSpec
CONSTANTS
    r1 = r1
    r2 = r2
    r3 = r3
    s1 = s1
    s2 = s2
    Workers = {w1}
    Rows = {r1, r2, r3}
    Subscribers = {s1, s2}
    Owner <- OwnerOfThree
    MaxAttempts = 2
    BaseDelay = 1
    MaxDelay = 1
    MaxConcurrent = 1
    BatchLimit = 2
    MaxCrashes = 1
    MaxFaults = 0
    MaxTime = 12
CHECK_DEADLOCK FALSE
INVARIANT
    PostsBounded
PROPERTIES
    QueueSpec
    AlertsSettle
