SPECIFICATION Spec
CONSTANTS
    r1 = r1
    r2 = r2
    r3 = r3
    s1 = s1
    s2 = s2
    Workers = {w1, w2}
    Rows = {r1, r2}
    Subscribers = {s1}
    Owner <- OwnerOfTwo
    MaxAttempts = 2
    BaseDelay = 1
    MaxDelay = 1
    MaxConcurrent = 1
    BatchLimit = 2
    MaxCrashes = 0
    MaxFaults = 1
    MaxTime = 1
SYMMETRY Interchangeable
CHECK_DEADLOCK FALSE
INVARIANTS
    DeliveredWasReceived
    DeadWasTried
    ParallelBounded
