\* Pages of two trades, up to two new ones, two permits, one retry.
SPECIFICATION FairSpec
CONSTANTS
    a = a
    b = b
    Accounts = {a, b}
    Parties <- MCParties
    Before = 1
    Initial = 3
    PageLimit = 2
    MaxRetries = 1
    MaxConcurrency = 2
CHECK_DEADLOCK FALSE
INVARIANTS
    InFlightBounded
    PagesComplete
    FailedWasTried
PROPERTY
    LoadsEnd
