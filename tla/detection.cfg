\* Three wallets, up to five trades, payments or events, two pipeline runs.
SPECIFICATION Spec
CONSTANTS
    Accounts = {w1, w2, w3}
    NoAccount = none
    p = p
    q = q
    Pairs = {p, q}
    Offered <- MCOffered
    MinRingSize = 3
    MaxCycleLength = 6
    Payable <- MCPayable
    Placed <- MCPlaced
    Correlated <- MCCorrelated
    Sources = {sponsor}
    NoSource = none
    Window = 1
    Baseline = 6
    MaxTrades = 2
    OffHours = {2, 7}
    MaxRecords = 5
    MaxRuns = 2
SYMMETRY Interchangeable
CHECK_DEADLOCK FALSE
INVARIANTS
    CyclesTellRings
    FractionsInRange
    CrossPairAgrees
    PoolRiskAgrees
