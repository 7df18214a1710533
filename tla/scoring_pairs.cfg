\* Two runs with multi_pair=True over two pairs, one failure.
SPECIFICATION Spec
CONSTANTS
    first = first
    second = second
    wallet = wallet
    xlm_usdc = xlm_usdc
    xlm_eurc = xlm_eurc
    Runs = {first, second}
    NoRun = norun
    Accounts = {wallet}
    AssetPairs <- TwoPairs
    Modes <- MultiPair
    NoSubmit = {}
    Risky <- MCRisky
    PoolTrades = {}
    PathPayments = {}
    Circular = {}
    Earlier = {}
    SnapshotCap = 2
    SnapshotKeep = 2
    MaxFailures = 1
INVARIANTS
    ScoresAllOrNone
    SubmittedIsSaved
    ReportsOfOneRun
SYMMETRY Either
ACTION_CONSTRAINT QuietGoesOn
CHECK_DEADLOCK FALSE
