\* Two runs of any modes over one pair, one failure.
SPECIFICATION Spec
CONSTANTS
    first = first
    second = second
    wallet = wallet
    xlm_usdc = xlm_usdc
    xlm_eurc = xlm_eurc
    Runs = {first, second}
    NoRun = norun
    Accounts = {wallet}
    AssetPairs <- OnePair
    Modes <- AnyMode
    NoSubmit = {second}
    Risky <- MCRisky
    PoolTrades <- MCPools
    PathPayments <- MCPayments
    Circular <- MCCircular
    Earlier <- MCEarlier
    SnapshotCap = 2
    SnapshotKeep = 2
    MaxFailures = 1
INVARIANTS
    LatestScoreIsFreshest
    ExplanationIsOwn
    SnapshotsBounded
CHECK_DEADLOCK FALSE
