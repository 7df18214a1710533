\* Three trades in any order of publication, one thread that closes, two calls
\* of run, one interrupt and one failing insertion.
SPECIFICATION FairSpec
CONSTANTS
    a = a
    b = b
    xlm_usdc = xlm_usdc
    alice = alice
    order = order
    wash = wash
    pool = pool
    Trades <- MCTrades
    Wallets = {a, b}
    NoWallet = none
    Base <- MCBase
    Counter <- MCCounter
    Pairs = {xlm_usdc}
    Pair <- MCPair
    Subscribers = {alice}
    Matching <- MCMatching
    BufferSize = 2
    Closers = {closer}
    Sentinel = sentinel
    Limits = {0, 1}
    NoLimit = unlimited
    MaxCalls = 2
    MaxInterrupts = 1
    MaxFaults = 1
INVARIANTS
    DrainedAtEnd
    OneLostPerRun
    AlertsSavedOnce
    LatestAlertIsSaved
PROPERTY
    ClosedRunEnds
CHECK_DEADLOCK FALSE
