SPECIFICATION Spec
CONSTANTS
    alice = alice
    a0 = a0
    a1 = a1
    a1x = a1x
    a2 = a2
    v1 = v1
    v2 = v2
    v3 = v3
    Ids = {a0, a1, a1x, a2}
    Senders = {alice}
    ZeroSender = zero
    Chains = {}
    Peers = {}
    Txs <- MCTxs
    Epochs = {}
    Batches = {}
    DedupCapacity = 3
    Horizon = 2
    NoDeadline = 99
    DaLagBudget = 0
    RecordLagBudget = 2
    Voters = {v1, v2}
    Strangers = {v3}
    Recorded <- MCRecorded
    Posted = {}
    VoidWindow = 4
    MaxOpenVotes = 1
    TickMs = 1
    Clocks <- MCClocks
    FreshProxies = FALSE
    MaxCount = 6
    MaxBlock = 3
INVARIANTS
    ReofferAbsorbed
    NoNonceGap
    NonceFillable
    OneLivePerNonce
    VoidedOnce
    VoidsUnanimous
    VoidInWindow
CHECK_DEADLOCK FALSE
