SPECIFICATION Spec
CONSTANTS
    alice = alice
    bob = bob
    carol = carol
    c0 = c0
    z0 = z0
    zero = zero
    a0 = a0
    a1 = a1
    a1x = a1x
    b0 = b0
    Ids = {a0, a1, a1x, b0, c0, z0}
    Senders = {alice, bob, carol}
    ZeroSender = zero
    Chains = {}
    Peers = {}
    Txs <- MCUserTxs
    Epochs = {}
    Batches = {}
    DedupCapacity = 2
    Horizon = 1
    NoDeadline = 99
    DaLagBudget = 0
    RecordLagBudget = 0
    Voters = {}
    Strangers = {}
    Recorded = {}
    Posted = {}
    VoidWindow = 3
    MaxOpenVotes = 1
    TickMs = 1
    Clocks <- MCClocks
    FreshProxies = TRUE
    MaxCount = 6
    MaxBlock = 5
INVARIANT ReofferNeverFresh
CHECK_DEADLOCK FALSE
