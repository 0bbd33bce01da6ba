SPECIFICATION Spec
CONSTANTS
    alice = alice
    bob = bob
    carol = carol
    c0 = c0
    z0 = z0
    zero = zero
    a0 = a0
    a1 = a1
    a1x = a1x
    b0 = b0
    Ids = {a0, a1, a1x, b0, c0, z0}
    Senders = {alice, bob, carol}
    ZeroSender = zero
    Chains = {}
    Peers = {}
    Txs <- MCTxs
    Epochs = {}
    Batches = {}
    DedupCapacity = 2
    Horizon = 2
    NoDeadline = 99
    DaLagBudget = 2
    RecordLagBudget = 0
    Voters = {}
    Strangers = {}
    Recorded = {}
    Posted = {1, 3}
    VoidWindow = 3
    MaxOpenVotes = 1
    TickMs = 1
    Clocks <- MCClocks
    FreshProxies = FALSE
    MaxCount = 5
    MaxBlock = 5
INVARIANTS
    TypeOK
    ReofferAbsorbed
    OneLivePerNonce
    DaLagBounded
CHECK_DEADLOCK FALSE
