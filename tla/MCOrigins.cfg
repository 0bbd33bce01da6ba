SPECIFICATION Spec
CONSTANTS
    alice = alice
    peer = peer
    other = other
    a0 = a0
    e5 = e5
    e6 = e6
    e6x = e6x
    e7 = e7
    e8 = e8
    m1 = m1
    m2 = m2
    m3 = m3
    m4 = m4
    m5 = m5
    m6 = m6
    Ids = {a0, e5, e6, e6x, e7, e8, m1, m2, m3, m4, m5, m6}
    Senders = {alice}
    ZeroSender = zero
    Chains = {peer, other}
    Peers = {peer}
    Txs <- MCTxs
    Epochs <- MCEpochs
    Batches <- MCBatches
    DedupCapacity = 1
    Horizon = 1
    NoDeadline = 99
    DaLagBudget = 0
    RecordLagBudget = 0
    Voters = {}
    Strangers = {}
    Recorded = {}
    Posted = {}
    VoidWindow = 2
    MaxOpenVotes = 1
    TickMs = 2
    Clocks <- MCClocks
    FreshProxies = TRUE
    MaxCount = 9
    MaxBlock = 6
INVARIANTS
    SlotsDense
    OriginLeadsBlock
    OriginsContiguous
    BoundariesOrdered
    WindowBounded
CHECK_DEADLOCK FALSE
