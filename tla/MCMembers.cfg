SPECIFICATION MSpec
CONSTANTS
    alice = alice
    bob = bob
    carol = carol
    a0 = a0
    b0 = b0
    c0 = c0
    e5 = e5
    m1 = m1
    peer = peer
    v1 = v1
    v2 = v2
    Ids = {a0, b0, c0, e5, m1}
    Senders = {alice, bob, carol}
    ZeroSender = zero
    Chains = {peer}
    Peers = {peer}
    Txs <- MCTxs
    Epochs <- MCEpochs
    Batches <- MCBatches
    DedupCapacity = 2
    Horizon = 2
    NoDeadline = 99
    DaLagBudget = 0
    RecordLagBudget = 0
    Voters = {v1, v2}
    Strangers = {}
    Recorded <- MCRecorded
    Posted = {1}
    VoidWindow = 2
    MaxOpenVotes = 2
    TickMs = 1
    Clocks <- MCClocks
    FreshProxies = FALSE
    MaxRestarts = 1
    MaxCount = 4
    MaxBlock = 3
INVARIANTS
    MembersAgree
    AdmissionAgrees
CHECK_DEADLOCK FALSE
