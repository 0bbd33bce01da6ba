SPECIFICATION FairSpec
CONSTANTS
    Txs <- MCTxs
    MaxPending = 1
    MaxInFlight = 2
    FirstNonce = 1
    FaultKinds <- AllFaults
    MaxFaults = 1
    MaxAnswers = 2
INVARIANTS
    TypeOK
    NoneBelowFloor
    NothingDropped
    NotWedged
    FloorCurrent
PROPERTIES
    OnlyNamedLeave
    Settles
CHECK_DEADLOCK FALSE
