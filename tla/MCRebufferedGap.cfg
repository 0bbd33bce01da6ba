SPECIFICATION Spec
CONSTANTS
    Txs <- MCTxs
    MaxPending = 1
    MaxInFlight = 1
    FirstNonce = 1
    FaultKinds = {"skip"}
    MaxFaults = 1
    MaxAnswers = 1
INVARIANT NoneStranded
CHECK_DEADLOCK FALSE
