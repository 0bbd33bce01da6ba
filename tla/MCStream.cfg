SPECIFICATION FairSpec
CONSTANTS
    Widths = {2}
    RetentionCap = 1
    WindowOnly = FALSE
    Posted = {1, 2}
    MaxPending = 9
    OtherConsumers = FALSE
    FaultKinds <- AllFaults
    LossyFailovers = FALSE
    MaxFrames = 3
    MaxFaults = 1
INVARIANTS
    TypeOK
    NeverMisaligned
    UnpostedReplayable
PROPERTIES
    ReadsTheLog
    CatchesUp
CHECK_DEADLOCK FALSE
