SPECIFICATION Spec
CONSTANTS
    Widths = {2}
    RetentionCap = 2
    WindowOnly = TRUE
    Posted = {}
    MaxPending = 9
    OtherConsumers = TRUE
    FaultKinds <- LostSessions
    LossyFailovers = FALSE
    MaxFrames = 4
    MaxFaults = 2
INVARIANTS
    NeverMisaligned
PROPERTIES
    ReadsTheLog
CHECK_DEADLOCK FALSE
