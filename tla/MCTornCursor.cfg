SPECIFICATION Spec
CONSTANTS
    Widths = {2}
    RetentionCap = 1
    WindowOnly = FALSE
    Posted = {1, 2}
    MaxPending = 9
    OtherConsumers = FALSE
    FaultKinds <- AllFaults
    LossyFailovers = FALSE
    MaxFrames = 3
    MaxFaults = 1
INVARIANTS
    RequestsNameOnePoint
CHECK_DEADLOCK FALSE
