SPECIFICATION FairSpec
CONSTANTS
    w1 = w1  w2 = w2
    Workers = {w1, w2}
    NumJobs = 2
    KindOf <- MCKindOf
    Handles <- MCHandles
    MaxAttempts = 2
    ReadCommitted = TRUE
    SlowHandlers = FALSE
    MaxFaults = 2
INVARIANTS TypeOK ExclusiveProcessing
PROPERTIES ResultsFinal CancelledStaysUnclaimed EveryJobEnds LifecyclesKept
CHECK_DEADLOCK FALSE
