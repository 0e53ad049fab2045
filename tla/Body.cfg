SPECIFICATION Spec
CONSTANTS
    Modes <- MCModes
    BucketLimits <- MCBuckets
    Hints = {0, 1}
    PageSize = 3
    InputLimit = 8
    BufSize = 2
    MaxRequests = 2
    MaxAgain = 1
    MaxTime = 1
    MaxCalls = 2
    BytesThreshold = 3
    RoundsThreshold = 2
    ResidencyThreshold = 1
    MinBytes = 1
    FullTurns = 2
    InteractiveQuantum = 2
    BulkQuantum = 1
    CapMultiplier = 2
INVARIANTS BodyExact SchedulerSound
PROPERTIES PromotionIsFinal
CHECK_DEADLOCK FALSE
