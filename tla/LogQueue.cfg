SPECIFICATION FairSpec
CONSTANTS
    Kind <- FileKind
    Chain <- FileChain
    Messages <- FileMessages
    Growth = 0
    Prefix = 0
    RecordsCap = 2
    BytesCap = 3
    Burst = 2
    BatchItems = 2
    BatchBytes = 3
    PipeCap = 1
    MaxRecords = 2
    MaxForks = 1
    MaxReopens = 1
INVARIANTS RecordsAccounted
PROPERTIES ForkInheritsNothing LoggerGoesOn
CHECK_DEADLOCK FALSE
