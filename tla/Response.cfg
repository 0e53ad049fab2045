SPECIFICATION Spec
CONSTANTS
    Modes <- MCModes
    CoalesceSize = 2
    SendMax = 2
    MaxAgain = 1
    MaxInfos = 2
INVARIANTS ResponseExact
PROPERTIES SilentAfterError
