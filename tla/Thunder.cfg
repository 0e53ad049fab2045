SPECIFICATION FairSpec
CONSTANTS
    NumProc = 2
    MaxThreads = 2
    Setups <- MCSetups
    MaxConn = 1
INVARIANTS TypeOK ThunderSerialized NeverOrphaned AcceptSound
PROPERTIES EveryConnectionAccepted
CHECK_DEADLOCK FALSE
