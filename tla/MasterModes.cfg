SPECIFICATION Spec
CONSTANTS
    NumProc = 2
    Setups <- MCModes
    MaxRequests = 1
    MaxDeaths = 1
INVARIANTS EveryWorkerKnown CheaperFloor NothingLeftBehind StopMissesOne
CHECK_DEADLOCK FALSE
