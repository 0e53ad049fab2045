SPECIFICATION FairSpec
CONSTANTS
    NumProc = 2
    Setups <- MCAsyncStop
    MaxRequests = 1
    MaxDeaths = 1
PROPERTIES StopCompletes
CHECK_DEADLOCK FALSE
