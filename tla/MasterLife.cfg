SPECIFICATION FairSpec
CONSTANTS
    NumProc = 2
    Setups <- MCLife
    MaxRequests = 1
    MaxDeaths = 1
INVARIANTS TypeOK PidIsAChild ChainOneAtATime
PROPERTIES MasterGoesOn
CHECK_DEADLOCK FALSE
