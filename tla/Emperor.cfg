SPECIFICATION FairSpec
CONSTANTS
    Names = {"a", "b"}
    MaxPid = 3
    Tolerance = 1
    Mercy = 1
    Heartbeat = 1
    Throttle = 1
    Scale = 2
    MaxThrottle = 1
    MaxFaults = 1
    Modes <- MCModes
INVARIANTS VassalsGoverned
PROPERTIES EmperorGoesOn
CHECK_DEADLOCK FALSE
