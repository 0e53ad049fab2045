SPECIFICATION Spec
CONSTANTS
    TimerValues <- MCTimerValues
    SigWorkers = 2
    SigReceivers <- MCSigReceivers
    SigQueue = 1
    EqFds = {3, 4}
    CronMinute = 3
    CronUnits <- MCCronUnits
    CronJobs <- MCCronJobs
    CronHarakiri = 2
    CronEnd = 17
    SrcTable = 2
    SrcValues = {1, 3}
    SrcIters = {0, 2}
    SrcInterval = 2
    SrcBusy = 1
    DmFreq = 2
    DmForkFails = 1
    DmMost = 2
    MetWorkers <- MCMetWorkers
    MetCallers = {"a", "b"}
    MetCounts = 2
    MetMax = 1
    MetRestarts = 1
    MetFreq = 2
    MetLimit = 1
    MetRate = 2
    CfgBodies <- MCCfgBodies
    CfgIncluded <- MCCfgIncluded
    CfgForbidden = {"forbidden"}
    IniLines <- MCIniLines
    YamlLines <- MCYamlLines
    FileLines = 3
    PassValues <- MCPassValues
    MagicTexts <- MCMagicTexts
    SockConfs <- MCSockConfs
    SockMaps <- MCSockMaps
    SockWorkers = 2
    SockReloads = 1
    SockFds = 9
    SnmpCommunity <- MCSnmpCommunity
    SnmpOthers <- MCSnmpOthers
    SnmpIds <- MCSnmpIds
    SnmpOids <- MCSnmpOids
    SnmpValues <- MCSnmpValues
    SnmpVersions <- MCSnmpVersions
    SnmpErrors = {0, 1}
    AlarmNames = {"a", "b"}
    AlarmLens <- MCAlarmLens
    AlarmRules <- MCAlarmRules
    AlarmFdOptions <- MCAlarmFdOptions
    AlarmCut = "cut"
    AlarmLines = {"bad", "good", "own", "tag"}
    AlarmCalls <- MCAlarmCalls
    AlarmOwnLine = "own"
    AlarmMsgSize = 3
    AlarmFreq = 2
    AlarmRoom = 2
    AlarmRaises = 3
    AlarmEnd = 2
    HkConfs <- MCHkConfs
    HkLimit = 2
    HkUser = 1
    HkChunks = 1
    HkDeaths = 1
    HkEnd = 6
INVARIANTS TimedWork  MetricsTrue ConfigAsWritten ListenersSound WatchdogsHeard
PROPERTIES FileNeverBack
