SPECIFICATION Spec
CONSTANTS
    Container <- MCContainer
    Configs <- MCConfigs
    Users <- MCUsers
    Usernet <- MCUsernet
    OvsBridge <- MCOvsBridge
    Wlan <- MCWlan
    Spare <- MCSpare
    MaxRuns <- MCMaxRuns
    MaxFaults = 1
INVARIANTS RecordsMatch
PROPERTIES CleanAfterRun StartsAgain
CHECK_DEADLOCK FALSE
