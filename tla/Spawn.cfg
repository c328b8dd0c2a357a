SPECIFICATION Spec
CONSTANT Conf <- MCConf
INVARIANTS RunningMeansExecuted RightReceiver DiesWithMonitor
PROPERTIES SpawnReturns
CHECK_DEADLOCK FALSE
