SPECIFICATION Spec
CONSTANTS
    Start = {s1, s2}
    Daemonized = {s1}
INVARIANTS OneContainer StoppedMeansDead StartVerdict
PROPERTIES StarterReturns DeathHandled
CHECK_DEADLOCK FALSE
