SPECIFICATION Spec
CONSTANTS
    TheHome = TheHome
    TheApp = TheApp
    coma = coma
    Apps <- MCApps
    HomeApp = TheHome
    Multiple <- MCMultiple
    Callers <- MCCallers
    MaxCalls = 2
    MaxPid = 2
    MaxQueue = 1
INVARIANTS InstancesKept LauncherReturns
CHECK_DEADLOCK FALSE
