SPECIFICATION Spec
CONSTANTS
    TheHome = TheHome
    TheApp = TheApp
    coma = coma
    Apps <- MCApps
    HomeApp = TheHome
    Multiple <- MCMultiple
    Callers <- NoCallers
    MaxCalls = 2
    MaxPid = 2
    MaxQueue = 3
INVARIANTS
    CurrentIsShown
CHECK_DEADLOCK FALSE
