SPECIFICATION FairSpec
CONSTANTS
    Loop = loop
    Helpers = {}
    TimerSet = {t1, t2}
    Intervals = {1}
    RepeatCounts = {0, 1}
    DefaultInterval = 2
    IdleTimeout = 2
    LongestTimeout = 3
    CountCap = 2
    MaxLate = 1
    Calls = {"start", "stop", "restart", "setInterval", "setRepeats"}
INVARIANTS ListKept
PROPERTIES RepeatsRespected TimeoutIsNext DueTimersFire
