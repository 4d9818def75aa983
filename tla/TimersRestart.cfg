SPECIFICATION Spec
CONSTANTS
    Loop = loop
    Helpers = {}
    TimerSet = {t1, t2}
    Intervals = {1, 2}
    RepeatCounts = {0}
    DefaultInterval = 2
    IdleTimeout = 3
    LongestTimeout = 4
    CountCap = 3
    MaxLate = 1
    Calls = {"start", "restart", "restartAnywhere"}
PROPERTY TimeoutIsNext
