SPECIFICATION FairSpec
CONSTANTS
    TheApp = TheApp
    d1 = d1
    d2 = d2
    AppWindow = TheApp
    NoWindow = NoWindow
    Dialogs <- MCDialogs
    Animated <- MCAnimated
    Modalities <- MCModalities
    MaxEvents = 2
    MaxBuffer = 2
    MaxAttached = 2
INVARIANTS StackKept OnlyActiveHears SleepsOnlyIdle
PROPERTIES UpdatesHappen StopEnds QueuePromise StackPromise
CHECK_DEADLOCK FALSE
