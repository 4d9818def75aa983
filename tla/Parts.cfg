SPECIFICATION PartsSpec
CONSTANTS
    Main = main
    Helpers = {h1}
    Painters = {}
    Frame <- MCFrame
    Requests <- MCRequests
    FullUpdate = FALSE
    HidesMapped = FALSE
    Loop = loop
    TimerHelpers = {helper1, helper2}
    TimerSet = {t1}
    Calls = {"start", "stop", "setInterval", "setRepeats", "setRepeatsAnywhere"}
    Single = {fade, blank}
    Order <- MCOrder
    Delay <- MCDelay
    Duration <- MCDuration
    Loops <- MCLoops
    fade = fade
    blank = blank
    slide1 = slide1
    slide2 = slide2
    NoAnimation = NoAnimation
    v1 = v1
    v2 = v2
    s1 = s1
    NoSurface = NoSurface
    left = left
    right = right
    Buttons = {b1, b2}
    MaxThreads = 3
    NoButton = NoButton
    Notes = {n1, n2, n3, n4}
    MaxNotes = 2
    NoteTag <- MCNoteTag
    n1 = n1
    n2 = n2
    n3 = n3
    n4 = n4
    tag = tag
    NoTag = NoTag
INVARIANTS GateKept TimersListedOnce AnimationsKept SurfacesKept
    RepeatersKept NotificationsKept
PROPERTIES UpdatesPainted AnimationsEnd LastFrameShown HandlersReturn
    EachIsServed
CHECK_DEADLOCK FALSE
