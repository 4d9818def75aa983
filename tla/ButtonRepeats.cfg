SPECIFICATION Spec
CONSTANTS
    Buttons = {b1, b2}
    NoButton = NoButton
    MaxThreads = 3
INVARIANT RepeatsWhileHeld
CHECK_DEADLOCK FALSE
