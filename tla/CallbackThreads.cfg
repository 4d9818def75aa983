SPECIFICATION FairSpec
CONSTANTS
    Loop = loop
    Helpers = {h1, h2}
    CallbackSet = {c1, c2}
    Stops = TRUE
    StartsInLastCall = FALSE
INVARIANTS ListedOnce RunningIsListed
PROPERTY StartedIsCalled
