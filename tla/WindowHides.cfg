SPECIFICATION FairSpec
CONSTANTS
    Main = main
    Helpers = {}
    Painters = {}
    Frame <- MCFrame
    Requests <- MCRequests
    FullUpdate = FALSE
    HidesMapped = TRUE
PROPERTY UpdatesPainted
CHECK_DEADLOCK FALSE
