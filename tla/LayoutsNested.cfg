SPECIFICATION ScreensSpec
CONSTANTS
    Main = main
    Helpers = {h1, h2}
    Painters = {h1, h2}
    Frame <- MCFrame
    Requests <- MCRequests
    FullUpdate = FALSE
    HidesMapped = TRUE
    None = None
    Diverges = Diverges
    window = window
    layout = layout
    button = button
    input = input
    panel = panel
    slider = slider
    row = row
    box = box
    label = label
    first = first
    second = second
    float = float
    Layouts = {row, box}
    Leaves = {label, first, second, float}
    Root = row
    Above <- MCAbove
    Initially <- MCInitially
    Floating = {float}
    Toggled = {box, float}
    Texts = {label}
    Detachable = {first, second}
    Rows = 2
    Cols = 3
    CellSpans <- MCCellSpans
    Spots <- MCSpots
    MinDistance = 900
    Keys = {two, three}
    erase = erase
    Letters = 2
    MaxLetters = 2
    MaxWire = 2
    Widgets <- MCWidgets
    Kids <- MCKids
    KeyInput = {button, input, slider}
    PointerInput = {button, input, slider}
    PointerGrabbing = {slider}
    PointerPassthrough = {layout, panel}
    OSKInput = {input}
    Disables = {button}
    Hides = {panel}
    Removable = {input, panel}
    Points <- MCPoints
    Given <- MCGiven
    MaxMerged = 3
    Apps = {home, app}
    home = home
    keyboard = keyboard
    KeyboardUsers = {app}
    Advance = 8
    Visible = 20
    Left = 4
    MaxLength = 4
    Pieces = {1, 4}
    Pointer = {0, 9, 31}
    LengthCap = 5
INVARIANT RowsTiled
CHECK_DEADLOCK FALSE
