------------------------------ MODULE MCScreens ------------------------------
(***************************************************************************)
(* What is on a window and what windows are on the screen: the parts that  *)
(* place, paint and focus, checked side by side.  A behaviour is one of one*)
(* part, chosen at the start, while the others stay as they begin.         *)
(***************************************************************************)
EXTENDS WindowUpdates, Sequences, FiniteSets, TLC

CONSTANTS
    None, Diverges,
    window, layout, button, input, panel, slider,           \* widgets
    row, box, label, first, second, float,
    Layouts, Leaves, Root, Above, Initially, Floating,
    Toggled, Texts, Detachable,                             \* a layout
    Rows, Cols, CellSpans,                                  \* a grid
    Spots, MinDistance,                                     \* strokes
    Keys, erase, Letters, MaxLetters, MaxWire,              \* the on-screen keyboard
    Widgets, Kids, KeyInput, PointerInput, PointerGrabbing, PointerPassthrough, OSKInput,
    Disables, Hides, Removable, Points,                     \* the widgets of a window
    Given, MaxMerged,                                       \* rectangles
    Apps, home, keyboard, KeyboardUsers,                    \* views
    Advance, Visible, Left, MaxLength, Pieces, Pointer, LengthCap  \* a line of text

VARIABLES
    part,
    kids, live, disabled, invisible, hasFocus, exposed, pressed, grabs,
    focusedWidget, exposedWidget, grabbedWidget, oskWidget, down, osk,
    list, extent, spacing, minimumFirst, tidy,
    children, pos, abs, size, old, natural, hidden, modified, untiled, pending,
    todo, calls, screen,
    queued, bounds, merged,
    view, currentApp, previousApp, oskTarget, oskCovers, broughtUpFor, showProps, hideProps,
    cells, area, inGrid, ownWidth, width, height, gap, keyNav, dirty,
    columns, rows, columnsAt, rowsAt, geometry, neighbour, broken,
    line,
    held, pre, since, moves, path, matched,
    cycleKey, cycleCharacter, modifier, symbolState, ticking, timer, helper, wire, field,
    text, meant

widgetVars == <<kids, live, disabled, invisible, hasFocus, exposed, pressed, grabs,
                focusedWidget, exposedWidget, grabbedWidget, oskWidget, down, osk>>
boxVars    == <<list, extent, spacing, minimumFirst, tidy>>
layoutVars == <<children, pos, abs, size, old, natural, hidden, modified, untiled,
                pending, todo, calls, screen>>
rectVars   == <<queued, bounds, merged>>
viewVars   == <<view, currentApp, previousApp, oskTarget, oskCovers, broughtUpFor,
                showProps, hideProps>>
gridVars   == <<cells, area, inGrid, ownWidth, width, height, gap, keyNav, dirty,
                columns, rows, columnsAt, rowsAt, geometry, neighbour, broken>>
strokeVars == <<held, pre, since, moves, path, matched>>
typingVars == <<cycleKey, cycleCharacter, modifier, symbolState, ticking, timer, helper, wire,
                field, text, meant>>
all == <<part, vars, widgetVars, boxVars, layoutVars, rectVars, viewVars, gridVars, line,
         strokeVars, typingVars>>

(* A window of 2 x 1 pixels; threads ask for its left pixel, its right one *)
(* together with one outside the frame, and an area outside it.            *)
MCFrame    == [x |-> 0, y |-> 0, w |-> 2, h |-> 1]
MCRequests == {[x |-> 0, y |-> 0, w |-> 1, h |-> 1], [x |-> 1, y |-> 0, w |-> 2, h |-> 1],
               [x |-> 3, y |-> 0, w |-> 1, h |-> 1]}

Symmetry == Permutations(Helpers)

(* A window with a layout that holds a button, a line input and a panel    *)
(* with a slider in it.                                                    *)
MCWidgets == {window, layout, button, input, panel, slider}
MCKids == [w \in MCWidgets |->
              CASE w = window -> <<layout>>
                [] w = layout -> <<button, panel, input>>
                [] w = panel  -> <<slider>>
                [] OTHER      -> << >>]

MCPoints == {{}, {window, layout}, {window, layout, button},
             {window, layout, button, input}, {window, layout, panel, slider}}

F == INSTANCE Widgets WITH Creator <- window

ASSUME ScreenWidgetsAssumption == F!WidgetsAssumption

(* Up to three children that are fixed, shrink and grow or expand, and     *)
(* fixed ones with a limit of their own.                                   *)
NoLimit == -1
MCChildren ==
    [preferred : {1, 3}, min : {NoLimit}, max : {NoLimit}, extent : {0},
     policy : {{}, {"grow", "shrink"}, {"grow", "shrink", "expand"}}]
    \cup [preferred : {3}, min : {2}, max : {NoLimit}, extent : {0}, policy : {{}}]
    \cup [preferred : {3}, min : {NoLimit}, max : {2}, extent : {0}, policy : {{}}]

B == INSTANCE BoxLayout WITH
        IntBits <- 8, SizeBits <- 16, Children <- MCChildren, MaxChildren <- 3,
        Extents <- {0, 2, 6, 7, 9}, Spacings <- {0, 1}

(* A window with a row that holds a label, a floating widget and a box     *)
(* with up to two widgets; the label and the box can grow.                 *)
MCAbove == [w \in {row, box, label, first, second, float} |->
               CASE w = row -> window
                 [] w \in {first, second} -> box
                 [] OTHER -> row]
MCInitially == [w \in {window, row, box, label, first, second, float} |->
               CASE w = window -> <<row>>
                 [] w = row    -> <<label, box, float>>
                 [] w = box    -> <<first>>
                 [] OTHER      -> << >>]

L == INSTANCE Relayout WITH
        IntBits <- 8, SizeBits <- 16,
        Window <- window, Removable <- Detachable,
        Policy <- [w \in Layouts \cup Leaves |->
                      CASE w \in {label, box} -> {"grow"}
                        [] w = first -> {"grow", "shrink"}
                        [] OTHER -> {}],
        Natural <- [w \in Leaves |->
                      CASE w = label -> {1, 3} [] w = second -> {2} [] OTHER -> {1}],
        FloatExtent <- 1, Width <- 4, EmptyExtent <- 3, Places <- {0, 2}, MaxCalls <- 2

ASSUME ScreenTreeAssumption == L!Tree

(* All rectangles with corners on a small grid around the origin.          *)
MCGiven == [x: -1 .. 1, y: -1 .. 1, w: 1 .. 2, h: 1 .. 2]

R == INSTANCE RectangleUnion

ASSUME ScreenRectanglesAssumption == R!GivenAssumption

(* The launcher, and applications some of which use the keyboard.          *)
V == INSTANCE ViewSwitching WITH Home <- home, Keyboard <- keyboard

ASSUME ScreenViewsAssumption == V!ViewsAssumption

(* Up to four widgets in two rows of three cells: one that is fixed, one   *)
(* that gives way, one that takes what is left and one that only grows.    *)
MCWish ==
    LET Of(n, policy) == [preferred |-> n, min |-> NoLimit, max |-> NoLimit, policy |-> policy]
    IN  (button :> [x |-> Of(3, {}), y |-> Of(2, {})])
        @@ (input :> [x |-> Of(4, {"grow", "shrink"}), y |-> Of(2, {"grow", "shrink"})])
        @@ (panel :> [x |-> Of(2, {"grow", "shrink", "expand"}),
                      y |-> Of(2, {"grow", "shrink", "expand"})])
        @@ (slider :> [x |-> Of(2, {"grow"}), y |-> Of(1, {"grow"})])

MCCellSpans == {<<1, 1>>, <<1, 2>>, <<2, 1>>, <<-1, -1>>}

G == INSTANCE GridLayout WITH
        IntBits <- 8, SizeBits <- 16, Widgets <- DOMAIN MCWish, Wish <- MCWish,
        HeightFor <- [w \in DOMAIN MCWish |-> -1], Outside <- window,
        Spans <- CellSpans,
        Overwrites <- FALSE, Widths <- {3, 9}, Heights <- {5}, Spacings <- {1},
        OwnWidths <- {0, 4}, children <- inGrid, spacing <- gap, modified <- dirty

ASSUME ScreenGridAssumption == G!GridAssumption

(* A line of text in a field.                                              *)
T == INSTANCE LineEditing

ASSUME ScreenTextAssumption == T!LineAssumption

(* The on-screen keyboard, and a field without a limit of its own.         *)
Y == INSTANCE Typing WITH
        MaxLength <- 0, Pieces <- {}, Pointer <- {}, LengthCap <- MaxLetters + 1,
        NoKey <- None, Deletes <- erase, line <- field

ASSUME ScreenTypingAssumption == Y!TypingAssumption

(* Strokes of up to four moves, and gestures one of which is the end of   *)
(* another.                                                                *)
MCSpots == {<<0, 0>>, <<20, 0>>, <<40, 0>>, <<40, 40>>, <<0, 80>>}

S == INSTANCE Gestures WITH
        Named <- <<<<1, 7>>, <<0, 0, 2>>, <<2, 0>>, <<4>>, <<0, 2>>>>,
        Places <- Spots, Delays <- {20, 40}, Frequency <- 40, Sensitivity <- 1,
        MaxMoves <- 3, down <- held

ASSUME ScreenStrokesAssumption == S!PlacesAssumption

Parts == {"updates", "widgets", "boxes", "layouts", "rectangles", "views", "grid", "text",
          "strokes", "typing"}

(* A step of one part leaves the variables of the others alone.            *)
Others(p) ==
    /\ part = p /\ part' = part
    /\ p # "updates"    => UNCHANGED vars
    /\ p # "widgets"    => UNCHANGED widgetVars
    /\ p # "boxes"      => UNCHANGED boxVars
    /\ p # "layouts"    => UNCHANGED layoutVars
    /\ p # "rectangles" => UNCHANGED rectVars
    /\ p # "views"      => UNCHANGED viewVars
    /\ p # "grid"       => UNCHANGED gridVars
    /\ p # "text"       => UNCHANGED line
    /\ p # "strokes"    => UNCHANGED strokeVars
    /\ p # "typing"     => UNCHANGED typingVars

(* A part that is not the one under way begins in one state only.          *)
ScreensInit ==
    /\ part \in Parts
    /\ Init /\ F!Init /\ R!Init
    /\ IF part = "boxes" THEN B!Init
       ELSE /\ list = << >> /\ extent = 0 /\ spacing = 0
            /\ minimumFirst = FALSE /\ tidy = FALSE
    /\ L!Init /\ (part # "layouts" => natural[label] = 1)
    /\ V!Init /\ (part # "views" => ~ showProps /\ ~ hideProps)
    /\ G!Init /\ keyNav = (width = 9) /\ (part # "grid" => width = 3)
    /\ T!Init /\ S!Init /\ Y!TypingInit

ScreensNext ==
    \/ Others("updates") /\ Next
    \/ Others("widgets") /\ F!Next
    \/ Others("boxes") /\ B!Next
    \/ Others("layouts") /\ L!Next
    \/ Others("rectangles") /\ R!Next
    \/ Others("views") /\ V!Next
    \/ Others("grid") /\ G!Next
    \/ Others("text") /\ T!Next
    \/ Others("strokes") /\ S!Next
    \/ Others("typing") /\ Y!TypingNext

ScreensSpec == ScreensInit /\ [][ScreensNext]_all

-----------------------------------------------------------------------------
(* What each part keeps true; the names are explained in its module.       *)

(* The tree, the bits of the widgets and the event manager go together,    *)
(* no event is sent to a deleted widget, the focus leaves a widget that is *)
(* disabled, and the on-screen keyboard goes where the focus goes.         *)
WidgetsConsistent ==
    part = "widgets" =>
        /\ F!Consistent /\ F!ManagerHoldsLive
        /\ F!DisabledHasNoFocus /\ F!KeyboardFollowsFocus

(* A tiled row fits its layout, fills it if a child can grow, respects the *)
(* constraints, and comes out the same when it is tiled again.  The lines  *)
(* of a grid fit and fill it too and its widgets do not overlap.  When     *)
(* nothing is left to paint, every pixel shows the widget that has its     *)
(* place there and the layout of the window is tiled.                      *)
LayoutsTiled ==
    /\ part = "boxes" =>
        B!RowFits /\ B!RowFills /\ B!ConstraintsHeld /\ B!TilingIsStable
    /\ part = "grid" => G!LinesFit /\ G!LinesFill /\ G!WidgetsApart
    /\ part = "layouts" => L!TypeOK /\ L!ScreenIsTrue /\ L!OutermostTiled

(* No widget is left where it was, unmarked, when one around it moves; a   *)
(* widget keeps its cells of a grid, and arrow keys of opposite directions *)
(* undo one another there; and a stroke is made of as many moves as the    *)
(* path that is drawn of it, each far from the one before.                 *)
PlacesKept ==
    /\ part = "layouts" => L!InPlace
    /\ part = "grid" => G!TypeOK /\ G!CellsKept /\ G!ArrowsReturn
    /\ part = "strokes" => S!PathKept

(* "A layout's responsibility is to set the geometry of child widgets and  *)
(* arrange them inside its canvas" (ui/LayoutBase.h:35): whenever nothing  *)
(* is left to paint, each layout on the screen has tiled its children for  *)
(* the extent it has.                                                      *)
RowsTiled == part = "layouts" => L!RowsTiled

(* Merging and clipping of dirty rectangles neither lose nor add a pixel.  *)
RectanglesExact ==
    part = "rectangles" => R!UnitedIsHull /\ R!IntersectedIsCommon

(* "Converts this rectangle to the union of this rectangle and given       *)
(* rectangle" (types/Rectangle.h): what unite() leaves covers both.        *)
UniteCovers == part = "rectangles" => R!UniteCovers

(* The cursor is in the text and drawn where it is, and what is shown as   *)
(* selected is what the next glyph would replace, while the user selects;  *)
(* and what is tapped on the on-screen keyboard gets into the text of      *)
(* another process letter by letter.                                       *)
TextKept ==
    /\ part = "text" => T!CursorKept
    /\ part = "typing" => Y!TypingTypeOK /\ Y!Typed

(* The tab key visits the widgets in the order of the tree, and does not   *)
(* look for the next one for ever.                                         *)
TabGoesOn == part = "widgets" => F!TabWalks

(* A cursor in view stays in view when it goes by one glyph.               *)
CaretFollowed == [][part = "text" => T!CaretFollowed]_line

(* A finished stroke reports the gesture that is nearest to it.            *)
StrokesMatched == part = "strokes" => S!NearestReported

(* When the animations of the views end, the current application is whole  *)
(* on the screen, alone but for the keyboard it asked for.                 *)
ViewsKept ==
    part = "views" => V!TypeOK /\ V!CurrentIsOnScreen /\ V!ShownIsWhole /\ V!KeyboardHasTarget
=============================================================================
