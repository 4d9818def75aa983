------------------------------- MODULE Widgets -------------------------------
(***************************************************************************)
(* The widgets of one window and its EventManager: the tree with the order *)
(* of its children, which widget is focused, exposed and grabbed, the      *)
(* state bits the widgets keep of it, and how pointer and key events of    *)
(* the window find their widget.                                           *)
(*                                                                         *)
(* Everything here runs in the application's main loop.  Geometry is the   *)
(* set of widgets whose frame contains the pointer.  What the handlers of  *)
(* a widget do (buttons that click, for example) are steps of their own.   *)
(***************************************************************************)
EXTENDS FocusOrder

CONSTANTS
    Widgets,       \* the window and what it holds
    Kids,          \* the children of each widget at the start
    KeyInput, PointerInput, PointerGrabbing, PointerPassthrough, OSKInput,
                   \* the widgets with each input method
    Points,        \* sets of widgets a pointer position lies in
    Disables,      \* widgets the application disables and enables
    Hides,         \* widgets it hides and shows
    Removable      \* widgets the application removes

(* The tree that an instance describes: each widget has one place in one   *)
(* parent, the window has none, and children are deeper than their parent. *)
WidgetsAssumption ==
    /\ IsFiniteSet(Widgets)
    /\ Creator \in Widgets /\ {None, Diverges} \cap Widgets = {} /\ None # Diverges
    /\ Kids \in [Widgets -> Seq(Widgets)]
    /\ \A w \in Widgets : IsInjective(Kids[w]) /\ Creator \notin ToSet(Kids[w])
    /\ \A v, w \in Widgets : v # w => ToSet(Kids[v]) \cap ToSet(Kids[w]) = {}
    /\ \A v \in Widgets \ {Creator} : \E w \in Widgets : v \in ToSet(Kids[w])
    /\ \E depth \in [Widgets -> 0 .. Cardinality(Widgets)] :
          \A w \in Widgets : \A v \in ToSet(Kids[w]) : depth[w] < depth[v]
    /\ UNION {KeyInput, PointerInput, PointerGrabbing, PointerPassthrough, OSKInput}
          \subseteq Widgets
    /\ Disables \cup Hides \cup Removable \subseteq Widgets \ {Creator}
    /\ Points \subseteq SUBSET Widgets

VARIABLES
    kids,                        \* Widget::_children
    live,                        \* widgets that are not deleted
    disabled, invisible,         \* _state of each: DisabledState, InvisibleState
    hasFocus, exposed, pressed, grabs, \* the other bits of _state
    focusedWidget, exposedWidget, grabbedWidget, oskWidget, \* EventManager
    down,                        \* a button of the pointer is pressed
    osk                          \* the on-screen keyboard was asked for

bits == <<hasFocus, exposed, pressed, grabs>>
manager == <<focusedWidget, exposedWidget, grabbedWidget, oskWidget, osk>>
flags == <<disabled, invisible>>
vars == <<kids, live, flags, bits, manager, down>>

WidgetPointer == Widgets \cup {None}

(* A widget and all it holds.                                              *)
below[w \in Widgets] == {w} \cup UNION {below[v] : v \in ToSet(kids[w])}

(* enabled() and visible() ask the parents too: what is disabled or hidden *)
(* takes what it holds with it.                                            *)
shut == UNION {below[w] : w \in disabled \cup invisible}
acceptsKeyInput(w) == w \in KeyInput /\ w \notin shut
acceptsPointerInput(w) == w \in PointerInput /\ w \notin shut

tree == [kids    |-> kids,
         parent  |-> [w \in Widgets |->
                         IF \E v \in live : w \in ToSet(kids[v])
                         THEN CHOOSE v \in live : w \in ToSet(kids[v])
                         ELSE None],
         accepts |-> (live \cap KeyInput) \ shut]

Init ==
    /\ kids = Kids
    /\ live = Widgets
    /\ disabled = {} /\ invisible = {}
    /\ hasFocus = {} /\ exposed = {} /\ pressed = {} /\ grabs = {}
    /\ focusedWidget = None /\ exposedWidget = None
    /\ grabbedWidget = None /\ oskWidget = None
    /\ down = FALSE
    /\ osk = FALSE

-----------------------------------------------------------------------------
(* The event manager.                                                      *)

(* setOSKWidget(): asking for another target keeps the keyboard up, a      *)
(* widget without OSKInput takes it away; the widget that is the target    *)
(* already changes nothing.                                                *)
setOSKWidget(w) ==
    \/ /\ w = oskWidget
       /\ UNCHANGED <<oskWidget, osk>>
    \/ /\ w # oskWidget /\ (w = None \/ (w \notin OSKInput /\ oskWidget # None))
       /\ oskWidget' = None /\ osk' = FALSE
    \/ /\ w # oskWidget /\ w \in OSKInput
       /\ oskWidget' = w /\ osk' = TRUE
    \/ /\ w # None /\ w \notin OSKInput /\ oskWidget = None
       /\ UNCHANGED <<oskWidget, osk>>

keepFocus == UNCHANGED <<hasFocus, focusedWidget, oskWidget, osk>>

(* Mutant: the widget that loses the focus keeps its bit.                  *)
takeFocusKeepingBit(w) ==
    /\ hasFocus' = hasFocus \cup ({w} \ {None})
    /\ focusedWidget' = w
    /\ setOSKWidget(w)

takeFocus(w) ==
    /\ hasFocus' = (hasFocus \ {focusedWidget}) \cup ({w} \ {None})
    /\ focusedWidget' = w
    /\ setOSKWidget(w)

setFocusedWidget(w) ==
    IF (w # None /\ ~ acceptsKeyInput(w)) \/ w = focusedWidget
    THEN keepFocus ELSE takeFocus(w)

(* The bits after setExposedWidget(e) and setGrabbedWidget(g) in that      *)
(* order, `more` being the pressed widgets before.                         *)
setPointerWidgets(e, g, more) ==
    LET left == IF e = exposedWidget THEN more ELSE more \ {exposedWidget}
        free == IF g = grabbedWidget THEN left
                ELSE (left \ {grabbedWidget}) \cup ({g} \ {None})
    IN  /\ exposedWidget' = e
        /\ exposed' = (exposed \ {exposedWidget}) \cup ({e} \ {None})
        /\ grabbedWidget' = g
        /\ grabs' = IF g = grabbedWidget THEN grabs
                    ELSE (grabs \ {grabbedWidget}) \cup ({g} \ {None})
        /\ pressed' = free

keepPointer == UNCHANGED <<exposedWidget, exposed, grabbedWidget, grabs, pressed>>

-----------------------------------------------------------------------------
(* The application's own calls.                                            *)

(* Mutant: the focus stays.                                                *)
setDisabledQuietly(w) ==
    /\ w \in Disables \cap live /\ w \notin disabled
    /\ disabled' = disabled \cup {w}
    /\ keepFocus /\ keepPointer
    /\ UNCHANGED <<kids, live, invisible, down>>

setDisabled(w) ==
    /\ w \in Disables \cap live /\ w \notin disabled
    /\ disabled' = disabled \cup {w}
    /\ IF w \in hasFocus THEN setFocusedWidget(None) ELSE keepFocus
    /\ keepPointer
    /\ UNCHANGED <<kids, live, invisible, down>>

setEnabled(w) ==
    /\ w \in disabled
    /\ disabled' = disabled \ {w}
    /\ UNCHANGED <<kids, live, invisible, bits, manager, down>>

setVisible(w, shown) ==
    /\ w \in Hides \cap live
    /\ invisible' = IF shown THEN invisible \ {w} ELSE invisible \cup {w}
    /\ UNCHANGED <<kids, live, disabled, bits, manager, down>>

setFocus(w) ==
    /\ w \in live /\ w \notin hasFocus
    /\ setFocusedWidget(w)
    /\ keepPointer
    /\ UNCHANGED <<kids, live, flags, down>>

clearFocus(w) ==
    /\ w \in hasFocus
    /\ setFocusedWidget(None)
    /\ keepPointer
    /\ UNCHANGED <<kids, live, flags, down>>

(* raiseChildToFront() and its kin.  lowerChild() does not move the second *)
(* child down.                                                             *)
Swapped(s, i) == [s EXCEPT ![i] = s[i + 1], ![i + 1] = s[i]]

Restacked(s, i) ==
    {Append(RemoveAt(s, i), s[i])}
    \cup (IF i > 1 THEN {<<s[i]>> \o RemoveAt(s, i)} ELSE {})
    \cup (IF i < Len(s) THEN {Swapped(s, i)} ELSE {})
    \cup (IF i > 2 THEN {Swapped(s, i - 1)} ELSE {})

restack(v) ==
    /\ v \in live /\ Len(kids[v]) > 1
    /\ \E i \in DOMAIN kids[v] : \E s \in Restacked(kids[v], i) :
          kids' = [kids EXCEPT ![v] = s]
    /\ UNCHANGED <<live, flags, bits, manager, down>>

(* removeChild(): the destructors of the child and of what it holds take   *)
(* them from the event manager, which keeps only its keyboard target.      *)
Forget(p, gone) == IF p \in gone THEN None ELSE p
(* Mutant: the destructor forgets the widget under the pointer.            *)
clearFocused(gone) ==
    /\ focusedWidget' = Forget(focusedWidget, gone)
    /\ grabbedWidget' = Forget(grabbedWidget, gone)
    /\ UNCHANGED exposedWidget

clear(gone) ==
    /\ focusedWidget' = Forget(focusedWidget, gone)
    /\ grabbedWidget' = Forget(grabbedWidget, gone)
    /\ exposedWidget' = Forget(exposedWidget, gone)

removeChild(w) ==
    /\ w \in Removable \cap live
    /\ LET gone == below[w] IN
       /\ live' = live \ gone
       /\ kids' = [v \in Widgets |->
                      IF v \in gone THEN << >>
                      ELSE IF w \in ToSet(kids[v])
                      THEN RemoveAt(kids[v], CHOOSE i \in DOMAIN kids[v] : kids[v][i] = w)
                      ELSE kids[v]]
       /\ clear(gone)
       /\ hasFocus' = hasFocus \ gone /\ exposed' = exposed \ gone
       /\ pressed' = pressed \ gone /\ grabs' = grabs \ gone
       /\ disabled' = disabled \ gone /\ invisible' = invisible \ gone
    /\ UNCHANGED <<oskWidget, osk, down>>

-----------------------------------------------------------------------------
(* Pointer events.                                                         *)

(* consumePointerEvent(): what v makes of an event at `hit` if its children*)
(* yield `taken`; the children on top come first; those of `greedy` take   *)
(* the event before their children and those of `closed` not at all.       *)
offered(v, taken, hit, keeps, greedy, closed) ==
    LET takes == {i \in DOMAIN kids[v] : taken[kids[v][i]] # None}
        child == IF takes = {} THEN None ELSE taken[kids[v][Max(takes)]]
    IN  IF v \in closed \/ (keeps # v /\ v \notin hit) THEN None
        ELSE IF v \in greedy \cap PointerInput THEN v
        ELSE IF v \in PointerInput /\ child = None THEN v
        ELSE IF v \in PointerInput \cup PointerPassthrough \cup {Creator}
        THEN child ELSE None

(* The widget that takes an event that w is offered.                       *)
consumer(w, hit, keeps, greedy, closed) ==
    LET taken[v \in Widgets] == offered(v, taken, hit, keeps, greedy, closed)
    IN  taken[w]

(* The widget an event starts from: the grabbed one if it takes input.     *)
target == IF grabbedWidget # None /\ acceptsPointerInput(grabbedWidget)
          THEN grabbedWidget ELSE Creator

(* What the window does with an event no widget took.                      *)
Missed(hit) == target = Creator /\ Creator \notin invisible /\ Creator \in hit

(* DWET_BUTTONDOWN                                                         *)
ButtonDown(hit) ==
    LET w == consumer(target, hit, grabbedWidget, {}, shut) IN
    /\ ~ down /\ down' = TRUE
    /\ \/ /\ w # None
          /\ setFocusedWidget(w)
          /\ setPointerWidgets(exposedWidget, grabbedWidget, pressed \cup {w})
       \/ /\ w = None /\ Missed(hit)
          /\ setFocusedWidget(None)
          /\ setPointerWidgets(None, grabbedWidget, pressed)
       \/ /\ w = None /\ ~ Missed(hit)
          /\ keepFocus /\ keepPointer
    /\ UNCHANGED <<kids, live, flags>>

(* DWET_BUTTONUP ends the grab before the event is delivered.              *)
ButtonUp(hit) ==
    LET w == consumer(target, hit, None, {}, shut) IN
    /\ down /\ down' = FALSE
    /\ setPointerWidgets(IF w = None /\ Missed(hit) THEN None ELSE exposedWidget,
                         None, pressed \ {w})
    /\ keepFocus
    /\ UNCHANGED <<kids, live, flags>>

(* DWET_MOTION: with the button pressed a widget that can grabs.           *)
Motion(hit) ==
    LET drag == IF down THEN PointerGrabbing \ {grabbedWidget} ELSE {}
        w == consumer(target, hit, grabbedWidget, drag, shut) IN
    /\ \/ /\ w # None
          /\ setPointerWidgets(w, IF w \in drag THEN w ELSE grabbedWidget, pressed)
       \/ /\ w = None /\ Missed(hit)
          /\ setPointerWidgets(None, grabbedWidget, pressed)
       \/ /\ w = None /\ ~ Missed(hit)
          /\ keepPointer
    /\ keepFocus
    /\ UNCHANGED <<kids, live, flags, down>>

(* DWET_WHEEL: a widget that grabs takes it without the focus.             *)
Wheel(hit) ==
    LET w == consumer(target, hit, grabbedWidget, PointerGrabbing, shut) IN
    /\ \/ /\ w # None /\ w \notin PointerGrabbing
          /\ setFocusedWidget(w) /\ keepPointer
       \/ /\ w \in PointerGrabbing
          /\ keepFocus /\ keepPointer
       \/ /\ w = None /\ Missed(hit)
          /\ keepFocus
          /\ setPointerWidgets(None, grabbedWidget, pressed)
       \/ /\ w = None /\ ~ Missed(hit)
          /\ keepFocus /\ keepPointer
    /\ UNCHANGED <<kids, live, flags, down>>

(* DWET_LEAVE                                                              *)
Leave ==
    /\ setPointerWidgets(None, None, pressed)
    /\ keepFocus
    /\ UNCHANGED <<kids, live, flags, down>>

-----------------------------------------------------------------------------
(* Keys and the focus of the window.                                       *)

(* DIKS_TAB, with and without the shift key.                               *)
Tab ==
    /\ LET t == tree IN
       \E to \in {selectNext(t, focusedWidget),
                  selectPrevious(t, focusedWidget)} : setFocusedWidget(to)
    /\ keepPointer
    /\ UNCHANGED <<kids, live, flags, down>>

(* DIKS_RETURN grabs the focused widget, or lets it go.                    *)
Return ==
    /\ focusedWidget \notin OSKInput
    /\ LET g == IF grabbedWidget = focusedWidget THEN None ELSE focusedWidget IN
       IF g # None /\ g \notin PointerGrabbing THEN keepPointer
       ELSE setPointerWidgets(exposedWidget, g, pressed)
    /\ keepFocus
    /\ UNCHANGED <<kids, live, flags, down>>

(* DWET_GOTFOCUS and DWET_LOSTFOCUS                                        *)
GotFocus ==
    /\ focusedWidget = None
    /\ setFocusedWidget(selectNext(tree, None))
    /\ keepPointer
    /\ UNCHANGED <<kids, live, flags, down>>

LostFocus ==
    /\ focusedWidget # None /\ focusedWidget \notin OSKInput
    /\ setFocusedWidget(None)
    /\ keepPointer
    /\ UNCHANGED <<kids, live, flags, down>>

(* closeWindow() clears the event manager, except for its keyboard target. *)
CloseWindow ==
    /\ Creator \notin invisible
    /\ invisible' = invisible \cup {Creator}
    /\ focusedWidget' = None /\ exposedWidget' = None /\ grabbedWidget' = None
    /\ hasFocus' = hasFocus \ {focusedWidget}
    /\ exposed' = exposed \ {exposedWidget}
    /\ pressed' = pressed \ {exposedWidget}
    /\ UNCHANGED <<kids, live, disabled, grabs, oskWidget, osk, down>>

(* showWindow() selects a widget if none is focused.                       *)
ShowWindow ==
    /\ Creator \in invisible
    /\ invisible' = invisible \ {Creator}
    /\ LET shown == [tree EXCEPT !.accepts =
                       (live \cap KeyInput)
                       \ UNION {below[w] : w \in disabled \cup invisible'}]
           w == selectNext(shown, focusedWidget)
       IN  IF focusedWidget = None /\ w \in shown.accepts THEN takeFocus(w) ELSE keepFocus
    /\ keepPointer
    /\ UNCHANGED <<kids, live, disabled, down>>

(* DirectFB sends events only to a window that is shown.                   *)
Input ==
    /\ Creator \notin invisible
    /\ \/ \E hit \in Points :
             ButtonDown(hit) \/ ButtonUp(hit) \/ Motion(hit) \/ Wheel(hit)
       \/ Leave \/ Tab \/ Return \/ GotFocus \/ LostFocus

Next ==
    \/ \E w \in Widgets :
          \/ setDisabled(w) \/ setEnabled(w) \/ setFocus(w) \/ clearFocus(w)
          \/ removeChild(w) \/ restack(w)
          \/ \E shown \in BOOLEAN : setVisible(w, shown)
    \/ Input
    \/ CloseWindow \/ ShowWindow

Spec == Init /\ [][Next]_vars

-----------------------------------------------------------------------------
(* The state is well typed and the tree is one: no widget has two places.  *)
TypeOK ==
    /\ kids \in [Widgets -> Seq(Widgets)]
    /\ \A v \in Widgets : IsInjective(kids[v]) /\ ToSet(kids[v]) \subseteq live
    /\ live \subseteq Widgets
    /\ UNION {disabled, invisible, hasFocus, exposed, pressed, grabs}
          \subseteq live
    /\ {focusedWidget, exposedWidget, grabbedWidget, oskWidget} \subseteq WidgetPointer
    /\ down \in BOOLEAN /\ osk \in BOOLEAN

(* The bits the widgets keep and the event manager agree on who is focused *)
(* and who is under the pointer; the grabbed widget knows that it is.      *)
BitsAgree ==
    /\ hasFocus = {focusedWidget} \ {None}
    /\ exposed = {exposedWidget} \ {None}
    /\ {grabbedWidget} \ {None} \subseteq grabs

(* The tree, the bits of the widgets and the event manager go together.    *)
Consistent == TypeOK /\ BitsAgree

(* No event is sent to a deleted widget: the event manager focuses,        *)
(* exposes and grabs only live ones, whatever was removed in between.      *)
ManagerHoldsLive ==
    {focusedWidget, exposedWidget, grabbedWidget} \subseteq live \cup {None}

(* A widget that was disabled itself does not hear keys.                   *)
DisabledHasNoFocus == focusedWidget \notin disabled

(* The on-screen keyboard is up exactly while the event manager has a      *)
(* target for it, which is the focused widget whenever one is focused.     *)
KeyboardFollowsFocus ==
    /\ osk <=> oskWidget # None
    /\ osk /\ focusedWidget # None => oskWidget = focusedWidget

(* The order of the tree: a widget, what it holds, and what the widgets    *)
(* hold that come after it, or after a widget that holds it, among the     *)
(* children of a parent.                                                   *)
Precedes(v, w) ==
    \E p \in Widgets : \E i, j \in DOMAIN kids[p] :
        i < j /\ kids[p][i] = v /\ kids[p][j] = w

Later(w) == UNION {below[v] : v \in {x \in Widgets :
                       \E u \in Widgets : Precedes(u, x) /\ w \in below[u]}}

From(w) == below[w] \cup Later(w)

(* In a window whose only child is its layout the tab key moves the focus  *)
(* to the first widget after it that takes keys, in the order of the tree, *)
(* and stays on the last one.                                              *)
TabInOrder ==
    LET next  == selectNext(tree, focusedWidget)
        stops == tree.accepts \cap IF focusedWidget = None THEN below[Creator]
                                   ELSE From(focusedWidget) \ {focusedWidget}
    IN  focusedWidget \in tree.accepts \cup {None} =>
            IF stops = {} THEN next = focusedWidget
            ELSE next \in stops /\ stops \subseteq From(next)

(* The search ends, whatever accepts keys; backwards from the window it    *)
(* does as long as a child of the window holds a widget.                   *)
TabReturns ==
    /\ selectNext(tree, focusedWidget) # Diverges
    /\ \/ focusedWidget \notin {None, Creator}
       \/ \E v \in ToSet(kids[Creator]) : kids[v] # << >>
       => selectPrevious(tree, focusedWidget) # Diverges

(* Both directions of the tab key.                                         *)
TabWalks == TabInOrder /\ TabReturns
=============================================================================
