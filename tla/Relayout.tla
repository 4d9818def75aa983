------------------------------- MODULE Relayout -------------------------------
(***************************************************************************)
(* The widgets of one window on the screen: what moves, resizes, shows,    *)
(* adds and removes them, the flags and dirty rectangles this leaves, and  *)
(* the painting of the window, which tiles the layouts, brings absolute    *)
(* positions up to date and draws.                                         *)
(*                                                                         *)
(* Everything is seen along the axis of the box layouts.  A floating       *)
(* widget has the constraint Ignored: layouts leave it where it is.  The   *)
(* painting takes a step for each widget; nothing else happens meanwhile,  *)
(* as the main loop does both.  Margins are 0 and the window is not hidden.*)
(***************************************************************************)
EXTENDS BoxTiling, FiniteSets

CONSTANTS
    Window, Layouts, Leaves, None,
    Root,         \* the layout of the window
    Above,        \* the parent that each other widget has when it has one
    Initially,    \* the children that each widget has at first
    Floating,     \* leaves with the constraint Ignored
    Policy,       \* resize policy of each widget
    Natural,      \* preferred extents that each leaf may have
    FloatExtent,  \* extent of a floating widget
    Width,        \* extent of the window
    EmptyExtent,  \* preferred extent of a layout without children, 50
    Places,       \* where the application moves a floating widget
    Toggled,      \* widgets the application hides and shows
    Texts,        \* leaves whose text it sets
    Removable,    \* leaves it removes and adds
    MaxCalls      \* bound on its calls between two paintings

Inhabitants == {Window} \cup Layouts \cup Leaves
Inner == Layouts \cup Leaves
Pixels == 0 .. Width - 1

(* The tree that an instance describes is one.                             *)
Tree ==
    /\ Window \notin Inner /\ None \notin Inhabitants
    /\ Above \in [Inner -> {Window} \cup Layouts]
    /\ \A w \in Inner : Above[w] # w
    /\ Root \in Layouts /\ Above[Root] = Window
    /\ Initially \in [Inhabitants -> Seq(Inner)]
    /\ \A w \in Inhabitants : \A i \in DOMAIN Initially[w] : Above[Initially[w][i]] = w
    /\ Places \subseteq Int /\ Width \in Nat /\ MaxCalls \in Nat
    /\ Toggled \subseteq Inner
    /\ Texts \subseteq Leaves /\ Removable \subseteq Leaves /\ Floating \subseteq Leaves

VARIABLES
    children,   \* _children
    pos,        \* _surfaceGeometry, relative to the parent
    abs, size,  \* _frameGeometry
    old,        \* _dirtyFrameGeometry
    natural,    \* preferredSize() of the leaves
    hidden,     \* widgets with InvisibleState
    modified,   \* widgets whose surface has a ModifiedGeometry flag
    untiled,    \* layouts with _modified
    pending,    \* the update queue of the window
    todo,       \* what is left to paint, each with its clip
    calls,      \* calls of the application since the last painting
    screen      \* the leaf that was last drawn at each pixel

vars == <<children, pos, abs, size, old, natural, hidden, modified, untiled,
          pending, todo, calls, screen>>

-----------------------------------------------------------------------------
(* Ranges of pixels, the end outside.                                      *)
Span(first, extent) == [first |-> first, last |-> first + extent]
Extent(r) == r.last - r.first
Larger(a, b) == IF a > b THEN a ELSE b
Smaller(a, b) == IF a < b THEN a ELSE b
Common(r, s) == [first |-> Larger(r.first, s.first), last |-> Smaller(r.last, s.last)]
Hull(r, s) == [first |-> Smaller(r.first, s.first), last |-> Larger(r.last, s.last)]
Valid(r) == r.first < r.last
Whole == Span(0, Width)

KidsOf(w) == ToSet(children[w])

(* The widgets around a widget, itself included.                           *)
Around[w \in Inhabitants] == {w} \cup (IF w = Window THEN {} ELSE Around[Above[w]])

visible(w) == Around[w] \cap hidden = {}

(* preferredSize() of layouts and leaves.                                  *)
IsTile(c) == visible(c) /\ c \notin Floating

tiles(w) ==
    LET upTo[i \in 0 .. Len(children[w])] ==
            IF i = 0 THEN << >>
            ELSE IF IsTile(children[w][i]) THEN Append(upTo[i - 1], children[w][i])
            ELSE upTo[i - 1]
    IN  upTo[Len(children[w])]

preferred[w \in Inner] ==
    IF w \in Leaves THEN natural[w]
    ELSE IF children[w] = << >> THEN EmptyExtent
    ELSE LET t == tiles(w)
         IN  preferredExtent([i \in DOMAIN t |->
                 [preferred |-> preferred[t[i]], min |-> -1, max |-> -1]], 0)

Init ==
    /\ children = Initially
    /\ pos = [w \in Inhabitants |-> 0] /\ abs = [w \in Inhabitants |-> 0]
    /\ size = [w \in Inhabitants |-> IF w = Window THEN Width
                                 ELSE IF w \in Floating THEN FloatExtent ELSE 0]
    /\ old = [w \in Inhabitants |-> Span(0, 0)]
    /\ natural \in {n \in [Leaves -> UNION {Natural[w] : w \in Leaves}] :
                       \A w \in Leaves : n[w] \in Natural[w]}
    /\ hidden = {}
    /\ modified = Inhabitants
    /\ untiled = Layouts
    /\ pending = Whole
    /\ todo = << >> /\ calls = 0
    /\ screen = [p \in Pixels |-> None]

-----------------------------------------------------------------------------
(* The application, between two paintings.                                 *)
queued(r) == IF pending = None THEN r ELSE Hull(pending, r)

(* doLayout() of a widget: every layout around it has to be tiled and the  *)
(* window painted.                                                         *)
doLayout(w) ==
    /\ untiled' = untiled \cup (Around[w] \cap Layouts)
    /\ pending' = queued(Whole)
    /\ UNCHANGED <<todo, screen>>

setVisible(w) ==
    /\ hidden' = IF w \in hidden THEN hidden \ {w} ELSE hidden \cup {w}
    /\ doLayout(w)
    /\ UNCHANGED <<children, pos, abs, size, old, natural, modified>>

(* setText() and the like: another preferred size.                         *)
setText(w) ==
    /\ natural' \in {[natural EXCEPT ![w] = n] : n \in Natural[w] \ {natural[w]}}
    /\ doLayout(w)
    /\ UNCHANGED <<children, pos, abs, size, old, hidden, modified>>

addWidget(w) ==
    /\ w \notin KidsOf(Above[w])
    /\ children' = [children EXCEPT ![Above[w]] = Append(@, w)]
    /\ doLayout(Above[w])
    /\ UNCHANGED <<pos, abs, size, old, natural, hidden, modified>>

(* removeWidget() deletes the widget; the next one of the name is new.     *)
removeWidget(w, i) ==
    /\ i \in DOMAIN children[Above[w]] /\ children[Above[w]][i] = w
    /\ children' = [children EXCEPT ![Above[w]] = RemoveAt(@, i)]
    /\ pos' = [pos EXCEPT ![w] = 0] /\ abs' = [abs EXCEPT ![w] = 0]
    /\ size' = [size EXCEPT ![w] = IF w \in Floating THEN FloatExtent ELSE 0]
    /\ old' = [old EXCEPT ![w] = Span(0, 0)]
    /\ hidden' = hidden \ {w}
    /\ modified' = modified \cup {w}
    /\ doLayout(Above[w])
    /\ UNCHANGED natural

(* moveTo() and update(): the place that is left is painted too.  The      *)
(* dirty rectangle has the extent of the last update().                    *)
was(w, x) == IF x = pos[w] THEN old[w] ELSE Span(abs[w], Extent(old[w]))
now(w, x) == Span(IF x = pos[w] THEN abs[w] ELSE x + abs[Above[w]], size[w])

(* Mutant: only the new place is painted.                                  *)
dirtyNew(w, x) == now(w, x)

dirty(w, x) == Hull(now(w, x), was(w, x))

slide(w, x) ==
    /\ w \in KidsOf(Above[w])
    /\ pos' = [pos EXCEPT ![w] = x]
    /\ abs' = [abs EXCEPT ![w] = now(w, x).first]
    /\ old' = [old EXCEPT ![w] = now(w, x)]
    /\ modified' = IF x = pos[w] THEN modified ELSE modified \cup {w}
    /\ pending' = IF visible(w) THEN queued(dirty(w, x)) ELSE pending
    /\ UNCHANGED <<children, size, natural, hidden, untiled, todo, screen>>

Call ==
    /\ todo = << >>
    /\ pending = None \/ calls < MaxCalls
    /\ calls' = IF pending = None THEN 1 ELSE calls + 1
    /\ \/ \E w \in Toggled : w \in KidsOf(Above[w]) /\ setVisible(w)
       \/ \E w \in Texts : w \in KidsOf(Above[w]) /\ setText(w)
       \/ \E w \in Removable, i \in 1 .. Cardinality(Leaves) : removeWidget(w, i)
       \/ \E w \in Removable : addWidget(w)
       \/ \E w \in Floating, x \in Places : slide(w, x)

-----------------------------------------------------------------------------
(* The painting.  updateWindow() takes the queue.                          *)
BeginPaint ==
    /\ todo = << >> /\ pending # None
    /\ todo' = <<[widget |-> Window, clip |-> pending]>>
    /\ pending' = None /\ calls' = 0
    /\ UNCHANGED <<children, pos, abs, size, old, natural, hidden, modified,
                   untiled, screen>>

Painted == Head(todo).widget

(* paint() of a widget that is not visible.                                *)
PaintNothing ==
    /\ todo # << >> /\ ~ visible(Painted)
    /\ todo' = Tail(todo)
    /\ UNCHANGED <<children, pos, abs, size, old, natural, hidden, modified,
                   untiled, pending, calls, screen>>

(* updateSurface(): a widget whose geometry was modified finds its         *)
(* absolute position again and passes its flags on to its children; the    *)
(* window gives its extent to its layout.                                  *)
absNow(w) ==
    IF w \in modified /\ w # Window THEN [abs EXCEPT ![w] = pos[w] + abs[Above[w]]] ELSE abs

(* Mutant: the children keep their flags.                                  *)
modifiedOnly(w) == modified \ {w}

modifiedNow(w) == IF w \in modified THEN (modified \ {w}) \cup KidsOf(w) ELSE modified

oldNow(w) ==
    IF w \in modified THEN [old EXCEPT ![w] = Span(abs[w], Extent(old[w]))] ELSE old

sizeNow(w) ==
    IF w = Window /\ w \in modified THEN [size EXCEPT ![Root] = Width] ELSE size

(* What is to be drawn of the widget, and what its children get of it.     *)
drawn(w) == Common(Span(absNow(w)[w], size[w]), Head(todo).clip)

childrenOf(w) ==
    [i \in DOMAIN children[w] |-> [widget |-> children[w][i], clip |-> drawn(w)]]

Updated(w) ==
    /\ todo # << >> /\ w = Painted /\ visible(w)
    /\ UNCHANGED <<children, natural, hidden, pending, calls>>

PaintOutside(w) ==
    /\ Updated(w) /\ ~ Valid(drawn(w))
    /\ todo' = Tail(todo)
    /\ abs' = absNow(w) /\ modified' = modifiedNow(w)
    /\ old' = oldNow(w) /\ size' = sizeNow(w)
    /\ UNCHANGED <<pos, untiled, screen>>

(* compose() of the window clears what it paints, that of a leaf draws.    *)
PaintInside(w) ==
    /\ Updated(w) /\ Valid(drawn(w)) /\ w \notin untiled
    /\ todo' = childrenOf(w) \o Tail(todo)
    /\ abs' = absNow(w) /\ modified' = modifiedNow(w)
    /\ old' = oldNow(w) /\ size' = sizeNow(w)
    /\ screen' = [p \in Pixels |->
          IF w \notin Layouts /\ p >= drawn(w).first /\ p < drawn(w).last
          THEN IF w = Window THEN None ELSE w
          ELSE screen[p]]
    /\ UNCHANGED <<pos, untiled>>

(* compose() of a layout with _modified tiles it.                          *)
element(c) == [preferred |-> preferred[c], min |-> -1, max |-> -1,
               policy |-> Policy[c], extent |-> size[c]]

extents(t, l) == tiled([i \in DOMAIN t |-> element(t[i])], size[l], 0, TRUE)

start(e, i) == FoldLeft(LAMBDA sum, x : sum + x, 0, SubSeq(e, 1, i - 1))

(* The children s are given the extents e one after the other.             *)
PlacedBy(s, e) ==
    LET at(c) == SelectInSeq(s, LAMBDA d : d = c) IN
    [size |-> [c \in Inhabitants |-> IF at(c) = 0 THEN size[c] ELSE e[at(c)]],
     pos  |-> [c \in Inhabitants |-> IF at(c) = 0 THEN pos[c] ELSE start(e, at(c))]]

Tiled(l) ==
    LET t == tiles(l)
    IN  IF t = << >> THEN [size |-> size, pos |-> pos] ELSE PlacedBy(t, extents(t, l))

(* setWidth() and moveTo() of the children; t is where they go.            *)
Placed(l, t) ==
    /\ size' = t.size /\ pos' = t.pos
    /\ abs' = [c \in Inhabitants |-> IF t.pos[c] # pos[c] THEN t.pos[c] + absNow(l)[l]
                                 ELSE absNow(l)[c]]
    /\ old' = [c \in Inhabitants |-> IF t.pos[c] # pos[c] THEN Span(abs[c], Extent(old[c]))
                                 ELSE oldNow(l)[c]]
    /\ modified' = modifiedNow(l) \cup
                   {c \in Inner : t.pos[c] # pos[c] \/ t.size[c] # size[c]}

PaintTiled(l) ==
    /\ Updated(l) /\ Valid(drawn(l)) /\ l \in untiled
    /\ todo' = childrenOf(l) \o Tail(todo)
    /\ untiled' = untiled \ {l}
    /\ Placed(l, Tiled(l))
    /\ UNCHANGED screen

PaintStep ==
    \/ PaintNothing
    \/ \E w \in Inhabitants : PaintOutside(w) \/ PaintInside(w)
    \/ \E l \in Layouts : PaintTiled(l)

Next == Call \/ BeginPaint \/ PaintStep

Spec == Init /\ [][Next]_vars

-----------------------------------------------------------------------------
TypeOK ==
    /\ children \in [Inhabitants -> Seq(Inner)]
    /\ \A w \in Inhabitants : KidsOf(w) \subseteq {v \in Inner : Above[v] = w}
    /\ pos \in [Inhabitants -> Int] /\ abs \in [Inhabitants -> Int] /\ size \in [Inhabitants -> Int]
    /\ hidden \subseteq Inner /\ modified \subseteq Inhabitants /\ untiled \subseteq Layouts

(* A widget is at its place in its parent unless one of the two is marked: *)
(* no move or relayout leaves a widget behind unmarked.                    *)
InPlace ==
    \A w \in Inner :
        w \in modified \/ Above[w] \in modified \/ abs[w] = pos[w] + abs[Above[w]]

Resting == todo = << >> /\ pending = None

(* Where a widget should be.                                               *)
Place[w \in Inhabitants] == IF w = Window THEN 0 ELSE pos[w] + Place[Above[w]]

Room[w \in Inhabitants] ==
    IF w = Window THEN Whole ELSE Common(Span(Place[w], size[w]), Room[Above[w]])

(* The leaves in the order in which they are painted.                      *)
painting[w \in Inhabitants] ==
    IF w \in Leaves THEN <<w>>
    ELSE FoldLeft(LAMBDA s, c : s \o painting[c], << >>, children[w])

(* When nothing is left to paint, every pixel shows the uppermost visible  *)
(* leaf that has its place there: nothing is left behind of what moved,    *)
(* was hidden or removed, and nothing that changed is missing.             *)
ScreenIsTrue ==
    Resting => \A p \in Pixels :
        LET here == SelectSeq(painting[Window], LAMBDA w :
                        visible(w) /\ p >= Room[w].first /\ p < Room[w].last)
        IN  screen[p] = IF here = << >> THEN None ELSE Last(here)

(* "A layout's responsibility is to set the geometry of child widgets and  *)
(* arrange them inside its canvas" (ui/LayoutBase.h:35): when nothing is   *)
(* left to paint, a layout on the screen is tiled for the extent it has.   *)
RowTiled(l) ==
    Resting /\ visible(l) /\ Valid(Room[l]) =>
        Tiled(l) = [size |-> size, pos |-> pos]

(* The layout of the window is, whatever changes below it ...              *)
OutermostTiled == RowTiled(Root)

(* ... and so should be the layouts in it.                                 *)
RowsTiled == \A l \in Layouts : RowTiled(l)
=============================================================================
