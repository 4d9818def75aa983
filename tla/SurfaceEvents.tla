---------------------------- MODULE SurfaceEvents ----------------------------
(***************************************************************************)
(* Views of surfaces that other programs draw (SurfaceView): the engine    *)
(* attaches its event buffer to every surface some view watches, each      *)
(* update event is queued at the views, and a callback of the view takes   *)
(* one from the queue in every turn of the loop, asks for a repaint and    *)
(* acknowledges the frame.                                                 *)
(*                                                                         *)
(* A turn is callbacks, events, paint; the application's calls are made    *)
(* while events are handled.  A frame changes one region of the surface.   *)
(* The repository binds a view to a surface once.  Using the surface of a  *)
(* view that has lost it stops the model with `broken` set.                *)
(***************************************************************************)
EXTENDS Naturals, FiniteSets, SequencesExt

CONSTANTS
    Views, Surfaces, NoSurface,
    Opened,      \* views that the application gives a source
    Regions,
    Blocking,    \* views with SV_SHOULD_BLOCK, among Views
    Hideable,    \* views whose widget is hidden and shown, among Views
    MaxFlips     \* bound on the frames a client draws

VARIABLES
    selList,     \* Engine::__selList
    attached,    \* how often the buffer is attached to each surface
    destroyed,   \* surfaces that are gone
    source,      \* SurfaceEventListener::_sourceSurface of each view
    queue,       \* SurfaceEventListener::_queue
    started,     \* views whose callback is listed in the engine
    ready,       \* views with SV_READY
    updateFlip,  \* views with _updateFlipCount
    flipCount,   \* SurfaceView::_flipCount, as last acknowledged
    blocking,    \* views that still have SV_SHOULD_BLOCK
    hidden,      \* views that are not visible()
    dirty,       \* regions of each view the next paint covers
    buffer,      \* surface events in Engine::__buffer
    flips,       \* frames drawn on each surface
    owed,        \* region of the last frame while it is not painted, a ghost
    handled,     \* the last two frames each view took, and the count that it
                 \* acknowledged with the second, a ghost
    phase, broken

engineVars == <<selList, attached, destroyed>>
viewVars   == <<source, queue, ready, updateFlip, flipCount, blocking, handled>>
paintVars  == <<hidden, dirty, owed>>
vars == <<engineVars, viewVars, paintVars, started, buffer, flips, phase, broken>>

Event == [type : {"update", "destroyed"}, surface : Surfaces,
          region : Regions, flip : 0 .. MaxFlips]

Init ==
    /\ selList = {} /\ destroyed = {}
    /\ attached = [s \in Surfaces |-> 0]
    /\ source = [v \in Views |-> NoSurface]
    /\ queue = [v \in Views |-> << >>]
    /\ started = {} /\ ready = {} /\ updateFlip = {}
    /\ flipCount = [v \in Views |-> 0]
    /\ blocking = Blocking
    /\ hidden = {}
    /\ dirty = [v \in Views |-> {}]
    /\ buffer = << >>
    /\ flips = [s \in Surfaces |-> 0]
    /\ owed = [v \in Views |-> {}]
    /\ handled = [v \in Views |-> <<0, 0, 0>>]
    /\ phase = "callbacks"
    /\ broken = FALSE

Watching(s) == {v \in selList : source[v] = s}

-----------------------------------------------------------------------------
(* The clients: a frame, or the end of the surface.  The buffer hears of   *)
(* them once for every time it is attached.                                *)
Emit(e) == buffer' = buffer \o [i \in 1 .. attached[e.surface] |-> e]

Flip(s, r) ==
    /\ s \notin destroyed /\ flips[s] < MaxFlips
    /\ flips' = [flips EXCEPT ![s] = @ + 1]
    /\ Emit([type |-> "update", surface |-> s, region |-> r, flip |-> flips[s] + 1])
    /\ owed' = [v \in Views |-> IF v \in Watching(s) THEN {r} ELSE owed[v]]
    /\ UNCHANGED <<engineVars, viewVars, hidden, dirty, started, phase, broken>>

Destroy(s) ==
    /\ s \notin destroyed
    /\ destroyed' = destroyed \cup {s}
    /\ Emit([type |-> "destroyed", surface |-> s, flip |-> 0,
             region |-> CHOOSE r \in Regions : TRUE])
    /\ UNCHANGED <<selList, attached, viewVars, paintVars, started, flips,
                   phase, broken>>

-----------------------------------------------------------------------------
(* The application's calls.                                                *)

(* The buffer is attached for the first view of a surface.                 *)
addSurfaceEventListener(v, s) ==
    /\ selList' = selList \cup {v}
    /\ attached' = [attached EXCEPT ![s] = IF Watching(s) = {} THEN @ + 1 ELSE @]

setSourceFromSurface(v, s) ==
    /\ source[v] = NoSurface /\ v \notin selList /\ s \notin destroyed
    /\ source' = [source EXCEPT ![v] = s]
    /\ addSurfaceEventListener(v, s)
    /\ started' = started \cup {v}
    /\ UNCHANGED <<destroyed, queue, ready, updateFlip, flipCount, blocking,
                   handled, paintVars, buffer, flips, broken>>

(* The last view of a surface detaches the buffer, from NULL if the view   *)
(* has lost its surface.                                                   *)
removeSurfaceEventListener(v) ==
    LET s == source[v]
        last == Watching(s) = {v}
    IN  /\ selList' = selList \ {v}
        /\ broken' = (last /\ s = NoSurface)
        /\ attached' = IF last /\ s # NoSurface
                       THEN [attached EXCEPT ![s] = @ - 1] ELSE attached

(* ~SurfaceView()                                                          *)
Delete(v) ==
    /\ v \in selList
    /\ removeSurfaceEventListener(v)
    /\ started' = started \ {v}
    /\ source' = [source EXCEPT ![v] = NoSurface]
    /\ queue' = [queue EXCEPT ![v] = << >>]
    /\ ready' = ready \ {v} /\ updateFlip' = updateFlip \ {v}
    /\ flipCount' = [flipCount EXCEPT ![v] = 0]
    /\ handled' = [handled EXCEPT ![v] = <<0, 0, 0>>]
    /\ dirty' = [dirty EXCEPT ![v] = {}] /\ owed' = [owed EXCEPT ![v] = {}]
    /\ UNCHANGED <<destroyed, blocking, hidden, buffer, flips>>

(* The widget around the view hides it, or shows it and updates itself.    *)
setVisible(v) ==
    /\ v \in selList \cap Hideable
    /\ hidden' = IF v \in hidden THEN hidden \ {v} ELSE hidden \cup {v}
    /\ dirty' = [dirty EXCEPT ![v] = IF v \in hidden THEN Regions ELSE @]
    /\ UNCHANGED <<engineVars, viewVars, owed, started, buffer, flips, broken>>

Call ==
    /\ phase = "events"
    /\ \E v \in Opened : \/ \E s \in Surfaces : setSourceFromSurface(v, s)
                         \/ Delete(v) \/ setVisible(v)
    /\ UNCHANGED phase

-----------------------------------------------------------------------------
(* A turn of the loop.                                                     *)

(* Mutant: the two oldest updates are kept.                                *)
TrimmedTail(q) == IF Len(q) > 2 THEN SubSeq(q, 1, 2) ELSE q

(* At most two updates wait; older ones are dropped with their regions.    *)
Trimmed(q) == IF Len(q) > 2 THEN SubSeq(q, Len(q) - 1, Len(q)) ELSE q

(* onSourceUpdate() accepts the update unless the view is hidden and       *)
(* blocks its client.  The count of a frame is taken over only after the   *)
(* last one was painted, or when the view is hidden.                       *)
Accepts(v) == v \notin hidden \/ v \notin blocking

called == {v \in started : queue[v] # << >>}

runCallbacks ==
    /\ phase = "callbacks"
    /\ phase' = "events"
    /\ broken' = \E v \in called : source[v] = NoSurface
    /\ LET taking == {v \in called : Accepts(v)}
           front(v) == Head(Trimmed(queue[v]))
       IN  /\ queue' = [v \in Views |->
                  IF v \in taking THEN Tail(Trimmed(queue[v]))
                  ELSE IF v \in called THEN Trimmed(queue[v]) ELSE queue[v]]
           /\ started' = taking
           /\ ready' = ready \cup called
           /\ flipCount' = [v \in Views |->
                  IF v \in called /\ (v \in updateFlip \/ v \notin ready)
                  THEN front(v).flip ELSE flipCount[v]]
           /\ updateFlip' = (updateFlip \ called) \cup (taking \cap hidden)
           /\ dirty' = [v \in Views |->
                  IF v \in taking \ hidden THEN dirty[v] \cup {front(v).region}
                  ELSE dirty[v]]
           /\ handled' = [v \in Views |->
                  IF v \in taking
                  THEN <<handled[v][2], front(v).flip, flipCount'[v]>>
                  ELSE handled[v]]
    /\ UNCHANGED <<engineVars, source, blocking, hidden, owed, buffer, flips>>

(* consumeSurfaceEvent()                                                   *)
consumeUpdate(e) ==
    LET these == Watching(e.surface) IN
    /\ queue' = [v \in Views |->
                    IF v \in these THEN Append(queue[v], e) ELSE queue[v]]
    /\ started' = started \cup these
    /\ UNCHANGED <<source, ready, updateFlip, flipCount, blocking, handled>>

(* onSourceDestroyed() forgets the surface and leaves the queue.           *)
onSourceDestroyed(e) ==
    LET these == Watching(e.surface) IN
    /\ source' = [v \in Views |->
                     IF v \in these THEN NoSurface ELSE source[v]]
    /\ ready' = ready \ these
    /\ blocking' = blocking \ these
    /\ UNCHANGED <<queue, started, updateFlip, flipCount, handled>>

consumeSurfaceEvent ==
    /\ phase = "events" /\ buffer # << >>
    /\ buffer' = Tail(buffer)
    /\ LET e == Head(buffer) IN
       \/ e.type = "update" /\ consumeUpdate(e)
       \/ e.type = "destroyed" /\ onSourceDestroyed(e)
    /\ UNCHANGED <<engineVars, paintVars, flips, phase, broken>>

EndEvents ==
    /\ phase = "events" /\ buffer = << >>
    /\ phase' = "paint"
    /\ UNCHANGED <<engineVars, viewVars, paintVars, started, buffer, flips, broken>>

(* Mutant: the callback is not started.                                    *)
PaintQuietly ==
    /\ phase = "paint"
    /\ phase' = "callbacks"
    /\ LET drawn == {v \in ready \ hidden : dirty[v] # {} /\ source[v] # NoSurface}
       IN  /\ updateFlip' = updateFlip \cup drawn
           /\ owed' = [v \in Views |->
                 IF v \in drawn THEN owed[v] \ dirty[v] ELSE owed[v]]
    /\ dirty' = [v \in Views |-> {}]
    /\ UNCHANGED <<engineVars, source, queue, started, ready, flipCount,
                   blocking, handled, hidden, buffer, flips, broken>>

(* paint() starts the callback again and draws what the surface holds now. *)
Paint ==
    /\ phase = "paint"
    /\ phase' = "callbacks"
    /\ LET these == {v \in Views \ hidden : dirty[v] # {}}
           drawn == {v \in these \cap ready : source[v] # NoSurface}
       IN  /\ started' = started \cup these
           /\ updateFlip' = updateFlip \cup drawn
           /\ owed' = [v \in Views |->
                 IF v \in drawn THEN owed[v] \ dirty[v] ELSE owed[v]]
    /\ dirty' = [v \in Views |-> {}]
    /\ UNCHANGED <<engineVars, source, queue, ready, flipCount, blocking,
                   handled, hidden, buffer, flips, broken>>

Turn == runCallbacks \/ consumeSurfaceEvent \/ EndEvents \/ Paint

Next ==
    /\ ~ broken
    /\ \/ Turn \/ Call
       \/ \E s \in Surfaces : Destroy(s) \/ \E r \in Regions : Flip(s, r)

Spec == Init /\ [][Next]_vars

(* The main loop turns.                                                    *)
FairSpec == Spec /\ WF_vars(~ broken /\ Turn)

-----------------------------------------------------------------------------
TypeOK ==
    /\ selList \subseteq Views /\ destroyed \subseteq Surfaces
    /\ attached \in [Surfaces -> Nat]
    /\ source \in [Views -> Surfaces \cup {NoSurface}]
    /\ queue \in [Views -> Seq(Event)]
    /\ UNION {started, ready, updateFlip, blocking, hidden} \subseteq Views
    /\ flipCount \in [Views -> 0 .. MaxFlips]
    /\ dirty \in [Views -> SUBSET Regions] /\ owed \in [Views -> SUBSET Regions]
    /\ buffer \in Seq(Event)
    /\ flips \in [Surfaces -> 0 .. MaxFlips]
    /\ handled \in [Views -> (0 .. MaxFlips) \X (0 .. MaxFlips) \X (0 .. MaxFlips)]
    /\ phase \in {"callbacks", "events", "paint"} /\ broken \in BOOLEAN

(* The buffer is attached once to every surface that some view watches and *)
(* to no other, in whatever order views are made and deleted.              *)
AttachedOnce ==
    ~ broken => \A s \in Surfaces \ destroyed :
        attached[s] = IF Watching(s) = {} THEN 0 ELSE 1

(* A view takes frames in the order they were drawn, none twice, and       *)
(* acknowledges the one it takes or the one it took before, however hiding *)
(* and painting fall between the updates.                                  *)
AckIsRecent ==
    \A v \in Views :
        /\ handled[v][3] \in {handled[v][1], handled[v][2]}
        /\ handled[v][1] < handled[v][2] \/ handled[v] = <<0, 0, 0>>

(* A view with an update waiting is called, or it blocks its client and is *)
(* hidden, or it is about to be painted, which calls it again.             *)
WaitingIsCalled ==
    \A v \in Views :
        queue[v] # << >> /\ source[v] # NoSurface =>
            v \in started \cup (hidden \cap blocking) \/ dirty[v] # {}

(* The region of the last frame is painted by every view that is shown,    *)
(* however many updates came at once and whatever was dropped.             *)
LastFrameShown ==
    \A v \in Views :
        owed[v] # {} ~> owed[v] = {} \/ v \in hidden \/ broken
                        \/ source[v] \in destroyed \cup {NoSurface}
=============================================================================
