---------------------------- MODULE WindowUpdates ----------------------------
(***************************************************************************)
(* How one WindowWidget gets its dirty regions onto the screen             *)
(* (ui/WindowWidget.{h,cpp}).  Any thread may ask for an update; the       *)
(* request is merged into the window's update queue under _listLock.  The  *)
(* thread running the main loop drains the queue in updateWindow() and     *)
(* hands the merged region to paint() through two counting semaphores:     *)
(* _paintReady (initially 1) admits one painter, _updateReady (initially   *)
(* 0) says that _updateRegion is published and not painted yet.            *)
(* repaint() takes the same two semaphores without using the queue.        *)
(*                                                                         *)
(* The Main thread also shows, hides and closes the window.  The ghost     *)
(* variable owed holds the pixels somebody asked for that no paint has     *)
(* composed since.                                                         *)
(***************************************************************************)
EXTENDS Geometry

CONSTANTS
    Main,           \* the thread that runs Application::exec
    Helpers,        \* other threads that call update()
    Painters,       \* the helpers that call repaint() too
    Frame,          \* frameGeometry() of the window
    Requests,       \* the rectangles threads ask to update
    FullUpdate,     \* PlatformManager::useFSU for the window's layer
    HidesMapped     \* may Main hide the window without closing it

ASSUME ThreadsAssumption ==
    /\ Main \notin Helpers
    /\ Painters \subseteq Helpers

ASSUME RectanglesAssumption ==
    /\ Frame \in Rectangles
    /\ isValid(Frame)
    /\ Requests \subseteq Rectangles

ASSUME FlagsAssumption ==
    /\ FullUpdate \in BOOLEAN
    /\ HidesMapped \in BOOLEAN

Threads == {Main} \cup Helpers

VARIABLES
    visible,        \* ~(_state & InvisibleState)
    mapped,         \* the window is in Application::__windowList
    queue,          \* _updates._updateQueue
    region,         \* _updates._updateRegion
    paintReady,     \* value of _updates._paintReady
    updateReady,    \* value of _updates._updateReady
    pc,             \* where each thread is
    temp,           \* the rectangle a thread works on
    owed            \* ghost: pixels requested and not painted since

vars == <<visible, mapped, queue, region, paintReady, updateReady, pc, temp, owed>>
sems == <<paintReady, updateReady>>

(***************************************************************************)
(* "add"/"showAdd": past the visibility check of update(), before the      *)
(* lock.  "flush": showWindow() is about to call updateWindow().  "gate":  *)
(* before sem_wait(_paintReady).  "publish": past it.  "check", "poll",    *)
(* "take": paint() before visible(), sem_getvalue and sem_wait.            *)
(* "painting": from there to sem_post(_paintReady).                        *)
(***************************************************************************)
Places == {"idle", "add", "showAdd", "flush", "gate", "publish", "check",
           "poll", "take", "painting"}

Inside  == {"publish", "check", "poll", "take", "painting"}
Pending == {"gate", "publish"}

TypeOK ==
    /\ visible \in BOOLEAN /\ mapped \in BOOLEAN
    /\ queue \in [rect: Rectangles, valid: BOOLEAN]
    /\ region \in Rectangles
    /\ paintReady \in 0 .. 1 /\ updateReady \in 0 .. 1
    /\ pc \in [Threads -> Places]
    /\ temp \in [Threads -> Rectangles]
    /\ owed \subseteq Pixels(Frame)

Init ==
    /\ visible = FALSE /\ mapped = FALSE
    /\ queue = [rect |-> NullRectangle, valid |-> FALSE]
    /\ region = NullRectangle
    /\ paintReady = 1 /\ updateReady = 0
    /\ pc = [t \in Threads |-> "idle"]
    /\ temp = [t \in Threads |-> NullRectangle]
    /\ owed = {}

Goto(t, place) == pc' = [pc EXCEPT ![t] = place]

OnScreen(r) == Pixels(r) \cap Pixels(Frame)

(***************************************************************************)
(* UpdateQueue::add                                                        *)
(***************************************************************************)
queueAddLast(q, r) == [rect |-> r, valid |-> TRUE]      \* mutant

queueAdd(q, r) == [rect |-> IF q.valid THEN united(q.rect, r) ELSE r, valid |-> TRUE]

-------------------------------------------------------------------------------
(* update() and update(PaintEvent): the visibility check ...               *)
Request(t, r) ==
    /\ pc[t] = "idle"
    /\ visible
    /\ temp' = [temp EXCEPT ![t] = r]
    /\ Goto(t, "add")
    /\ UNCHANGED <<visible, mapped, queue, region, sems, owed>>

(* ... and the merge into the queue, later.                                *)
AddRequest(t) ==
    /\ pc[t] \in {"add", "showAdd"}
    /\ queue' = queueAdd(queue, temp[t])
    /\ owed' = owed \cup OnScreen(temp[t])
    /\ Goto(t, IF pc[t] = "showAdd" THEN "flush" ELSE "idle")
    /\ UNCHANGED <<visible, mapped, region, sems, temp>>

(* A widget asks for another update from its compose().                    *)
ComposeRequest(t, r) ==
    /\ pc[t] = "painting"
    /\ visible
    /\ queue' = queueAdd(queue, r)
    /\ owed' = owed \cup OnScreen(r)
    /\ UNCHANGED <<visible, mapped, region, sems, pc, temp>>

(* repaint(): the visibility check.                                        *)
BeginRepaint(t, r) ==
    /\ pc[t] = "idle"
    /\ visible
    /\ temp' = [temp EXCEPT ![t] = r]
    /\ owed' = owed \cup OnScreen(r)
    /\ Goto(t, "gate")
    /\ UNCHANGED <<visible, mapped, queue, region, sems>>

(***************************************************************************)
(* updateWindow() down to its unlock: Application::updateWindows calls it  *)
(* for the windows in the list, showWindow() for the window being shown.   *)
(* The layer's full-update setting is constant, so the region to publish   *)
(* is fixed here.                                                          *)
(***************************************************************************)
TakeQueueTrying ==          \* mutant: sem_trywait after the queue was emptied
    /\ \/ pc[Main] = "flush"
       \/ pc[Main] = "idle" /\ mapped
    /\ queue.valid
    /\ temp' = [temp EXCEPT ![Main] = queue.rect]
    /\ Goto(Main, IF isNull(queue.rect) \/ paintReady = 0 THEN "idle" ELSE "gate")
    /\ queue' = [rect |-> queue.rect, valid |-> FALSE]
    /\ UNCHANGED <<visible, mapped, region, sems, owed>>

TakeQueue ==
    /\ \/ pc[Main] = "flush"
       \/ pc[Main] = "idle" /\ mapped
    /\ queue.valid
    /\ temp' = [temp EXCEPT ![Main] = IF FullUpdate THEN Frame ELSE queue.rect]
    /\ Goto(Main, IF isNull(queue.rect) THEN "idle" ELSE "gate")
    /\ queue' = [rect |-> queue.rect, valid |-> FALSE]
    /\ UNCHANGED <<visible, mapped, region, sems, owed>>

(* sem_wait(_paintReady)                                                   *)
AcquireGateUngated(t) ==    \* mutant: the semaphore is only looked at
    /\ pc[t] = "gate"
    /\ paintReady > 0
    /\ Goto(t, "publish")
    /\ UNCHANGED <<visible, mapped, queue, region, sems, temp, owed>>

AcquireGate(t) ==
    /\ pc[t] = "gate"
    /\ paintReady > 0
    /\ paintReady' = paintReady - 1
    /\ Goto(t, "publish")
    /\ UNCHANGED <<visible, mapped, queue, region, updateReady, temp, owed>>

(* _updateRegion = ...; sem_post(_updateReady)                             *)
PublishRegionReleasing(t) ==    \* mutant: the wrong semaphore is posted as well
    /\ pc[t] = "publish"
    /\ region' = temp[t]
    /\ updateReady' = updateReady + 1
    /\ paintReady' = paintReady + 1
    /\ Goto(t, "check")
    /\ UNCHANGED <<visible, mapped, queue, temp, owed>>

PublishRegion(t) ==
    /\ pc[t] = "publish"
    /\ region' = temp[t]
    /\ updateReady' = updateReady + 1
    /\ Goto(t, "check")
    /\ UNCHANGED <<visible, mapped, queue, paintReady, temp, owed>>

(* paint(): a window that is not visible any more is left alone.           *)
CheckVisiblePosting(t) ==   \* mutant: an early return that reopens the gate only
    /\ pc[t] = "check"
    /\ Goto(t, IF visible THEN "poll" ELSE "idle")
    /\ paintReady' = IF visible THEN paintReady ELSE paintReady + 1
    /\ UNCHANGED <<visible, mapped, queue, region, updateReady, temp, owed>>

CheckVisible(t) ==
    /\ pc[t] = "check"
    /\ Goto(t, IF visible THEN "poll" ELSE "idle")
    /\ UNCHANGED <<visible, mapped, queue, region, sems, temp, owed>>

(* paint(): sem_getvalue(_updateReady)                                     *)
PollReady(t) ==
    /\ pc[t] = "poll"
    /\ Goto(t, IF updateReady > 0 THEN "take" ELSE "idle")
    /\ UNCHANGED <<visible, mapped, queue, region, sems, temp, owed>>

(***************************************************************************)
(* paint(): sem_wait(_updateReady), then the clip is computed from         *)
(* _updateRegion and the widgets inside it are composed; what was asked    *)
(* for before this point is on the screen after the flip.                  *)
(***************************************************************************)
Clip == intersected(Frame, region)

TakeReady(t) ==
    /\ pc[t] = "take"
    /\ updateReady > 0
    /\ updateReady' = updateReady - 1
    /\ owed' = IF isValid(Clip) THEN owed \ Pixels(Clip) ELSE owed
    /\ Goto(t, "painting")
    /\ UNCHANGED <<visible, mapped, queue, region, paintReady, temp>>

(* paint(): sem_post(_paintReady)                                          *)
FinishPaintIfValid(t) ==    \* mutant: the post moved into "if (evt.isValid())"
    /\ pc[t] = "painting"
    /\ paintReady' = IF isValid(Clip) THEN paintReady + 1 ELSE paintReady
    /\ Goto(t, "idle")
    /\ UNCHANGED <<visible, mapped, queue, region, updateReady, temp, owed>>

FinishPaint(t) ==
    /\ pc[t] = "painting"
    /\ paintReady' = paintReady + 1
    /\ Goto(t, "idle")
    /\ UNCHANGED <<visible, mapped, queue, region, updateReady, temp, owed>>

-------------------------------------------------------------------------------
(***************************************************************************)
(* showWindow(): the window enters the list, becomes visible, is dirty all *)
(* over and is painted before the call returns.                            *)
(***************************************************************************)
ShowWindow ==
    /\ pc[Main] = "idle"
    /\ ~mapped
    /\ mapped' = TRUE
    /\ visible' = TRUE
    /\ temp' = [temp EXCEPT ![Main] = Frame]
    /\ Goto(Main, "showAdd")
    /\ UNCHANGED <<queue, region, sems, owed>>

(***************************************************************************)
(* setVisible(): showing lays the window out, which is an update() of the  *)
(* whole frame; hiding does the same, but update() then does nothing.      *)
(***************************************************************************)
Reveal ==
    /\ pc[Main] = "idle"
    /\ ~visible
    /\ visible' = TRUE
    /\ temp' = [temp EXCEPT ![Main] = Frame]
    /\ Goto(Main, "add")
    /\ UNCHANGED <<mapped, queue, region, sems, owed>>

Hide ==
    /\ pc[Main] = "idle"
    /\ visible
    /\ mapped => HidesMapped
    /\ visible' = FALSE
    /\ UNCHANGED <<mapped, queue, region, sems, pc, temp, owed>>

(* closeWindow(): the window is hidden and leaves the list.                *)
CloseWindow ==
    /\ pc[Main] = "idle"
    /\ mapped
    /\ visible' = FALSE
    /\ mapped' = FALSE
    /\ UNCHANGED <<queue, region, sems, pc, temp, owed>>

-------------------------------------------------------------------------------
Paint(t) ==
    \/ AcquireGate(t) \/ PublishRegion(t)
    \/ CheckVisible(t) \/ PollReady(t)
    \/ TakeReady(t) \/ FinishPaint(t)

Ask(t, r) == Request(t, r) \/ ComposeRequest(t, r)

Next ==
    \/ \E t \in Threads : AddRequest(t) \/ Paint(t)
    \/ \E t \in Threads, r \in Requests : Ask(t, r)
    \/ \E t \in {Main} \cup Painters, r \in Requests : BeginRepaint(t, r)
    \/ TakeQueue \/ ShowWindow \/ Reveal \/ Hide \/ CloseWindow

Spec == Init /\ [][Next]_vars

(***************************************************************************)
(* Every thread that is inside a call runs on; the main loop comes back to *)
(* updateWindows() again and again, and a semaphore that is posted again   *)
(* and again serves each of its waiters.                                   *)
(***************************************************************************)
Fairness ==
    /\ SF_vars(TakeQueue)
    /\ \A t \in Threads :
          /\ SF_vars(AcquireGate(t))
          /\ WF_vars(AddRequest(t)) /\ WF_vars(PublishRegion(t))
          /\ WF_vars(CheckVisible(t)) /\ WF_vars(PollReady(t))
          /\ WF_vars(TakeReady(t)) /\ WF_vars(FinishPaint(t))

FairSpec == Spec /\ Fairness

-------------------------------------------------------------------------------
(***************************************************************************)
(* One painter: between its sem_wait(_paintReady) and the end of paint()   *)
(* no other thread is in there, so no two threads clip and compose on the  *)
(* window's surface or write _updateRegion at once.                        *)
(***************************************************************************)
OnePainter ==
    \A t, u \in Threads : pc[t] \in Inside /\ pc[u] \in Inside => t = u

(***************************************************************************)
(* The region a painter composes is the one it published: nobody writes    *)
(* _updateRegion while paint() reads it, although no lock protects it.     *)
(***************************************************************************)
PaintsOwnRegion ==
    \A t \in Threads :
        pc[t] \in {"check", "poll", "take", "painting"} => region = temp[t]

(***************************************************************************)
(* No request is dropped: a pixel somebody asked for and nobody composed   *)
(* since is in the queue, in the hands of a thread that waits at the gate, *)
(* or in a published region.                                               *)
(***************************************************************************)
Queued    == IF queue.valid THEN Pixels(queue.rect) ELSE {}
InHand    == UNION {Pixels(temp[t]) : t \in {u \in Threads : pc[u] \in Pending}}
Published == IF updateReady > 0 THEN Pixels(region) ELSE {}

NoRequestLost == owed \subseteq Queued \cup InHand \cup Published

(***************************************************************************)
(* The gate comes back: _paintReady is only down while some thread is      *)
(* between its sem_wait and its sem_post.  Otherwise every later           *)
(* updateWindow() or repaint() waits for a post that never comes.          *)
(***************************************************************************)
GateKept == paintReady = 0 => \E t \in Threads : pc[t] \in Inside

(***************************************************************************)
(* "Repaints widget and updates parent window inside main event loop"      *)
(* (Widget::update): what is asked of a window is painted, unless the      *)
(* window is hidden or closed before.                                      *)
(***************************************************************************)
UpdatesPainted ==
    \A p \in Pixels(Frame) : (p \in owed) ~> (p \notin owed \/ ~visible \/ ~mapped)

===============================================================================
