------------------------------ MODULE MainLoop ------------------------------
(***************************************************************************)
(* The loop of an application (Application::exec): one turn runs the       *)
(* engine's callbacks and timers, sleeps unless something is to be done,   *)
(* drains the DirectFB event buffer and paints the windows that were       *)
(* updated.  With it the window list, the active window and the attachment *)
(* of windows to the buffer, which decide who hears an event.              *)
(*                                                                         *)
(* The callbacks and timers are one step "the user's code runs" here       *)
(* (Callbacks and Timers model them), and a paint is one step              *)
(* (WindowUpdates models it).  The buffer is DirectFB's: what is said of   *)
(* it is read off its uses.                                                *)
(***************************************************************************)
EXTENDS Naturals, FiniteSets, SequencesExt

CONSTANTS
    AppWindow,   \* the window of the application
    Dialogs,     \* windows its code opens and closes
    NoWindow,
    Animated,    \* windows whose content changes while they are open
    Modalities,  \* the sets of windows that may be WindowModal
    MaxEvents,   \* bound on the events that arrive in a run
    MaxBuffer,   \* bound on the events that wait at a time
    MaxAttached  \* bound on the attachments of one window

Windows == {AppWindow} \cup Dialogs

ASSUME WindowsAssumption ==
    /\ AppWindow \notin Dialogs
    /\ NoWindow \notin Windows
    /\ Animated \subseteq Windows
    /\ Modalities \subseteq SUBSET Windows
    /\ {MaxEvents, MaxBuffer, MaxAttached} \subseteq Nat \ {0}

VARIABLES
    windowList,    \* Application::__windowList
    activeWindow,  \* Application::__activeWindow
    modality,      \* windows whose _modality is WindowModal
    opened,        \* windows that have a _dfbWindow
    attached,      \* how often the buffer is attached to each window
    valid,         \* windows whose _updateQueue is valid
    callbacks,     \* some callback is listed in the engine
    terminate,     \* Engine::_terminate
    buffer,        \* Engine::__buffer
    event,         \* the event the loop has in hand, or NoEvent
    hearer,        \* the window that handles it
    phase,         \* where the loop is
    sent,          \* events that have arrived
    taken,         \* the user event handled last
    late           \* what other threads asked for after the loop looked

windowVars == <<windowList, activeWindow, modality, opened, attached>>
workVars   == <<valid, callbacks, terminate, late>>
handVars   == <<event, hearer, taken>>
vars == <<windowVars, workVars, handVars, buffer, phase, sent>>

Event == [kind : {"user", "input", "close", "update"},
          win : Windows \cup {NoWindow}, id : 0 .. MaxEvents]
NoEvent == [kind |-> "none", win |-> NoWindow, id |-> 0]
Phases == {"start", "top", "cycle", "counting", "waiting",
           "draining", "handling", "updating", "ended"}

Listed == ToSet(windowList)
UserCode == phase \in {"cycle", "handling"}

Init ==
    /\ windowList = << >>
    /\ activeWindow = NoWindow
    /\ modality \in Modalities
    /\ opened = {}
    /\ attached = [w \in Windows |-> 0]
    /\ valid = {}
    /\ callbacks = FALSE
    /\ terminate = FALSE
    /\ buffer = << >>
    /\ event = NoEvent
    /\ hearer = NoWindow
    /\ phase = "start"
    /\ sent = 0
    /\ taken = 0
    /\ late = {}

-----------------------------------------------------------------------------
(* The window list.                                                        *)

(* Mutant: the old window is left attached.                                *)
ReattachKeeping(old, new) ==
    [attached EXCEPT ![new] = IF @ < MaxAttached THEN @ + 1 ELSE @]

(* The attachments after `old` gives way to `new`: the old window keeps    *)
(* its own unless the new one is modal.  Both calls reset the buffer.      *)
Reattach(old, new) ==
    [w \in Windows |->
        LET left == IF w = old /\ new \in modality /\ attached[w] > 0
                    THEN attached[w] - 1 ELSE attached[w]
        IN  IF w = new /\ left < MaxAttached THEN left + 1 ELSE left]

setActiveWindow(w) ==
    /\ attached' = Reattach(activeWindow, w)
    /\ activeWindow' = w
    /\ buffer' = << >>

(* Mutant: a window that is already open is shown again.                   *)
showWindowAgain(w) ==
    /\ opened' = opened \cup {w}
    /\ windowList' = Append(windowList, w)
    /\ valid' = valid \ {w}
    /\ setActiveWindow(w)
    /\ UNCHANGED <<modality, callbacks, terminate, late, sent>>

(* showWindow(): the window is listed, painted once and made active.       *)
showWindow(w) ==
    /\ w \notin opened
    /\ opened' = opened \cup {w}
    /\ windowList' = Append(windowList, w)
    /\ valid' = valid \ {w}
    /\ setActiveWindow(w)
    /\ UNCHANGED <<modality, callbacks, terminate, late, sent>>

(* closeWindow(): the window leaves the list; if it was the active one the *)
(* last of the others takes its place.  Its DirectFB window goes, and with *)
(* it what attached it to the buffer.                                      *)
removeWindow(w) ==
    /\ \E i \in DOMAIN windowList :
          windowList[i] = w /\ windowList' = RemoveAt(windowList, i)
    /\ \/ /\ activeWindow = w /\ windowList' # << >>
          /\ activeWindow' = Last(windowList')
          /\ attached' = [Reattach(w, Last(windowList')) EXCEPT ![w] = 0]
          /\ buffer' = << >>
       \/ /\ activeWindow = w /\ windowList' = << >>
          /\ activeWindow' = NoWindow
          /\ attached' = [attached EXCEPT ![w] = 0]
          /\ UNCHANGED buffer
       \/ /\ activeWindow # w
          /\ attached' = [attached EXCEPT ![w] = 0]
          /\ UNCHANGED <<activeWindow, buffer>>

closeWindow(w) ==
    /\ w \in opened
    /\ removeWindow(w)
    /\ opened' = opened \ {w}
    /\ UNCHANGED <<modality, valid, callbacks, terminate, late, sent>>

-----------------------------------------------------------------------------
(* What the user's code asks for, from the loop or from another thread.    *)

Looked == phase \in {"counting", "waiting"}

WindowUpdate(w) ==
    /\ w \in opened
    /\ valid' = valid \cup {w}
    /\ late' = IF Looked THEN late \cup {w} ELSE late
    /\ UNCHANGED <<windowVars, callbacks, terminate, buffer, sent, phase>>

(* Engine::addCallback() does not wake the loop.                           *)
addCallback ==
    /\ callbacks' = TRUE
    /\ late' = IF Looked THEN late \cup {"callback"} ELSE late
    /\ UNCHANGED <<windowVars, valid, terminate, buffer, sent, phase>>

removeCallback ==
    /\ callbacks' = FALSE
    /\ UNCHANGED <<windowVars, valid, terminate, late, buffer, sent, phase>>

(* Engine::stop(): the WakeUp() is lost unless the loop is waiting.        *)
stop ==
    /\ terminate' = TRUE
    /\ phase' = IF phase = "waiting" THEN "draining" ELSE phase
    /\ UNCHANGED <<windowVars, valid, callbacks, late, buffer, sent>>

postUserEvent ==
    /\ sent < MaxEvents /\ Len(buffer) < MaxBuffer
    /\ sent' = sent + 1
    /\ buffer' = Append(buffer,
                        [kind |-> "user", win |-> NoWindow, id |-> sent + 1])
    /\ UNCHANGED <<windowVars, workVars, phase>>

(* One call of the user's code while the loop runs a callback, a timer or  *)
(* a handler; it may make any number of them.                              *)
Work ==
    /\ UserCode
    /\ \/ /\ \E w \in Dialogs : showWindow(w) \/ closeWindow(w)
          /\ UNCHANGED phase
       \/ \E w \in Animated : WindowUpdate(w)
       \/ addCallback
       \/ removeCallback
       \/ stop
       \/ postUserEvent
    /\ UNCHANGED handVars

(* A call of another thread.                                               *)
Helper ==
    /\ phase \notin {"start", "ended"} /\ ~ UserCode
    /\ (\E w \in Animated : WindowUpdate(w)) \/ addCallback \/ stop
       \/ postUserEvent
    /\ UNCHANGED handVars

(* DirectFB puts what happens to a window into the buffer once for every   *)
(* time the buffer is attached to it.                                      *)
WindowEvent(w, kind) ==
    /\ phase \notin {"start", "ended"}
    /\ attached[w] > 0
    /\ sent < MaxEvents /\ Len(buffer) + attached[w] <= MaxBuffer
    /\ sent' = sent + 1
    /\ buffer' = buffer \o [i \in 1 .. attached[w] |->
                               [kind |-> kind, win |-> w, id |-> 0]]
    /\ UNCHANGED <<windowVars, workVars, handVars, phase>>

-----------------------------------------------------------------------------
(* The loop.                                                               *)

Goto(p) == phase' = p

Show ==
    /\ phase = "start"
    /\ showWindow(AppWindow)
    /\ Goto("top")
    /\ UNCHANGED handVars

TestStopped ==
    /\ phase = "top"
    /\ \/ /\ ~ terminate
          /\ Goto("cycle")
          /\ UNCHANGED <<windowVars, workVars, handVars, buffer, sent>>
       \/ /\ terminate
          /\ closeWindow(AppWindow)
          /\ Goto("ended")
          /\ UNCHANGED handVars

(* Mutant: only the active window is asked.                                *)
NeedsPaintActive == activeWindow \in valid

(* cycle() has called what is due and its user code has returned: the wait *)
(* is skipped when a listed window has something to paint.                 *)
NeedsPaint == \E w \in Listed : w \in valid

AskUpdates ==
    /\ phase = "cycle"
    /\ Goto(IF NeedsPaint THEN "draining" ELSE "counting")
    /\ late' = {}
    /\ UNCHANGED <<windowVars, valid, callbacks, terminate, handVars, buffer,
                   sent>>

(* Mutant: whatever waits in front is discarded.                           *)
BeginWaitDiscarding ==
    /\ phase = "counting"
    /\ Goto(IF callbacks THEN "draining" ELSE "waiting")
    /\ late' = IF callbacks THEN {} ELSE late
    /\ buffer' = IF callbacks \/ buffer = << >> THEN buffer ELSE Tail(buffer)
    /\ UNCHANGED <<windowVars, valid, callbacks, terminate, handVars, sent>>

(* waitForEvents(): no wait while there are callbacks; an update event in  *)
(* front of the others does not keep the loop awake.                       *)
BeginWait ==
    /\ phase = "counting"
    /\ \/ /\ callbacks
          /\ Goto("draining")
          /\ late' = {}
          /\ UNCHANGED buffer
       \/ /\ ~ callbacks
          /\ Goto("waiting")
          /\ UNCHANGED late
          /\ buffer' = IF buffer # << >> /\ Head(buffer).kind = "update"
                       THEN Tail(buffer) ELSE buffer
    /\ UNCHANGED <<windowVars, valid, callbacks, terminate, handVars, sent>>

(* Mutant: the wait has no timeout.                                        *)
EndWaitByEvent ==
    /\ phase = "waiting" /\ buffer # << >>
    /\ Goto("draining")
    /\ late' = {}
    /\ UNCHANGED <<windowVars, valid, callbacks, terminate, handVars, buffer,
                   sent>>

(* The wait ends with an event or with its timeout.                        *)
EndWait ==
    /\ phase = "waiting"
    /\ Goto("draining")
    /\ late' = {}
    /\ UNCHANGED <<windowVars, valid, callbacks, terminate, handVars, buffer,
                   sent>>

(* Mutant: modality is not looked at.                                      *)
HearersById(e) == Listed \cap {e.win}

(* handleWindowEvents(): a modal active window is the only one asked;      *)
(* otherwise the windows are, the last one first, until one knows the id.  *)
Hearers(e) ==
    IF activeWindow # NoWindow /\ activeWindow \in modality
    THEN {activeWindow} \cap {e.win}
    ELSE Listed \cap {e.win}

GetNextEvent ==
    /\ phase = "draining"
    /\ \/ /\ buffer = << >>
          /\ Goto("updating")
          /\ UNCHANGED <<handVars, buffer>>
       \/ /\ buffer # << >>
          /\ buffer' = Tail(buffer)
          /\ LET e == Head(buffer) IN
             \/ /\ e.kind = "user"
                /\ event' = e /\ taken' = e.id
                /\ Goto("handling")
                /\ UNCHANGED hearer
             \/ /\ e.kind \in {"input", "close"}
                /\ \E w \in Hearers(e) : event' = e /\ hearer' = w
                /\ Goto("handling")
                /\ UNCHANGED taken
             \/ /\ e.kind = "update" \/ (e.kind # "user" /\ Hearers(e) = {})
                /\ UNCHANGED <<handVars, phase>>
    /\ UNCHANGED <<windowVars, workVars, sent>>

(* DWET_CLOSE: sigAbort rejects a dialog and quits the application.        *)
Abort ==
    /\ phase = "handling" /\ event.kind = "close"
    /\ event' = [kind |-> "input", win |-> event.win, id |-> event.id]
    /\ \/ /\ hearer = AppWindow
          /\ stop
       \/ /\ hearer \in Dialogs /\ closeWindow(hearer)
          /\ UNCHANGED phase
       \/ /\ hearer \in Dialogs \ opened
          /\ UNCHANGED <<windowVars, workVars, buffer, phase, sent>>
    /\ UNCHANGED <<hearer, taken>>

ReturnFromHandler ==
    /\ phase = "handling" /\ event.kind # "close"
    /\ event' = NoEvent
    /\ hearer' = NoWindow
    /\ Goto("draining")
    /\ UNCHANGED <<windowVars, workVars, taken, buffer, sent>>

(* Mutant: only the active window is painted.                              *)
updateActive ==
    /\ phase = "updating"
    /\ valid' = valid \ {activeWindow}
    /\ Goto("top")
    /\ UNCHANGED <<windowVars, callbacks, terminate, late, handVars, buffer,
                   sent>>

(* updateWindows(): every listed window paints what it was asked to.       *)
updateWindows ==
    /\ phase = "updating"
    /\ valid' = valid \ Listed
    /\ Goto("top")
    /\ UNCHANGED <<windowVars, callbacks, terminate, late, handVars, buffer,
                   sent>>

LoopStep ==
    Show \/ TestStopped \/ AskUpdates \/ BeginWait
    \/ EndWait \/ GetNextEvent \/ Abort \/ ReturnFromHandler \/ updateWindows

Next ==
    \/ LoopStep
    \/ Work
    \/ Helper
    \/ \E w \in Windows, k \in {"input", "close", "update"} : WindowEvent(w, k)

Spec == Init /\ [][Next]_vars

(* The thread of the loop is scheduled, the user's code returns and a wait *)
(* ends with its timeout.                                                  *)
FairSpec == Spec /\ WF_vars(LoopStep)

-----------------------------------------------------------------------------
(* The state is well typed; no window is attached beyond the bound.        *)
TypeOK ==
    /\ windowList \in Seq(Windows) /\ IsInjective(windowList)
    /\ activeWindow \in Windows \cup {NoWindow}
    /\ modality \in Modalities
    /\ opened \subseteq Windows
    /\ attached \in [Windows -> 0 .. MaxAttached]
    /\ valid \subseteq Windows
    /\ callbacks \in BOOLEAN /\ terminate \in BOOLEAN
    /\ buffer \in Seq(Event) /\ Len(buffer) <= MaxBuffer
    /\ event \in Event \cup {NoEvent}
    /\ hearer \in Windows \cup {NoWindow}
    /\ phase \in Phases
    /\ sent \in 0 .. MaxEvents /\ taken \in 0 .. MaxEvents
    /\ late \subseteq Windows \cup {"callback"}

(* The active window is the top of the list, whatever order windows are    *)
(* closed in, and the windows of the list are those DirectFB knows.        *)
ActiveIsTop ==
    /\ activeWindow = IF windowList = << >> THEN NoWindow ELSE Last(windowList)
    /\ Listed = opened

(* The list of windows, the active one and DirectFB's windows go together. *)
StackKept == TypeOK /\ ActiveIsTop

(* As long as every window is modal, the way they are constructed, exactly *)
(* the active one is attached to the buffer, once, and nothing waits in    *)
(* the buffer that came from another window; only the close of the last    *)
(* window leaves events behind.                                            *)
OnlyActiveHears ==
    modality = Windows /\ windowList # << >> =>
        /\ \A w \in Windows : attached[w] = IF w = activeWindow THEN 1 ELSE 0
        /\ \A i \in DOMAIN buffer :
              buffer[i].win \in {activeWindow, NoWindow}

(* The loop goes to sleep only when it has nothing to do: what it sleeps   *)
(* on was asked for by another thread after it had looked.                 *)
SleepsOnlyIdle ==
    phase = "waiting" =>
        /\ valid \cap Listed \subseteq late
        /\ callbacks => "callback" \in late

(* A window that asks for an update is painted, closed, or the application *)
(* ends; a sleeping loop does not forget the ones it was not woken for.    *)
UpdatesHappen ==
    \A w \in Windows :
        w \in valid /\ w \in opened ~>
            w \notin valid \/ w \notin opened \/ phase = "ended"

(* stop() ends the loop, also when its WakeUp() was lost.                  *)
StopEnds == terminate ~> phase = "ended"

(* The buffer keeps the promise of EventQueue: user events are handled in  *)
(* order, once, and lost only by a reset; the release of the buffer at the *)
(* end is a reset.                                                         *)
UserEvents == {i \in DOMAIN buffer : buffer[i].kind = "user"}
UserIds == IF phase = "ended" THEN {} ELSE {buffer[i].id : i \in UserEvents}
Queue == INSTANCE EventQueue WITH queue <- UserIds, taken <- taken
QueuePromise == Queue!Spec

(* Dispatch keeps the promise of WindowStack: a modal window on top is the *)
(* only one that hears.                                                    *)
Stack == INSTANCE WindowStack WITH stack <- windowList, modal <- modality
StackPromise == Stack!Spec
=============================================================================
