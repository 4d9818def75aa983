------------------------------- MODULE MCParts -------------------------------
(***************************************************************************)
(* The parts of the library that the main loop serves and that know        *)
(* nothing of each other, checked side by side: a behaviour is one of one  *)
(* part, chosen at the start, while the others stay as they begin.         *)
(***************************************************************************)
EXTENDS WindowUpdates, FiniteSets, SequencesExt

CONSTANTS
    Loop, TimerHelpers, TimerSet, Calls,                    \* timers
    Single, Order, Delay, Duration, Loops, NoAnimation,     \* animations
    fade, blank, slide1, slide2,
    v1, v2, s1, NoSurface, left, right,                     \* surface views
    Buttons, NoButton, MaxThreads,                          \* buttons
    Notes, MaxNotes, NoteTag, NoTag,                          \* notifications
    n1, n2, n3, n4, tag

ASSUME PartTimersAssumption ==
    /\ Loop \notin TimerHelpers
    /\ Calls \subseteq {"start", "stop", "restart", "setInterval", "setRepeats",
                        "restartAnywhere", "setRepeatsAnywhere"}

(* The animations of the sequence are in it once and have a duration.      *)
ASSUME PartAnimationsAssumption ==
    /\ Order \in Seq(ToSet(Order)) /\ Order # << >> /\ IsInjective(Order)
    /\ Single \cap ToSet(Order) = {} /\ NoAnimation \notin ToSet(Order)
    /\ {Delay, Duration, Loops} \subseteq [Single \cup ToSet(Order) -> Nat]
    /\ \A a \in ToSet(Order) : Duration[a] # 0

ASSUME PartSurfacesAssumption == NoSurface # s1

ASSUME PartThreadsAssumption == MaxThreads \in Nat

ASSUME PartNotesAssumption == MaxNotes \in Nat

VARIABLES
    part,
    list, interval, repeats, count, running, remaining, loopAt, sleep, op,
    state, listed, since, current, loopNo, waited, played, stalled, seqCurrent,
    looping, connected, calls,
    selList, attached, destroyed, source, events, started, ready, updateFlip,
    flipCount, blocking, hidden, dirty, buffer, flips, unacked, handled, at, broken,
    helper, cancelled, isRunning, handle, repeated, handler, held, pressedDown, limited, missed,
    pending, active, life, closes, toAdd, comaAt, collected, noteBroken

timerVars == <<list, interval, repeats, count, running, remaining, loopAt, sleep,
               op>>
animVars  == <<state, listed, since, current, loopNo, waited, played, stalled,
               seqCurrent, looping, connected, calls>>
surfVars  == <<selList, attached, destroyed, source, events, started, ready,
               updateFlip, flipCount, blocking, hidden, dirty, buffer, flips,
               unacked, handled, at, broken>>
repeatVars == <<helper, cancelled, isRunning, handle, repeated, handler, held,
                pressedDown, limited, missed>>
noteVars == <<pending, active, life, closes, toAdd, comaAt, collected, noteBroken>>
all == <<part, vars, timerVars, animVars, surfVars, repeatVars, noteVars>>

(* A window of 2 x 1 pixels; threads ask for its left pixel, its right one *)
(* together with one outside the frame, an area outside it and nothing.    *)
MCFrame    == [x |-> 0, y |-> 0, w |-> 2, h |-> 1]
MCRequests == {[x |-> 0, y |-> 0, w |-> 1, h |-> 1], [x |-> 1, y |-> 0, w |-> 2, h |-> 1],
               [x |-> 3, y |-> 0, w |-> 1, h |-> 1], NullRectangle}

(* Timers that helper threads and the loop thread use; the idle timeout    *)
(* and the longest one keep the order of the code's 100 and 10000.         *)
T == INSTANCE Timers WITH
        phase <- loopAt, Helpers <- TimerHelpers,
        Intervals <- {2}, RepeatCounts <- {1}, DefaultInterval <- 1,
        IdleTimeout <- 1, LongestTimeout <- 3, CountCap <- 2, MaxLate <- 0

(* Two animations of their own, one delayed and played twice and one       *)
(* without a duration, and a sequence of two, the second delayed.          *)
MCOrder    == <<slide1, slide2>>
MCAnimations == {fade, blank, slide1, slide2}
MCDelay    == [a \in MCAnimations |-> IF a \in {fade, slide2} THEN 1 ELSE 0]
MCDuration == [a \in MCAnimations |-> IF a = blank THEN 0 ELSE 1]
MCLoops    == [a \in MCAnimations |-> IF a = fade THEN 2 ELSE 1]

A == INSTANCE Animations WITH loop <- loopNo, StopsBetween <- FALSE, MaxCalls <- 3

(* A surface whose frames are all alike with two views, and one whose      *)
(* frames change its left or its right half with one view.  The first view *)
(* is hidden at times and then blocks.                                     *)
S == INSTANCE SurfaceEvents WITH
        phase <- at, queue <- events, owed <- unacked, Views <- {v1, v2}, Surfaces <- {s1},
        Opened <- {v1, v2}, Regions <- {left}, Blocking <- {v1}, Hideable <- {v1}, MaxFlips <- 3

H == INSTANCE SurfaceEvents WITH
        phase <- at, queue <- events, owed <- unacked, Views <- {v1, v2}, Surfaces <- {s1},
        Opened <- {v1}, Regions <- {left, right}, Blocking <- {v1}, Hideable <- {v1}, MaxFlips <- 4

(* Buttons that repeat, one thread object for all of them.                 *)
B == INSTANCE RepeatThreads

(* Two notifications with a common tag and two without any.                *)
MCNoteTag == [n \in {n1, n2, n3, n4} |-> IF n \in {n1, n2} THEN tag ELSE NoTag]

N == INSTANCE Notifications WITH
        adding <- toAdd, broken <- noteBroken, MaxNotifications <- MaxNotes, Tag <- NoteTag

Parts == {"updates", "timers", "animations", "surfaces", "halves",
          "buttons", "notifications"}

(* A step of one part leaves the variables of the others alone.            *)
Others(p) ==
    /\ part = p /\ part' = part
    /\ p # "updates"       => UNCHANGED vars
    /\ p # "timers"        => UNCHANGED timerVars
    /\ p # "animations"    => UNCHANGED animVars
    /\ p \notin {"surfaces", "halves"} => UNCHANGED surfVars
    /\ p # "buttons"       => UNCHANGED repeatVars
    /\ p # "notifications" => UNCHANGED noteVars

PartsInit ==
    /\ part \in Parts
    /\ Init /\ T!Init /\ A!Init /\ S!Init /\ B!Init /\ N!Init
    /\ part # "notifications" => toAdd = n1

PartsNext ==
    \/ Others("updates") /\ Next
    \/ Others("timers") /\ T!Next
    \/ Others("animations") /\ A!Next
    \/ Others("surfaces") /\ S!Next
    \/ Others("halves") /\ H!Next
    \/ Others("buttons") /\ B!Next
    \/ Others("notifications") /\ N!Next

(* The fairness of each part, as its FairSpec states it.  Where only the   *)
(* main loop paints nobody takes the semaphores from it, so they need not  *)
(* serve it strongly; nothing of this is enabled before a request.         *)
PartsSpec ==
    /\ PartsInit /\ [][PartsNext]_all
    /\ SF_vars(TakeQueue) /\ WF_vars(Paint(Main))
    /\ \A t \in Threads : WF_vars(AddRequest(t))
    /\ WF_animVars(part = "animations" /\ A!Tick)
    /\ \A a \in A!Animations :
          WF_animVars(part = "animations" /\ A!funck(a))
    /\ WF_surfVars(part \in {"surfaces", "halves"} /\ ~ broken /\ S!Turn)
    /\ WF_repeatVars(part = "buttons" /\ (B!cancel \/ B!join \/ B!FinishHandler))
    /\ \A t \in B!Threads : WF_repeatVars(part = "buttons" /\ B!run(t))
    /\ WF_noteVars(part = "notifications" /\ ~ noteBroken /\ N!addSteps)
    /\ SF_noteVars(part = "notifications" /\ ~ noteBroken /\ N!Collect)
    /\ WF_noteVars(part = "notifications" /\ ~ noteBroken /\ N!Fill)
    /\ \A n \in Notes :
          WF_noteVars(part = "notifications" /\ ~ noteBroken /\ N!Plays(n))

-----------------------------------------------------------------------------
(* What each part keeps true; the names are explained in its module.       *)

(* Threads that start and stop timers never get one into the list twice.   *)
TimersListedOnce ==
    part = "timers" => T!ListedOnce

(* Whatever is called on animations and their sequence, one that runs is   *)
(* called by the engine, and of a sequence one at a time runs.             *)
AnimationsKept ==
    part = "animations" => A!TypeOK /\ A!RunningIsCalled /\ A!OneAtATime

(* An animation plays all of its loops to their end, one that was started  *)
(* and left alone finishes, and a sequence gets to its last.               *)
AnimationsEnd == A!PlaysToTheEnd /\ A!StartedFinishes /\ A!SequenceReachesEnd

(* A view is attached to its source once, acknowledges the frame it takes  *)
(* or the one before, and is called while updates are waiting.             *)
SurfacesKept ==
    part \in {"surfaces", "halves"} =>
        H!TypeOK /\ S!AttachedOnce /\ S!AckIsRecent /\ S!WaitingIsCalled

(* The last frame of a source is shown, whatever is dropped on the way.    *)
LastFrameShown == S!LastFrameShown

(* A button that repeats has one thread, which runs while it is held, as   *)
(* long as no cancel() came before a new thread had set _running.          *)
RepeatersKept ==
    part = "buttons" =>
        /\ B!TypeOK
        /\ ~ missed => B!OneThread /\ B!FlagSaysRunning /\ B!RepeatsWhileHeld

(* The event handlers of a button that repeats return, as long as none came*)
(* too early for a new thread.                                             *)
HandlersReturn == B!HandlersReturn

(* Notifications: as many as there is place for, a tag used once, none     *)
(* gone without its client hearing of it.                                  *)
NotificationsKept ==
    part = "notifications" => N!TypeOK /\ N!AtMostMax /\ N!TagsUsedOnce /\ N!GoneWasClosed

(* Every notification comes to be shown or is replaced.                    *)
EachIsServed == N!EachIsServed
=============================================================================
