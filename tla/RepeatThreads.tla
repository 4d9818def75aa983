---------------------------- MODULE RepeatThreads ----------------------------
(***************************************************************************)
(* A thread object (lib/Thread) that a class of buttons shares to repeat   *)
(* clicks while one of them is held: the pointer handlers of ToolButton    *)
(* and DirectionalButton on the main thread, the thread's start, its loop  *)
(* and its cancellation.  What a click runs may disable the button and     *)
(* enable the others, as a SpinBox does at its limits; a disabled button   *)
(* gets no pointer events.                                                 *)
(***************************************************************************)
EXTENDS Naturals, FiniteSets

CONSTANTS
    Buttons, NoButton,
    MaxThreads   \* bound on the threads ever created

Threads == 1 .. MaxThreads

VARIABLES
    helper,       \* what each thread is doing
    cancelled,    \* threads with a cancellation request
    isRunning,    \* Thread::_running
    handle,       \* Thread::_pThread, 0 before the first start()
    repeated,     \* the _target of the thread object
    handler,      \* the pointer handler the main thread is in
    held,         \* the button under the pressed pointer
    pressedDown,  \* buttons with the PressedDown flag
    limited,      \* buttons that are disabled
    missed        \* a history: a cancel() came too early for a new thread

threadVars == <<helper, cancelled, isRunning, handle>>
vars == <<threadVars, repeated, handler, held, pressedDown, limited, missed>>

Idle == [op |-> "none", button |-> NoButton, at |-> "done"]
Handlers == [op : {"press", "release", "leave"}, button : Buttons,
             at : {"cancel", "join", "done"}]

Init ==
    /\ helper = [t \in Threads |-> "none"]
    /\ cancelled = {}
    /\ isRunning = FALSE
    /\ handle = 0
    /\ repeated = NoButton
    /\ handler = Idle
    /\ held = NoButton
    /\ pressedDown = {}
    /\ limited = {}
    /\ missed = FALSE

-----------------------------------------------------------------------------
(* The main thread: pointer events.                                        *)
Alive(t) == helper[t] \notin {"none", "ended"}

(* A press cancels whatever runs, the others only their own repetition.    *)
Cancels(op, b) == op = "press" \/ repeated = b

Enter(op, b) ==
    handler' = [op |-> op, button |-> b,
                at |-> IF Cancels(op, b) THEN "cancel" ELSE "done"]

NextThread == 1 + Cardinality({t \in Threads : helper[t] # "none"})

(* With the pointer on a button that is enabled, and a pressed one for a   *)
(* release; a release that no button takes just ends the hold.             *)
PointerEvent ==
    /\ handler = Idle
    /\ \/ \E b \in Buttons \ limited :
             /\ held = NoButton /\ NextThread \in Threads
             /\ held' = b /\ Enter("press", b)
       \/ /\ held # NoButton /\ held' = NoButton
          /\ \/ held \in limited /\ UNCHANGED handler
             \/ held \in pressedDown \ limited /\ Enter("release", held)
             \/ Enter("leave", held)
    /\ UNCHANGED <<threadVars, repeated, pressedDown, limited, missed>>

(* A thread that was created and has not set _running yet is overlooked.   *)
LooksAtFlag ==
    missed' = (missed \/ (~ isRunning /\ \E t \in Threads : helper[t] = "created"))

(* Mutant: the thread is asked to end and not waited for.                  *)
cancelOnly ==
    /\ handler.at = "cancel"
    /\ LooksAtFlag
    /\ cancelled' = IF isRunning THEN cancelled \cup {handle} ELSE cancelled
    /\ isRunning' = FALSE
    /\ handler' = [handler EXCEPT !.at = "done"]
    /\ UNCHANGED <<helper, handle, repeated, held, pressedDown, limited>>

(* cancel(): nothing unless _running; else it waits for the thread.  A     *)
(* second pthread_join() of one thread, which only an overlooked one that  *)
(* sets _running later leads to, is undefined: the model stops there.      *)
cancel ==
    /\ handler.at = "cancel"
    /\ LooksAtFlag
    /\ \/ /\ isRunning /\ handle \notin cancelled
          /\ cancelled' = cancelled \cup {handle}
          /\ handler' = [handler EXCEPT !.at = "join"]
       \/ /\ ~ isRunning
          /\ handler' = [handler EXCEPT !.at = "done"]
          /\ UNCHANGED cancelled
    /\ UNCHANGED <<helper, isRunning, handle, repeated, held, pressedDown, limited>>

join ==
    /\ handler.at = "join"
    /\ helper[handle] = "ended"
    /\ isRunning' = FALSE
    /\ handler' = [handler EXCEPT !.at = "done"]
    /\ UNCHANGED <<helper, cancelled, handle, repeated, held, pressedDown, limited, missed>>

(* setTarget() and start(), which does nothing while _running; the rest of *)
(* the handlers.                                                           *)
start ==
    IF isRunning THEN UNCHANGED <<helper, handle>>
    ELSE /\ helper' = [helper EXCEPT ![NextThread] = "created"]
         /\ handle' = NextThread

FinishHandler ==
    /\ handler # Idle /\ handler.at = "done"
    /\ \/ /\ handler.op = "press"
          /\ start
          /\ repeated' = handler.button
          /\ pressedDown' = pressedDown \cup {handler.button}
       \/ /\ handler.op = "release"
          /\ pressedDown' = pressedDown \ {handler.button}
          /\ UNCHANGED <<helper, handle, repeated>>
       \/ /\ handler.op = "leave"
          /\ UNCHANGED <<helper, handle, repeated, pressedDown>>
    /\ handler' = Idle
    /\ UNCHANGED <<cancelled, isRunning, held, limited, missed>>

-----------------------------------------------------------------------------
(* The thread.                                                             *)
Become(t, s) == helper' = [helper EXCEPT ![t] = s]
othersKept == UNCHANGED <<handle, repeated, handler, held, pressedDown, missed>>

(* executeRun() sets _running.                                             *)
Begin(t) ==
    /\ helper[t] = "created"
    /\ Become(t, "loop")
    /\ isRunning' = TRUE
    /\ othersKept /\ UNCHANGED <<cancelled, limited>>

(* Mutant: the loop does not test for cancellation.                        *)
TestCancelNever(t) ==
    /\ helper[t] = "loop"
    /\ Become(t, IF repeated \in limited THEN "returning" ELSE "clicking")
    /\ othersKept /\ UNCHANGED <<cancelled, isRunning, limited>>

(* pthread_testcancel() and the look at the target.                        *)
TestCancel(t) ==
    /\ helper[t] = "loop"
    /\ Become(t, IF t \in cancelled THEN "ended"
                 ELSE IF repeated \in limited THEN "returning" ELSE "clicking")
    /\ othersKept /\ UNCHANGED <<cancelled, isRunning, limited>>

(* click(): the sleep may be cancelled; after it the handlers of sigClicked*)
(* run, here those of a SpinBox.                                           *)
Click(t) ==
    /\ helper[t] = "clicking"
    /\ \/ /\ t \in cancelled
          /\ Become(t, "ended")
          /\ UNCHANGED limited
       \/ /\ Become(t, "loop")
          /\ limited' \in {{}, {repeated}}
    /\ othersKept /\ UNCHANGED <<cancelled, isRunning>>

Return(t) ==
    /\ helper[t] = "returning"
    /\ Become(t, "ended")
    /\ isRunning' = FALSE
    /\ othersKept /\ UNCHANGED <<cancelled, limited>>

run(t) == Begin(t) \/ TestCancel(t) \/ Click(t) \/ Return(t)

Next ==
    \/ PointerEvent \/ cancel \/ join \/ FinishHandler
    \/ \E t \in Threads : run(t)

Spec == Init /\ [][Next]_vars

(* Both threads are scheduled; the user need not do anything.              *)
FairSpec ==
    /\ Spec
    /\ WF_vars(cancel \/ join \/ FinishHandler)
    /\ \A t \in Threads : WF_vars(run(t))

-----------------------------------------------------------------------------
TypeOK ==
    /\ helper \in [Threads -> {"none", "created", "loop", "clicking",
                               "returning", "ended"}]
    /\ cancelled \subseteq Threads
    /\ isRunning \in BOOLEAN
    /\ handle \in {0} \cup Threads
    /\ (handler.at = "join" => handle # 0)
    /\ repeated \in Buttons \cup {NoButton}
    /\ handler \in Handlers \cup {Idle}
    /\ held \in Buttons \cup {NoButton}
    /\ pressedDown \subseteq Buttons /\ limited \subseteq Buttons
    /\ missed \in BOOLEAN

(* What holds as long as no thread was overlooked.  One thread clicks at a *)
(* time: a press of another button waits for the thread of the first one,  *)
(* also when that is ending by itself.                                     *)
OneThread == Cardinality({t \in Threads : Alive(t)}) <= 1

(* The flag says whether there is a thread, except while it starts and in  *)
(* the handler that waits for it: nothing is cancelled that has ended, and *)
(* nothing runs that cannot be cancelled.                                  *)
FlagSaysRunning ==
    handler.at # "join" =>
        isRunning = \E t \in Threads : Alive(t) /\ helper[t] # "created"

(* Only the button that is held is clicked repeatedly: outside of the      *)
(* handlers a thread that will click on belongs to the button under the    *)
(* pressed pointer (ui/ToolButton.h, Repeatable).                          *)
RepeatsWhileHeld ==
    handler = Idle =>
        \A t \in Threads :
            helper[t] \in {"created", "loop", "clicking"} /\ t \notin cancelled
            /\ repeated \notin limited => held = repeated

(* A handler that waits for the thread returns, so the main loop goes on,  *)
(* unless a thread was overlooked.                                         *)
HandlersReturn == handler # Idle ~> handler = Idle \/ missed
=============================================================================
