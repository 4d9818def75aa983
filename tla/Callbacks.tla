------------------------------- MODULE Callbacks -------------------------------
(***************************************************************************)
(* core/Callback and the callback half of core/Engine: functionoids that   *)
(* are called once per cycle of the main loop until they return 0.  One    *)
(* recursive lock covers a whole pass over the list, so other threads wait *)
(* for the end of a pass while the functionoids themselves may add and     *)
(* remove callbacks.  A pass walks a copy of the list.  Callback::start    *)
(* looks at _running before it takes the lock.                             *)
(***************************************************************************)
EXTENDS Integers, Sequences

CONSTANTS
    Loop, Helpers,      \* the threads that start and stop callbacks
    CallbackSet,        \* the Callback objects
    Stops,              \* may callbacks be stopped from outside their own call
    StartsInLastCall    \* may start() meet a callback that is making its last call

ASSUME ThreadsAssumption == Loop \notin Helpers

ASSUME FlagsAssumption == Stops \in BOOLEAN /\ StartsInLastCall \in BOOLEAN

Threads == {Loop} \cup Helpers

VARIABLES
    callbacks,      \* Engine::__callbacks
    running,        \* Callback::_running
    phase,          \* "out" of runCallbacks, in a "pass", or in a "call"
    copy,           \* list_copy, from the callback being called on
    adding,         \* what each thread is about to add (start() past its check)
    asked,          \* ghost: started since its last call and not stopped since
    again           \* ghost: start() met the callback being called

ghosts == <<asked, again>>
vars   == <<callbacks, running, phase, copy, adding, ghosts>>

Adding == {<<>>} \cup {<<c>> : c \in CallbackSet}

Listed == {callbacks[i] : i \in DOMAIN callbacks}

TypeOK ==
    /\ callbacks \in Seq(CallbackSet)
    /\ running \in [CallbackSet -> BOOLEAN]
    /\ phase \in {"out", "pass", "call"}
    /\ copy \in Seq(CallbackSet)
    /\ phase = "call" => copy # <<>>
    /\ adding \in [Threads -> Adding]
    /\ asked \subseteq CallbackSet
    /\ again \in BOOLEAN

Init ==
    /\ callbacks = <<>>
    /\ running = [c \in CallbackSet |-> FALSE]
    /\ phase = "out"
    /\ copy = <<>>
    /\ adding = [th \in Threads |-> <<>>]
    /\ asked = {}
    /\ again = FALSE

(* Erasing the element at i.                                               *)
Erase(s, i) == [j \in 1 .. Len(s) - 1 |-> IF j < i THEN s[j] ELSE s[j + 1]]

(***************************************************************************)
(* The lock is held from the copy to the end of the pass.  The loop thread *)
(* runs user code inside a call and between passes.                        *)
(***************************************************************************)
HasLock(th) == phase = "out" \/ th = Loop

MayCall(th) ==
    /\ adding[th] = <<>>
    /\ th = Loop => phase # "pass"

BeingCalled(c) == phase = "call" /\ c = Head(copy)

-------------------------------------------------------------------------------
(* Callback::start: the unlocked look at _running ...                      *)
start(th, c) ==
    /\ MayCall(th)
    /\ ~running[c]
    /\ adding' = [adding EXCEPT ![th] = <<c>>]
    /\ UNCHANGED <<callbacks, running, phase, copy, ghosts>>

(* ... which makes a start of a running callback return at once.           *)
startRunning(th, c) ==
    /\ MayCall(th)
    /\ running[c]
    /\ asked' = asked \cup {c}
    /\ again' = (again \/ BeingCalled(c))
    /\ UNCHANGED <<callbacks, running, phase, copy, adding>>

(***************************************************************************)
(* Engine::addCallback.  _running is only set for a callback that is in    *)
(* the list already.                                                       *)
(***************************************************************************)
addCallbackBlindly(th) ==   \* mutant: no search for the callback
    /\ adding[th] # <<>>
    /\ HasLock(th)
    /\ callbacks' = callbacks \o adding[th]
    /\ asked' = asked \cup {adding[th][1]}
    /\ again' = (again \/ BeingCalled(adding[th][1]))
    /\ adding' = [adding EXCEPT ![th] = <<>>]
    /\ UNCHANGED <<running, phase, copy>>

addCallback(th) ==
    /\ adding[th] # <<>>
    /\ HasLock(th)
    /\ LET c == adding[th][1] IN
          /\ IF c \in Listed
             THEN /\ running' = [running EXCEPT ![c] = TRUE]
                  /\ UNCHANGED callbacks
             ELSE /\ callbacks' = Append(callbacks, c)
                  /\ UNCHANGED running
          /\ asked' = asked \cup {c}
          /\ again' = (again \/ BeingCalled(c))
    /\ adding' = [adding EXCEPT ![th] = <<>>]
    /\ UNCHANGED <<phase, copy>>

(* Engine::removeCallback, when the callback is in the list.               *)
removeKeepingFlag(c) ==     \* mutant: _running survives the removal
    /\ \E i \in DOMAIN callbacks :
          callbacks[i] = c /\ callbacks' = Erase(callbacks, i)
    /\ UNCHANGED running

removeCallback(c) ==
    /\ \E i \in DOMAIN callbacks :
          callbacks[i] = c /\ callbacks' = Erase(callbacks, i)
    /\ running' = [running EXCEPT ![c] = FALSE]

(***************************************************************************)
(* Callback::stop, by user code or by the destructor.  Its whole body is   *)
(* under the lock; a callback that is not listed is left alone.            *)
(***************************************************************************)
stop(th, c) ==
    /\ Stops
    /\ MayCall(th) /\ HasLock(th)
    /\ c \in Listed
    /\ removeCallback(c)
    /\ asked' = asked \ {c}
    /\ UNCHANGED <<phase, copy, adding, again>>

-------------------------------------------------------------------------------
(* Engine::runCallbacks: lock and copy.                                    *)
runCallbacksSkipping ==      \* mutant: the copy misses the first callback
    /\ phase = "out"
    /\ adding[Loop] = <<>>
    /\ phase' = "pass"
    /\ copy' = IF callbacks = <<>> THEN <<>> ELSE Tail(callbacks)
    /\ UNCHANGED <<callbacks, running, adding, ghosts>>

runCallbacks ==
    /\ phase = "out"
    /\ adding[Loop] = <<>>
    /\ phase' = "pass"
    /\ copy' = callbacks
    /\ UNCHANGED <<callbacks, running, adding, ghosts>>

CallNext ==
    /\ phase = "pass"
    /\ copy # <<>>
    /\ phase' = "call"
    /\ asked' = asked \ {Head(copy)}
    /\ again' = FALSE
    /\ UNCHANGED <<callbacks, running, copy, adding>>

(* funck() returned non-zero.                                              *)
GoOn ==
    /\ phase = "call"
    /\ adding[Loop] = <<>>
    /\ phase' = "pass"
    /\ copy' = Tail(copy)
    /\ UNCHANGED <<callbacks, running, adding, ghosts>>

(***************************************************************************)
(* funck() returned 0: removeCallback(), which finds nothing if the        *)
(* callback was removed by its own call or by another one of this pass.    *)
(***************************************************************************)
Quit ==
    /\ phase = "call"
    /\ adding[Loop] = <<>>
    /\ again => StartsInLastCall
    /\ IF Head(copy) \in Listed THEN removeCallback(Head(copy))
       ELSE UNCHANGED <<callbacks, running>>
    /\ phase' = "pass"
    /\ copy' = Tail(copy)
    /\ UNCHANGED <<adding, ghosts>>

EndPass ==
    /\ phase = "pass"
    /\ copy = <<>>
    /\ phase' = "out"
    /\ UNCHANGED <<callbacks, running, copy, adding, ghosts>>

LoopStep == runCallbacks \/ CallNext \/ GoOn \/ Quit \/ EndPass

Next ==
    \/ \E th \in Threads, c \in CallbackSet :
          start(th, c) \/ startRunning(th, c) \/ stop(th, c)
    \/ \E th \in Threads : addCallback(th)
    \/ LoopStep

Spec == Init /\ [][Next]_vars

(***************************************************************************)
(* The main loop makes one pass after another, functionoids return, and    *)
(* the lock, free again and again, is given to every thread waiting for it.*)
(***************************************************************************)
FairSpec ==
    /\ Spec
    /\ WF_vars(CallNext) /\ WF_vars(EndPass)
    /\ SF_vars(runCallbacks) /\ SF_vars(GoOn \/ Quit)
    /\ \A th \in Threads : SF_vars(addCallback(th))

-------------------------------------------------------------------------------
(***************************************************************************)
(* No callback is in the list twice, whichever threads start it: it is     *)
(* called once per pass and one removal is enough to get rid of it.        *)
(***************************************************************************)
ListedOnce == \A i, j \in DOMAIN callbacks : callbacks[i] = callbacks[j] => i = j

(***************************************************************************)
(* _running never outlives the place in the list: start() trusts the flag  *)
(* without the lock, so a stale one would make the callback unstartable.   *)
(***************************************************************************)
RunningIsListed == \A c \in CallbackSet : running[c] => c \in Listed

(***************************************************************************)
(* "Adds callback to AppBase so it can run at next interval"               *)
(* (Callback::start): a started callback is called, unless it is stopped.  *)
(***************************************************************************)
StartedIsCalled == \A c \in CallbackSet : (c \in asked) ~> (c \notin asked)

===============================================================================
