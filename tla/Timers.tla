-------------------------------- MODULE Timers --------------------------------
(***************************************************************************)
(* lib/Timer and the timer half of core/Engine.  A Timer carries its own   *)
(* parameters, its _running flag and the time it expires; the engine keeps *)
(* the started timers in a list sorted by expiry, fires at most the first  *)
(* of them per cycle, under a recursive lock, and sleeps until the next    *)
(* one is due.  Expiry times are kept relative to the clock: the code only *)
(* compares them with each other and with the present.                     *)
(*                                                                         *)
(* Loop is the thread that runs the main loop; it calls timer operations   *)
(* from inside a firing timer (phase "call") and from its event handlers.  *)
(* Helpers are other threads that use timers.  Operations take several     *)
(* steps: the unlocked look at _running, the fields of the Timer, written  *)
(* without a lock, and the engine's list.                                  *)
(***************************************************************************)
EXTENDS Integers, SequencesExt

CONSTANTS
    Loop, Helpers,          \* the threads
    TimerSet,               \* the timers
    Intervals, RepeatCounts,\* arguments of start(), setInterval(), setRepeats()
    DefaultInterval,        \* 500 in the code
    IdleTimeout,            \* 100 in the code: no timer is listed
    LongestTimeout,         \* 10000 in the code
    CountCap,               \* bound: _count sticks here, above all RepeatCounts
    MaxLate,                \* bound: how late a timer gets outside a wait
    Calls                   \* the operations of Timer the threads use

ASSUME TimersAssumption ==
    /\ Loop \notin Helpers
    /\ Intervals \subseteq Nat \ {0} /\ DefaultInterval \in Nat \ {0}
    /\ RepeatCounts \subseteq Nat
    /\ IdleTimeout \in Nat \ {0} /\ LongestTimeout \in Nat \ {0}
    /\ CountCap \in Nat \ {0} /\ \A n \in RepeatCounts : n < CountCap
    /\ MaxLate \in Nat
    /\ Calls \subseteq {"start", "stop", "restart", "setInterval", "setRepeats",
                        "restartAnywhere", "setRepeatsAnywhere"}

Threads == {Loop} \cup Helpers

VARIABLES
    list,           \* Engine::_timers
    interval, repeats, count, running,      \* the fields of each Timer
    remaining,      \* _expiry - now
    phase,          \* where the main loop is
    sleep,          \* timeout of the wait to come, or what is left of the wait
    op              \* what a thread still has to do to the list

fields == <<interval, repeats, count, running>>
engine == <<phase, sleep>>
vars   == <<list, fields, remaining, engine, op>>

Phases == {"run", "call", "ready", "waiting", "handlers"}
NoOp   == [kind |-> "none"]
Ops    == {NoOp}
          \cup [kind: {"start"}, timer: TimerSet, msec: Nat \ {0}, repeats: Nat]
          \cup [kind: {"add", "remove"}, timer: TimerSet]

Listed == {list[i] : i \in DOMAIN list}

TypeOK ==
    /\ list \in Seq(TimerSet)
    /\ interval \in [TimerSet -> Nat \ {0}] /\ repeats \in [TimerSet -> Nat]
    /\ count \in [TimerSet -> 0 .. CountCap] /\ running \in [TimerSet -> BOOLEAN]
    /\ remaining \in [TimerSet -> Int]
    /\ phase \in Phases
    /\ sleep \in 0 .. LongestTimeout
    /\ op \in [Threads -> Ops]

Init ==
    /\ list = <<>>
    /\ interval = [t \in TimerSet |-> DefaultInterval]
    /\ repeats = [t \in TimerSet |-> 0]
    /\ count = [t \in TimerSet |-> 0]
    /\ running = [t \in TimerSet |-> FALSE]
    /\ remaining = [t \in TimerSet |-> 0]
    /\ phase = "run" /\ sleep = 0
    /\ op = [th \in Threads |-> NoOp]

(***************************************************************************)
(* std::list::sort(timerSort): stable, by expiry.  An order says which     *)
(* place of s comes to each place of the result; there is just one that    *)
(* puts no timer behind one that expires later, or that ties and stood     *)
(* before it.                                                              *)
(***************************************************************************)
orders(s, rem) ==
    {p \in Bijection(DOMAIN s, DOMAIN s) :
        \A i, j \in DOMAIN s : i < j =>
            \/ rem[s[p[i]]] < rem[s[p[j]]]
            \/ rem[s[p[i]]] = rem[s[p[j]]] /\ p[i] < p[j]}

unsorted(s, rem) == {s}     \* mutant: the sort is forgotten

sorted(s, rem) == {[i \in DOMAIN s |-> s[p[i]]] : p \in orders(s, rem)}

-------------------------------------------------------------------------------
(***************************************************************************)
(* The operations of Timer.  A thread is between two calls when it owes    *)
(* the list nothing; the loop thread runs user code inside a firing timer  *)
(* and in its event handlers.                                              *)
(***************************************************************************)
MayCall(th) ==
    /\ op[th] = NoOp
    /\ th = Loop => phase \in {"call", "handlers"}

Owes(th, kind, t) == op' = [op EXCEPT ![th] = [kind |-> kind, timer |-> t]]

(* start(): a call on a running timer returns at once ...                  *)
start(th, t, ms, n) ==
    /\ MayCall(th)
    /\ ~running[t]
    /\ op' = [op EXCEPT ![th] =
                 [kind |-> "start", timer |-> t, msec |-> ms, repeats |-> n]]
    /\ UNCHANGED <<list, fields, remaining, engine>>

(* ... and any other sets the fields and the expiry.                       *)
startFields(th) ==
    /\ op[th].kind = "start"
    /\ LET t == op[th].timer IN
          /\ running' = [running EXCEPT ![t] = TRUE]
          /\ interval' = [interval EXCEPT ![t] = op[th].msec]
          /\ count' = [count EXCEPT ![t] = 0]
          /\ repeats' = [repeats EXCEPT ![t] = op[th].repeats]
          /\ remaining' = [remaining EXCEPT ![t] = op[th].msec]
          /\ Owes(th, "add", t)
    /\ UNCHANGED <<list, engine>>

(* restart() of a running timer: the list keeps its order.                 *)
restartRunning(th, t) ==
    /\ MayCall(th)
    /\ running[t]
    /\ "restartAnywhere" \in Calls \/ (th = Loop /\ phase = "call")
    /\ count' = [count EXCEPT ![t] = 0]
    /\ remaining' = [remaining EXCEPT ![t] = interval[t]]
    /\ UNCHANGED <<list, interval, repeats, running, engine, op>>

restartStopped(th, t) == start(th, t, interval[t], repeats[t])

stopFlagOnly(th, t) ==      \* mutant: stop() leaves the timer in the list
    /\ MayCall(th)
    /\ running' = [running EXCEPT ![t] = FALSE]
    /\ UNCHANGED <<list, interval, repeats, count, remaining, engine, op>>

stop(th, t) ==
    /\ MayCall(th)
    /\ running' = [running EXCEPT ![t] = FALSE]
    /\ Owes(th, "remove", t)
    /\ UNCHANGED <<list, interval, repeats, count, remaining, engine>>

setInterval(th, t, ms) ==
    /\ MayCall(th)
    /\ interval' = [interval EXCEPT ![t] = ms]
    /\ UNCHANGED <<list, repeats, count, running, remaining, engine, op>>

(* The limit of a timer that runs is set only with "setRepeatsAnywhere":   *)
(* below the current count it would not be met any more.                   *)
setRepeats(th, t, n) ==
    /\ MayCall(th)
    /\ "setRepeatsAnywhere" \in Calls \/ ~ running[t]
    /\ repeats' = [repeats EXCEPT ![t] = n]
    /\ UNCHANGED <<list, interval, count, running, remaining, engine, op>>

(***************************************************************************)
(* Engine::addTimer and Engine::removeTimer.  The lock is recursive and    *)
(* the loop holds it while a timer fires.  addTimer ends with WakeUp,      *)
(* which reaches the loop only if it is waiting by then.                   *)
(***************************************************************************)
LockFree(th) == phase = "call" => th = Loop

addTimerTwice(th) ==        \* mutant: the search for the timer is dropped
    /\ op[th].kind = "add" /\ LockFree(th)
    /\ list' \in sorted(Append(list, op[th].timer), remaining)
    /\ phase' = IF phase = "waiting" THEN "handlers" ELSE phase
    /\ op' = [op EXCEPT ![th] = NoOp]
    /\ UNCHANGED <<fields, remaining, sleep>>

addTimer(th) ==
    /\ op[th].kind = "add" /\ LockFree(th)
    /\ op' = [op EXCEPT ![th] = NoOp]
    /\ IF op[th].timer \in Listed
       THEN UNCHANGED <<list, phase>>
       ELSE /\ list' \in sorted(Append(list, op[th].timer), remaining)
            /\ phase' = IF phase = "waiting" THEN "handlers" ELSE phase
    /\ UNCHANGED <<fields, remaining, sleep>>

removeTimer(th) ==
    /\ op[th].kind = "remove" /\ LockFree(th)
    /\ op' = [op EXCEPT ![th] = NoOp]
    /\ \/ op[th].timer \notin Listed /\ UNCHANGED list
       \/ \E i \in DOMAIN list :
             /\ list[i] = op[th].timer
             /\ list' \in sorted(RemoveAt(list, i), remaining)
    /\ UNCHANGED <<fields, remaining, engine>>

-------------------------------------------------------------------------------
(***************************************************************************)
(* Engine::runTimers.  A cycle fires or retires at most the first timer.   *)
(***************************************************************************)
Due(t) == remaining[t] <= 0

timeoutAsIs(l, rem) ==     \* mutant: no lower bound; below 0 the wait does not end
    LET wanted == IF l = <<>> THEN IdleTimeout ELSE rem[l[1]]
    IN  IF wanted > LongestTimeout THEN LongestTimeout ELSE wanted

timeoutOf(l, rem) ==
    LET wanted == IF l = <<>> THEN IdleTimeout ELSE rem[l[1]]
    IN  IF wanted < 1 THEN 1
        ELSE IF wanted > LongestTimeout THEN LongestTimeout ELSE wanted

ReturnTimeout(lists, rem) ==
    /\ list' \in lists
    /\ sleep' = timeoutOf(list', rem)
    /\ phase' = "ready"

runTimersEarly ==
    /\ phase = "run"
    /\ list # <<>> => ~Due(list[1])
    /\ ReturnTimeout({list}, remaining)
    /\ UNCHANGED <<fields, remaining, op>>

(* funck(): the timer has run as often as it was asked to.                 *)
SpentAlways(t) == repeats[t] # 0 /\ count[t] > repeats[t]   \* mutant: off by one

Spent(t) == repeats[t] # 0 /\ repeats[t] = count[t]

runTimersRetires ==
    /\ list # <<>> /\ Due(list[1]) /\ Spent(list[1])
    /\ phase = "run"
    /\ running' = [running EXCEPT ![list[1]] = FALSE]
    /\ ReturnTimeout(sorted(Tail(list), remaining), remaining)
    /\ UNCHANGED <<interval, repeats, count, remaining, op>>

(* funck(): the next expiry is fixed before the user code runs.            *)
fire ==
    /\ list # <<>> /\ Due(list[1]) /\ ~Spent(list[1])
    /\ phase = "run"
    /\ remaining' = [remaining EXCEPT ![list[1]] = interval[list[1]]]
    /\ count' = [count EXCEPT ![list[1]] = IF @ < CountCap THEN @ + 1 ELSE @]
    /\ phase' = "call"
    /\ UNCHANGED <<list, interval, repeats, running, sleep, op>>

fired ==
    /\ phase = "call"
    /\ op[Loop] = NoOp
    /\ ReturnTimeout(sorted(list, remaining), remaining)
    /\ UNCHANGED <<fields, remaining, op>>

(***************************************************************************)
(* The rest of a cycle: the event buffer is waited on unless there is      *)
(* something to do already, the wait ends with an event or at its timeout, *)
(* and the handlers run.                                                   *)
(***************************************************************************)
waitForEvents ==
    /\ phase = "ready"
    /\ \/ phase' = "waiting" /\ UNCHANGED sleep
       \/ phase' = "handlers" /\ sleep' = 0
    /\ UNCHANGED <<list, fields, remaining, op>>

WakeByEvent ==
    /\ phase = "waiting"
    /\ phase' = "handlers"
    /\ sleep' = 0
    /\ UNCHANGED <<list, fields, remaining, op>>

WakeByTimeout ==
    /\ phase = "waiting"
    /\ sleep = 0
    /\ phase' = "handlers"
    /\ UNCHANGED <<list, fields, remaining, sleep, op>>

NextCycle ==
    /\ phase = "handlers"
    /\ op[Loop] = NoOp
    /\ phase' = "run"
    /\ UNCHANGED <<list, fields, remaining, sleep, op>>

(* A millisecond passes; a wait does not outlast its timeout.  The expiry   *)
(* of a timer that neither runs nor is listed is not looked at again.      *)
Active == {t \in TimerSet : running[t] \/ t \in Listed}

Tick ==
    /\ phase = "waiting" => sleep > 0
    /\ \A t \in Active : remaining[t] > -MaxLate \/ (phase = "waiting" /\ t \in Listed)
    /\ remaining' = [t \in TimerSet |->
                        IF t \in Active THEN remaining[t] - 1 ELSE 0]
    /\ sleep' = IF phase = "waiting" THEN sleep - 1 ELSE sleep
    /\ UNCHANGED <<list, fields, phase, op>>

-------------------------------------------------------------------------------
UserCall(th, t) ==
    \/ "start" \in Calls /\ \E ms \in Intervals, n \in RepeatCounts : start(th, t, ms, n)
    \/ "restart" \in Calls /\ (restartRunning(th, t) \/ restartStopped(th, t))
    \/ "stop" \in Calls /\ stop(th, t)
    \/ "setInterval" \in Calls /\ \E ms \in Intervals : setInterval(th, t, ms)
    \/ "setRepeats" \in Calls /\ \E n \in RepeatCounts : setRepeats(th, t, n)

LoopStep ==
    \/ runTimersEarly \/ runTimersRetires \/ fire \/ fired
    \/ waitForEvents \/ WakeByTimeout \/ NextCycle

Next ==
    \/ \E th \in Threads, t \in TimerSet : UserCall(th, t)
    \/ \E th \in Threads : startFields(th) \/ addTimer(th) \/ removeTimer(th)
    \/ LoopStep \/ WakeByEvent \/ Tick

Spec == Init /\ [][Next]_vars

(***************************************************************************)
(* The loop goes round (callbacks and handlers return), calls of the timer *)
(* interface return, and time passes.                                      *)
(***************************************************************************)
FairSpec ==
    /\ Spec
    /\ SF_vars(fired) /\ SF_vars(NextCycle)
    /\ WF_vars(LoopStep)
    /\ WF_vars(Tick)
    /\ \A th \in Threads :
          WF_vars(startFields(th)) /\ SF_vars(addTimer(th)) /\ SF_vars(removeTimer(th))

-------------------------------------------------------------------------------
(***************************************************************************)
(* A timer is in the list at most once, whichever threads start it, so it  *)
(* never fires twice for one expiry.                                       *)
(***************************************************************************)
ListedOnce == \A i, j \in DOMAIN list : list[i] = list[j] => i = j

(***************************************************************************)
(* When one thread uses the timers, the flag each Timer reports and the    *)
(* engine's list agree whenever no call is under way.                      *)
(***************************************************************************)
RunningIffListed ==
    (\A th \in Threads : op[th] = NoOp) => \A t \in TimerSet : running[t] <=> t \in Listed

(* The state of the timers is well formed, and the list and the flags of   *)
(* the timers agree between calls.                                         *)
ListKept == TypeOK /\ RunningIffListed

(***************************************************************************)
(* "Sets number of times to execute timer" (Timer::setRepeats): a timer    *)
(* with a limit does not fire once it has run that often since its start.  *)
(***************************************************************************)
FiresWithinLimit ==
    fire => LET t == list[1] IN repeats[t] = 0 \/ count[t] < repeats[t]

RepeatsRespected == [][FiresWithinLimit]_vars

(***************************************************************************)
(* "returns a timeout for next interval in ms" (Engine::runTimers): the    *)
(* loop is never told to sleep past the expiry of a listed timer.          *)
(***************************************************************************)
TimeoutReachesNext ==
    phase # "ready" /\ phase' = "ready" =>
        \A t \in Listed' : sleep' <= 1 \/ sleep' <= remaining'[t]

TimeoutIsNext == [][TimeoutReachesNext]_vars

(***************************************************************************)
(* No starvation: although a cycle fires one timer only, a timer that is   *)
(* due fires, is restarted or is stopped.                                  *)
(***************************************************************************)
DueTimersFire ==
    \A t \in TimerSet : (t \in Listed /\ Due(t)) ~> (t \notin Listed \/ ~Due(t))

===============================================================================
