----------------------------- MODULE Animations -----------------------------
(***************************************************************************)
(* Animations (lib/Animation) and a sequence of them (AnimationSequence).  *)
(* An animation is a callback of the engine: every turn of the main loop   *)
(* calls funck(), which waits for the delay, steps, and starts over or     *)
(* finishes when its time has passed.  All calls come from the main loop.  *)
(*                                                                         *)
(* Times are kept relative to _delayLast and stop counting one millisecond *)
(* past the end of a loop, beyond which they make no difference.           *)
(***************************************************************************)
EXTENDS Integers, SequencesExt

CONSTANTS
    Single,        \* animations that are used on their own
    Order,         \* the animations of the sequence, each once, as they were
                   \* added; none is in Single or without a Duration
    Delay, Duration, Loops, \* numbers of each animation; Loops 0 is for ever
    StopsBetween,  \* the sequence is stopped between two animations too
    NoAnimation,
    MaxCalls       \* bound on the calls of the application

Animations == Single \cup ToSet(Order)

VARIABLES
    state,       \* Animation::_state
    listed,      \* animations whose callback is in the engine
    since,       \* time since _delayLast
    current,     \* _currentTime
    loop,        \* _currentLoop
    waited,      \* animations whose _delayTime has reached the delay
    played,      \* time since start(), a ghost
    stalled,     \* resumed after the pause had taken the callback out, a ghost
    seqCurrent,  \* AnimationSequence::_current
    looping,     \* AnimationSequence::_looping
    connected,   \* the last animation's end starts the first one
    calls        \* calls of the application so far

timeVars == <<since, current, loop, waited, played>>
seqVars  == <<seqCurrent, looping, connected>>
vars == <<state, listed, stalled, timeVars, seqVars, calls>>

First == Head(Order)
EndOfLoop(a) == Delay[a] + Duration[a] + 1
EndOfPlay(a) == EndOfLoop(a) * Loops[a]

Init ==
    /\ state = [a \in Animations |-> "Stopped"]
    /\ listed = {}
    /\ since = [a \in Animations |-> 0]
    /\ current = [a \in Animations |-> 0]
    /\ loop = [a \in Animations |-> 1]
    /\ waited = {a \in Animations : Delay[a] = 0}
    /\ played = [a \in Animations |-> 0]
    /\ stalled = {}
    /\ seqCurrent = NoAnimation
    /\ looping = FALSE
    /\ connected = FALSE
    /\ calls = 0

-----------------------------------------------------------------------------
(* start() of a set of animations.  The delay is not waited for again: no  *)
(* start resets _delayTime.                                                *)
Started(f, these, v) == [a \in Animations |-> IF a \in these THEN v ELSE f[a]]

startAll(these) ==
    /\ state' = Started(state, these, "Running")
    /\ listed' = listed \cup these
    /\ since' = Started(since, these, 0)
    /\ current' = Started(current, these, 0)
    /\ loop' = Started(loop, these, 1)
    /\ played' = Started(played, these, 0)
    /\ stalled' = stalled \ these
    /\ UNCHANGED waited

(* Mutant: the callback stays in the engine and the state is kept.         *)
stopCallback(a) ==
    /\ listed' = IF state[a] = "Running" THEN listed \ {a} ELSE listed
    /\ UNCHANGED <<state, stalled, timeVars>>

stopOne(a) ==
    /\ IF state[a] = "Running"
       THEN /\ state' = [state EXCEPT ![a] = "Stopped"]
            /\ listed' = listed \ {a}
            /\ stalled' = stalled \ {a}
       ELSE UNCHANGED <<state, listed, stalled>>
    /\ UNCHANGED timeVars

pause(a) ==
    /\ state' = [state EXCEPT ![a] = "Paused"]
    /\ stalled' = stalled \ {a}
    /\ UNCHANGED <<listed, timeVars>>

(* resume() does not start the callback.                                   *)
resume(a) ==
    \/ /\ state[a] = "Paused"
       /\ state' = [state EXCEPT ![a] = "Running"]
       /\ since' = [since EXCEPT ![a] = 0]
       /\ current' = [current EXCEPT ![a] = 0]
       /\ stalled' = IF a \in listed THEN stalled ELSE stalled \cup {a}
       /\ UNCHANGED <<listed, loop, waited, played>>
    \/ /\ state[a] = "Stopped"
       /\ startAll({a})

(* AnimationSequence::start(): refused as long as _current is set, which   *)
(* it stays when the last animation has finished.                          *)
startSequence ==
    /\ seqCurrent = NoAnimation
    /\ seqCurrent' = First
    /\ connected' = (connected \/ looping)
    /\ startAll({First})
    /\ UNCHANGED looping

(* AnimationSequence::stop().  Between the end of an animation and the     *)
(* first step of the next one _current is the one that has ended.          *)
stopSequence ==
    /\ seqCurrent # NoAnimation
    /\ StopsBetween \/ state[seqCurrent] = "Running"
       \/ \A a \in ToSet(Order) : state[a] # "Running"
    /\ seqCurrent' = NoAnimation
    /\ stopOne(seqCurrent)
    /\ UNCHANGED <<looping, connected>>

setLooping ==
    /\ looping' = ~ looping
    /\ UNCHANGED <<state, listed, stalled, timeVars, seqCurrent, connected>>

Call ==
    /\ calls < MaxCalls
    /\ calls' = calls + 1
    /\ \/ \E a \in Single : /\ startAll({a}) \/ stopOne(a) \/ pause(a) \/ resume(a)
                            /\ UNCHANGED seqVars
       \/ startSequence \/ stopSequence \/ setLooping

-----------------------------------------------------------------------------
(* What the end of an animation starts: the next one of the sequence, and  *)
(* after the last one the first if the sequence has ever looped.           *)

Successors(a) ==
    {Order[i + 1] : i \in {j \in DOMAIN Order : j < Len(Order) /\ Order[j] = a}}
    \cup (IF connected /\ a = Last(Order) THEN {First} ELSE {})

(* An animation that is not running leaves the engine; one without a       *)
(* duration stops.                                                         *)
Leave(a) ==
    /\ listed' = listed \ {a}
    /\ state' = IF Duration[a] = 0 THEN [state EXCEPT ![a] = "Stopped"] ELSE state
    /\ UNCHANGED <<stalled, timeVars, seqVars>>

(* Mutant: _delayTime is not kept.                                         *)
WaitForgetting(a) ==
    /\ a \notin waited
    /\ UNCHANGED <<state, listed, stalled, timeVars, seqVars>>

Wait(a) ==
    /\ a \notin waited
    /\ waited' = IF since[a] >= Delay[a] THEN waited \cup {a} ELSE waited
    /\ UNCHANGED <<state, listed, stalled, since, current, loop, played, seqVars>>

(* _currentTime after a step: it runs from the end of the delay.           *)
StepTime(a) == since[a] - Delay[a]

(* The first step emits sigStarted.                                        *)
Step(a) ==
    /\ a \in waited /\ current[a] <= Duration[a]
    /\ current' = [current EXCEPT ![a] = StepTime(a)]
    /\ seqCurrent' = IF current[a] = 0 /\ a \in ToSet(Order) THEN a ELSE seqCurrent
    /\ UNCHANGED <<state, listed, stalled, since, loop, waited, played,
                   looping, connected>>

IsLastLoop(a) == Loops[a] # 0 /\ loop[a] >= Loops[a]

NextLoop(a) ==
    /\ a \in waited /\ current[a] > Duration[a] /\ ~ IsLastLoop(a)
    /\ loop' = [loop EXCEPT ![a] = IF Loops[a] = 0 THEN @ ELSE @ + 1]
    /\ since' = [since EXCEPT ![a] = 0]
    /\ current' = [current EXCEPT ![a] = 0]
    /\ UNCHANGED <<state, listed, stalled, waited, played, seqVars>>

(* sigFinished may start the animation again, which keeps its callback.    *)
Finish(a) ==
    /\ a \in waited /\ current[a] > Duration[a] /\ IsLastLoop(a)
    /\ LET these == Successors(a) IN
       /\ state' = Started([state EXCEPT ![a] = "Stopped"], these, "Running")
       /\ listed' = (listed \ {a}) \cup these
       /\ since' = Started(since, these, 0)
       /\ current' = Started(current, these, 0)
       /\ loop' = Started(loop, these, 1)
       /\ played' = Started(played, these, 0)
       /\ stalled' = stalled \ (these \cup {a})
    /\ UNCHANGED <<waited, seqVars>>

(* funck(), called by the engine.                                          *)
funck(a) ==
    /\ a \in listed
    /\ \/ (state[a] # "Running" \/ Duration[a] = 0) /\ Leave(a)
       \/ /\ state[a] = "Running" /\ Duration[a] # 0
          /\ (Wait(a) \/ Step(a) \/ NextLoop(a) \/ Finish(a))
    /\ UNCHANGED calls

(* A millisecond; nothing reads the clock of an animation that is stopped  *)
(* or has no duration.                                                     *)
Capped(n, cap) == IF n < cap THEN n + 1 ELSE cap

Tick ==
    /\ since' = [a \in Animations |->
          IF state[a] = "Running" /\ Duration[a] # 0 THEN Capped(since[a], EndOfLoop(a))
          ELSE since[a]]
    /\ played' = [a \in Animations |->
          IF state[a] # "Stopped" /\ Duration[a] # 0 THEN Capped(played[a], EndOfPlay(a))
          ELSE played[a]]
    /\ UNCHANGED <<state, listed, stalled, current, loop, waited, seqVars, calls>>

Next == Call \/ (\E a \in Animations : funck(a)) \/ Tick

Spec == Init /\ [][Next]_vars

(* The main loop calls every callback again and again, and time passes.    *)
FairSpec ==
    Spec /\ WF_vars(Tick) /\ \A a \in Animations : WF_vars(funck(a))

-----------------------------------------------------------------------------
TypeOK ==
    /\ state \in [Animations -> {"Running", "Paused", "Stopped"}]
    /\ listed \subseteq Animations /\ waited \subseteq Animations
    /\ stalled \subseteq Animations
    /\ \A a \in Animations :
          /\ since[a] \in 0 .. EndOfLoop(a)
          /\ current[a] \in -Delay[a] .. Duration[a] + 1
          /\ loop[a] \in 1 .. IF Loops[a] = 0 THEN 1 ELSE Loops[a]
          /\ played[a] \in 0 .. EndOfPlay(a)
    /\ seqCurrent \in ToSet(Order) \cup {NoAnimation}
    /\ looping \in BOOLEAN /\ connected \in BOOLEAN
    /\ calls \in 0 .. MaxCalls

(* An animation that runs is called, unless resume() came after a frame of *)
(* the pause: no start, stop or finish in any order leaves one running     *)
(* that the engine has dropped.                                            *)
RunningIsCalled ==
    \A a \in Animations :
        state[a] = "Running" /\ a \notin listed => a \in stalled

(* At most one animation of the sequence runs at a time.                   *)
OneAtATime ==
    \A a, b \in ToSet(Order) :
        state[a] = "Running" /\ state[b] = "Running" => a = b

(* An animation does not finish before it has played all its loops to the  *)
(* end, their delays included, whatever paused it in between.              *)
PlaysToTheEnd ==
    [][\A a \in Animations :
          funck(a) /\ state[a] = "Running" /\ state'[a] = "Stopped"
                   /\ Duration[a] # 0 =>
              played[a] >= Loops[a] * EndOfLoop(a)]_vars

(* An animation with an end finishes once the application leaves it alone. *)
StartedFinishes ==
    \A a \in Animations :
        Loops[a] # 0 /\ state[a] = "Running" ~>
            state[a] # "Running" \/ a \in stalled

(* A sequence that starts comes to its last animation or is stopped.       *)
SequenceReachesEnd ==
    seqCurrent = First ~> seqCurrent \in {Last(Order), NoAnimation}
=============================================================================
