----------------------------- MODULE Timers_proofs -----------------------------
(***************************************************************************)
(* The timers of the engine. That none is listed twice holds for any       *)
(* number of threads. The rest is proved for the one thread that the       *)
(* timers are written for, the main loop's, in its callbacks and handlers  *)
(* (Helpers = {}): with a second one the flag of a timer and the list come *)
(* apart between two calls. Agreed, WithinLimit and SortedList are         *)
(* inductive together with Once; each theorem uses the weakest of them.    *)
(***************************************************************************)
EXTENDS Timers, SequenceLemmas, TLAPS

-------------------------------------------------------------------------------
(* What sorting and erasing do to a list of timers.                        *)

(* A sorted list has the same timers, none of them twice if none was, and  *)
(* no timer behind one that expires later.                                 *)
LEMMA SortedType ==
    ASSUME NEW s \in Seq(TimerSet), NEW rem \in [TimerSet -> Int], NEW l \in sorted(s, rem)
    PROVE  /\ l \in Seq(TimerSet) /\ Len(l) = Len(s)
           /\ ToSet(l) = ToSet(s)
           /\ IsInjective(s) => IsInjective(l)
           /\ \A i, j \in DOMAIN l : i < j => rem[l[i]] <= rem[l[j]]
<1>1. PICK p \in orders(s, rem) : l = [i \in DOMAIN s |-> s[p[i]]]
  BY DEF sorted
<1>2. /\ p \in [DOMAIN s -> DOMAIN s] /\ \A i, j \in DOMAIN s : p[i] = p[j] => i = j
      /\ \A k \in DOMAIN s : \E i \in DOMAIN s : p[i] = k
  BY <1>1 DEF orders, Bijection, Injection, Surjection, IsInjective
<1>3. \A i, j \in DOMAIN s : i < j => \/ rem[s[p[i]]] < rem[s[p[j]]]
                                      \/ rem[s[p[i]]] = rem[s[p[j]]]
  BY <1>1 DEF orders
<1>4. Len(s) \in Nat /\ DOMAIN s = 1 .. Len(s) /\ \A i \in DOMAIN s : s[i] \in TimerSet
  OBVIOUS
<1>5. l \in Seq(TimerSet) /\ Len(l) = Len(s) /\ DOMAIN l = DOMAIN s
  <2>1. l \in [1 .. Len(s) -> TimerSet]
    BY <1>1, <1>2, <1>4
  <2>2. QED
    BY <1>4, <2>1
<1>6. \A i \in DOMAIN s : p[i] \in DOMAIN s /\ l[i] = s[p[i]]
  BY <1>1, <1>2
<1>7. ToSet(l) = ToSet(s)
  BY <1>2, <1>5, <1>6 DEF ToSet
<1>8. IsInjective(s) => IsInjective(l)
  BY <1>2, <1>5, <1>6 DEF IsInjective
<1>9. ASSUME NEW i \in DOMAIN l, NEW j \in DOMAIN l, i < j
      PROVE  rem[l[i]] <= rem[l[j]]
  <2>1. \/ rem[s[p[i]]] < rem[s[p[j]]]
        \/ rem[s[p[i]]] = rem[s[p[j]]]
    BY <1>3, <1>5, <1>9
  <2>2. l[i] = s[p[i]] /\ l[j] = s[p[j]] /\ s[p[i]] \in TimerSet /\ s[p[j]] \in TimerSet
    BY <1>4, <1>5, <1>6
  <2>3. QED
    BY <2>1, <2>2
<1>10. QED
  BY <1>5, <1>7, <1>8, <1>9

(* A list without one of its timers.                                       *)
LEMMA ErasedType ==
    ASSUME NEW s \in Seq(TimerSet), NEW i \in DOMAIN s
    PROVE  /\ RemoveAt(s, i) \in Seq(TimerSet)
           /\ IsInjective(s) => /\ IsInjective(RemoveAt(s, i))
                                /\ ToSet(RemoveAt(s, i)) = ToSet(s) \ {s[i]}
BY RemovedAt, RemovedOnce

-------------------------------------------------------------------------------
(* For any number of threads: types, and no timer listed twice.            *)

Once == TypeOK /\ IsInjective(list)

(* The fields of what a thread owes.                                       *)
LEMMA OpTypes ==
    ASSUME TypeOK, NEW th \in Threads
    PROVE  /\ op[th] \in Ops
           /\ op[th].kind = "start" => /\ op[th].timer \in TimerSet
                                       /\ op[th].msec \in Nat \ {0}
                                       /\ op[th].repeats \in Nat
           /\ op[th].kind \in {"add", "remove"} => op[th].timer \in TimerSet
           /\ op[th].kind \in {"none", "start", "add", "remove"}
           /\ op[th].kind = "none" => op[th] = NoOp
<1>1. op[th] \in Ops
  BY DEF TypeOK
<1>2. CASE op[th] = NoOp
  BY <1>1, <1>2 DEF NoOp
<1>3. CASE op[th] \in [kind: {"start"}, timer: TimerSet, msec: Nat \ {0}, repeats: Nat]
  BY <1>1, <1>3
<1>4. CASE op[th] \in [kind: {"add", "remove"}, timer: TimerSet]
  BY <1>1, <1>4
<1>5. QED
  BY <1>1, <1>2, <1>3, <1>4 DEF Ops

(* What a step puts into op is an operation.                               *)
LEMMA OpsMade ==
    /\ NoOp \in Ops
    /\ \A k \in {"add", "remove"}, t \in TimerSet : [kind |-> k, timer |-> t] \in Ops
    /\ \A t \in TimerSet, ms \in Nat \ {0}, n \in Nat :
          [kind |-> "start", timer |-> t, msec |-> ms, repeats |-> n] \in Ops
BY DEF Ops

(* The timeout of a wait is within its bounds.                             *)
LEMMA TimeoutType ==
    ASSUME NEW l \in Seq(TimerSet), NEW rem \in [TimerSet -> Int]
    PROVE  /\ timeoutOf(l, rem) \in 1 .. LongestTimeout
           /\ l # <<>> => timeoutOf(l, rem) <= 1 \/ timeoutOf(l, rem) <= rem[l[1]]
<1>1. l # <<>> => l[1] \in TimerSet
  OBVIOUS
<1>2. LongestTimeout \in Nat \ {0} /\ IdleTimeout \in Nat \ {0}
  BY TimersAssumption
<1>3. QED
  BY <1>1, <1>2 DEF timeoutOf

(* The calls of Timer do not touch the list.                               *)
LEMMA UserCallOnce ==
    ASSUME Once, NEW th \in Threads, NEW t \in TimerSet, UserCall(th, t)
    PROVE  Once'
<1>1. /\ list \in Seq(TimerSet) /\ IsInjective(list)
      /\ interval \in [TimerSet -> Nat \ {0}] /\ repeats \in [TimerSet -> Nat]
      /\ count \in [TimerSet -> 0 .. CountCap] /\ running \in [TimerSet -> BOOLEAN]
      /\ remaining \in [TimerSet -> Int] /\ op \in [Threads -> Ops]
      /\ phase \in Phases /\ sleep \in 0 .. LongestTimeout
  BY DEF Once, TypeOK
<1>2. /\ Intervals \subseteq Nat \ {0} /\ RepeatCounts \subseteq Nat /\ CountCap \in Nat
  BY TimersAssumption
<1>3. ASSUME NEW ms \in Nat \ {0}, NEW n \in Nat, start(th, t, ms, n)
      PROVE  Once'
  <2>1. [kind |-> "start", timer |-> t, msec |-> ms, repeats |-> n] \in Ops
    BY OpsMade
  <2>2. op' \in [Threads -> Ops]
    BY <1>1, <1>3, <2>1 DEF start
  <2>3. QED
    BY <1>1, <1>3, <2>2 DEF start, Once, TypeOK, fields, engine
<1>4. CASE restartRunning(th, t)
  <2>1. count' \in [TimerSet -> 0 .. CountCap] /\ remaining' \in [TimerSet -> Int]
    BY <1>1, <1>2, <1>4 DEF restartRunning
  <2>2. QED
    BY <1>1, <1>4, <2>1 DEF restartRunning, Once, TypeOK, engine
<1>5. CASE restartStopped(th, t)
  BY <1>1, <1>3, <1>5 DEF restartStopped
<1>6. CASE stop(th, t)
  <2>1. running' \in [TimerSet -> BOOLEAN] /\ op' \in [Threads -> Ops]
    BY <1>1, <1>6, OpsMade DEF stop, Owes
  <2>2. QED
    BY <1>1, <1>6, <2>1 DEF stop, Once, TypeOK, engine
<1>7. ASSUME NEW ms \in Intervals, setInterval(th, t, ms)
      PROVE  Once'
  BY <1>1, <1>2, <1>7 DEF setInterval, Once, TypeOK, engine
<1>8. ASSUME NEW n \in RepeatCounts, setRepeats(th, t, n)
      PROVE  Once'
  BY <1>1, <1>2, <1>8 DEF setRepeats, Once, TypeOK, engine
<1>9. QED
  BY <1>2, <1>3, <1>4, <1>5, <1>6, <1>7, <1>8 DEF UserCall

(* The engine's list after a timer was added to it.                        *)
LEMMA AddedOnce ==
    ASSUME Once, NEW t \in TimerSet, t \notin Listed,
           list' \in sorted(Append(list, t), remaining)
    PROVE  list' \in Seq(TimerSet) /\ IsInjective(list') /\ Listed' = Listed \cup {t}
<1>1. list \in Seq(TimerSet) /\ IsInjective(list) /\ remaining \in [TimerSet -> Int]
  BY DEF Once, TypeOK
<1> DEFINE s == Append(list, t)
<1>2. /\ s \in Seq(TimerSet) /\ Len(list) \in Nat
      /\ DOMAIN list = 1 .. Len(list) /\ DOMAIN s = 1 .. Len(list) + 1
      /\ \A i \in 1 .. Len(list) : s[i] = list[i]
      /\ s[Len(list) + 1] = t
  BY <1>1, AppendProperties
<1> HIDE DEF s
<1>3. IsInjective(s)
  BY <1>1, <1>2 DEF IsInjective, Listed
<1>4. ToSet(s) = Listed \cup {t}
  BY <1>2 DEF ToSet, Listed
<1>5. /\ list' \in Seq(TimerSet) /\ ToSet(list') = ToSet(s)
      /\ IsInjective(list')
  <2>1. list' \in sorted(s, remaining)
    BY DEF s
  <2>2. QED
    BY <1>1, <1>2, <1>3, <2>1, SortedType
<1>6. QED
  BY <1>4, <1>5 DEF ToSet, Listed

(* And after one was erased.                                               *)
LEMMA ErasedOnce ==
    ASSUME Once, NEW i \in DOMAIN list, list' \in sorted(RemoveAt(list, i), remaining)
    PROVE  list' \in Seq(TimerSet) /\ IsInjective(list') /\ Listed' = Listed \ {list[i]}
<1>1. list \in Seq(TimerSet) /\ IsInjective(list) /\ remaining \in [TimerSet -> Int]
  BY DEF Once, TypeOK
<1> DEFINE s == RemoveAt(list, i)
<1>2. s \in Seq(TimerSet) /\ IsInjective(s) /\ ToSet(s) = ToSet(list) \ {list[i]}
  BY <1>1, ErasedType
<1> HIDE DEF s
<1>3. /\ list' \in Seq(TimerSet) /\ ToSet(list') = ToSet(s) /\ IsInjective(list')
  <2>1. list' \in sorted(s, remaining)
    BY DEF s
  <2>2. QED
    BY <1>1, <1>2, <2>1, SortedType
<1>4. QED
  BY <1>2, <1>3 DEF ToSet, Listed

(* And after the first one was taken off, and when it was only sorted.     *)
LEMMA RetiredOnce ==
    ASSUME Once, list # <<>>, list' \in sorted(Tail(list), remaining)
    PROVE  list' \in Seq(TimerSet) /\ IsInjective(list') /\ Listed' = Listed \ {list[1]}
<1>1. list \in Seq(TimerSet) /\ IsInjective(list) /\ remaining \in [TimerSet -> Int]
  BY DEF Once, TypeOK
<1> DEFINE s == Tail(list)
<1>2. /\ s \in Seq(TimerSet) /\ Len(list) \in Nat \ {0} /\ DOMAIN list = 1 .. Len(list)
      /\ DOMAIN s = 1 .. Len(list) - 1
      /\ \A i \in DOMAIN s : s[i] = list[i + 1]
  BY <1>1, HeadTailProperties
<1> HIDE DEF s
<1>3. \A i, j \in DOMAIN list : list[i] = list[j] => i = j
  BY <1>1 DEF IsInjective
<1>4. IsInjective(s)
  BY <1>2, <1>3 DEF IsInjective
<1>5. ToSet(s) = ToSet(list) \ {list[1]}
  <2>1. ASSUME NEW i \in DOMAIN s
        PROVE  s[i] \in ToSet(list) \ {list[1]}
    <3>1. i + 1 \in DOMAIN list /\ i + 1 # 1 /\ 1 \in DOMAIN list
      BY <1>2
    <3>2. QED
      BY <1>2, <1>3, <3>1 DEF ToSet
  <2>2. ASSUME NEW i \in DOMAIN list, list[i] # list[1]
        PROVE  list[i] \in ToSet(s)
    <3>1. i - 1 \in DOMAIN s /\ (i - 1) + 1 = i
      BY <1>2, <2>2
    <3>2. QED
      BY <1>2, <3>1 DEF ToSet
  <2>3. QED
    BY <2>1, <2>2 DEF ToSet
<1>6. /\ list' \in Seq(TimerSet) /\ ToSet(list') = ToSet(s) /\ IsInjective(list')
  <2>1. list' \in sorted(s, remaining)
    BY DEF s
  <2>2. QED
    BY <1>1, <1>2, <1>4, <2>1, SortedType
<1>7. QED
  BY <1>5, <1>6 DEF ToSet, Listed

(* Sorting the list again lists no timer twice.                            *)
LEMMA ResortedOnce ==
    ASSUME Once, list' \in sorted(list, remaining)
    PROVE  list' \in Seq(TimerSet) /\ IsInjective(list') /\ Listed' = Listed
BY SortedType DEF Once, TypeOK, ToSet, Listed

(* The first state: no timer is listed.                                    *)
LEMMA OnceInit == Init => Once
<1> SUFFICES ASSUME Init PROVE Once
  OBVIOUS
<1>1. list \in Seq(TimerSet) /\ IsInjective(list)
  BY DEF Init, IsInjective
<1>2. DefaultInterval \in Nat \ {0} /\ CountCap \in Nat /\ LongestTimeout \in Nat
  BY TimersAssumption
<1>3. op \in [Threads -> Ops]
  BY OpsMade DEF Init
<1>4. QED
  BY <1>1, <1>2, <1>3 DEF Init, Once, TypeOK, Phases

(* Engine::runTimers returns: the list is one of `lists`.                  *)
LEMMA ReturnTypes ==
    ASSUME Once, NEW lists, ReturnTimeout(lists, remaining), list' \in Seq(TimerSet)
    PROVE  /\ sleep' \in 0 .. LongestTimeout /\ sleep' \in Nat
           /\ phase' = "ready" /\ phase' \in Phases
           /\ list' # <<>> => sleep' <= 1 \/ sleep' <= remaining[list'[1]]
<1>1. sleep' = timeoutOf(list', remaining) /\ remaining \in [TimerSet -> Int]
  BY DEF ReturnTimeout, Once, TypeOK
<1>2. LongestTimeout \in Nat
  BY TimersAssumption
<1>3. QED
  BY <1>1, <1>2, TimeoutType DEF ReturnTimeout, Phases

(* Every step keeps the types and lists no timer twice.                    *)
LEMMA OnceStep == Once /\ [Next]_vars => Once'
<1> SUFFICES ASSUME Once, [Next]_vars PROVE Once'
  OBVIOUS
<1>0. /\ list \in Seq(TimerSet) /\ IsInjective(list)
      /\ interval \in [TimerSet -> Nat \ {0}] /\ repeats \in [TimerSet -> Nat]
      /\ count \in [TimerSet -> 0 .. CountCap] /\ running \in [TimerSet -> BOOLEAN]
      /\ remaining \in [TimerSet -> Int] /\ op \in [Threads -> Ops]
      /\ phase \in Phases /\ sleep \in 0 .. LongestTimeout
      /\ CountCap \in Nat /\ LongestTimeout \in Nat
      /\ list # <<>> => list[1] \in TimerSet
  BY TimersAssumption DEF Once, TypeOK
<1>1. ASSUME NEW th \in Threads, NEW t \in TimerSet, UserCall(th, t)
      PROVE  Once'
  BY <1>1, UserCallOnce
<1>2. ASSUME NEW th \in Threads, startFields(th)
      PROVE  Once'
  <2>1. op[th].timer \in TimerSet /\ op[th].msec \in Nat \ {0} /\ op[th].repeats \in Nat
    BY <1>2, OpTypes DEF startFields, Once
  <2>2. op' \in [Threads -> Ops]
    BY <1>0, <1>2, <2>1, OpsMade DEF startFields, Owes
  <2>3. /\ running' \in [TimerSet -> BOOLEAN] /\ interval' \in [TimerSet -> Nat \ {0}]
        /\ count' \in [TimerSet -> 0 .. CountCap] /\ repeats' \in [TimerSet -> Nat]
        /\ remaining' \in [TimerSet -> Int]
    BY <1>0, <1>2, <2>1 DEF startFields
  <2>4. QED
    BY <1>0, <1>2, <2>2, <2>3 DEF startFields, engine, Once, TypeOK
<1>3. ASSUME NEW th \in Threads, addTimer(th)
      PROVE  Once'
  <2>1. op[th].timer \in TimerSet
    BY <1>3, OpTypes DEF addTimer, Once
  <2>2. op' \in [Threads -> Ops] /\ phase' \in Phases
    BY <1>0, <1>3, OpsMade DEF addTimer, Phases
  <2>3. list' \in Seq(TimerSet) /\ IsInjective(list')
    <3>1. CASE op[th].timer \in Listed
      BY <1>0, <1>3, <3>1 DEF addTimer
    <3>2. CASE op[th].timer \notin Listed
      BY <1>3, <2>1, <3>2, AddedOnce DEF addTimer
    <3>3. QED
      BY <3>1, <3>2
  <2>4. QED
    BY <1>0, <1>3, <2>2, <2>3 DEF addTimer, fields, Once, TypeOK
<1>4. ASSUME NEW th \in Threads, removeTimer(th)
      PROVE  Once'
  <2>1. op' \in [Threads -> Ops]
    BY <1>0, <1>4, OpsMade DEF removeTimer
  <2>2. list' \in Seq(TimerSet) /\ IsInjective(list')
    BY <1>0, <1>4, ErasedOnce DEF removeTimer
  <2>3. QED
    BY <1>0, <1>4, <2>1, <2>2 DEF removeTimer, fields, engine, Once, TypeOK
<1>5. CASE runTimersEarly
  <2>1. list' = list
    BY <1>5 DEF runTimersEarly, ReturnTimeout
  <2>2. ReturnTimeout({list}, remaining) /\ list' \in Seq(TimerSet) /\ IsInjective(list')
    BY <1>0, <1>5, <2>1 DEF runTimersEarly
  <2>3. QED
    BY <1>0, <1>5, <2>2, ReturnTypes DEF runTimersEarly, fields, Once, TypeOK
<1>6. CASE runTimersRetires
  <2>1. list # <<>> /\ ReturnTimeout(sorted(Tail(list), remaining), remaining)
    BY <1>6 DEF runTimersRetires
  <2>2. list' \in Seq(TimerSet) /\ IsInjective(list')
    BY <2>1, RetiredOnce DEF ReturnTimeout
  <2>3. running' \in [TimerSet -> BOOLEAN]
    BY <1>0, <1>6 DEF runTimersRetires
  <2>4. QED
    BY <1>0, <1>6, <2>1, <2>2, <2>3, ReturnTypes DEF runTimersRetires, Once, TypeOK
<1>7. CASE fire
  <2>1. remaining' \in [TimerSet -> Int]
    BY <1>0, <1>7 DEF fire
  <2>2. count' \in [TimerSet -> 0 .. CountCap]
    BY <1>0, <1>7 DEF fire
  <2>3. QED
    BY <1>0, <1>7, <2>1, <2>2 DEF fire, Phases, Once, TypeOK
<1>8. CASE fired
  <2>1. ReturnTimeout(sorted(list, remaining), remaining)
    BY <1>8 DEF fired
  <2>2. list' \in Seq(TimerSet) /\ IsInjective(list')
    BY <2>1, ResortedOnce DEF ReturnTimeout
  <2>3. QED
    BY <1>0, <1>8, <2>1, <2>2, ReturnTypes DEF fired, fields, Once, TypeOK
<1>9. CASE waitForEvents \/ WakeByEvent \/ WakeByTimeout \/ NextCycle
  BY <1>0, <1>9 DEF waitForEvents, WakeByEvent, WakeByTimeout, NextCycle, Phases,
     fields, Once, TypeOK
<1>10. CASE Tick
  <2>1. remaining' \in [TimerSet -> Int] /\ sleep' \in 0 .. LongestTimeout
    BY <1>0, <1>10 DEF Tick
  <2>2. QED
    BY <1>0, <1>10, <2>1 DEF Tick, fields, Once, TypeOK
<1>11. CASE UNCHANGED vars
  BY <1>0, <1>11 DEF vars, fields, engine, Once, TypeOK
<1>12. QED
  BY <1>1, <1>2, <1>3, <1>4, <1>5, <1>6, <1>7, <1>8, <1>9, <1>10, <1>11 DEF Next, LoopStep

(***************************************************************************)
(* Whichever threads start and stop it, a timer is in Engine::_timers at   *)
(* most once (core/Engine.cpp addTimer, removeTimer, runTimers).           *)
(***************************************************************************)
THEOREM TimersOnce == Spec => [](TypeOK /\ ListedOnce)
<1>1. Once => TypeOK /\ ListedOnce
  BY DEF Once, ListedOnce, IsInjective
<1>2. QED
  BY <1>1, OnceInit, OnceStep, PTL DEF Spec

-------------------------------------------------------------------------------
(* One thread uses the timers: the loop's, in its callbacks and handlers.  *)
(* Then a timer is listed exactly while it runs, but for the one whose     *)
(* call is half done; and while a call is half done no cycle begins.       *)

Owed(t) == op[Loop].kind \in {"add", "remove"} /\ op[Loop].timer = t

Agreed ==
    /\ op[Loop] # NoOp => phase \in {"call", "handlers"}
    /\ \A t \in TimerSet : Owed(t) \/ (running[t] <=> t \in Listed)
    /\ op[Loop].kind = "start" => ~ running[op[Loop].timer]
    /\ op[Loop].kind = "add" => running[op[Loop].timer] /\ op[Loop].timer \notin Listed
    /\ op[Loop].kind = "remove" => ~ running[op[Loop].timer]

(* There is one thread, the loop's.                                        *)
LEMMA OneThread ==
    ASSUME Helpers = {}
    PROVE  Threads = {Loop}
BY DEF Threads

(* What is owed is owed by the loop's thread alone.                        *)
LEMMA Owing ==
    ASSUME Once, NEW e \in Ops, op' = [op EXCEPT ![Loop] = e]
    PROVE  op'[Loop] = e
BY DEF Once, TypeOK, Threads

(* When nothing is owed, flags and list agree.                             *)
LEMMA NothingOwed ==
    ASSUME Once, Agreed, op[Loop] = NoOp
    PROVE  \A t \in TimerSet : running[t] <=> t \in Listed
BY DEF Agreed, Owed, NoOp

(* A call of Timer leaves a difference only for what it owes.              *)
LEMMA AgreedCall ==
    ASSUME Helpers = {}, Once, Agreed, NEW t \in TimerSet, UserCall(Loop, t)
    PROVE  Agreed'
<1>1. \A u \in TimerSet : running[u] <=> u \in Listed
  BY NothingOwed DEF UserCall, start, restartRunning, restartStopped, stop, setInterval,
     setRepeats, MayCall
<1>2. phase \in {"call", "handlers"} /\ op[Loop] = NoOp
  BY DEF UserCall, start, restartRunning, restartStopped, stop, setInterval, setRepeats, MayCall
<1>3. ASSUME NEW ms \in Nat \ {0}, NEW n \in Nat, start(Loop, t, ms, n)
      PROVE  Agreed'
  <2>1. op'[Loop] = [kind |-> "start", timer |-> t, msec |-> ms, repeats |-> n]
    BY <1>3, OpsMade, Owing DEF start
  <2>2. op'[Loop].kind = "start" /\ op'[Loop].timer = t
    BY <2>1
  <2>3. UNCHANGED <<list, running, phase>> /\ ~ running[t]
    BY <1>3 DEF start, fields, engine
  <2>4. QED
    BY <1>1, <1>2, <2>2, <2>3 DEF Agreed, Owed, Listed
<1>4. CASE restartRunning(Loop, t) \/ (\E ms \in Intervals : setInterval(Loop, t, ms))
           \/ (\E n \in RepeatCounts : setRepeats(Loop, t, n))
  <2>1. UNCHANGED <<list, running, phase, op>>
    BY <1>4 DEF restartRunning, setInterval, setRepeats, engine
  <2>2. QED
    BY <2>1 DEF Agreed, Owed, Listed
<1>5. CASE stop(Loop, t)
  <2>1. op'[Loop] = [kind |-> "remove", timer |-> t]
    BY <1>5, OpsMade, Owing DEF stop, Owes
  <2>2. op'[Loop].kind = "remove" /\ op'[Loop].timer = t
    BY <2>1
  <2>3. UNCHANGED <<list, phase>> /\ running' = [running EXCEPT ![t] = FALSE]
    BY <1>5 DEF stop, engine
  <2>4. running \in [TimerSet -> BOOLEAN]
    BY DEF Once, TypeOK
  <2>5. ~ running'[t] /\ \A u \in TimerSet \ {t} : running'[u] = running[u]
    BY <2>3, <2>4
  <2>6. QED
    BY <1>1, <1>2, <2>2, <2>3, <2>5 DEF Agreed, Owed, Listed
<1>6. interval[t] \in Nat \ {0} /\ repeats[t] \in Nat
      /\ Intervals \subseteq Nat \ {0} /\ RepeatCounts \subseteq Nat
  BY TimersAssumption DEF Once, TypeOK
<1>7. QED
  BY <1>3, <1>4, <1>5, <1>6 DEF UserCall, restartStopped

(* start() sets the flag of the timer it will list.                        *)
LEMMA AgreedFields ==
    ASSUME Once, Agreed, startFields(Loop)
    PROVE  Agreed'
<1> DEFINE t == op[Loop].timer
<1>1. t \in TimerSet /\ op[Loop].kind = "start" /\ Loop \in Threads
  BY OpTypes DEF startFields, Once, Threads
<1>2. op'[Loop] = [kind |-> "add", timer |-> t]
  BY <1>1, OpsMade, Owing DEF startFields, Owes
<1>3. op'[Loop].kind = "add" /\ op'[Loop].timer = t
  BY <1>2
<1>4. UNCHANGED <<list, phase>> /\ running' = [running EXCEPT ![t] = TRUE]
  BY DEF startFields, engine
<1>5. op[Loop] # NoOp
  BY <1>1 DEF NoOp
<1> HIDE DEF t
<1>6. running'[t] /\ \A u \in TimerSet \ {t} : running'[u] = running[u]
  BY <1>1, <1>4 DEF Once, TypeOK
<1>7. \A u \in TimerSet : running[u] <=> u \in Listed
  BY <1>1 DEF Agreed, Owed
<1>8. t \notin Listed
  BY <1>1, <1>7 DEF Agreed, t
<1>9. QED
  BY <1>3, <1>4, <1>5, <1>6, <1>7, <1>8 DEF Agreed, Owed, Listed

(* The list catches up with the flag.                                      *)
LEMMA AgreedList ==
    ASSUME Once, Agreed, addTimer(Loop) \/ removeTimer(Loop)
    PROVE  Agreed' /\ UNCHANGED phase
<1> DEFINE t == op[Loop].timer
<1>1. t \in TimerSet /\ op[Loop].kind \in {"add", "remove"} /\ Loop \in Threads
  BY OpTypes DEF addTimer, removeTimer, Once, Threads
<1>2. op'[Loop] = NoOp
  BY OpsMade, Owing DEF addTimer, removeTimer
<1>3. op'[Loop].kind = "none"
  BY <1>2 DEF NoOp
<1>4. op[Loop] # NoOp
  BY <1>1 DEF NoOp
<1>5. UNCHANGED <<running, phase>>
  BY <1>4 DEF addTimer, removeTimer, fields, engine, Agreed
<1>6. \A u \in TimerSet \ {t} : running[u] <=> u \in Listed
  BY DEF Agreed, Owed
<1>7. CASE addTimer(Loop)
  <2>1. running[t] /\ t \notin Listed
    BY <1>7 DEF addTimer, Agreed
  <2>2. Listed' = Listed \cup {t}
    BY <1>1, <1>7, <2>1, AddedOnce DEF addTimer
  <2>3. QED
    BY <1>2, <1>3, <1>5, <1>6, <2>1, <2>2 DEF Agreed, Owed
<1>8. CASE removeTimer(Loop)
  <2>1. ~ running[t]
    BY <1>8 DEF removeTimer, Agreed
  <2>2. Listed' = Listed \ {t}
    <3>1. CASE t \in Listed
      <4>1. PICK i \in DOMAIN list : list[i] = t /\ list' \in sorted(RemoveAt(list, i), remaining)
        BY <1>8, <3>1 DEF removeTimer
      <4>2. QED
        BY <4>1, ErasedOnce
    <3>2. CASE t \notin Listed
      BY <1>8, <3>2 DEF removeTimer, Listed
    <3>3. QED
      BY <3>1, <3>2
  <2>3. QED
    BY <1>2, <1>3, <1>5, <1>6, <2>1, <2>2 DEF Agreed, Owed
<1>9. QED
  BY <1>5, <1>7, <1>8

(* Every step keeps flags and list together.                               *)
LEMMA AgreedStep ==
    ASSUME Helpers = {}
    PROVE  Once /\ Agreed /\ [Next]_vars => Agreed'
<1> SUFFICES ASSUME Once, Agreed, [Next]_vars PROVE Agreed'
  OBVIOUS
<1>1. CASE \E th \in Threads, t \in TimerSet : UserCall(th, t)
  BY <1>1, OneThread, AgreedCall
<1>2. CASE \E th \in Threads : startFields(th) \/ addTimer(th) \/ removeTimer(th)
  BY <1>2, OneThread, AgreedFields, AgreedList
<1>3. CASE runTimersRetires
  <2>1. /\ list # <<>> /\ list' \in sorted(Tail(list), remaining) /\ phase = "run"
        /\ running' = [running EXCEPT ![list[1]] = FALSE] /\ op' = op
    BY <1>3 DEF runTimersRetires, ReturnTimeout
  <2>2. op[Loop] = NoOp
    BY <2>1 DEF Agreed
  <2>3. Listed' = Listed \ {list[1]} /\ list[1] \in TimerSet
    BY <2>1, RetiredOnce DEF Once, TypeOK
  <2>4. ~ running'[list[1]] /\ \A u \in TimerSet \ {list[1]} : running'[u] = running[u]
    BY <2>1, <2>3 DEF Once, TypeOK
  <2>5. \A u \in TimerSet : running'[u] <=> u \in Listed'
    BY <2>2, <2>3, <2>4, NothingOwed
  <2>6. op'[Loop] = NoOp /\ NoOp.kind = "none"
    BY <2>1, <2>2 DEF NoOp
  <2>7. QED
    BY <2>5, <2>6 DEF Agreed
<1>4. CASE runTimersEarly
  <2>1. list' = list /\ op' = op /\ running' = running /\ phase = "run"
    BY <1>4 DEF runTimersEarly, ReturnTimeout, fields
  <2>2. op[Loop] = NoOp
    BY <2>1 DEF Agreed
  <2>3. QED
    BY <2>1, <2>2 DEF Agreed, Owed, Listed
<1>5. CASE fired
  <2>1. list' \in sorted(list, remaining) /\ op' = op /\ running' = running /\ op[Loop] = NoOp
    BY <1>5 DEF fired, ReturnTimeout, fields
  <2>2. Listed' = Listed
    BY <2>1, ResortedOnce
  <2>3. QED
    BY <2>1, <2>2 DEF Agreed, Owed
<1>6. CASE fire \/ waitForEvents \/ WakeByEvent \/ WakeByTimeout \/ NextCycle \/ Tick
  <2>1. UNCHANGED <<list, running, op>> /\ (op[Loop] # NoOp => phase' = phase)
    BY <1>6 DEF fire, waitForEvents, WakeByEvent, WakeByTimeout, NextCycle, Tick, fields, Agreed
  <2>2. QED
    BY <2>1 DEF Agreed, Owed, Listed
<1>7. CASE UNCHANGED vars
  BY <1>7 DEF vars, fields, engine, Agreed, Owed, Listed
<1>8. QED
  BY <1>1, <1>2, <1>3, <1>4, <1>5, <1>6, <1>7 DEF Next, LoopStep

(* The first state: no timer runs and none is listed.                      *)
LEMMA AgreedInit == Init => Agreed
<1> SUFFICES ASSUME Init PROVE Agreed
  OBVIOUS
<1>1. op[Loop] = NoOp /\ NoOp.kind = "none" /\ Listed = {}
  BY DEF Init, Threads, NoOp, Listed
<1>2. \A t \in TimerSet : ~ running[t]
  BY DEF Init
<1>3. QED
  BY <1>1, <1>2 DEF Agreed

(***************************************************************************)
(* With one thread the _running flags of the timers and the engine's list  *)
(* agree whenever no call is under way: a timer that stops is not fired,   *)
(* one that runs is not forgotten (lib/Timer.cpp start, stop, funck).      *)
(***************************************************************************)
THEOREM ListIsKept ==
    ASSUME Helpers = {}
    PROVE  Spec => []ListKept
<1>1. Once /\ Agreed => ListKept
  <2>1. Loop \in Threads
    BY DEF Threads
  <2>2. QED
    BY <2>1, NothingOwed DEF ListKept, Once, RunningIffListed
<1>2. Init => Once /\ Agreed
  BY OnceInit, AgreedInit
<1>3. Once /\ Agreed /\ [Next]_vars => (Once /\ Agreed)'
  BY OnceStep, AgreedStep
<1>4. QED
  BY <1>1, <1>2, <1>3, PTL DEF Spec

-------------------------------------------------------------------------------
(* A timer that is listed or running has not run more often than its limit;*)
(* the limit is compared with ==, so this takes that the limit of a timer  *)
(* is set only while it is stopped.                                        *)

WithinLimit ==
    \A t \in TimerSet :
        running[t] \/ t \in Listed => repeats[t] = 0 \/ count[t] <= repeats[t]

(* Every step keeps the counts within their limits.                        *)
LEMMA WithinLimitStep ==
    ASSUME Helpers = {}, "setRepeatsAnywhere" \notin Calls
    PROVE  Once /\ Agreed /\ WithinLimit /\ [Next]_vars => WithinLimit'
<1> SUFFICES ASSUME Once, Agreed, WithinLimit, [Next]_vars PROVE WithinLimit'
  OBVIOUS
<1>0. /\ repeats \in [TimerSet -> Nat] /\ count \in [TimerSet -> 0 .. CountCap]
      /\ running \in [TimerSet -> BOOLEAN] /\ CountCap \in Nat
      /\ Threads = {Loop}
  BY TimersAssumption, OneThread DEF Once, TypeOK
<1>1. ASSUME NEW t \in TimerSet, UserCall(Loop, t)
      PROVE  WithinLimit'
  <2>1. CASE \E n \in RepeatCounts : setRepeats(Loop, t, n)
    <3>1. ~ running[t] /\ op[Loop] = NoOp
      BY <2>1 DEF setRepeats, MayCall
    <3>2. t \notin Listed
      BY <3>1, NothingOwed
    <3>3. /\ \A u \in TimerSet \ {t} : repeats'[u] = repeats[u]
          /\ UNCHANGED <<list, running, count>>
      BY <1>0, <2>1 DEF setRepeats
    <3>4. QED
      BY <3>1, <3>2, <3>3 DEF WithinLimit, Listed
  <2>2. CASE restartRunning(Loop, t)
    <3>1. /\ count'[t] = 0 /\ \A u \in TimerSet \ {t} : count'[u] = count[u]
          /\ UNCHANGED <<list, running, repeats>>
      BY <1>0, <2>2 DEF restartRunning
    <3>2. QED
      BY <1>0, <3>1 DEF WithinLimit, Listed
  <2>3. CASE stop(Loop, t)
    <3>1. /\ \A u \in TimerSet : running'[u] => running[u]
          /\ UNCHANGED <<list, count, repeats>>
      BY <1>0, <2>3 DEF stop
    <3>2. QED
      BY <3>1 DEF WithinLimit, Listed
  <2>4. CASE UNCHANGED <<list, running, count, repeats>>
    BY <2>4 DEF WithinLimit, Listed
  <2>5. QED
    BY <1>1, <2>1, <2>2, <2>3, <2>4 DEF UserCall, start, restartStopped, setInterval, fields
<1>2. CASE startFields(Loop)
  <2>1. op[Loop].timer \in TimerSet /\ Loop \in Threads
    BY <1>0, <1>2, OpTypes DEF startFields, Once
  <2>2. /\ count'[op[Loop].timer] = 0 /\ list' = list
        /\ \A u \in TimerSet \ {op[Loop].timer} :
              count'[u] = count[u] /\ repeats'[u] = repeats[u] /\ running'[u] = running[u]
        /\ repeats'[op[Loop].timer] \in Nat
    BY <1>0, <1>2, <2>1, OpTypes DEF startFields, Once
  <2>3. QED
    BY <2>1, <2>2 DEF WithinLimit, Listed
<1>3. CASE addTimer(Loop) \/ removeTimer(Loop)
  <2>1. UNCHANGED <<running, count, repeats>>
    BY <1>3 DEF addTimer, removeTimer, fields
  <2>2. \A u \in TimerSet : u \in Listed' => u \in Listed \/ running[u]
    <3>1. CASE addTimer(Loop)
      <4>1. op[Loop].timer \in TimerSet /\ running[op[Loop].timer]
        BY <1>0, <3>1, OpTypes DEF addTimer, Once, Agreed
      <4>2. op[Loop].timer \notin Listed
        BY <3>1 DEF addTimer, Agreed
      <4>3. Listed' = Listed \cup {op[Loop].timer}
        BY <3>1, <4>1, <4>2, AddedOnce DEF addTimer
      <4>4. QED
        BY <4>1, <4>3
    <3>2. CASE removeTimer(Loop)
      BY <3>2, ErasedOnce DEF removeTimer, Listed
    <3>3. QED
      BY <1>3, <3>1, <3>2
  <2>3. QED
    BY <2>1, <2>2 DEF WithinLimit
<1>4. CASE runTimersRetires
  <2>1. /\ list # <<>> /\ list' \in sorted(Tail(list), remaining)
        /\ running' = [running EXCEPT ![list[1]] = FALSE] /\ UNCHANGED <<count, repeats>>
    BY <1>4 DEF runTimersRetires, ReturnTimeout
  <2>2. Listed' = Listed \ {list[1]}
    BY <2>1, RetiredOnce
  <2>3. \A u \in TimerSet : running'[u] => running[u]
    BY <1>0, <2>1
  <2>4. QED
    BY <2>1, <2>2, <2>3 DEF WithinLimit
<1>5. CASE fire
  <2>1. list # <<>> /\ list[1] \in Listed /\ list[1] \in TimerSet
    BY <1>5 DEF fire, Once, TypeOK, Listed
  <2>2. repeats[list[1]] = 0 \/ count[list[1]] < repeats[list[1]]
    <3>1. ~ Spent(list[1])
      BY <1>5 DEF fire
    <3>2. repeats[list[1]] \in Nat /\ count[list[1]] \in Nat
      BY <1>0, <2>1
    <3>3. QED
      BY <2>1, <3>1, <3>2 DEF Spent, WithinLimit
  <2>3. /\ UNCHANGED <<list, running, repeats>>
        /\ \A u \in TimerSet \ {list[1]} : count'[u] = count[u]
        /\ count'[list[1]] <= count[list[1]] + 1
    BY <1>0, <1>5, <2>1 DEF fire
  <2>4. count'[list[1]] \in Nat /\ count[list[1]] \in Nat /\ repeats[list[1]] \in Nat
    BY <1>0, <1>5, <2>1 DEF fire
  <2>5. QED
    BY <2>2, <2>3, <2>4 DEF WithinLimit, Listed
<1>6. CASE fired
  <2>1. list' \in sorted(list, remaining) /\ UNCHANGED <<running, count, repeats>>
    BY <1>6 DEF fired, ReturnTimeout, fields
  <2>2. Listed' = Listed
    BY <2>1, ResortedOnce
  <2>3. QED
    BY <2>1, <2>2 DEF WithinLimit
<1>7. CASE UNCHANGED <<list, running, count, repeats>>
  BY <1>7 DEF WithinLimit, Listed
<1>8. QED
  BY <1>0, <1>1, <1>2, <1>3, <1>4, <1>5, <1>6, <1>7 DEF Next, LoopStep, runTimersEarly,
     ReturnTimeout, waitForEvents, WakeByEvent, WakeByTimeout, NextCycle, Tick, vars, fields

(***************************************************************************)
(* A timer with a limit never fires once it has run that often, if the     *)
(* limit is set only while it is stopped: funck() compares with ==, so a   *)
(* limit below the count would never be met (lib/Timer.cpp 136).           *)
(***************************************************************************)
THEOREM LimitsRespected ==
    ASSUME Helpers = {}, "setRepeatsAnywhere" \notin Calls
    PROVE  Spec => RepeatsRespected
<1>1. Once /\ WithinLimit => FiresWithinLimit
  <2> SUFFICES ASSUME Once, WithinLimit, fire
               PROVE  repeats[list[1]] = 0 \/ count[list[1]] < repeats[list[1]]
    BY DEF FiresWithinLimit
  <2>1. list # <<>> /\ list[1] \in Listed /\ list[1] \in TimerSet /\ ~ Spent(list[1])
    BY DEF fire, Once, TypeOK, Listed
  <2>2. repeats[list[1]] \in Nat /\ count[list[1]] \in Nat
    BY <2>1, TimersAssumption DEF Once, TypeOK
  <2>3. QED
    BY <2>1, <2>2 DEF Spent, WithinLimit
<1>2. Init => Once /\ Agreed /\ WithinLimit
  <2>1. Init => WithinLimit
    BY DEF Init, WithinLimit
  <2>2. QED
    BY <2>1, OnceInit, AgreedInit
<1>3. Once /\ Agreed /\ WithinLimit /\ [Next]_vars => (Once /\ Agreed /\ WithinLimit)'
  BY OnceStep, AgreedStep, WithinLimitStep
<1>4. QED
  BY <1>1, <1>2, <1>3, PTL DEF Spec, RepeatsRespected

-------------------------------------------------------------------------------
(* The list is sorted whenever a cycle may begin: a running timer changes  *)
(* its expiry in a callback only, after which the cycle sorts.             *)

SortedList ==
    phase # "call" =>
        \A i, j \in DOMAIN list : i < j => remaining[list[i]] <= remaining[list[j]]

(* A list that has just been sorted is sorted.                             *)
LEMMA ListSorted ==
    ASSUME Once, NEW s \in Seq(TimerSet), list' \in sorted(s, remaining)
    PROVE  \A i, j \in DOMAIN list' : i < j => remaining[list'[i]] <= remaining[list'[j]]
BY SortedType DEF Once, TypeOK

(* Every step keeps the list sorted, but for the timer that is being       *)
(* fired.                                                                  *)
LEMMA SortedListStep ==
    ASSUME Helpers = {}, "restartAnywhere" \notin Calls
    PROVE  Once /\ Agreed /\ SortedList /\ [Next]_vars => SortedList'
<1> SUFFICES ASSUME Once, Agreed, SortedList, [Next]_vars PROVE SortedList'
  OBVIOUS
<1>0. /\ remaining \in [TimerSet -> Int] /\ list \in Seq(TimerSet) /\ Threads = {Loop}
      /\ \A i \in DOMAIN list : list[i] \in TimerSet /\ list[i] \in Listed
  BY OneThread DEF Once, TypeOK, Listed
<1>1. CASE UNCHANGED <<list, remaining>> /\ (phase = "call" => phase' = "call")
  BY <1>1 DEF SortedList
<1>2. ASSUME NEW t \in TimerSet, UserCall(Loop, t)
      PROVE  SortedList'
  <2>1. CASE restartRunning(Loop, t)
    BY <2>1 DEF restartRunning, SortedList, engine
  <2>2. CASE ~ restartRunning(Loop, t)
    BY <1>1, <1>2, <2>2 DEF UserCall, start, restartStopped, stop, setInterval, setRepeats,
       engine
  <2>3. QED
    BY <2>1, <2>2
<1>3. CASE startFields(Loop)
  <2>1. op[Loop].kind = "start" /\ op[Loop].timer \in TimerSet
    BY <1>0, <1>3, OpTypes DEF startFields, Once
  <2>2. op[Loop].timer \notin Listed
    BY <2>1 DEF Agreed, Owed
  <2>3. /\ \A u \in TimerSet \ {op[Loop].timer} : remaining'[u] = remaining[u]
        /\ UNCHANGED <<list, phase>>
    BY <1>0, <1>3 DEF startFields, engine
  <2>4. \A i \in DOMAIN list : remaining'[list[i]] = remaining[list[i]]
    BY <1>0, <2>2, <2>3
  <2>5. QED
    BY <2>3, <2>4 DEF SortedList
<1>4. CASE addTimer(Loop)
  <2>1. UNCHANGED phase /\ op[Loop].timer \in TimerSet /\ UNCHANGED remaining
    BY <1>0, <1>4, AgreedList, OpTypes DEF addTimer, Once
  <2>2. op[Loop].timer \notin Listed
    BY <1>4 DEF addTimer, Agreed
  <2>3. Append(list, op[Loop].timer) \in Seq(TimerSet)
    BY <1>0, <2>1, AppendProperties
  <2>4. list' \in sorted(Append(list, op[Loop].timer), remaining)
    BY <1>4, <2>2 DEF addTimer
  <2>5. QED
    BY <2>1, <2>3, <2>4, ListSorted DEF SortedList
<1>5. CASE removeTimer(Loop)
  <2>1. UNCHANGED <<phase, remaining>>
    BY <1>5 DEF removeTimer, engine
  <2>2. CASE \E i \in DOMAIN list : list' \in sorted(RemoveAt(list, i), remaining)
    BY <1>0, <2>1, <2>2, ErasedType, ListSorted DEF SortedList
  <2>3. QED
    BY <1>1, <1>5, <2>1, <2>2 DEF removeTimer
<1>6. CASE runTimersEarly
  BY <1>1, <1>6 DEF runTimersEarly, ReturnTimeout
<1>7. CASE runTimersRetires \/ fired
  <2>1. PICK s \in Seq(TimerSet) : list' \in sorted(s, remaining)
    <3>1. CASE runTimersRetires
      <4>1. list # <<>> /\ list' \in sorted(Tail(list), remaining)
        BY <3>1 DEF runTimersRetires, ReturnTimeout
      <4>2. QED
        BY <1>0, <4>1, HeadTailProperties
    <3>2. CASE fired
      BY <1>0, <3>2 DEF fired, ReturnTimeout
    <3>3. QED
      BY <1>7, <3>1, <3>2
  <2>2. UNCHANGED remaining
    BY <1>7 DEF runTimersRetires, fired
  <2>3. QED
    BY <2>1, <2>2, ListSorted DEF SortedList
<1>8. CASE fire
  BY <1>8 DEF fire, SortedList
<1>9. CASE waitForEvents \/ WakeByEvent \/ WakeByTimeout \/ NextCycle
  BY <1>1, <1>9 DEF waitForEvents, WakeByEvent, WakeByTimeout, NextCycle
<1>10. CASE Tick
  <2>1. UNCHANGED <<list, phase>>
    BY <1>10 DEF Tick
  <2>2. \A i \in DOMAIN list : remaining'[list[i]] = remaining[list[i]] - 1
    BY <1>0, <1>10 DEF Tick, Active
  <2>3. ASSUME phase # "call", NEW i \in DOMAIN list, NEW j \in DOMAIN list, i < j
        PROVE  remaining'[list[i]] <= remaining'[list[j]]
    <3>1. remaining[list[i]] <= remaining[list[j]]
      BY <2>3 DEF SortedList
    <3>2. remaining[list[i]] \in Int /\ remaining[list[j]] \in Int
      BY <1>0
    <3>3. QED
      BY <2>2, <3>1, <3>2
  <2>4. QED
    BY <2>1, <2>3 DEF SortedList
<1>11. CASE UNCHANGED vars
  BY <1>1, <1>11 DEF vars, engine
<1>12. QED
  BY <1>0, <1>2, <1>3, <1>4, <1>5, <1>6, <1>7, <1>8, <1>9, <1>10, <1>11 DEF Next, LoopStep

(* The timeout that a cycle returns ends before the next timer is due.     *)
LEMMA TimeoutReaches ==
    ASSUME Once, (Once /\ SortedList)', phase # "ready", phase' = "ready",
           NEW lists, ReturnTimeout(lists, remaining), remaining' = remaining
    PROVE  TimeoutReachesNext
<1> SUFFICES ASSUME NEW i \in DOMAIN list'
             PROVE  sleep' <= 1 \/ sleep' <= remaining'[list'[i]]
  BY DEF TimeoutReachesNext, Listed
<1>1. list' \in Seq(TimerSet) /\ remaining \in [TimerSet -> Int]
  BY DEF Once, TypeOK
<1>2. i \in Nat \ {0} /\ 1 \in DOMAIN list' /\ list' # <<>>
      /\ list'[1] \in TimerSet /\ list'[i] \in TimerSet
  BY <1>1
<1>3. sleep' <= 1 \/ sleep' <= remaining[list'[1]]
  BY <1>1, <1>2, ReturnTypes
<1>4. i = 1 \/ remaining[list'[1]] <= remaining[list'[i]]
  BY <1>2 DEF SortedList
<1>5. sleep' \in Nat
  BY <1>1, ReturnTypes
<1>6. QED
  BY <1>1, <1>2, <1>3, <1>4, <1>5

(***************************************************************************)
(* The loop is never told to sleep past the expiry of a listed timer, if a *)
(* running timer is restarted only by a callback, after which the list is  *)
(* sorted again: any other restart leaves the list in its old order, which *)
(* the run TimersRestart shows (core/Engine.cpp runTimers).                *)
(***************************************************************************)
THEOREM TimeoutReachesTheNext ==
    ASSUME Helpers = {}, "restartAnywhere" \notin Calls
    PROVE  Spec => TimeoutIsNext
<1> DEFINE I == Once /\ Agreed /\ SortedList
<1>1. Init => I
  <2>1. Init => SortedList
    BY DEF Init, SortedList
  <2>2. QED
    BY <2>1, OnceInit, AgreedInit
<1>2. I /\ [Next]_vars => I'
  BY OnceStep, AgreedStep, SortedListStep
<1>3. I /\ I' /\ [Next]_vars => [TimeoutReachesNext]_vars
  <2> SUFFICES ASSUME I, I', Next, phase # "ready", phase' = "ready"
               PROVE  TimeoutReachesNext
    BY DEF TimeoutReachesNext
  <2>1. runTimersEarly \/ runTimersRetires \/ fired
    BY DEF Next, LoopStep, UserCall, start, restartRunning, restartStopped, stop, setInterval,
       setRepeats, startFields, addTimer, removeTimer, fire, waitForEvents, WakeByEvent,
       WakeByTimeout, NextCycle, Tick, engine
  <2>2. remaining' = remaining /\ \E lists : ReturnTimeout(lists, remaining)
    BY <2>1 DEF runTimersEarly, runTimersRetires, fired
  <2>3. QED
    BY <2>2, TimeoutReaches
<1>4. QED
  BY <1>1, <1>2, <1>3, PTL DEF Spec, TimeoutIsNext
===============================================================================
