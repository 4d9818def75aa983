---------------------------- MODULE Callbacks_proofs ----------------------------
(***************************************************************************)
(* The list of callbacks, for any number of threads and callbacks: none is *)
(* in it twice, and a callback that reports to be running is in it.  The   *)
(* three conjuncts of IInv are inductive together: a removal takes one     *)
(* occurrence away, which empties the list of the callback only because    *)
(* there was no other.                                                     *)
(***************************************************************************)
EXTENDS Callbacks, TLAPS

IInv == TypeOK /\ ListedOnce /\ RunningIsListed

(* Erase takes away one element and keeps the others.                      *)
LEMMA EraseType ==
    ASSUME NEW s \in Seq(CallbackSet), NEW i \in DOMAIN s
    PROVE  /\ Erase(s, i) \in Seq(CallbackSet)
           /\ Len(Erase(s, i)) = Len(s) - 1
           /\ \A j \in 1 .. Len(s) - 1 :
                 Erase(s, i)[j] = IF j < i THEN s[j] ELSE s[j + 1]
<1> DEFINE e == [j \in 1 .. Len(s) - 1 |-> IF j < i THEN s[j] ELSE s[j + 1]]
<1>1. Len(s) \in Nat \ {0} /\ DOMAIN s = 1 .. Len(s) /\ i \in 1 .. Len(s)
  OBVIOUS
<1>2. e \in [1 .. Len(s) - 1 -> CallbackSet]
  BY <1>1
<1>3. e \in Seq(CallbackSet) /\ Len(e) = Len(s) - 1
  BY <1>1, <1>2
<1>4. QED
  BY <1>3 DEF Erase

(* Erasing from a list without repetitions leaves one without them, that   *)
(* holds what it held but the erased element.                              *)
LEMMA EraseOnce ==
    ASSUME NEW s \in Seq(CallbackSet), NEW i \in DOMAIN s,
           \A j, k \in DOMAIN s : s[j] = s[k] => j = k
    PROVE  /\ \A j, k \in DOMAIN Erase(s, i) : Erase(s, i)[j] = Erase(s, i)[k] => j = k
           /\ \A c : (\E j \in DOMAIN s : s[j] = c) /\ c # s[i]
                 => \E j \in DOMAIN Erase(s, i) : Erase(s, i)[j] = c
<1> DEFINE e == Erase(s, i)
<1>1. /\ Len(s) \in Nat \ {0} /\ DOMAIN s = 1 .. Len(s) /\ i \in 1 .. Len(s)
      /\ DOMAIN e = 1 .. Len(s) - 1
      /\ \A j \in DOMAIN e : e[j] = IF j < i THEN s[j] ELSE s[j + 1]
  <2>1. /\ e \in Seq(CallbackSet) /\ Len(e) = Len(s) - 1
        /\ \A j \in 1 .. Len(s) - 1 : e[j] = IF j < i THEN s[j] ELSE s[j + 1]
    BY EraseType
  <2> HIDE DEF e
  <2>2. Len(s) \in Nat \ {0} /\ DOMAIN s = 1 .. Len(s) /\ i \in 1 .. Len(s)
    OBVIOUS
  <2>3. DOMAIN e = 1 .. Len(s) - 1
    BY <2>1
  <2>4. QED
    BY <2>1, <2>2, <2>3
<1> HIDE DEF e
<1>2. ASSUME NEW j \in DOMAIN e, NEW k \in DOMAIN e, e[j] = e[k]
      PROVE  j = k
  BY <1>1, <1>2
<1>3. ASSUME NEW c, NEW j \in DOMAIN s, s[j] = c, c # s[i]
      PROVE  \E k \in DOMAIN e : e[k] = c
  <2>1. CASE j < i
    BY <1>1, <1>3, <2>1
  <2>2. CASE j > i
    <3>1. j - 1 \in DOMAIN e /\ ~(j - 1 < i) /\ (j - 1) + 1 = j
      BY <1>1, <2>2
    <3>2. e[j - 1] = c
      BY <1>1, <1>3, <3>1
    <3>3. QED
      BY <3>1, <3>2
  <2>3. QED
    BY <1>1, <1>3, <2>1, <2>2
<1>4. QED
  BY <1>2, <1>3 DEF e

(* The removal of a callback keeps the list and the flags consistent.      *)
LEMMA RemovalStep ==
    ASSUME IInv, NEW c \in CallbackSet, removeCallback(c)
    PROVE  /\ callbacks' \in Seq(CallbackSet)
           /\ running' \in [CallbackSet -> BOOLEAN]
           /\ ListedOnce' /\ RunningIsListed'
<1>1. PICK i \in DOMAIN callbacks :
         callbacks[i] = c /\ callbacks' = Erase(callbacks, i)
  BY DEF removeCallback
<1>2. callbacks \in Seq(CallbackSet) /\ running \in [CallbackSet -> BOOLEAN]
  BY DEF IInv, TypeOK
<1>3. running' = [running EXCEPT ![c] = FALSE]
  BY DEF removeCallback
<1>4. callbacks' \in Seq(CallbackSet) /\ running' \in [CallbackSet -> BOOLEAN]
  BY <1>1, <1>2, <1>3, EraseType
<1>5. /\ \A j, k \in DOMAIN callbacks' : callbacks'[j] = callbacks'[k] => j = k
      /\ \A d : (\E j \in DOMAIN callbacks : callbacks[j] = d) /\ d # c
             => \E j \in DOMAIN callbacks' : callbacks'[j] = d
  <2>1. \A j, k \in DOMAIN callbacks : callbacks[j] = callbacks[k] => j = k
    BY DEF IInv, ListedOnce
  <2>2. /\ \A j, k \in DOMAIN Erase(callbacks, i) :
              Erase(callbacks, i)[j] = Erase(callbacks, i)[k] => j = k
        /\ \A d : (\E j \in DOMAIN callbacks : callbacks[j] = d) /\ d # callbacks[i]
              => \E j \in DOMAIN Erase(callbacks, i) : Erase(callbacks, i)[j] = d
    BY <1>2, <2>1, EraseOnce, Zenon
  <2>3. QED
    BY <1>1, <2>2
<1>6. ListedOnce'
  BY <1>5 DEF ListedOnce
<1>7. ASSUME NEW d \in CallbackSet, running'[d]
      PROVE  d \in Listed'
  <2>1. d # c /\ running[d]
    BY <1>2, <1>3, <1>7
  <2>2. \E j \in DOMAIN callbacks : callbacks[j] = d
    BY <2>1 DEF IInv, RunningIsListed, Listed
  <2>3. QED
    BY <1>5, <2>1, <2>2 DEF Listed
<1>8. QED
  BY <1>4, <1>6, <1>7 DEF RunningIsListed

(* The addition of a callback does, too.                                   *)
LEMMA AdditionStep ==
    ASSUME IInv, NEW th \in Threads, addCallback(th)
    PROVE  /\ callbacks' \in Seq(CallbackSet)
           /\ running' \in [CallbackSet -> BOOLEAN]
           /\ ListedOnce' /\ RunningIsListed'
<1> DEFINE c == adding[th][1]
<1>1. /\ callbacks \in Seq(CallbackSet) /\ running \in [CallbackSet -> BOOLEAN]
      /\ DOMAIN callbacks = 1 .. Len(callbacks) /\ Len(callbacks) \in Nat
      /\ c \in CallbackSet
  <2>1. adding[th] \in Adding /\ adding[th] # <<>>
    BY DEF IInv, TypeOK, addCallback
  <2>2. PICK d \in CallbackSet : adding[th] = <<d>>
    BY <2>1 DEF Adding
  <2>3. c = d
    BY <2>2
  <2>4. QED
    BY <2>3 DEF IInv, TypeOK
<1> HIDE DEF c
<1>2. CASE c \in Listed
  <2>1. running' = [running EXCEPT ![c] = TRUE] /\ callbacks' = callbacks
    BY <1>2 DEF addCallback, c
  <2>2. QED
    BY <1>1, <1>2, <2>1 DEF IInv, ListedOnce, RunningIsListed, Listed
<1>3. CASE c \notin Listed
  <2>1. callbacks' = Append(callbacks, c) /\ running' = running
    BY <1>3 DEF addCallback, c
  <2>2. /\ callbacks' \in Seq(CallbackSet)
        /\ DOMAIN callbacks' = 1 .. Len(callbacks) + 1
        /\ callbacks'[Len(callbacks) + 1] = c
        /\ \A j \in DOMAIN callbacks : callbacks'[j] = callbacks[j]
    BY <1>1, <2>1
  <2>3. ListedOnce'
    BY <1>1, <1>3, <2>2 DEF IInv, ListedOnce, Listed
  <2>4. \A d \in Listed : d \in Listed'
    BY <1>1, <2>2 DEF Listed
  <2>5. QED
    BY <1>1, <2>1, <2>2, <2>3, <2>4 DEF IInv, RunningIsListed
<1>4. QED
  BY <1>2, <1>3

(* The rest of the state keeps its type, whatever happens to the list.     *)
LEMMA RestStep ==
    ASSUME IInv, [Next]_vars,
           callbacks' \in Seq(CallbackSet), running' \in [CallbackSet -> BOOLEAN]
    PROVE  TypeOK'
<1> USE DEF IInv, TypeOK
<1>1. CASE \E th \in Threads, c \in CallbackSet : start(th, c)
  BY <1>1 DEF start, ghosts, Adding
<1>2. CASE \E th \in Threads, c \in CallbackSet : startRunning(th, c)
  BY <1>2 DEF startRunning, BeingCalled
<1>3. CASE \E th \in Threads, c \in CallbackSet : stop(th, c)
  BY <1>3 DEF stop
<1>4. CASE \E th \in Threads : addCallback(th)
  <2>1. PICK th \in Threads : addCallback(th)
    BY <1>4
  <2>2. PICK d \in CallbackSet : adding[th] = <<d>>
    BY <2>1 DEF Adding, addCallback
  <2>3. adding[th][1] \in CallbackSet
    BY <2>2
  <2>4. QED
    BY <2>1, <2>3 DEF addCallback, Adding, BeingCalled
<1>5. CASE runCallbacks
  BY <1>5 DEF runCallbacks, ghosts
<1>6. CASE CallNext
  BY <1>6 DEF CallNext
<1>7. CASE GoOn
  BY <1>7 DEF GoOn, ghosts
<1>8. CASE Quit
  BY <1>8 DEF Quit, ghosts
<1>9. CASE EndPass
  BY <1>9 DEF EndPass, ghosts
<1>10. CASE UNCHANGED vars
  BY <1>10 DEF vars, ghosts
<1>11. QED
  BY <1>1, <1>2, <1>3, <1>4, <1>5, <1>6, <1>7, <1>8, <1>9, <1>10 DEF Next, LoopStep

(* No step breaks the invariant.                                           *)
LEMMA StepIInv == IInv /\ [Next]_vars => IInv'
<1> SUFFICES ASSUME IInv, [Next]_vars PROVE IInv'
  OBVIOUS
<1>1. CASE \E th \in Threads : addCallback(th)
  BY <1>1, AdditionStep, RestStep DEF IInv
<1>2. CASE \E c \in CallbackSet : removeCallback(c)
  BY <1>2, RemovalStep, RestStep DEF IInv
<1>3. CASE UNCHANGED <<callbacks, running>>
  <2>1. ListedOnce' /\ RunningIsListed'
    BY <1>3 DEF IInv, ListedOnce, RunningIsListed, Listed
  <2>2. QED
    BY <1>3, <2>1, RestStep DEF IInv, TypeOK
<1>4. \/ \E th \in Threads : addCallback(th)
      \/ \E c \in CallbackSet : removeCallback(c)
      \/ UNCHANGED <<callbacks, running>>
  <2>1. Quit => \/ \E c \in CallbackSet : removeCallback(c)
                \/ UNCHANGED <<callbacks, running>>
    BY DEF Quit, IInv, TypeOK
  <2>2. CASE LoopStep
    BY <2>1, <2>2 DEF LoopStep, runCallbacks, CallNext, GoOn, EndPass
  <2>3. CASE \E th \in Threads, c \in CallbackSet :
                start(th, c) \/ startRunning(th, c) \/ stop(th, c)
    BY <2>3 DEF start, startRunning, stop
  <2>4. QED
    BY <2>2, <2>3 DEF Next, vars
<1>5. QED
  BY <1>1, <1>2, <1>3, <1>4

(* The inductive invariant holds in every reachable state.                 *)
THEOREM Invariance == Spec => []IInv
<1>1. Init => IInv
  <2> SUFFICES ASSUME Init PROVE IInv
    OBVIOUS
  <2>1. TypeOK
    <3>1. /\ callbacks \in Seq(CallbackSet) /\ copy \in Seq(CallbackSet)
          /\ running \in [CallbackSet -> BOOLEAN] /\ asked \subseteq CallbackSet
      BY DEF Init
    <3>2. adding \in [Threads -> Adding]
      BY DEF Init, Adding
    <3>3. QED
      BY <3>1, <3>2 DEF Init, TypeOK
  <2>2. ListedOnce /\ RunningIsListed
    BY DEF Init, ListedOnce, RunningIsListed
  <2>3. QED
    BY <2>1, <2>2 DEF IInv
<1>2. QED
  BY <1>1, StepIInv, PTL DEF Spec

(* The list, the flags and the walked copy keep their types; a call always *)
(* has a callback that it calls.                                           *)
THEOREM TypeCorrect == Spec => []TypeOK
<1>1. IInv => TypeOK
  BY DEF IInv
<1>2. QED
  BY <1>1, Invariance, PTL

(* No callback is ever in the list twice.                                  *)
THEOREM CallbacksListedOnce == Spec => []ListedOnce
<1>1. IInv => ListedOnce
  BY DEF IInv
<1>2. QED
  BY <1>1, Invariance, PTL

(* A callback whose _running flag is set is in the list.                   *)
THEOREM FlagsAreListed == Spec => []RunningIsListed
<1>1. IInv => RunningIsListed
  BY DEF IInv
<1>2. QED
  BY <1>1, Invariance, PTL

===============================================================================
