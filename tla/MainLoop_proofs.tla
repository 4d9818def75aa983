--------------------------- MODULE MainLoop_proofs ---------------------------
(***************************************************************************)
(* The main loop, its windows and its buffer of events, for any windows,   *)
(* helper threads and numbers of events. Consistent keeps the list of      *)
(* windows, the active window and DirectFB's windows together; what is due *)
(* before the loop may sleep, who hears input, and the order of user       *)
(* events are proved from it, and with them that the loop keeps the        *)
(* promises of WindowStack and EventQueue.                                 *)
(***************************************************************************)
EXTENDS MainLoop, SequenceLemmas, TLAPS

-----------------------------------------------------------------------------
(* The windows: list, active window, DirectFB's windows and attachments.   *)

(* What the assumption on the constants says of the derived ones.          *)
LEMMA ConstantTypes ==
    /\ AppWindow \in Windows /\ NoWindow \notin Windows /\ Dialogs \subseteq Windows
    /\ Animated \subseteq Windows
    /\ MaxEvents \in Nat \ {0} /\ MaxBuffer \in Nat \ {0} /\ MaxAttached \in Nat \ {0}
    /\ \A m \in Modalities : m \subseteq Windows
BY WindowsAssumption DEF Windows

WindowTypes ==
    /\ windowList \in Seq(Windows) /\ IsInjective(windowList)
    /\ activeWindow \in Windows \cup {NoWindow}
    /\ opened \subseteq Windows
    /\ attached \in [Windows -> 0 .. MaxAttached]

(* The list, the active window and DirectFB's windows go together.         *)
WindowsAgree == WindowTypes /\ ActiveIsTop

(* The attachments after a change of the active window.                    *)
LEMMA ReattachType ==
    ASSUME WindowTypes, NEW u, NEW w
    PROVE  Reattach(u, w) \in [Windows -> 0 .. MaxAttached]
BY ConstantTypes DEF WindowTypes, Reattach

(* A window that is shown goes on top.                                     *)
LEMMA ShowKeepsWindows ==
    ASSUME WindowsAgree, NEW w \in Windows, showWindow(w)
    PROVE  WindowsAgree' /\ w \notin Listed /\ windowList' = Append(windowList, w)
<1>1. /\ windowList \in Seq(Windows) /\ IsInjective(windowList)
      /\ windowList' = Append(windowList, w) /\ w \notin Listed
      /\ activeWindow' = w /\ opened' = opened \cup {w}
      /\ attached' = Reattach(activeWindow, w)
  BY DEF WindowsAgree, WindowTypes, ActiveIsTop, showWindow, setActiveWindow
<1>2. /\ windowList' \in Seq(Windows) /\ windowList' # << >>
      /\ Len(windowList) \in Nat /\ Len(windowList') = Len(windowList) + 1
      /\ DOMAIN windowList = 1 .. Len(windowList)
      /\ DOMAIN windowList' = 1 .. Len(windowList) + 1
      /\ \A i \in 1 .. Len(windowList) : windowList'[i] = windowList[i]
      /\ windowList'[Len(windowList) + 1] = w
  BY <1>1, AppendProperties
<1>3. IsInjective(windowList')
  BY <1>1, <1>2 DEF IsInjective, Listed, ToSet
<1>4. Listed' = Listed \cup {w}
  BY <1>2 DEF Listed, ToSet
<1>5. ActiveIsTop'
  BY <1>1, <1>2, <1>4 DEF WindowsAgree, ActiveIsTop, Last
<1>6. WindowTypes'
  BY <1>1, <1>2, <1>3, ReattachType DEF WindowsAgree, WindowTypes
<1>7. QED
  BY <1>1, <1>5, <1>6 DEF WindowsAgree

(* A window that is closed leaves the list; the active one is on top again.*)
LEMMA CloseKeepsWindows ==
    ASSUME WindowsAgree, NEW w \in Windows, closeWindow(w)
    PROVE  /\ WindowsAgree'
           /\ \E i \in DOMAIN windowList :
                 windowList[i] = w /\ windowList' = RemoveAt(windowList, i)
           /\ w \notin Listed'
<1>1. PICK i \in DOMAIN windowList :
         windowList[i] = w /\ windowList' = RemoveAt(windowList, i)
  BY DEF closeWindow, removeWindow
<1>2. windowList \in Seq(Windows) /\ IsInjective(windowList)
  BY DEF WindowsAgree, WindowTypes
<1>3. /\ windowList' \in Seq(Windows)
      /\ Len(windowList') = Len(windowList) - 1
      /\ \A j \in 1 .. Len(windowList) - 1 :
            windowList'[j] = IF j < i THEN windowList[j] ELSE windowList[j + 1]
  BY <1>1, <1>2, RemovedAt
<1>4. IsInjective(windowList') /\ Listed' = Listed \ {w}
  BY <1>1, <1>2, RemovedOnce DEF Listed
<1>5. Listed' = opened'
  BY <1>4 DEF closeWindow, WindowsAgree, ActiveIsTop
<1>6. activeWindow' = IF windowList' = << >> THEN NoWindow ELSE Last(windowList')
  <2>1. CASE activeWindow = w
    BY <2>1 DEF closeWindow, removeWindow
  <2>2. CASE activeWindow # w
    <3>1. /\ Len(windowList) \in Nat /\ DOMAIN windowList = 1 .. Len(windowList)
          /\ i \in 1 .. Len(windowList) /\ windowList # << >>
      BY <1>2
    <3>2. activeWindow = windowList[Len(windowList)] /\ activeWindow' = activeWindow
      BY <2>2, <3>1 DEF closeWindow, removeWindow, WindowsAgree, ActiveIsTop, Last
    <3>3. i < Len(windowList)
      BY <1>1, <2>2, <3>1, <3>2
    <3>4. /\ windowList' # << >>
          /\ windowList'[Len(windowList')] = windowList[Len(windowList)]
      BY <1>3, <3>1, <3>3
    <3>5. QED
      BY <3>2, <3>4 DEF Last
  <2>3. QED
    BY <2>1, <2>2
<1>7. activeWindow' \in Windows \cup {NoWindow}
  <2>1. windowList' # << >> => Last(windowList') \in Windows
    BY <1>3 DEF Last
  <2>2. QED
    BY <1>6, <2>1
<1>8. attached' \in [Windows -> 0 .. MaxAttached]
  BY ReattachType, ConstantTypes DEF closeWindow, removeWindow, WindowsAgree, WindowTypes
<1>9. opened' \subseteq Windows
  BY DEF closeWindow, WindowsAgree, WindowTypes
<1>10. QED
  BY <1>1, <1>3, <1>4, <1>5, <1>6, <1>7, <1>8, <1>9 DEF WindowsAgree, WindowTypes, ActiveIsTop

-----------------------------------------------------------------------------
(* Type correctness, the window list and the hearer of an event.           *)

RestTypes ==
    /\ modality \in Modalities
    /\ valid \subseteq Windows
    /\ callbacks \in BOOLEAN /\ terminate \in BOOLEAN
    /\ buffer \in Seq(Event) /\ Len(buffer) <= MaxBuffer
    /\ event \in Event \cup {NoEvent}
    /\ hearer \in Windows \cup {NoWindow}
    /\ phase \in Phases
    /\ sent \in 0 .. MaxEvents /\ taken \in 0 .. MaxEvents
    /\ late \subseteq Windows \cup {"callback"}

(* Nobody hears an event unless the loop is in a handler.                  *)
HearerInHandler == phase # "handling" => hearer = NoWindow

Consistent == WindowsAgree /\ RestTypes /\ HearerInHandler

(* A buffer that has been reset, or never used.                            *)
LEMMA EmptyBuffer == << >> \in Seq(Event) /\ Len(<< >>) <= MaxBuffer
BY ConstantTypes, EmptySeq

(* What is left of the buffer when its first event is taken.               *)
LEMMA TakenFromBuffer ==
    ASSUME RestTypes, buffer # << >>
    PROVE  /\ Head(buffer) \in Event /\ Head(buffer) = buffer[1]
           /\ Tail(buffer) \in Seq(Event) /\ Len(Tail(buffer)) = Len(buffer) - 1
           /\ \A i \in 1 .. Len(buffer) - 1 : Tail(buffer)[i] = buffer[i + 1]
           /\ Len(buffer) \in Nat \ {0}
           /\ Head(buffer).kind \in {"user", "input", "close", "update"}
           /\ Head(buffer).win \in Windows \cup {NoWindow}
           /\ Head(buffer).id \in 0 .. MaxEvents
<1>1. buffer \in Seq(Event)
  BY DEF RestTypes
<1>2. /\ Head(buffer) \in Event /\ Tail(buffer) \in Seq(Event)
      /\ Len(Tail(buffer)) = Len(buffer) - 1
      /\ \A i \in 1 .. Len(Tail(buffer)) : Tail(buffer)[i] = buffer[i + 1]
  BY <1>1, HeadTailProperties
<1>3. Len(buffer) \in Nat \ {0} /\ Head(buffer) = buffer[1]
  BY <1>1
<1>4. QED
  BY <1>2, <1>3 DEF Event

(* A user event that is posted goes to the end of the buffer.              *)
LEMMA PostToBuffer ==
    ASSUME RestTypes, postUserEvent
    PROVE  /\ buffer' \in Seq(Event) /\ Len(buffer') <= MaxBuffer
           /\ Len(buffer') = Len(buffer) + 1 /\ Len(buffer) \in Nat
           /\ \A i \in 1 .. Len(buffer) : buffer'[i] = buffer[i]
           /\ buffer'[Len(buffer) + 1] =
                 [kind |-> "user", win |-> NoWindow, id |-> sent + 1]
           /\ sent' = sent + 1 /\ sent' \in 0 .. MaxEvents
<1> DEFINE e == [kind |-> "user", win |-> NoWindow, id |-> sent + 1]
<1>1. /\ buffer \in Seq(Event) /\ Len(buffer) \in Nat /\ Len(buffer) < MaxBuffer
      /\ sent' = sent + 1 /\ sent + 1 \in 0 .. MaxEvents /\ buffer' = Append(buffer, e)
  BY ConstantTypes DEF RestTypes, postUserEvent
<1>2. e \in Event
  BY <1>1 DEF Event
<1> HIDE DEF e
<1>3. QED
  BY <1>1, <1>2, ConstantTypes, AppendProperties DEF e

(* What happens to a window goes there once per attachment.                *)
LEMMA EventsToBuffer ==
    ASSUME Consistent, NEW w \in Windows, NEW k \in {"input", "close", "update"},
           WindowEvent(w, k)
    PROVE  /\ buffer' \in Seq(Event) /\ Len(buffer') <= MaxBuffer
           /\ Len(buffer') = Len(buffer) + attached[w]
           /\ Len(buffer) \in Nat /\ attached[w] \in Nat \ {0}
           /\ \A i \in 1 .. Len(buffer) : buffer'[i] = buffer[i]
           /\ \A i \in Len(buffer) + 1 .. Len(buffer) + attached[w] :
                 buffer'[i] = [kind |-> k, win |-> w, id |-> 0]
           /\ sent' = sent + 1 /\ sent' \in 0 .. MaxEvents
<1> DEFINE n == attached[w]
           e == [kind |-> k, win |-> w, id |-> 0]
           new == [i \in 1 .. n |-> e]
<1>1. /\ buffer \in Seq(Event) /\ Len(buffer) \in Nat /\ Len(buffer) + n <= MaxBuffer
      /\ n \in Nat \ {0} /\ buffer' = buffer \o new
      /\ sent' = sent + 1 /\ sent + 1 \in 0 .. MaxEvents
  BY ConstantTypes DEF Consistent, WindowsAgree, WindowTypes, RestTypes, WindowEvent
<1>2. e \in Event
  BY ConstantTypes DEF Event
<1> HIDE DEF e, n
<1>3. new \in Seq(Event) /\ Len(new) = n /\ \A i \in 1 .. n : new[i] = e
  <2>1. new \in [1 .. n -> Event]
    BY <1>2
  <2>2. QED
    BY <1>1, <2>1
<1> HIDE DEF new
<1>4. /\ buffer' \in Seq(Event) /\ Len(buffer') = Len(buffer) + n
      /\ \A i \in 1 .. Len(buffer) + n :
            buffer'[i] = IF i <= Len(buffer) THEN buffer[i] ELSE new[i - Len(buffer)]
  BY <1>1, <1>3, ConcatProperties
<1>5. \A i \in Len(buffer) + 1 .. Len(buffer) + n : buffer'[i] = e
  <2>1. ASSUME NEW i \in Len(buffer) + 1 .. Len(buffer) + n
        PROVE  buffer'[i] = e
    <3>1. /\ i \in 1 .. Len(buffer) + n /\ ~ (i <= Len(buffer))
          /\ i - Len(buffer) \in 1 .. n
      BY <1>1
    <3>2. QED
      BY <1>3, <1>4, <3>1
  <2>2. QED
    BY <2>1
<1>6. \A i \in 1 .. Len(buffer) : buffer'[i] = buffer[i]
  BY <1>1, <1>4
<1>7. QED
  BY <1>1, <1>4, <1>5, <1>6 DEF e, n

(* The calls of the user's code that leave the windows alone.              *)
AskStep ==
    \/ \E w \in Animated : WindowUpdate(w)
    \/ addCallback \/ removeCallback \/ stop \/ postUserEvent

(* Asking for an update keeps the types.                                   *)
LEMMA AskKeepsTypes ==
    ASSUME Consistent, AskStep, UNCHANGED handVars
    PROVE  Consistent'
<1> USE ConstantTypes
<1>1. UNCHANGED windowVars
  BY DEF AskStep, WindowUpdate, addCallback, removeCallback, stop, postUserEvent
<1>2. WindowsAgree' /\ modality' \in Modalities
  BY <1>1 DEF Consistent, WindowsAgree, WindowTypes, ActiveIsTop, Listed, windowVars, RestTypes
<1>3. /\ valid' \subseteq Windows /\ callbacks' \in BOOLEAN /\ terminate' \in BOOLEAN
      /\ late' \subseteq Windows \cup {"callback"}
  BY DEF AskStep, WindowUpdate, addCallback, removeCallback, stop, postUserEvent,
         Consistent, RestTypes, workVars
<1>4. /\ phase' \in Phases
      /\ phase' = phase \/ (phase = "waiting" /\ phase' = "draining")
  BY DEF AskStep, WindowUpdate, addCallback, removeCallback, stop, postUserEvent,
         Consistent, RestTypes, Phases
<1>5. buffer' \in Seq(Event) /\ Len(buffer') <= MaxBuffer /\ sent' \in 0 .. MaxEvents
  <2>1. CASE postUserEvent
    BY <2>1, PostToBuffer DEF Consistent
  <2>2. CASE ~ postUserEvent
    <3>1. buffer' = buffer /\ sent' = sent
      BY <2>2 DEF AskStep, WindowUpdate, addCallback, removeCallback, stop
    <3>2. QED
      BY <3>1 DEF Consistent, RestTypes
  <2>3. QED
    BY <2>1, <2>2
<1>6. QED
  BY <1>2, <1>3, <1>4, <1>5 DEF Consistent, RestTypes, HearerInHandler, handVars

(* Showing or closing a window, with the effect on the buffer.             *)
LEMMA WindowStepTypes ==
    ASSUME Consistent, NEW w \in Windows, showWindow(w) \/ closeWindow(w)
    PROVE  /\ WindowsAgree' /\ modality' \in Modalities
           /\ valid' \subseteq Windows
           /\ callbacks' \in BOOLEAN /\ terminate' \in BOOLEAN
           /\ buffer' \in Seq(Event) /\ Len(buffer') <= MaxBuffer
           /\ buffer' \in {buffer, << >>}
           /\ sent' = sent /\ sent' \in 0 .. MaxEvents
           /\ late' \subseteq Windows \cup {"callback"}
<1>1. WindowsAgree'
  BY ShowKeepsWindows, CloseKeepsWindows DEF Consistent
<1>2. buffer' \in {buffer, << >>}
  BY DEF showWindow, setActiveWindow, closeWindow, removeWindow
<1>3. buffer' \in Seq(Event) /\ Len(buffer') <= MaxBuffer
  BY <1>2, EmptyBuffer DEF Consistent, RestTypes
<1>4. /\ modality' = modality /\ callbacks' = callbacks /\ terminate' = terminate
      /\ late' = late /\ sent' = sent /\ valid' \subseteq Windows
  BY DEF showWindow, closeWindow, Consistent, RestTypes
<1>5. QED
  BY <1>1, <1>2, <1>3, <1>4 DEF Consistent, RestTypes

(* The first state: no window yet.                                         *)
LEMMA ConsistentInit == Init => Consistent
<1> SUFFICES ASSUME Init PROVE Consistent
  OBVIOUS
<1>1. WindowTypes
  BY ConstantTypes, EmptySeq DEF Init, WindowTypes, IsInjective
<1>2. ActiveIsTop
  BY DEF Init, ActiveIsTop, Listed, ToSet
<1>3. buffer \in Seq(Event) /\ Len(buffer) <= MaxBuffer
  BY EmptyBuffer DEF Init
<1>4. RestTypes /\ HearerInHandler
  <2>1. modality \in Modalities /\ valid \subseteq Windows /\ late \subseteq Windows \cup {"callback"}
    BY DEF Init
  <2>2. event \in Event \cup {NoEvent} /\ hearer \in Windows \cup {NoWindow}
    BY DEF Init
  <2>3. sent \in 0 .. MaxEvents /\ taken \in 0 .. MaxEvents
    BY ConstantTypes DEF Init
  <2>4. phase \in Phases /\ HearerInHandler /\ callbacks \in BOOLEAN /\ terminate \in BOOLEAN
    BY DEF Init, Phases, HearerInHandler
  <2>5. QED
    BY <1>3, <2>1, <2>2, <2>3, <2>4 DEF RestTypes
<1>5. QED
  BY <1>1, <1>2, <1>4 DEF Consistent, WindowsAgree

(* A step shows or closes a window, or leaves the windows alone and adds to*)
(* the buffer or takes from it.                                            *)
LEMMA StepKinds ==
    ASSUME [Next]_vars
    PROVE  \/ \E w \in Windows : showWindow(w) \/ closeWindow(w)
           \/ /\ UNCHANGED windowVars
              /\ \/ buffer' = buffer
                 \/ buffer # << >> /\ buffer' = Tail(buffer)
                 \/ postUserEvent
                 \/ \E w \in Windows, k \in {"input", "close", "update"} : WindowEvent(w, k)
<1>1. CASE AskStep
  BY <1>1 DEF AskStep, WindowUpdate, addCallback, removeCallback, stop, postUserEvent
<1>2. CASE Work \/ Helper
  BY <1>1, <1>2, ConstantTypes DEF Work, Helper, AskStep
<1>3. CASE Show \/ TestStopped
  BY <1>3, ConstantTypes DEF Show, TestStopped
<1>4. CASE Abort
  <2>1. \/ stop
        \/ closeWindow(hearer) /\ hearer \in Windows
        \/ UNCHANGED <<windowVars, buffer>>
    BY <1>4, ConstantTypes DEF Abort
  <2>2. QED
    BY <1>1, <2>1 DEF AskStep
<1>5. CASE AskUpdates \/ BeginWait \/ EndWait \/ ReturnFromHandler \/ updateWindows
  BY <1>5 DEF AskUpdates, BeginWait, EndWait, ReturnFromHandler, updateWindows
<1>6. CASE GetNextEvent
  BY <1>6 DEF GetNextEvent
<1>7. ASSUME NEW w \in Windows, NEW k \in {"input", "close", "update"}, WindowEvent(w, k)
      PROVE  UNCHANGED windowVars
  BY <1>7 DEF WindowEvent
<1>8. CASE UNCHANGED vars
  BY <1>8 DEF vars
<1>9. QED
  BY <1>2, <1>3, <1>4, <1>5, <1>6, <1>7, <1>8 DEF Next, LoopStep

(* Every step keeps the windows together.                                  *)
LEMMA ConsistentStep == Consistent /\ [Next]_vars => Consistent'
<1> SUFFICES ASSUME Consistent, [Next]_vars PROVE Consistent'
  OBVIOUS
<1> USE ConstantTypes
<1>1. CASE Show
  <2>1. showWindow(AppWindow) /\ phase = "start" /\ phase' = "top" /\ UNCHANGED handVars
    BY <1>1 DEF Show, Goto
  <2>2. QED
    BY <2>1, WindowStepTypes DEF Consistent, RestTypes, HearerInHandler, handVars, Phases
<1>2. CASE TestStopped
  <2>1. /\ phase = "top" /\ phase' \in {"cycle", "ended"} /\ UNCHANGED handVars
        /\ UNCHANGED <<windowVars, workVars, buffer, sent>> \/ closeWindow(AppWindow)
    BY <1>2 DEF TestStopped, Goto
  <2>2. CASE closeWindow(AppWindow)
    BY <2>1, <2>2, WindowStepTypes
       DEF Consistent, RestTypes, HearerInHandler, handVars, Phases
  <2>3. CASE UNCHANGED <<windowVars, workVars, buffer, sent>>
    BY <2>1, <2>3 DEF Consistent, WindowsAgree, WindowTypes, ActiveIsTop, Listed,
       RestTypes, HearerInHandler, handVars, windowVars, workVars, Phases
  <2>4. QED
    BY <2>1, <2>2, <2>3
<1>3. CASE AskUpdates
  BY <1>3 DEF AskUpdates, Goto, Consistent, WindowsAgree, WindowTypes, ActiveIsTop, Listed,
     RestTypes, HearerInHandler, handVars, windowVars, Phases
<1>4. CASE BeginWait \/ EndWait
  <2>1. /\ phase \in {"counting", "waiting"} /\ phase' \in {"waiting", "draining"}
        /\ late' \in {late, {}} /\ UNCHANGED <<windowVars, valid, callbacks, terminate, handVars, sent>>
        /\ buffer' = buffer \/ (buffer # << >> /\ buffer' = Tail(buffer))
    BY <1>4 DEF BeginWait, EndWait, Goto
  <2>2. buffer' \in Seq(Event) /\ Len(buffer') <= MaxBuffer
    BY <2>1, TakenFromBuffer DEF Consistent, RestTypes
  <2>3. QED
    BY <2>1, <2>2 DEF Consistent, WindowsAgree, WindowTypes, ActiveIsTop, Listed,
       RestTypes, HearerInHandler, handVars, windowVars, Phases
<1>5. CASE GetNextEvent
  <2>1. phase = "draining" /\ UNCHANGED <<windowVars, workVars, sent>>
    BY <1>5 DEF GetNextEvent
  <2>2. buffer' \in Seq(Event) /\ Len(buffer') <= MaxBuffer
    BY <1>5, TakenFromBuffer DEF GetNextEvent, Consistent, RestTypes
  <2>3. phase' \in {"updating", "handling", "draining"}
    BY <1>5 DEF GetNextEvent, Goto, handVars
  <2>4. /\ event' \in Event \cup {NoEvent} /\ taken' \in 0 .. MaxEvents
        /\ hearer' \in Windows \cup {NoWindow}
        /\ phase' # "handling" => hearer' = hearer
    <3>1. Listed \subseteq Windows
      BY DEF Consistent, WindowsAgree, WindowTypes, ActiveIsTop
    <3>2. Hearers(Head(buffer)) \subseteq Windows
      BY <3>1 DEF Hearers, Consistent, WindowsAgree, WindowTypes
    <3>3. CASE buffer = << >>
      BY <1>5, <3>3 DEF GetNextEvent, handVars, Consistent, RestTypes
    <3>4. CASE buffer # << >>
      BY <1>5, <3>2, <3>4, TakenFromBuffer DEF GetNextEvent, handVars, Goto, Consistent, RestTypes
    <3>5. QED
      BY <3>3, <3>4
  <2>5. QED
    BY <2>1, <2>2, <2>3, <2>4 DEF Consistent, WindowsAgree, WindowTypes, ActiveIsTop,
       Listed, RestTypes, HearerInHandler, windowVars, workVars, Phases
<1>6. CASE Abort
  <2>1. /\ phase = "handling" /\ phase' = "handling"
        /\ hearer' = hearer /\ taken' = taken
    BY <1>6 DEF Abort, stop
  <2>2. event' \in Event
    <3>1. event \in Event
      BY <1>6 DEF Abort, Consistent, RestTypes, NoEvent
    <3>2. QED
      BY <1>6, <3>1 DEF Abort, Event
  <2>3. \/ stop
        \/ closeWindow(hearer) /\ hearer \in Windows
        \/ UNCHANGED <<windowVars, workVars, buffer, sent>>
    BY <1>6 DEF Abort
  <2>4. CASE stop
    BY <2>1, <2>2, <2>4 DEF stop, Consistent, WindowsAgree, WindowTypes, ActiveIsTop,
       Listed, RestTypes, HearerInHandler, windowVars, Phases
  <2>5. CASE closeWindow(hearer) /\ hearer \in Windows
    BY <2>1, <2>2, <2>5, WindowStepTypes DEF Consistent, RestTypes, HearerInHandler, Phases
  <2>6. CASE UNCHANGED <<windowVars, workVars, buffer, sent>>
    BY <2>1, <2>2, <2>6 DEF Consistent, WindowsAgree, WindowTypes, ActiveIsTop,
       Listed, RestTypes, HearerInHandler, windowVars, workVars, Phases
  <2>7. QED
    BY <2>3, <2>4, <2>5, <2>6
<1>7. CASE ReturnFromHandler
  BY <1>7 DEF ReturnFromHandler, Goto, Consistent, WindowsAgree, WindowTypes, ActiveIsTop,
     Listed, RestTypes, HearerInHandler, windowVars, workVars, Phases
<1>8. CASE updateWindows
  BY <1>8 DEF updateWindows, Goto, Consistent, WindowsAgree, WindowTypes, ActiveIsTop,
     Listed, RestTypes, HearerInHandler, windowVars, handVars, Phases
<1>9. CASE Work
  <2>1. CASE AskStep
    BY <1>9, <2>1, AskKeepsTypes DEF Work
  <2>2. CASE \E w \in Dialogs : (showWindow(w) \/ closeWindow(w)) /\ UNCHANGED phase
    BY <1>9, <2>2, WindowStepTypes DEF Work, Consistent, RestTypes, HearerInHandler, handVars
  <2>3. QED
    BY <1>9, <2>1, <2>2 DEF Work, AskStep
<1>10. CASE Helper
  <2>1. AskStep /\ UNCHANGED handVars
    BY <1>10 DEF Helper, AskStep
  <2>2. QED
    BY <2>1, AskKeepsTypes
<1>11. ASSUME NEW w \in Windows, NEW k \in {"input", "close", "update"}, WindowEvent(w, k)
       PROVE  Consistent'
  <2>1. /\ buffer' \in Seq(Event) /\ Len(buffer') <= MaxBuffer /\ sent' \in 0 .. MaxEvents
    BY <1>11, EventsToBuffer
  <2>2. UNCHANGED <<windowVars, workVars, handVars, phase>>
    BY <1>11 DEF WindowEvent
  <2>3. QED
    BY <2>1, <2>2 DEF Consistent, WindowsAgree, WindowTypes, ActiveIsTop,
       Listed, RestTypes, HearerInHandler, windowVars, workVars, handVars
<1>12. CASE UNCHANGED vars
  BY <1>12 DEF vars, Consistent, WindowsAgree, WindowTypes, ActiveIsTop,
     Listed, RestTypes, HearerInHandler, windowVars, workVars, handVars
<1>13. QED
  BY <1>1, <1>2, <1>3, <1>4, <1>5, <1>6, <1>7, <1>8, <1>9, <1>10, <1>11, <1>12
     DEF Next, LoopStep

(***************************************************************************)
(* Whatever is shown and closed, in handlers and out of them, the list of  *)
(* windows has none twice, the active window is its last, and the windows  *)
(* in it are those DirectFB has (core/Application.cpp addWindow,           *)
(* removeWindow).                                                          *)
(***************************************************************************)
THEOREM WindowsConsistent == Spec => []Consistent
BY ConsistentInit, ConsistentStep, PTL DEF Spec

(***************************************************************************)
(* The same as the run states it: the variables are well typed, the active *)
(* window is the last of the list, and the list holds DirectFB's windows.  *)
(***************************************************************************)
THEOREM StackIsKept == Spec => []StackKept
<1>1. Consistent => StackKept
  BY DEF Consistent, WindowsAgree, WindowTypes, RestTypes, StackKept, TypeOK
<1>2. QED
  BY <1>1, WindowsConsistent, PTL

-----------------------------------------------------------------------------
(* The loop goes to sleep only when it has nothing to do.  What it found   *)
(* when it looked stays true up to the wait: until then nothing is opened  *)
(* or closed, and what another thread asks for is noted in `late`.         *)

NothingToDo ==
    /\ Looked => valid \cap Listed \subseteq late
    /\ phase = "waiting" => (callbacks => "callback" \in late)

(* Every step keeps what the loop has looked at.                           *)
LEMMA NothingToDoStep == NothingToDo /\ [Next]_vars => NothingToDo'
<1> SUFFICES ASSUME NothingToDo, [Next]_vars PROVE NothingToDo'
  OBVIOUS
<1>1. CASE LoopStep /\ ~ AskUpdates /\ ~ BeginWait
  <2>1. ~ Looked'
    <3>1. CASE Abort
      BY <3>1 DEF Abort, stop, Looked
    <3>2. CASE ~ Abort
      BY <1>1, <3>2 DEF LoopStep, Show, TestStopped, EndWait, GetNextEvent,
         ReturnFromHandler, updateWindows, Goto, Looked, handVars
    <3>3. QED
      BY <3>1, <3>2
  <2>2. QED
    BY <2>1 DEF NothingToDo, Looked
<1>2. CASE AskUpdates
  BY <1>2 DEF AskUpdates, Goto, NeedsPaint, NothingToDo, Looked, Listed, windowVars
<1>3. CASE BeginWait
  BY <1>3 DEF BeginWait, Goto, NothingToDo, Looked, Listed, windowVars
<1>4. CASE Work
  <2>1. ~ Looked'
    BY <1>4 DEF Work, UserCode, WindowUpdate, addCallback, removeCallback, stop,
       postUserEvent, Looked
  <2>2. QED
    BY <2>1 DEF NothingToDo, Looked
<1>5. CASE Helper
  BY <1>5 DEF Helper, WindowUpdate, addCallback, stop, postUserEvent, NothingToDo,
     Looked, Listed, windowVars, workVars
<1>6. ASSUME NEW w \in Windows, NEW k \in {"input", "close", "update"}, WindowEvent(w, k)
      PROVE  NothingToDo'
  BY <1>6 DEF WindowEvent, NothingToDo, Looked, Listed, windowVars, workVars
<1>7. CASE UNCHANGED vars
  BY <1>7 DEF vars, NothingToDo, Looked, Listed, windowVars, workVars
<1>8. QED
  BY <1>1, <1>2, <1>3, <1>4, <1>5, <1>6, <1>7 DEF Next, LoopStep

(***************************************************************************)
(* The loop goes to sleep only when it has nothing to do: what it sleeps   *)
(* on was asked for by another thread after it had looked                  *)
(* (core/Application.cpp exec, updateWindows).                             *)
(***************************************************************************)
THEOREM SleepIsIdle == Spec => []SleepsOnlyIdle
<1>1. Init => NothingToDo
  BY DEF Init, NothingToDo, Looked
<1>2. NothingToDo => SleepsOnlyIdle
  BY DEF NothingToDo, SleepsOnlyIdle, Looked
<1>3. QED
  BY <1>1, <1>2, NothingToDoStep, PTL DEF Spec

-----------------------------------------------------------------------------
(* While all windows are modal exactly the active one is attached.  Without*)
(* an active window none is, so the first one shown is attached once; and  *)
(* what waits in the buffer came from the active window, since a change of *)
(* the active window empties the buffer.                                   *)

OneAttached ==
    modality = Windows =>
        /\ \A w \in Windows : attached[w] = IF w = activeWindow THEN 1 ELSE 0
        /\ windowList # << >> =>
              \A i \in DOMAIN buffer : buffer[i].win \in {activeWindow, NoWindow}

(* A window that is shown takes the attachment from the active one.        *)
LEMMA ShowKeepsAttached ==
    ASSUME Consistent, OneAttached, NEW w \in Windows, showWindow(w)
    PROVE  OneAttached'
<1>1. /\ attached' = Reattach(activeWindow, w) /\ activeWindow' = w
      /\ buffer' = << >> /\ modality' = modality
  BY DEF showWindow, setActiveWindow
<1>2. activeWindow # w
  <2>1. windowList # << >> => Last(windowList) \in Listed
    BY DEF Consistent, WindowsAgree, WindowTypes, Listed, ToSet, Last
  <2>2. activeWindow \in Listed \/ activeWindow = NoWindow
    BY <2>1 DEF Consistent, WindowsAgree, ActiveIsTop
  <2>3. QED
    BY <2>2, ConstantTypes, ShowKeepsWindows DEF Consistent
<1>3. ASSUME modality = Windows, NEW v \in Windows
      PROVE  attached'[v] = IF v = w THEN 1 ELSE 0
  BY <1>1, <1>2, <1>3, ConstantTypes
     DEF Reattach, OneAttached, Consistent, WindowsAgree, WindowTypes
<1>4. QED
  BY <1>1, <1>3 DEF OneAttached

(* A window that is closed hands its attachment to the one below.          *)
LEMMA CloseKeepsAttached ==
    ASSUME Consistent, OneAttached, NEW w \in Windows, closeWindow(w)
    PROVE  OneAttached'
<1>1. modality' = modality /\ attached \in [Windows -> 0 .. MaxAttached]
  BY DEF closeWindow, Consistent, WindowsAgree, WindowTypes
<1> SUFFICES ASSUME modality = Windows
             PROVE  /\ \A v \in Windows : attached'[v] = IF v = activeWindow' THEN 1 ELSE 0
                    /\ windowList' # << >> =>
                          \A i \in DOMAIN buffer' : buffer'[i].win \in {activeWindow', NoWindow}
  BY <1>1 DEF OneAttached
<1>2. \A v \in Windows : attached[v] = IF v = activeWindow THEN 1 ELSE 0
  BY DEF OneAttached
<1>3. CASE activeWindow = w /\ windowList' # << >>
  <2>1. /\ activeWindow' = Last(windowList') /\ buffer' = << >>
        /\ attached' = [Reattach(w, Last(windowList')) EXCEPT ![w] = 0]
    BY <1>3 DEF closeWindow, removeWindow
  <2>2. Last(windowList') \in Windows /\ Last(windowList') # w
    <3>1. windowList' \in Seq(Windows) /\ w \notin Listed'
      BY CloseKeepsWindows DEF Consistent, WindowsAgree, WindowTypes
    <3>2. Last(windowList') \in Listed'
      BY <1>3, <3>1 DEF Listed, ToSet, Last
    <3>3. QED
      BY <1>3, <3>1, <3>2 DEF Last
  <2>3. ASSUME NEW v \in Windows
        PROVE  attached'[v] = IF v = activeWindow' THEN 1 ELSE 0
    BY <1>1, <1>2, <1>3, <2>1, <2>2, ConstantTypes DEF Reattach
  <2>4. QED
    BY <2>1, <2>3
<1>4. CASE activeWindow = w /\ windowList' = << >>
  <2>1. activeWindow' = NoWindow /\ attached' = [attached EXCEPT ![w] = 0]
    BY <1>4 DEF closeWindow, removeWindow
  <2>2. QED
    BY <1>1, <1>2, <1>4, <2>1, ConstantTypes
<1>5. CASE activeWindow # w
  <2>1. /\ activeWindow' = activeWindow /\ buffer' = buffer
        /\ attached' = [attached EXCEPT ![w] = 0]
    BY <1>5 DEF closeWindow, removeWindow
  <2>2. windowList # << >>
    BY DEF closeWindow, removeWindow
  <2>3. QED
    BY <1>1, <1>2, <1>5, <2>1, <2>2 DEF OneAttached
<1>6. QED
  BY <1>3, <1>4, <1>5

(* A step that keeps the windows keeps the attachments; what it adds to    *)
(* the buffer comes from an attached window or from none.                  *)
LEMMA OneAttachedStep == Consistent /\ OneAttached /\ [Next]_vars => OneAttached'
<1> SUFFICES ASSUME Consistent, OneAttached, [Next]_vars PROVE OneAttached'
  OBVIOUS
<1>1. CASE \E w \in Windows : showWindow(w) \/ closeWindow(w)
  BY <1>1, ShowKeepsAttached, CloseKeepsAttached
<1>2. CASE UNCHANGED windowVars /\ ~ (\E w \in Windows : showWindow(w) \/ closeWindow(w))
  <2> SUFFICES ASSUME modality = Windows, windowList # << >>, NEW i \in DOMAIN buffer'
               PROVE  buffer'[i].win \in {activeWindow, NoWindow}
    BY <1>2 DEF OneAttached, windowVars
  <2>1. \A j \in DOMAIN buffer : buffer[j].win \in {activeWindow, NoWindow}
    BY DEF OneAttached
  <2>2. DOMAIN buffer = 1 .. Len(buffer) /\ Len(buffer) \in Nat
    BY DEF Consistent, RestTypes
  <2>3. CASE postUserEvent
    <3>1. buffer' \in Seq(Event) /\ DOMAIN buffer' = 1 .. Len(buffer) + 1
      BY <2>3, PostToBuffer DEF Consistent
    <3>2. QED
      BY <2>1, <2>2, <2>3, <3>1, PostToBuffer DEF Consistent
  <2>4. ASSUME NEW w \in Windows, NEW k \in {"input", "close", "update"}, WindowEvent(w, k)
        PROVE  buffer'[i].win \in {activeWindow, NoWindow}
    <3>1. w = activeWindow
      BY <2>4 DEF WindowEvent, OneAttached
    <3>2. /\ buffer' \in Seq(Event) /\ Len(buffer') = Len(buffer) + attached[w]
          /\ attached[w] \in Nat
          /\ \A j \in 1 .. Len(buffer) : buffer'[j] = buffer[j]
          /\ \A j \in Len(buffer) + 1 .. Len(buffer) + attached[w] :
                buffer'[j] = [kind |-> k, win |-> w, id |-> 0]
      BY <2>4, EventsToBuffer
    <3>3. i \in DOMAIN buffer \/ i \in Len(buffer) + 1 .. Len(buffer) + attached[w]
      BY <2>2, <3>2
    <3>4. QED
      BY <2>1, <2>2, <3>1, <3>2, <3>3
  <2>5. CASE buffer # << >> /\ buffer' = Tail(buffer)
    <3>1. i \in 1 .. Len(buffer) - 1 /\ buffer'[i] = buffer[i + 1]
      BY <2>5, TakenFromBuffer DEF Consistent
    <3>2. QED
      BY <2>1, <2>2, <3>1
  <2>6. CASE buffer' = buffer
    BY <2>1, <2>6
  <2>7. QED
    BY <1>2, <2>3, <2>4, <2>5, <2>6, StepKinds
<1>3. QED
  BY <1>1, <1>2, StepKinds

(***************************************************************************)
(* As long as every window is modal, the way they are constructed, exactly *)
(* the active window is attached to the event buffer, once, and no event   *)
(* of another window waits in it (core/Application.cpp addWindow,          *)
(* removeWindow, core/Engine.cpp).                                         *)
(***************************************************************************)
THEOREM ActiveHears == Spec => []OnlyActiveHears
<1>1. Init => OneAttached
  BY ConstantTypes DEF Init, OneAttached
<1>2. OneAttached => OnlyActiveHears
  BY DEF OneAttached, OnlyActiveHears
<1>3. QED
  BY <1>1, <1>2, OneAttachedStep, WindowsConsistent, PTL DEF Spec

-----------------------------------------------------------------------------
(* The dispatch implements WindowStack: showing a window raises it, closing*)
(* one drops it, and the window that is given an event hears it.           *)

(* The event taken from the buffer goes to a window on the list.           *)
LEMMA HearStep ==
    ASSUME Consistent, GetNextEvent
    PROVE  \/ UNCHANGED <<windowList, modality, hearer>>
           \/ \E w \in Windows : Stack!Hear(w)
<1>1. CASE hearer' = hearer
  BY <1>1 DEF GetNextEvent, windowVars
<1>2. CASE hearer' # hearer
  <2>1. PICK w \in Hearers(Head(buffer)) : hearer' = w
    BY <1>2 DEF GetNextEvent, handVars
  <2>2. phase = "draining" /\ UNCHANGED <<windowList, modality>>
    BY DEF GetNextEvent, windowVars
  <2>3. hearer = NoWindow
    BY <2>2 DEF Consistent, HearerInHandler
  <2>4. windowList # << >> => activeWindow = Last(windowList) /\ activeWindow \in Windows
    BY DEF Consistent, WindowsAgree, WindowTypes, ActiveIsTop, Last
  <2>5. w \in Listed /\ (activeWindow \in modality => w = activeWindow)
    <3>1. CASE activeWindow # NoWindow /\ activeWindow \in modality
      <4>1. windowList # << >> /\ w = activeWindow
        BY <2>1, <3>1 DEF Hearers, Consistent, WindowsAgree, ActiveIsTop
      <4>2. Last(windowList) \in Listed
        BY <4>1 DEF Consistent, WindowsAgree, WindowTypes, Listed, ToSet, Last
      <4>3. QED
        BY <2>4, <4>1, <4>2
    <3>2. CASE ~ (activeWindow # NoWindow /\ activeWindow \in modality)
      <4>1. w \in Listed
        BY <2>1, <3>2 DEF Hearers
      <4>2. windowList # << >>
        BY <4>1 DEF Listed, ToSet
      <4>3. QED
        BY <2>4, <3>2, <4>1, <4>2, ConstantTypes
    <3>3. QED
      BY <3>1, <3>2
  <2>6. w \in Windows /\ windowList # << >> /\ w \in Stack!Open
    BY <2>5 DEF Consistent, WindowsAgree, WindowTypes, ActiveIsTop, Listed, ToSet, Stack!Open
  <2>7. Stack!Top \in modality => w = Stack!Top
    BY <2>4, <2>5, <2>6 DEF Stack!Top, Last
  <2>8. Stack!Hear(w)
    BY <2>1, <2>2, <2>3, <2>6, <2>7 DEF Stack!Hear
  <2>9. QED
    BY <2>6, <2>8
<1>3. QED
  BY <1>1, <1>2

(* Every step is one of WindowStack.                                       *)
LEMMA StackStep == Consistent /\ [Next]_vars => [Stack!Next]_Stack!vars
<1> SUFFICES ASSUME Consistent, [Next]_vars
             PROVE  Stack!Next \/ UNCHANGED <<windowList, modality, hearer>>
  BY DEF Stack!vars
<1>1. ASSUME NEW w \in Windows, showWindow(w), hearer' = hearer
      PROVE  Stack!Raise(w)
  <2>1. w \notin Listed /\ windowList' = Append(windowList, w) /\ modality' = modality
    BY <1>1, ShowKeepsWindows DEF Consistent, showWindow
  <2>2. QED
    BY <1>1, <2>1 DEF Stack!Raise, Stack!Open, Listed, ToSet
<1>2. ASSUME NEW w \in Windows, closeWindow(w), hearer' = hearer
      PROVE  Stack!Drop(w)
  BY <1>2 DEF closeWindow, removeWindow, Stack!Drop, RemoveAt, Stack!RemoveAt
<1>3. CASE hearer' = hearer
  BY <1>1, <1>2, <1>3, StepKinds DEF Stack!Next, windowVars
<1>4. CASE GetNextEvent
  BY <1>4, HearStep DEF Stack!Next
<1>5. CASE ReturnFromHandler
  BY <1>5 DEF ReturnFromHandler, windowVars, Stack!Next, Stack!Heard
<1>6. CASE hearer' # hearer /\ ~ GetNextEvent /\ ~ ReturnFromHandler
  BY <1>6 DEF Next, LoopStep, Show, TestStopped, AskUpdates, BeginWait, EndWait, Abort,
     updateWindows, Work, Helper, WindowEvent, handVars, vars
<1>7. QED
  BY <1>3, <1>4, <1>5, <1>6

(***************************************************************************)
(* Every step of the main loop is one of WindowStack or changes nothing of *)
(* it: windows go on top, leave from any place, and the one on top is the  *)
(* only one that is given input, so a modal one keeps it from the others.  *)
(***************************************************************************)
THEOREM ImplementsStack == Spec => StackPromise
<1>1. Init => Stack!Init
  BY ConstantTypes DEF Init, Stack!Init
<1>2. QED
  BY <1>1, StackStep, WindowsConsistent, PTL DEF Spec, StackPromise, Stack!Spec

-----------------------------------------------------------------------------
(* The buffer implements EventQueue: user events wait in the order of      *)
(* their numbers, all of which are above that of the last one taken.       *)

EventsInOrder ==
    /\ taken <= sent
    /\ \A i \in UserEvents : taken < buffer[i].id /\ buffer[i].id <= sent
    /\ \A i, j \in UserEvents : i < j => buffer[i].id < buffer[j].id

QueueStep == EventsInOrder' /\ (Queue!Next \/ UNCHANGED <<UserIds, taken>>)

(* The numbers of the user events in the buffer.                           *)
LEMMA BufferTypes ==
    ASSUME Consistent
    PROVE  /\ Len(buffer) \in Nat /\ DOMAIN buffer = 1 .. Len(buffer)
           /\ \A i \in UserEvents : i \in 1 .. Len(buffer) /\ buffer[i].id \in Nat
           /\ sent \in Nat /\ taken \in Nat
<1>1. buffer \in Seq(Event)
  BY DEF Consistent, RestTypes
<1>2. \A i \in 1 .. Len(buffer) : buffer[i] \in Event
  BY <1>1
<1>3. QED
  BY <1>1, <1>2, ConstantTypes DEF Consistent, RestTypes, UserEvents, Event

(* A step that leaves the buffer and the events taken alone.               *)
LEMMA QueueKept ==
    ASSUME Consistent, EventsInOrder,
           buffer' = buffer, taken' = taken, sent' \in {sent, sent + 1},
           phase' = "ended" \/ (phase # "ended" /\ phase' # "ended")
    PROVE  QueueStep
<1>1. UserEvents' = UserEvents
  BY DEF UserEvents
<1>2. EventsInOrder'
  BY <1>1, BufferTypes DEF EventsInOrder
<1>3. CASE phase' = "ended"
  BY <1>2, <1>3 DEF QueueStep, Queue!Next, Queue!Reset, UserIds
<1>4. CASE phase # "ended" /\ phase' # "ended"
  BY <1>1, <1>2, <1>4 DEF QueueStep, UserIds
<1>5. QED
  BY <1>3, <1>4

(* A step that empties it.                                                 *)
LEMMA QueueReset ==
    ASSUME Consistent, EventsInOrder, buffer' = << >>, taken' = taken, sent' = sent
    PROVE  QueueStep
<1>1. UserEvents' = {} /\ UserIds' = {}
  BY DEF UserEvents, UserIds
<1>2. EventsInOrder'
  BY <1>1 DEF EventsInOrder
<1>3. QED
  BY <1>1, <1>2 DEF QueueStep, Queue!Next, Queue!Reset

(* A step that adds events behind the others.                              *)
LEMMA QueuePosts ==
    ASSUME Consistent, EventsInOrder, postUserEvent, taken' = taken,
           phase # "ended", phase' # "ended"
    PROVE  QueueStep
<1>1. /\ DOMAIN buffer = 1 .. Len(buffer) /\ Len(buffer) \in Nat
      /\ DOMAIN buffer' = 1 .. Len(buffer) + 1
      /\ \A i \in 1 .. Len(buffer) : buffer'[i] = buffer[i]
      /\ buffer'[Len(buffer) + 1].kind = "user"
      /\ buffer'[Len(buffer) + 1].id = sent + 1
      /\ sent' = sent + 1
  BY BufferTypes, PostToBuffer DEF Consistent
<1>2. UserEvents' = UserEvents \cup {Len(buffer) + 1}
  BY <1>1 DEF UserEvents
<1>3. \A i \in UserEvents : i \in 1 .. Len(buffer) /\ buffer'[i] = buffer[i]
  BY <1>1, BufferTypes
<1>4. EventsInOrder'
  BY <1>1, <1>2, <1>3, BufferTypes DEF EventsInOrder
<1>5. UserIds' = UserIds \cup {sent + 1}
  BY <1>1, <1>2, <1>3 DEF UserIds
<1>6. sent + 1 > taken /\ \A f \in UserIds : f < sent + 1
  BY BufferTypes DEF EventsInOrder, UserIds
<1>7. Queue!Post
  BY <1>5, <1>6 DEF Queue!Post
<1>8. QED
  BY <1>4, <1>7 DEF QueueStep, Queue!Next

(* Other events that DirectFB puts into the buffer are none of EventQueue.  *)
LEMMA QueueSees ==
    ASSUME Consistent, EventsInOrder, taken' = taken, phase' = phase, phase # "ended",
           NEW w \in Windows, NEW k \in {"input", "close", "update"}, WindowEvent(w, k)
    PROVE  QueueStep
<1>1. /\ DOMAIN buffer = 1 .. Len(buffer) /\ Len(buffer) \in Nat
      /\ attached[w] \in Nat
      /\ DOMAIN buffer' = 1 .. Len(buffer) + attached[w]
      /\ \A i \in 1 .. Len(buffer) : buffer'[i] = buffer[i]
      /\ \A i \in Len(buffer) + 1 .. Len(buffer) + attached[w] : buffer'[i].kind # "user"
      /\ sent' = sent + 1
  <2>1. /\ buffer' \in Seq(Event) /\ Len(buffer') = Len(buffer) + attached[w]
        /\ attached[w] \in Nat
        /\ \A i \in 1 .. Len(buffer) : buffer'[i] = buffer[i]
        /\ \A i \in Len(buffer) + 1 .. Len(buffer) + attached[w] :
              buffer'[i] = [kind |-> k, win |-> w, id |-> 0]
        /\ sent' = sent + 1
    BY EventsToBuffer
  <2>2. k # "user"
    OBVIOUS
  <2>3. QED
    BY <2>1, <2>2, BufferTypes
<1>2. UserEvents' = UserEvents /\ \A i \in UserEvents : buffer'[i] = buffer[i]
  <2>1. \A i \in DOMAIN buffer' :
           i \in 1 .. Len(buffer) \/ i \in Len(buffer) + 1 .. Len(buffer) + attached[w]
    BY <1>1
  <2>2. QED
    BY <1>1, <2>1 DEF UserEvents
<1>3. EventsInOrder'
  BY <1>1, <1>2, BufferTypes DEF EventsInOrder
<1>4. UserIds' = UserIds
  BY <1>2 DEF UserIds
<1>5. QED
  BY <1>3, <1>4 DEF QueueStep

(* A step that takes the one in front.                                     *)
LEMMA QueueTakes ==
    ASSUME Consistent, EventsInOrder, buffer # << >>, buffer' = Tail(buffer),
           sent' = sent, phase # "ended", phase' # "ended",
           IF Head(buffer).kind = "user" THEN taken' = Head(buffer).id ELSE taken' = taken
    PROVE  QueueStep
<1>1. /\ DOMAIN buffer = 1 .. Len(buffer) /\ Len(buffer) \in Nat \ {0}
      /\ DOMAIN buffer' = 1 .. Len(buffer) - 1
      /\ \A i \in 1 .. Len(buffer) - 1 : buffer'[i] = buffer[i + 1]
      /\ Head(buffer) = buffer[1]
  BY BufferTypes, TakenFromBuffer DEF Consistent
<1>2. \A i \in UserEvents' : /\ i \in Nat \ {0} /\ i + 1 \in Nat /\ i + 1 > 1
                            /\ i + 1 \in UserEvents /\ buffer'[i] = buffer[i + 1]
  BY <1>1 DEF UserEvents
<1>3. \A i \in Nat \ {0} : i + 1 \in UserEvents => i \in UserEvents'
  BY <1>1 DEF UserEvents
<1>4. \A i \in UserEvents : i = 1 \/ (i - 1 \in UserEvents' /\ buffer'[i - 1] = buffer[i])
  <2>1. ASSUME NEW i \in UserEvents, i # 1
        PROVE  i - 1 \in UserEvents' /\ buffer'[i - 1] = buffer[i]
    <3>1. i - 1 \in 1 .. Len(buffer) - 1 /\ (i - 1) + 1 = i
      BY <1>1, <2>1 DEF UserEvents
    <3>2. QED
      BY <1>1, <1>3, <3>1
  <2>2. QED
    BY <2>1
<1>5. ASSUME NEW i \in UserEvents', NEW j \in UserEvents', i < j
      PROVE  buffer'[i].id < buffer'[j].id
  <2>1. i + 1 \in UserEvents /\ j + 1 \in UserEvents /\ i + 1 < j + 1
    BY <1>2, <1>5
  <2>2. buffer[i + 1].id < buffer[j + 1].id
    BY <2>1 DEF EventsInOrder
  <2>3. QED
    BY <1>2, <2>2
<1>6. CASE Head(buffer).kind = "user"
  <2>1. 1 \in UserEvents /\ taken' = buffer[1].id
    BY <1>1, <1>6 DEF UserEvents
  <2>2. \A i \in UserEvents : i # 1 => buffer[1].id < buffer[i].id
    BY <1>1, <2>1, BufferTypes DEF EventsInOrder
  <2>3. EventsInOrder'
    <3>1. taken' <= sent'
      BY <2>1 DEF EventsInOrder
    <3>2. \A i \in UserEvents' : taken' < buffer'[i].id /\ buffer'[i].id <= sent'
      BY <1>2, <2>1, <2>2 DEF EventsInOrder
    <3>3. QED
      BY <1>5, <3>1, <3>2 DEF EventsInOrder
  <2>4. UserIds = {buffer[i].id : i \in UserEvents}
        /\ UserIds' = {buffer'[i].id : i \in UserEvents'}
    BY DEF UserIds
  <2>5. UserIds' = UserIds \ {buffer[1].id}
    <3>1. ASSUME NEW i \in UserEvents'
          PROVE  buffer'[i].id \in UserIds \ {buffer[1].id}
      <4>1. i + 1 \in UserEvents /\ i + 1 # 1 /\ buffer'[i] = buffer[i + 1]
        <5>1. /\ i \in Nat \ {0} /\ i + 1 \in UserEvents
              /\ buffer'[i] = buffer[i + 1]
          BY <1>2
        <5>2. i + 1 # 1
          BY <5>1
        <5>3. QED
          BY <5>1, <5>2
      <4>2. buffer[i + 1].id # buffer[1].id
        <5>1. buffer[1].id < buffer[i + 1].id
          BY <2>2, <4>1
        <5>2. buffer[1].id \in Nat /\ buffer[i + 1].id \in Nat
          BY <2>1, <4>1, BufferTypes
        <5>3. QED
          BY <5>1, <5>2
      <4>3. QED
        BY <2>4, <4>1, <4>2
    <3>2. ASSUME NEW i \in UserEvents, buffer[i].id # buffer[1].id
          PROVE  buffer[i].id \in UserIds'
      <4>1. i # 1
        BY <3>2
      <4>2. QED
        BY <1>4, <2>4, <4>1
    <3>3. QED
      BY <2>4, <3>1, <3>2
  <2>6. buffer[1].id \in UserIds /\ \A f \in UserIds : buffer[1].id <= f
    BY <2>1, <2>2, <2>4, BufferTypes
  <2>7. Queue!Take
    BY <2>1, <2>5, <2>6 DEF Queue!Take
  <2>8. QED
    BY <2>3, <2>7 DEF QueueStep, Queue!Next
<1>7. CASE Head(buffer).kind # "user"
  <2>1. 1 \notin UserEvents /\ taken' = taken
    BY <1>1, <1>7 DEF UserEvents
  <2>2. EventsInOrder'
    <3>1. \A i \in UserEvents' : taken' < buffer'[i].id /\ buffer'[i].id <= sent'
      BY <1>2, <2>1 DEF EventsInOrder
    <3>2. QED
      BY <1>5, <2>1, <3>1 DEF EventsInOrder
  <2>3. UserIds' = UserIds
    <3>1. UserIds = {buffer[i].id : i \in UserEvents}
          /\ UserIds' = {buffer'[i].id : i \in UserEvents'}
      BY DEF UserIds
    <3>2. \A i \in UserEvents' : buffer'[i].id \in UserIds
      BY <1>2, <3>1
    <3>3. \A i \in UserEvents : buffer[i].id \in UserIds'
      BY <1>4, <2>1, <3>1
    <3>4. QED
      BY <3>1, <3>2, <3>3
  <2>4. QED
    BY <2>1, <2>2, <2>3 DEF QueueStep
<1>8. QED
  BY <1>6, <1>7

(* Every step keeps the order of the user events.                          *)
LEMMA OrderedStep == Consistent /\ EventsInOrder /\ [Next]_vars => QueueStep
<1> SUFFICES ASSUME Consistent, EventsInOrder, [Next]_vars PROVE QueueStep
  OBVIOUS
<1>1. CASE Work
  <2>1. taken' = taken /\ phase # "ended" /\ phase' # "ended"
    BY <1>1 DEF Work, UserCode, handVars, WindowUpdate, addCallback, removeCallback,
       stop, postUserEvent
  <2>2. CASE postUserEvent
    BY <2>1, <2>2, QueuePosts
  <2>3. CASE ~ postUserEvent
    <3>1. sent' = sent /\ buffer' \in {buffer, << >>}
      BY <1>1, <2>3 DEF Work, showWindow, setActiveWindow, closeWindow, removeWindow,
         WindowUpdate, addCallback, removeCallback, stop
    <3>2. QED
      BY <2>1, <3>1, QueueKept, QueueReset
  <2>4. QED
    BY <2>2, <2>3
<1>2. CASE Helper
  <2>1. taken' = taken /\ phase # "ended" /\ phase' # "ended"
    BY <1>2 DEF Helper, handVars, WindowUpdate, addCallback, stop, postUserEvent
  <2>2. CASE postUserEvent
    BY <2>1, <2>2, QueuePosts
  <2>3. CASE ~ postUserEvent
    <3>1. sent' = sent /\ buffer' = buffer
      BY <1>2, <2>3 DEF Helper, WindowUpdate, addCallback, stop
    <3>2. QED
      BY <2>1, <3>1, QueueKept
  <2>4. QED
    BY <2>2, <2>3
<1>3. ASSUME NEW w \in Windows, NEW k \in {"input", "close", "update"}, WindowEvent(w, k)
      PROVE  QueueStep
  BY <1>3, QueueSees DEF WindowEvent, handVars
<1>4. CASE Show \/ TestStopped \/ Abort
  <2>1. /\ taken' = taken /\ sent' = sent /\ buffer' \in {buffer, << >>}
        /\ phase' = "ended" \/ (phase # "ended" /\ phase' # "ended")
    BY <1>4 DEF Show, TestStopped, Abort, Goto, handVars, showWindow, setActiveWindow,
       closeWindow, removeWindow, stop
  <2>2. QED
    BY <2>1, QueueKept, QueueReset
<1>5. CASE AskUpdates \/ EndWait \/ ReturnFromHandler \/ updateWindows
  <2>1. taken' = taken /\ sent' = sent /\ buffer' = buffer /\ phase # "ended" /\ phase' # "ended"
    BY <1>5 DEF AskUpdates, EndWait, ReturnFromHandler, updateWindows, Goto, handVars
  <2>2. QED
    BY <2>1, QueueKept
<1>6. CASE BeginWait
  <2>1. /\ taken' = taken /\ sent' = sent /\ phase # "ended" /\ phase' # "ended"
        /\ \/ buffer' = buffer
           \/ buffer # << >> /\ Head(buffer).kind = "update" /\ buffer' = Tail(buffer)
    BY <1>6 DEF BeginWait, Goto, handVars
  <2>2. QED
    BY <2>1, QueueKept, QueueTakes
<1>7. CASE GetNextEvent
  <2>1. sent' = sent /\ phase # "ended" /\ phase' # "ended"
    BY <1>7 DEF GetNextEvent, Goto, handVars
  <2>2. CASE buffer = << >>
    BY <1>7, <2>1, <2>2, QueueKept DEF GetNextEvent, handVars
  <2>3. CASE buffer # << >>
    <3>1. /\ buffer' = Tail(buffer)
          /\ IF Head(buffer).kind = "user" THEN taken' = Head(buffer).id ELSE taken' = taken
      BY <1>7, <2>3 DEF GetNextEvent, handVars
    <3>2. QED
      BY <2>1, <2>3, <3>1, QueueTakes
  <2>4. QED
    BY <2>2, <2>3
<1>8. CASE UNCHANGED vars
  <2>1. UNCHANGED <<buffer, phase, taken, sent>>
    BY <1>8 DEF vars, handVars
  <2>2. EventsInOrder' /\ UNCHANGED <<UserIds, taken>>
    BY <2>1 DEF EventsInOrder, UserEvents, UserIds
  <2>3. QED
    BY <2>2 DEF QueueStep
<1>9. QED
  BY <1>1, <1>2, <1>3, <1>4, <1>5, <1>6, <1>7, <1>8 DEF Next, LoopStep

(***************************************************************************)
(* Every step of the main loop is one of EventQueue or changes nothing of  *)
(* it: user events are handled in the order they were posted, none twice,  *)
(* and those that are not are thrown away together (core/Engine.cpp        *)
(* postUserEvent, core/Application.cpp handleEvents).                      *)
(***************************************************************************)
THEOREM ImplementsQueue == Spec => Queue!Safety
<1>1. Init => EventsInOrder /\ Queue!Init
  BY DEF Init, EventsInOrder, UserEvents, UserIds, Queue!Init
<1>2. Consistent /\ EventsInOrder /\ [Next]_vars => EventsInOrder' /\ [Queue!Next]_Queue!vars
  BY OrderedStep DEF QueueStep, Queue!vars
<1>3. QED
  BY <1>1, <1>2, WindowsConsistent, PTL DEF Spec, Queue!Safety
=============================================================================
