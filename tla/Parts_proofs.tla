----------------------------- MODULE Parts_proofs -----------------------------
(***************************************************************************)
(* The books that the parts of the library keep, for any number of buttons,*)
(* timers, animations and threads.  A behaviour of MCParts is one of one   *)
(* part; the invariant of a part is proved from the steps of that part.    *)
(***************************************************************************)
EXTENDS MCParts, SequenceLemmas, FiniteSetTheorems, TLAPS

-------------------------------------------------------------------------------
(***************************************************************************)
(* Buttons that repeat from a thread.  Threads are made one after the      *)
(* other, so the handle is the number of the last one.  As long as no      *)
(* cancel() overlooked a thread that had not set _running, only that one   *)
(* may still run, and a handler that is done with it finds it ended.       *)
(***************************************************************************)

(* The threads made so far are those up to the handle.                     *)
Numbered ==
    /\ \A t \in B!Threads : helper[t] # "none" <=> t <= handle
    /\ handler.op = "press" => handle < MaxThreads
    /\ isRunning => handle # 0
    /\ handle # 0 => repeated \in Buttons

ButtonTypes == B!TypeOK /\ Numbered

(* All of them but the last have ended.                                    *)
LastIsAlive == \A t \in B!Threads : t < handle => helper[t] = "ended"

Working == handle # 0 /\ helper[handle] \in {"loop", "clicking", "returning"}

(* The thread will go on to click the target.                              *)
Clicks ==
    /\ handle # 0 /\ helper[handle] \in {"created", "loop", "clicking"}
    /\ repeated \notin limited

(* _running is true while the thread runs and a handler does not wait for  *)
(* it; what is cancelled is waited for.                                    *)
FlagIsTrue ==
    /\ handler.at # "join" => (isRunning <=> Working)
    /\ \A t \in cancelled : t <= handle /\ (helper[t] = "ended" \/ handler.at = "join")

(* What a handler finds: it waits for no thread that has not begun, and    *)
(* when it is done there is none that clicks for a button other than the   *)
(* held one.                                                               *)
HandlerFinds ==
    /\ handler.at = "join" => helper[handle] # "created"
    /\ handler.op = "press" => held = handler.button
    /\ handler.op = "press" /\ handler.at = "done" =>
          ~ isRunning /\ (handle = 0 \/ helper[handle] # "created")
    /\ handler.at = "done" /\ Clicks => held = repeated /\ handler = B!Idle
    /\ handle # 0 /\ helper[handle] = "clicking" => repeated \notin limited

ButtonsInv == ButtonTypes /\ LastIsAlive /\ FlagIsTrue /\ HandlerFinds

LEMMA ButtonConstants ==
    /\ MaxThreads \in Nat /\ B!Threads = 1 .. MaxThreads
    /\ B!Idle.at = "done" /\ B!Idle.op = "none" /\ B!Idle.button = NoButton
    /\ \A h \in B!Handlers : h # B!Idle /\ h.button \in Buttons /\ h.op \in {"press", "release", "leave"}
    /\ \A o \in {"press", "release", "leave"}, b \in Buttons, a \in {"cancel", "join", "done"} :
          [op |-> o, button |-> b, at |-> a] \in B!Handlers
BY PartThreadsAssumption DEF B!Threads, B!Idle, B!Handlers

(* The finite sets of RepeatThreads are those of this module.              *)
LEMMA SameCardinality == \A set : B!Cardinality(set) = Cardinality(set)
BY DEF B!Cardinality, Cardinality

(* The number of the next thread is one more than that of the last.        *)
LEMMA NextIsNew ==
    ASSUME ButtonTypes
    PROVE  B!NextThread = handle + 1 /\ handle \in 0 .. MaxThreads
<1>1. handle \in 0 .. MaxThreads
  BY ButtonConstants DEF ButtonTypes, B!TypeOK
<1> DEFINE made == {t \in B!Threads : helper[t] # "none"}
<1>2. made = 1 .. handle
  BY <1>1, ButtonConstants DEF ButtonTypes, Numbered
<1>3. B!NextThread = 1 + B!Cardinality(made)
  BY DEF B!NextThread
<1> HIDE DEF made
<1>4. B!Cardinality(made) = Cardinality(1 .. handle)
  BY <1>2, SameCardinality
<1>5. Cardinality(1 .. handle) = handle
  BY <1>1, FS_Interval
<1>6. QED
  BY <1>1, <1>3, <1>4, <1>5

LEMMA ButtonsInit == B!Init => ButtonsInv
<1> SUFFICES ASSUME B!Init PROVE ButtonsInv
  OBVIOUS
<1>1. B!TypeOK
  BY ButtonConstants DEF B!Init, B!TypeOK
<1>2. Numbered
  BY ButtonConstants DEF B!Init, Numbered
<1>3. LastIsAlive /\ FlagIsTrue /\ HandlerFinds
  BY ButtonConstants DEF B!Init, LastIsAlive, FlagIsTrue, HandlerFinds, Working, Clicks
<1>4. QED
  BY <1>1, <1>2, <1>3 DEF ButtonsInv, ButtonTypes

(* A handler goes on to its next stage.                                    *)
LEMMA HandlerGoesOn ==
    ASSUME NEW h \in B!Handlers, NEW a \in {"cancel", "join", "done"}
    PROVE  /\ [h EXCEPT !.at = a] \in B!Handlers
           /\ [h EXCEPT !.at = a].op = h.op /\ [h EXCEPT !.at = a].button = h.button
           /\ [h EXCEPT !.at = a].at = a
BY DEF B!Handlers

(* Which handler an event begins.                                          *)
LEMMA EventBegins ==
    ASSUME ButtonTypes, B!PointerEvent
    PROVE  /\ handler = B!Idle
           /\ UNCHANGED <<helper, cancelled, isRunning, handle, repeated, pressedDown, limited, missed>>
           /\ \/ \E b \in Buttons : /\ handle < MaxThreads /\ held' = b
                                    /\ handler' = [op |-> "press", button |-> b, at |-> "cancel"]
              \/ held' = NoButton /\ held \in limited /\ UNCHANGED handler
              \/ /\ held' = NoButton /\ held \in Buttons
                 /\ \E o \in {"release", "leave"} :
                       handler' = [op |-> o, button |-> held,
                                   at |-> IF repeated = held THEN "cancel" ELSE "done"]
<1>1. B!NextThread \in B!Threads => handle < MaxThreads
  BY NextIsNew, ButtonConstants
<1>2. held \in Buttons \cup {NoButton}
  BY DEF ButtonTypes, B!TypeOK
<1>3. QED
  BY <1>1, <1>2 DEF B!PointerEvent, B!Enter, B!Cancels, B!threadVars

(* The handler that cancel() and the join go on with.                      *)
LEMMA CancelGoesOn ==
    ASSUME ButtonTypes, handler.at \in {"cancel", "join"}, NEW a \in {"join", "done"},
           handler' = [handler EXCEPT !.at = a]
    PROVE  /\ handler \in B!Handlers /\ handler' \in B!Handlers
           /\ handler # B!Idle /\ handler' # B!Idle
           /\ handler'.op = handler.op /\ handler'.button = handler.button /\ handler'.at = a
<1>1. handler \in B!Handlers
  BY ButtonConstants DEF ButtonTypes, B!TypeOK
<1>2. QED
  BY <1>1, HandlerGoesOn, ButtonConstants

(* A press that is done starts a thread, unless one is running.            *)
LEMMA PressStarts ==
    ASSUME ButtonTypes, handler.op = "press", B!start
    PROVE  \/ isRunning /\ UNCHANGED <<helper, handle>> /\ handle # 0
           \/ /\ ~ isRunning /\ handle' = handle + 1 /\ handle' \in B!Threads
              /\ helper' = [helper EXCEPT ![handle'] = "created"]
BY NextIsNew, ButtonConstants DEF B!start, ButtonTypes, Numbered

(* The types are kept whether a thread was overlooked or not.              *)
LEMMA TypesStep == ButtonTypes /\ [B!Next]_repeatVars => ButtonTypes'
<1> SUFFICES ASSUME ButtonTypes, [B!Next]_repeatVars PROVE ButtonTypes'
  OBVIOUS
<1>1. handle \in 0 .. MaxThreads /\ B!TypeOK /\ Numbered
  BY NextIsNew DEF ButtonTypes
<1>2. CASE B!PointerEvent
  <2>1. /\ handler' \in B!Handlers \cup {B!Idle} /\ handler'.at # "join"
        /\ handler'.op = "press" => handle < MaxThreads
        /\ held' \in Buttons \cup {NoButton}
    <3>1. ASSUME NEW o \in {"press", "release", "leave"}, NEW b \in Buttons,
                 NEW a \in {"cancel", "done"}, handler' = [op |-> o, button |-> b, at |-> a]
          PROVE  handler' \in B!Handlers /\ handler'.at = a /\ handler'.op = o
      BY <3>1, ButtonConstants
    <3>2. CASE UNCHANGED handler
      BY <1>2, <3>2, EventBegins, ButtonConstants
    <3>3. QED
      BY <1>2, <3>1, <3>2, EventBegins
  <2>2. QED
    BY <1>1, <1>2, <2>1, EventBegins DEF ButtonTypes, B!TypeOK, Numbered
<1>3. CASE B!cancel
  <2>1. /\ UNCHANGED <<helper, isRunning, handle, repeated, held, pressedDown, limited>>
        /\ cancelled' \subseteq cancelled \cup {handle} /\ missed' \in BOOLEAN
        /\ \/ isRunning /\ handler' = [handler EXCEPT !.at = "join"]
           \/ cancelled' = cancelled /\ handler' = [handler EXCEPT !.at = "done"]
        /\ handler.at = "cancel"
    BY <1>1, <1>3 DEF B!cancel, B!LooksAtFlag, B!TypeOK
  <2>2. /\ handler' \in B!Handlers /\ handler'.op = handler.op
        /\ \/ handler'.at = "join" /\ isRunning
           \/ handler'.at = "done" /\ cancelled' = cancelled
    BY <2>1, CancelGoesOn
  <2>3. handler'.at = "join" => handle \in B!Threads
    BY <1>1, <2>2, ButtonConstants DEF Numbered
  <2>4. QED
    BY <1>1, <2>1, <2>2, <2>3, ButtonConstants DEF ButtonTypes, B!TypeOK, Numbered
<1>4. CASE B!join
  <2>1. handler' \in B!Handlers /\ handler'.op = handler.op /\ handler'.at = "done"
    BY <1>4, CancelGoesOn DEF B!join
  <2>2. QED
    BY <1>1, <1>4, <2>1 DEF B!join, ButtonTypes, B!TypeOK, Numbered
<1>5. CASE B!FinishHandler
  <2>1. /\ handler' = B!Idle /\ handler \in B!Handlers
        /\ UNCHANGED <<cancelled, isRunning, held, limited, missed>>
        /\ handler.button \in Buttons
    BY <1>1, <1>5, ButtonConstants DEF B!FinishHandler, B!TypeOK
  <2>2. CASE UNCHANGED <<helper, handle>>
    <3>1. /\ repeated' \in Buttons \cup {NoButton} /\ pressedDown' \subseteq Buttons
          /\ repeated' = repeated \/ repeated' \in Buttons
      BY <1>1, <1>5, <2>1 DEF B!FinishHandler, B!TypeOK
    <3>2. QED
      BY <1>1, <2>1, <2>2, <3>1, ButtonConstants DEF ButtonTypes, B!TypeOK, Numbered
  <2>3. CASE /\ handler.op = "press" /\ repeated' = handler.button
             /\ pressedDown' = pressedDown \cup {handler.button}
             /\ handle' = handle + 1 /\ handle' \in B!Threads
             /\ helper' = [helper EXCEPT ![handle'] = "created"]
    <3>1. B!TypeOK'
      BY <1>1, <2>1, <2>3, ButtonConstants DEF B!TypeOK
    <3>2. \A t \in B!Threads : helper'[t] # "none" <=> t <= handle'
      BY <1>1, <2>3, ButtonConstants DEF B!TypeOK, Numbered
    <3>3. QED
      BY <1>1, <2>1, <2>3, <3>1, <3>2, ButtonConstants DEF ButtonTypes, Numbered
  <2>4. QED
    BY <1>5, <2>2, <2>3, PressStarts DEF B!FinishHandler
<1>6. ASSUME NEW t \in B!Threads, B!run(t) PROVE ButtonTypes'
  <2>1. PICK s \in {"loop", "clicking", "returning", "ended"} :
           helper[t] \notin {"none", "ended"} /\ helper' = [helper EXCEPT ![t] = s]
    BY <1>6 DEF B!run, B!Begin, B!TestCancel, B!Click, B!Return, B!Become
  <2>2. t <= handle /\ handle # 0 /\ repeated \in Buttons
    BY <1>1, <2>1, ButtonConstants DEF Numbered
  <2>3. /\ UNCHANGED <<handle, repeated, handler, held, pressedDown, missed, cancelled>>
        /\ limited' \subseteq Buttons /\ isRunning' \in BOOLEAN
    BY <1>1, <1>6, <2>2 DEF B!run, B!Begin, B!TestCancel, B!Click, B!Return, B!othersKept, B!TypeOK
  <2>4. /\ helper' \in [B!Threads -> {"none", "created", "loop", "clicking", "returning", "ended"}]
        /\ \A u \in B!Threads : helper'[u] = "none" <=> helper[u] = "none"
    BY <1>1, <2>1 DEF B!TypeOK
  <2>5. QED
    BY <1>1, <2>2, <2>3, <2>4 DEF ButtonTypes, B!TypeOK, Numbered
<1>7. CASE UNCHANGED repeatVars
  BY <1>1, <1>7 DEF repeatVars, ButtonTypes, B!TypeOK, Numbered
<1>8. QED
  BY <1>2, <1>3, <1>4, <1>5, <1>6, <1>7 DEF B!Next

(* The handlers of the main thread.                                        *)
LEMMA PointerEventKeeps ==
    ASSUME ButtonsInv, B!PointerEvent
    PROVE  LastIsAlive' /\ FlagIsTrue' /\ HandlerFinds'
<1>1. /\ handler = B!Idle
      /\ UNCHANGED <<helper, cancelled, isRunning, handle, repeated, pressedDown, limited>>
      /\ \/ \E b \in Buttons : /\ held' = b
                               /\ handler' = [op |-> "press", button |-> b, at |-> "cancel"]
         \/ held' = NoButton /\ held \in limited /\ UNCHANGED handler
         \/ /\ held' = NoButton
            /\ \E o \in {"release", "leave"} :
                  handler' = [op |-> o, button |-> held,
                              at |-> IF repeated = held THEN "cancel" ELSE "done"]
  BY EventBegins DEF ButtonsInv
<1>2. LastIsAlive /\ FlagIsTrue /\ HandlerFinds
  BY DEF ButtonsInv
<1>3. LastIsAlive'
  BY <1>1, <1>2 DEF LastIsAlive
<1>4. handler'.at \in {"cancel", "done"}
  BY <1>1, ButtonConstants
<1>5. FlagIsTrue'
  BY <1>1, <1>2, <1>4, ButtonConstants DEF FlagIsTrue, Working
<1>6. HandlerFinds'
  <2>1. Clicks' = Clicks
    BY <1>1 DEF Clicks
  <2>2. Clicks => held = repeated
    BY <1>1, <1>2, ButtonConstants DEF HandlerFinds
  <2>3. ASSUME NEW b \in Buttons, held' = b,
               handler' = [op |-> "press", button |-> b, at |-> "cancel"]
        PROVE  HandlerFinds'
    BY <1>1, <1>2, <2>3 DEF HandlerFinds
  <2>4. CASE held' = NoButton /\ held \in limited /\ UNCHANGED handler
    <3>1. ~ Clicks
      BY <2>2, <2>4 DEF Clicks
    <3>2. QED
      BY <1>1, <1>2, <2>1, <2>4, <3>1, ButtonConstants DEF HandlerFinds
  <2>5. ASSUME NEW o \in {"release", "leave"}, held' = NoButton,
               handler' = [op |-> o, button |-> held,
                           at |-> IF repeated = held THEN "cancel" ELSE "done"]
        PROVE  HandlerFinds'
    <3>1. repeated # held => ~ Clicks
      BY <2>2
    <3>2. handler'.op # "press" /\ handler'.at # "join" /\ (handler'.at = "done" => ~ Clicks')
      BY <2>1, <2>5, <3>1
    <3>3. QED
      BY <1>1, <1>2, <3>2 DEF HandlerFinds
  <2>6. QED
    BY <1>1, <2>3, <2>4, <2>5
<1>7. QED
  BY <1>3, <1>5, <1>6

LEMMA CancelKeeps ==
    ASSUME ButtonsInv, B!cancel, ~ missed'
    PROVE  LastIsAlive' /\ FlagIsTrue' /\ HandlerFinds'
<1>1. /\ handler.at = "cancel"
      /\ UNCHANGED <<helper, isRunning, handle, repeated, held, pressedDown, limited>>
      /\ \/ /\ isRunning /\ cancelled' = cancelled \cup {handle}
            /\ handler' = [handler EXCEPT !.at = "join"]
         \/ /\ ~ isRunning /\ cancelled' = cancelled
            /\ handler' = [handler EXCEPT !.at = "done"]
            /\ \A t \in B!Threads : helper[t] # "created"
  BY DEF B!cancel, B!LooksAtFlag
<1>2. handle \in 0 .. MaxThreads /\ ButtonTypes /\ LastIsAlive /\ FlagIsTrue /\ HandlerFinds
  BY NextIsNew DEF ButtonsInv
<1>3. LastIsAlive'
  BY <1>1, <1>2 DEF LastIsAlive
<1>4. (isRunning <=> Working) /\ Clicks' = Clicks /\ Working' = Working
  BY <1>1, <1>2 DEF FlagIsTrue, Clicks, Working
<1>5. CASE /\ isRunning /\ cancelled' = cancelled \cup {handle}
           /\ handler' = [handler EXCEPT !.at = "join"]
  <2>1. handler'.at = "join" /\ handler'.op = handler.op /\ handler'.button = handler.button
    BY <1>1, <1>2, <1>5, CancelGoesOn
  <2>2. handle # 0 /\ helper[handle] # "created"
    BY <1>4, <1>5 DEF Working
  <2>3. FlagIsTrue'
    BY <1>1, <1>2, <1>5, <2>1 DEF FlagIsTrue
  <2>4. HandlerFinds'
    BY <1>1, <1>2, <2>1, <2>2 DEF HandlerFinds
  <2>5. QED
    BY <1>3, <2>3, <2>4
<1>6. CASE /\ ~ isRunning /\ cancelled' = cancelled
           /\ handler' = [handler EXCEPT !.at = "done"]
           /\ \A t \in B!Threads : helper[t] # "created"
  <2>1. /\ handler'.at = "done" /\ handler'.op = handler.op /\ handler'.button = handler.button
    BY <1>1, <1>2, <1>6, CancelGoesOn
  <2>2. FlagIsTrue'
    BY <1>1, <1>2, <1>4, <1>6, <2>1 DEF FlagIsTrue
  <2>3. handle = 0 \/ helper[handle] # "created"
    BY <1>2, <1>6, ButtonConstants
  <2>4. ~ Clicks
    BY <1>4, <1>6, <2>3 DEF Clicks, Working
  <2>5. HandlerFinds'
    BY <1>1, <1>2, <1>4, <1>6, <2>1, <2>3, <2>4 DEF HandlerFinds
  <2>6. QED
    BY <1>3, <2>2, <2>5
<1>7. QED
  BY <1>1, <1>5, <1>6

LEMMA JoinKeeps ==
    ASSUME ButtonsInv, B!join
    PROVE  LastIsAlive' /\ FlagIsTrue' /\ HandlerFinds'
<1>1. /\ handler.at = "join" /\ helper[handle] = "ended" /\ isRunning' = FALSE
      /\ UNCHANGED <<helper, cancelled, handle, repeated, held, pressedDown, limited>>
  BY DEF B!join
<1>2. handle \in 0 .. MaxThreads /\ ButtonTypes /\ LastIsAlive /\ FlagIsTrue /\ HandlerFinds
  BY NextIsNew DEF ButtonsInv
<1>3. handler'.op = handler.op /\ handler'.button = handler.button /\ handler'.at = "done"
  BY <1>1, <1>2, CancelGoesOn DEF B!join
<1>4. LastIsAlive'
  BY <1>1, <1>2 DEF LastIsAlive
<1>5. ~ Working' /\ ~ Clicks'
  BY <1>1 DEF Clicks, Working
<1>6. FlagIsTrue'
  <2>1. \A t \in cancelled : helper[t] = "ended"
    <3>1. \A t \in cancelled : t \in B!Threads /\ t <= handle
      BY <1>2 DEF FlagIsTrue, ButtonTypes, B!TypeOK
    <3>2. \A t \in cancelled : t = handle \/ t < handle
      BY <1>2, <3>1, ButtonConstants
    <3>3. QED
      BY <1>1, <1>2, <3>1, <3>2 DEF LastIsAlive
  <2>2. QED
    BY <1>1, <1>2, <1>3, <1>5, <2>1 DEF FlagIsTrue
<1>7. HandlerFinds'
  BY <1>1, <1>2, <1>3, <1>5 DEF HandlerFinds
<1>8. QED
  BY <1>4, <1>6, <1>7

(* The handlers come to an end; a press starts a thread.                   *)
LEMMA FinishHandlerKeeps ==
    ASSUME ButtonsInv, B!FinishHandler
    PROVE  LastIsAlive' /\ FlagIsTrue' /\ HandlerFinds'
<1>1. /\ handler # B!Idle /\ handler.at = "done" /\ handler' = B!Idle
      /\ UNCHANGED <<cancelled, isRunning, held, limited>>
  BY DEF B!FinishHandler
<1>2. handle \in 0 .. MaxThreads /\ ButtonTypes /\ LastIsAlive /\ FlagIsTrue /\ HandlerFinds
  BY NextIsNew DEF ButtonsInv
<1>3. (isRunning <=> Working) /\ ~ Clicks
  BY <1>1, <1>2 DEF FlagIsTrue, HandlerFinds
<1>4. CASE handler.op # "press" /\ UNCHANGED <<helper, handle, repeated>>
  <2>1. Working' = Working /\ Clicks' = Clicks
    BY <1>1, <1>4 DEF Working, Clicks
  <2>2. LastIsAlive'
    BY <1>2, <1>4 DEF LastIsAlive
  <2>3. FlagIsTrue'
    BY <1>1, <1>2, <1>3, <1>4, <2>1, ButtonConstants DEF FlagIsTrue
  <2>4. HandlerFinds'
    BY <1>1, <1>2, <1>3, <1>4, <2>1, ButtonConstants DEF HandlerFinds
  <2>5. QED
    BY <2>2, <2>3, <2>4
<1>5. CASE handler.op = "press" /\ B!start /\ repeated' = handler.button
  <2>1. ~ isRunning /\ (handle = 0 \/ helper[handle] # "created") /\ held = handler.button
    BY <1>1, <1>2, <1>5 DEF HandlerFinds
  <2>2. /\ handle' = handle + 1 /\ handle' \in B!Threads
        /\ helper' = [helper EXCEPT ![handle'] = "created"]
    BY <1>2, <1>5, <2>1, PressStarts
  <2>3. /\ helper'[handle'] = "created" /\ handle' # 0
        /\ \A t \in B!Threads : t # handle' => helper'[t] = helper[t]
    BY <1>2, <2>2, ButtonConstants DEF ButtonTypes, B!TypeOK
  <2>4. handle # 0 => helper[handle] = "ended"
    BY <1>2, <1>3, <2>1, ButtonConstants DEF Working, ButtonTypes, Numbered, B!TypeOK
  <2>5. LastIsAlive'
    <3>1. \A t \in B!Threads : t \in Nat \ {0} /\ (t < handle + 1 => t < handle \/ t = handle)
      BY <1>2, ButtonConstants
    <3>2. QED
      BY <1>2, <2>2, <2>3, <2>4, <3>1, ButtonConstants DEF LastIsAlive
  <2>6. FlagIsTrue'
    <3>1. \A t \in cancelled : t \in B!Threads /\ t <= handle /\ helper[t] = "ended"
      BY <1>1, <1>2 DEF FlagIsTrue, ButtonTypes, B!TypeOK
    <3>2. \A t \in cancelled : t <= handle' /\ t # handle'
      BY <1>2, <2>2, <3>1, ButtonConstants
    <3>3. ~ Working'
      BY <2>3 DEF Working
    <3>4. QED
      BY <1>1, <2>1, <2>3, <3>1, <3>2, <3>3 DEF FlagIsTrue
  <2>7. HandlerFinds'
    BY <1>1, <1>5, <2>1, <2>3, ButtonConstants DEF HandlerFinds
  <2>8. QED
    BY <2>5, <2>6, <2>7
<1>6. QED
  BY <1>4, <1>5 DEF B!FinishHandler

(* Only the last thread takes a step.                                      *)
LEMMA OnlyLastRuns ==
    ASSUME ButtonsInv, NEW t \in B!Threads, helper[t] \notin {"none", "ended"}
    PROVE  t = handle /\ handle # 0
<1>1. handle \in 0 .. MaxThreads /\ Numbered /\ LastIsAlive
  BY NextIsNew DEF ButtonsInv, ButtonTypes
<1>2. t \in Nat \ {0} /\ t <= handle /\ ~ (t < handle)
  BY <1>1, ButtonConstants DEF Numbered, LastIsAlive
<1>3. QED
  BY <1>1, <1>2

LEMMA ThreadKeeps ==
    ASSUME ButtonsInv, NEW t \in B!Threads, B!run(t)
    PROVE  LastIsAlive' /\ FlagIsTrue' /\ HandlerFinds'
<1>1. /\ B!othersKept /\ UNCHANGED cancelled
      /\ helper[t] \in {"created", "loop", "clicking", "returning"}
  BY DEF B!run, B!Begin, B!TestCancel, B!Click, B!Return
<1>2. t = handle /\ handle # 0
  BY <1>1, OnlyLastRuns
<1>3. UNCHANGED <<handle, repeated, handler, held, pressedDown, cancelled>>
  BY <1>1 DEF B!othersKept
<1>4. handle \in 0 .. MaxThreads /\ B!TypeOK /\ LastIsAlive /\ FlagIsTrue /\ HandlerFinds
  BY NextIsNew DEF ButtonsInv, ButtonTypes
<1>5. \A u \in cancelled : u \in B!Threads /\ u <= handle /\ (helper[u] = "ended" \/ handler.at = "join")
  BY <1>4 DEF FlagIsTrue, B!TypeOK
<1>6. ASSUME NEW s \in {"loop", "clicking", "returning", "ended"}, B!Become(handle, s)
      PROVE  /\ LastIsAlive' /\ helper'[handle] = s
             /\ \A u \in B!Threads : u # handle => helper'[u] = helper[u]
  <2>1. helper' = [helper EXCEPT ![handle] = s]
    BY <1>6 DEF B!Become
  <2>2. /\ helper'[handle] = s
        /\ \A u \in B!Threads : u # handle => helper'[u] = helper[u]
    BY <1>2, <1>4, <2>1 DEF B!TypeOK
  <2>3. QED
    BY <1>3, <1>4, <2>2, ButtonConstants DEF LastIsAlive
<1>7. CASE B!Begin(t)
  <2>1. B!Become(handle, "loop") /\ isRunning' = TRUE /\ UNCHANGED limited /\ helper[handle] = "created"
    BY <1>2, <1>7 DEF B!Begin
  <2>2. LastIsAlive' /\ helper'[handle] = "loop"
    BY <1>6, <2>1
  <2>3. handler.at # "join" /\ ~ (handler.op = "press" /\ handler.at = "done")
    BY <1>2, <1>4, <2>1 DEF HandlerFinds
  <2>4. Working' /\ (Clicks' => Clicks)
    BY <1>2, <1>3, <2>1, <2>2 DEF Working, Clicks
  <2>5. FlagIsTrue'
    <3>1. \A u \in cancelled : u # handle /\ helper[u] = "ended" /\ helper'[u] = "ended"
      BY <1>5, <1>6, <2>1, <2>3
    <3>2. QED
      BY <1>3, <1>5, <2>1, <2>4, <3>1 DEF FlagIsTrue
  <2>6. HandlerFinds'
    BY <1>2, <1>3, <1>4, <2>2, <2>3, <2>4 DEF HandlerFinds
  <2>7. QED
    BY <2>2, <2>5, <2>6
<1>8. ASSUME NEW s \in {"loop", "clicking", "returning", "ended"}, B!Become(handle, s),
             helper[handle] \in {"loop", "clicking", "returning"},
             \/ UNCHANGED isRunning /\ (s # "ended" \/ handle \in cancelled)
             \/ isRunning' = FALSE /\ s = "ended",
             Clicks' => Clicks, s = "clicking" => repeated \notin limited'
      PROVE  LastIsAlive' /\ FlagIsTrue' /\ HandlerFinds'
  <2>1. /\ LastIsAlive' /\ helper'[handle] = s
        /\ \A u \in B!Threads : helper[u] = "ended" => helper'[u] = "ended"
    BY <1>6, <1>8
  <2>2. FlagIsTrue'
    <3>1. \A u \in cancelled : u <= handle /\ (helper'[u] = "ended" \/ handler.at = "join")
      BY <1>5, <2>1
    <3>2. handler.at # "join" => (isRunning <=> Working) /\ handle \notin cancelled
      BY <1>4, <1>5, <1>8 DEF FlagIsTrue
    <3>3. Working /\ (Working' <=> s # "ended")
      BY <1>2, <1>3, <1>8, <2>1 DEF Working
    <3>4. QED
      BY <1>3, <1>8, <3>1, <3>2, <3>3 DEF FlagIsTrue
  <2>3. handler.op = "press" /\ handler.at = "done" => ~ isRunning'
    BY <1>4, <1>8 DEF HandlerFinds
  <2>4. HandlerFinds'
    BY <1>2, <1>3, <1>4, <1>8, <2>1, <2>3 DEF HandlerFinds
  <2>5. QED
    BY <2>1, <2>2, <2>4
<1>9. CASE B!TestCancel(t)
  <2>1. helper[handle] = "loop" /\ UNCHANGED <<isRunning, limited>>
    BY <1>2, <1>9 DEF B!TestCancel
  <2>2. \E s \in {"clicking", "returning", "ended"} :
           /\ B!Become(handle, s) /\ (s = "ended" <=> handle \in cancelled)
           /\ s = "clicking" => repeated \notin limited
    BY <1>2, <1>9 DEF B!TestCancel
  <2>3. Clicks' => Clicks
    BY <1>2, <1>3, <2>1 DEF Clicks
  <2>4. QED
    BY <1>8, <2>1, <2>2, <2>3
<1>10. CASE B!Click(t)
  <2>1. helper[handle] = "clicking" /\ UNCHANGED isRunning /\ Clicks
    BY <1>2, <1>4, <1>10 DEF B!Click, HandlerFinds, Clicks
  <2>2. \/ B!Become(handle, "ended") /\ handle \in cancelled
        \/ B!Become(handle, "loop")
    BY <1>2, <1>10 DEF B!Click
  <2>3. QED
    BY <1>8, <2>1, <2>2
<1>11. CASE B!Return(t)
  <2>1. /\ helper[handle] = "returning" /\ isRunning' = FALSE /\ UNCHANGED limited
        /\ B!Become(handle, "ended")
    BY <1>2, <1>11 DEF B!Return
  <2>2. ~ Clicks'
    BY <1>3, <1>6, <2>1 DEF Clicks
  <2>3. QED
    BY <1>8, <2>1, <2>2
<1>12. QED
  BY <1>7, <1>9, <1>10, <1>11 DEF B!run

LEMMA ButtonsStep == ButtonsInv /\ [B!Next]_repeatVars /\ ~ missed' => ButtonsInv'
<1> SUFFICES ASSUME ButtonsInv, [B!Next]_repeatVars, ~ missed'
             PROVE  LastIsAlive' /\ FlagIsTrue' /\ HandlerFinds'
  BY TypesStep DEF ButtonsInv
<1>1. CASE B!PointerEvent \/ B!cancel \/ B!join \/ B!FinishHandler
  BY <1>1, PointerEventKeeps, CancelKeeps, JoinKeeps, FinishHandlerKeeps
<1>2. CASE \E t \in B!Threads : B!run(t)
  BY <1>2, ThreadKeeps
<1>3. CASE UNCHANGED repeatVars
  BY <1>3 DEF repeatVars, ButtonsInv, LastIsAlive, FlagIsTrue, HandlerFinds, Working, Clicks
<1>4. QED
  BY <1>1, <1>2, <1>3 DEF B!Next

(* What was overlooked stays so.                                           *)
LEMMA MissedStays == ButtonTypes /\ [B!Next]_repeatVars /\ missed => missed'
BY DEF B!Next, B!PointerEvent, B!cancel, B!LooksAtFlag, B!join, B!FinishHandler, B!run, B!Begin,
       B!TestCancel, B!Click, B!Return, B!othersKept, repeatVars

(* What the run checks follows: at most the last thread is alive.          *)
LEMMA ButtonsKept ==
    ASSUME ButtonsInv
    PROVE  B!OneThread /\ B!FlagSaysRunning /\ B!RepeatsWhileHeld
<1>1. handle \in 0 .. MaxThreads /\ B!TypeOK /\ Numbered /\ FlagIsTrue /\ HandlerFinds
  BY NextIsNew DEF ButtonsInv, ButtonTypes
<1>2. \A t \in B!Threads : helper[t] \notin {"none", "ended"} => t = handle /\ handle # 0
  BY OnlyLastRuns
<1>3. B!OneThread
  <2> DEFINE alive == {t \in B!Threads : B!Alive(t)}
  <2>1. alive \subseteq {handle}
    BY <1>2 DEF B!Alive
  <2>2. B!OneThread <=> B!Cardinality(alive) <= 1
    BY DEF B!OneThread
  <2> HIDE DEF alive
  <2>3. alive = {} \/ alive = {handle}
    BY <2>1
  <2>4. Cardinality({}) = 0 /\ Cardinality({handle}) = 1
    BY FS_EmptySet, FS_Singleton
  <2>5. Cardinality(alive) <= 1
    BY <2>3, <2>4
  <2>6. QED
    BY <2>2, <2>5, SameCardinality
<1>4. B!FlagSaysRunning
  <2>1. Working <=> \E t \in B!Threads : B!Alive(t) /\ helper[t] # "created"
    BY <1>1, <1>2, ButtonConstants DEF Working, B!Alive, B!TypeOK
  <2>2. handler.at # "join" => (isRunning <=> Working)
    BY <1>1 DEF FlagIsTrue
  <2>3. handler.at # "join" => (isRunning <=> \E t \in B!Threads : B!Alive(t) /\ helper[t] # "created")
    BY <2>1, <2>2
  <2>4. isRunning \in BOOLEAN
    BY <1>1 DEF B!TypeOK
  <2>5. QED
    BY <2>3, <2>4 DEF B!FlagSaysRunning
<1>5. B!RepeatsWhileHeld
  BY <1>1, <1>2, ButtonConstants DEF HandlerFinds, Clicks, B!RepeatsWhileHeld
<1>6. QED
  BY <1>3, <1>4, <1>5

(***************************************************************************)
(* A button that repeats has at most one thread alive, _running says so    *)
(* wherever a handler reads it, and once the handlers have returned only   *)
(* the held button is clicked (ui/ToolButton.cpp, lib/Thread.cpp), as long *)
(* as no cancel() has looked at _running between the creation of a thread  *)
(* and its setting of the flag.  Events may come at any time.              *)
(***************************************************************************)
THEOREM ButtonsRepeatOnlyWhileHeld == PartsSpec => []RepeatersKept
<1> DEFINE Inv == part = "buttons" => ButtonTypes /\ (~ missed => ButtonsInv)
<1>1. PartsInit => Inv
  BY ButtonsInit DEF PartsInit, ButtonsInv
<1>2. Inv /\ [PartsNext]_all => Inv'
  <2> SUFFICES ASSUME Inv, [PartsNext]_all, part' = "buttons"
               PROVE  ButtonTypes' /\ (~ missed' => ButtonsInv')
    OBVIOUS
  <2>1. part = "buttons" /\ [B!Next]_repeatVars
    BY DEF PartsNext, Others, all
  <2>2. QED
    BY <2>1, TypesStep, ButtonsStep, MissedStays
<1>3. Inv => RepeatersKept
  BY ButtonsKept DEF RepeatersKept, ButtonTypes
<1>4. QED
  BY <1>1, <1>2, <1>3, PTL DEF PartsSpec

-------------------------------------------------------------------------------
(***************************************************************************)
(* Animations and their sequence.  Animations of the sequence are started  *)
(* by the sequence alone, so when one begins none of them runs: at its     *)
(* start because _current is not set, at an end because the one that runs  *)
(* has just stopped and is followed by one other, there being no second    *)
(* place of it in the order.                                               *)
(***************************************************************************)

InOrder == A!ToSet(Order)

(* _current is set as long as an animation of the sequence runs.           *)
SetWhileRunning ==
    seqCurrent = NoAnimation => \A a \in InOrder : state[a] # "Running"

(* TypeOK in two parts: the times of the animations and the rest.          *)
TimesOK ==
    \A a \in A!Animations :
        /\ since[a] \in 0 .. A!EndOfLoop(a)
        /\ current[a] \in -Delay[a] .. Duration[a] + 1
        /\ loopNo[a] \in 1 .. IF Loops[a] = 0 THEN 1 ELSE Loops[a]
        /\ played[a] \in 0 .. A!EndOfPlay(a)

KindsOK ==
    /\ state \in [A!Animations -> {"Running", "Paused", "Stopped"}]
    /\ listed \subseteq A!Animations /\ waited \subseteq A!Animations
    /\ stalled \subseteq A!Animations
    /\ seqCurrent \in InOrder \cup {NoAnimation}
    /\ looping \in BOOLEAN /\ connected \in BOOLEAN
    /\ calls \in 0 .. 3

AnimInv == KindsOK /\ TimesOK /\ A!RunningIsCalled /\ A!OneAtATime /\ SetWhileRunning

LEMMA TypeInParts == A!TypeOK <=> KindsOK /\ TimesOK
BY DEF A!TypeOK, KindsOK, TimesOK, InOrder

LEMMA AnimationConstants ==
    /\ InOrder = ToSet(Order) /\ A!Animations = Single \cup InOrder
    /\ NoAnimation \notin InOrder /\ Single \cap InOrder = {}
    /\ \A a \in A!Animations : Delay[a] \in Nat /\ Duration[a] \in Nat /\ Loops[a] \in Nat
    /\ \A a \in InOrder : Duration[a] # 0
<1>1. InOrder = ToSet(Order)
  BY DEF InOrder, A!ToSet, ToSet
<1>2. A!Animations = Single \cup InOrder
  BY DEF A!Animations, InOrder
<1>3. QED
  BY <1>1, <1>2, PartAnimationsAssumption

(* The places of the order are those of its animations.                    *)
LEMMA OrderPlaces ==
    /\ Len(Order) \in Nat /\ Len(Order) # 0 /\ DOMAIN Order = 1 .. Len(Order)
    /\ \A i \in 1 .. Len(Order) : Order[i] \in InOrder
    /\ \A i, j \in 1 .. Len(Order) : Order[i] = Order[j] => i = j
    /\ A!First \in InOrder
<1>1. Order \in Seq(ToSet(Order)) /\ Order # << >>
  BY PartAnimationsAssumption
<1>2. Len(Order) \in Nat /\ Len(Order) # 0 /\ DOMAIN Order = 1 .. Len(Order)
  BY <1>1
<1>3. \A i \in 1 .. Len(Order) : Order[i] \in InOrder
  BY <1>2 DEF InOrder, A!ToSet
<1>4. \A i, j \in 1 .. Len(Order) : Order[i] = Order[j] => i = j
  BY <1>2, PartAnimationsAssumption DEF IsInjective
<1>5. A!First = Order[1]
  BY <1>1 DEF A!First
<1>6. QED
  BY <1>2, <1>3, <1>4, <1>5

(* An animation of the sequence is followed by at most one of them, one of *)
(* its own by none.                                                        *)
LEMMA OneSuccessor ==
    ASSUME NEW a \in A!Animations
    PROVE  /\ A!Successors(a) \subseteq InOrder
           /\ a \notin InOrder => A!Successors(a) = {}
           /\ \A b, c \in A!Successors(a) : b = c
<1> DEFINE places == {j \in DOMAIN Order : j < Len(Order) /\ Order[j] = a}
           next == {Order[i + 1] : i \in places}
           again == IF connected /\ a = A!Last(Order) THEN {A!First} ELSE {}
<1>1. A!Successors(a) = next \cup again
  BY DEF A!Successors
<1>2. A!Last(Order) = Order[Len(Order)]
  BY DEF A!Last
<1>3. \A i \in places : i \in 1 .. Len(Order) /\ i + 1 \in 1 .. Len(Order) /\ Order[i] = a /\ i # Len(Order)
  BY OrderPlaces
<1>4. \A i, j \in places : i = j
  BY <1>3, OrderPlaces
<1>5. again # {} => a = Order[Len(Order)] /\ again = {A!First}
  BY <1>2
<1>6. Len(Order) \in 1 .. Len(Order)
  BY OrderPlaces
<1>7. again # {} => places = {}
  BY <1>3, <1>5, <1>6, OrderPlaces
<1>8. next \subseteq InOrder /\ again \subseteq InOrder
  BY <1>3, OrderPlaces
<1>9. \A b, c \in next : b = c
  BY <1>4
<1>10. a \notin InOrder => places = {} /\ again = {}
  BY <1>3, <1>5, <1>6, OrderPlaces
<1>11. places = {} => next = {}
  OBVIOUS
<1>12. \A b, c \in again : b = c
  OBVIOUS
<1> HIDE DEF places, next, again
<1>13. QED
  BY <1>1, <1>7, <1>8, <1>9, <1>10, <1>11, <1>12

(* The times of an animation are numbers.                                  *)
LEMMA EndsAreNumbers ==
    \A a \in A!Animations : A!EndOfLoop(a) \in Nat /\ A!EndOfPlay(a) \in Nat
<1> TAKE a \in A!Animations
<1>1. Delay[a] \in Nat /\ Duration[a] \in Nat /\ Loops[a] \in Nat
  BY AnimationConstants
<1>2. A!EndOfLoop(a) \in Nat
  BY <1>1 DEF A!EndOfLoop
<1>3. A!EndOfLoop(a) * Loops[a] \in Nat
  BY <1>1, <1>2
<1>4. QED
  BY <1>2, <1>3 DEF A!EndOfPlay

LEMMA AnimationsInit == A!Init => AnimInv
<1> SUFFICES ASSUME A!Init PROVE AnimInv
  OBVIOUS
<1>1. TimesOK
  <2> SUFFICES ASSUME NEW a \in A!Animations
               PROVE  /\ since[a] \in 0 .. A!EndOfLoop(a)
                      /\ current[a] \in -Delay[a] .. Duration[a] + 1
                      /\ loopNo[a] \in 1 .. IF Loops[a] = 0 THEN 1 ELSE Loops[a]
                      /\ played[a] \in 0 .. A!EndOfPlay(a)
    BY DEF TimesOK
  <2>1. since[a] = 0 /\ current[a] = 0 /\ loopNo[a] = 1 /\ played[a] = 0
    BY DEF A!Init
  <2>2. QED
    BY <2>1, AnimationConstants, EndsAreNumbers
<1>2. KindsOK
  <2>1. state \in [A!Animations -> {"Running", "Paused", "Stopped"}]
    BY DEF A!Init
  <2>2. listed \subseteq A!Animations /\ stalled \subseteq A!Animations
        /\ waited \subseteq A!Animations
    BY DEF A!Init
  <2>3. seqCurrent = NoAnimation
    BY DEF A!Init
  <2>4. looping \in BOOLEAN /\ connected \in BOOLEAN
    BY DEF A!Init
  <2>5. calls = 0
    BY DEF A!Init
  <2>6. calls \in 0 .. 3
    BY <2>5
  <2>7. QED
    BY <2>1, <2>2, <2>3, <2>4, <2>6 DEF KindsOK
<1>3. \A a \in A!Animations : state[a] = "Stopped"
  BY DEF A!Init
<1>4. \A a \in InOrder : state[a] = "Stopped"
  BY <1>3, AnimationConstants
<1>5. QED
  BY <1>1, <1>2, <1>3, <1>4 DEF AnimInv, A!RunningIsCalled, A!OneAtATime,
       SetWhileRunning, InOrder

(* What a start of some animations does to those that it starts and to the *)
(* others.                                                                 *)
LEMMA StartedOnes ==
    ASSUME NEW f, NEW these, NEW v
    PROVE  /\ DOMAIN A!Started(f, these, v) = A!Animations
           /\ \A a \in A!Animations :
                  A!Started(f, these, v)[a] = IF a \in these THEN v ELSE f[a]
BY DEF A!Started

(* An animation that starts begins at its times' zero.                     *)
LEMMA StartKeepsTimes ==
    ASSUME TimesOK, NEW these \in SUBSET A!Animations,
           since' = A!Started(since, these, 0), current' = A!Started(current, these, 0),
           loopNo' = A!Started(loopNo, these, 1), played' = A!Started(played, these, 0)
    PROVE  TimesOK'
<1> SUFFICES ASSUME NEW a \in A!Animations
             PROVE  /\ since'[a] \in 0 .. A!EndOfLoop(a)
                    /\ current'[a] \in -Delay[a] .. Duration[a] + 1
                    /\ loopNo'[a] \in 1 .. IF Loops[a] = 0 THEN 1 ELSE Loops[a]
                    /\ played'[a] \in 0 .. A!EndOfPlay(a)
  BY DEF TimesOK, A!EndOfLoop, A!EndOfPlay
<1>1. CASE a \in these
  <2>1. since'[a] = 0 /\ current'[a] = 0 /\ loopNo'[a] = 1 /\ played'[a] = 0
    BY <1>1, StartedOnes
  <2>2. QED
    BY <2>1, AnimationConstants, EndsAreNumbers
<1>2. CASE a \notin these
  <2>1. /\ since'[a] = since[a] /\ current'[a] = current[a]
        /\ loopNo'[a] = loopNo[a] /\ played'[a] = played[a]
    BY <1>2, StartedOnes
  <2>2. QED
    BY <2>1 DEF TimesOK
<1>3. QED
  BY <1>1, <1>2

(* The calls of the application.                                           *)
LEMMA StartAllKeeps ==
    ASSUME AnimInv, NEW these \in SUBSET A!Animations, A!startAll(these),
           \A b, c \in these \cap InOrder : b = c,
           these \cap InOrder # {} => \A b \in InOrder : state[b] # "Running",
           these \cap InOrder # {} => seqCurrent' # NoAnimation,
           seqCurrent' \in InOrder \cup {NoAnimation},
           seqCurrent' = NoAnimation => seqCurrent = NoAnimation,
           looping' \in BOOLEAN, connected' \in BOOLEAN, calls' \in 0 .. 3
    PROVE  AnimInv'
<1>1. TimesOK'
  BY StartKeepsTimes DEF AnimInv, A!startAll
<1>2. \A a \in A!Animations : state'[a] = IF a \in these THEN "Running" ELSE state[a]
  BY StartedOnes DEF A!startAll
<1>3. state' \in [A!Animations -> {"Running", "Paused", "Stopped"}]
  BY DEF A!startAll, A!Started, AnimInv, KindsOK
<1>4. KindsOK'
  BY <1>3 DEF A!startAll, AnimInv, KindsOK, A!Animations
<1>5. A!RunningIsCalled'
  BY <1>2 DEF A!startAll, AnimInv, A!RunningIsCalled, A!Animations
<1>6. A!OneAtATime' /\ SetWhileRunning'
  <2>1. InOrder \subseteq A!Animations
    BY AnimationConstants
  <2>2. \A a \in InOrder : state'[a] = "Running" => a \in these \/ state[a] = "Running"
    BY <1>2, <2>1
  <2>3. A!OneAtATime'
    BY <2>2 DEF AnimInv, A!OneAtATime, InOrder
  <2>4. SetWhileRunning'
    BY <2>2 DEF AnimInv, SetWhileRunning
  <2>5. QED
    BY <2>3, <2>4
<1>7. QED
  BY <1>1, <1>4, <1>5, <1>6 DEF AnimInv

(* What leaves the clocks alone keeps the times.                           *)
LEMMA SameTimes ==
    ASSUME TimesOK, UNCHANGED <<since, current, loopNo, played>>
    PROVE  TimesOK'
BY DEF TimesOK, A!EndOfLoop, A!EndOfPlay, A!Animations

(* A step after which no animation runs that did not run before, and which *)
(* takes none out of the engine that runs on.                              *)
LEMMA FewerRunKeeps ==
    ASSUME AnimInv, TimesOK', KindsOK',
           \A a \in A!Animations :
               state'[a] = "Running" =>
                   /\ state[a] = "Running"
                   /\ a \in listed => a \in listed'
                   /\ a \in stalled => a \in stalled',
           seqCurrent' = NoAnimation =>
               \A a \in InOrder : state'[a] # "Running"
    PROVE  AnimInv'
<1>1. InOrder \subseteq A!Animations
  BY AnimationConstants
<1>2. A!RunningIsCalled'
  BY DEF AnimInv, A!RunningIsCalled, A!Animations
<1>3. A!OneAtATime'
  BY <1>1 DEF AnimInv, A!OneAtATime, InOrder
<1>4. SetWhileRunning'
  BY DEF SetWhileRunning, InOrder
<1>5. QED
  BY <1>2, <1>3, <1>4 DEF AnimInv

LEMMA StopKeeps ==
    ASSUME AnimInv, NEW a \in A!Animations, A!stopOne(a), calls' \in 0 .. 3,
           looping' \in BOOLEAN, connected' \in BOOLEAN,
           \/ seqCurrent' = seqCurrent
           \/ /\ seqCurrent' = NoAnimation /\ a \in InOrder
              /\ state[a] = "Running" \/ \A b \in InOrder : state[b] # "Running"
    PROVE  AnimInv'
<1>1. TimesOK'
  BY SameTimes DEF AnimInv, A!stopOne, A!timeVars
<1>2. /\ state' = IF state[a] = "Running" THEN [state EXCEPT ![a] = "Stopped"] ELSE state
      /\ listed' = IF state[a] = "Running" THEN listed \ {a} ELSE listed
      /\ stalled' = IF state[a] = "Running" THEN stalled \ {a} ELSE stalled
      /\ waited' = waited
  BY DEF A!stopOne, A!timeVars
<1>3. state \in [A!Animations -> {"Running", "Paused", "Stopped"}]
  BY DEF AnimInv, KindsOK
<1>4. \A b \in A!Animations :
          state'[b] = IF b = a /\ state[a] = "Running" THEN "Stopped" ELSE state[b]
  BY <1>2, <1>3
<1>5. state' \in [A!Animations -> {"Running", "Paused", "Stopped"}]
  BY <1>2, <1>3
<1>6. KindsOK'
  BY <1>2, <1>5 DEF AnimInv, KindsOK, A!Animations
<1>7. \A b \in A!Animations :
          state'[b] = "Running" =>
              /\ state[b] = "Running"
              /\ b \in listed => b \in listed'
              /\ b \in stalled => b \in stalled'
  BY <1>2, <1>4
<1>8. seqCurrent' = NoAnimation => \A b \in InOrder : state'[b] # "Running"
  BY <1>4, AnimationConstants DEF AnimInv, SetWhileRunning, A!OneAtATime, InOrder
<1>9. QED
  BY <1>1, <1>6, <1>7, <1>8, FewerRunKeeps

LEMMA PauseKeeps ==
    ASSUME AnimInv, NEW a \in A!Animations, A!pause(a), calls' \in 0 .. 3,
           UNCHANGED <<seqCurrent, looping, connected>>
    PROVE  AnimInv'
<1>1. TimesOK'
  BY SameTimes DEF AnimInv, A!pause, A!timeVars
<1>2. /\ state' = [state EXCEPT ![a] = "Paused"] /\ stalled' = stalled \ {a}
      /\ listed' = listed /\ waited' = waited
  BY DEF A!pause, A!timeVars
<1>3. state \in [A!Animations -> {"Running", "Paused", "Stopped"}]
  BY DEF AnimInv, KindsOK
<1>4. \A b \in A!Animations : state'[b] = IF b = a THEN "Paused" ELSE state[b]
  BY <1>2, <1>3
<1>5. state' \in [A!Animations -> {"Running", "Paused", "Stopped"}]
  BY <1>2, <1>3
<1>6. KindsOK'
  BY <1>2, <1>5 DEF AnimInv, KindsOK, A!Animations
<1>7. \A b \in A!Animations :
          state'[b] = "Running" =>
              /\ state[b] = "Running"
              /\ b \in listed => b \in listed'
              /\ b \in stalled => b \in stalled'
  BY <1>2, <1>4
<1>8. seqCurrent' = NoAnimation => \A b \in InOrder : state'[b] # "Running"
  BY <1>4, AnimationConstants DEF AnimInv, SetWhileRunning
<1>9. QED
  BY <1>1, <1>6, <1>7, <1>8, FewerRunKeeps

(* resume() of one of the animations on their own.                         *)
LEMMA ResumeKeeps ==
    ASSUME AnimInv, NEW a \in Single, A!resume(a), calls' \in 0 .. 3,
           UNCHANGED <<seqCurrent, looping, connected>>
    PROVE  AnimInv'
<1>1. a \in A!Animations /\ a \notin InOrder /\ {a} \cap InOrder = {}
  BY AnimationConstants
<1>2. CASE A!startAll({a})
  BY <1>1, <1>2, StartAllKeeps DEF AnimInv, KindsOK
<1>3. CASE /\ state[a] = "Paused"
           /\ state' = [state EXCEPT ![a] = "Running"]
           /\ since' = [since EXCEPT ![a] = 0]
           /\ current' = [current EXCEPT ![a] = 0]
           /\ stalled' = IF a \in listed THEN stalled ELSE stalled \cup {a}
           /\ UNCHANGED <<listed, loopNo, waited, played>>
  <2>1. state \in [A!Animations -> {"Running", "Paused", "Stopped"}]
    BY DEF AnimInv, KindsOK
  <2>2. state' \in [A!Animations -> {"Running", "Paused", "Stopped"}]
    BY <1>3, <2>1
  <2>3. \A b \in A!Animations : state'[b] = IF b = a THEN "Running" ELSE state[b]
    BY <1>3, <2>1
  <2>4. KindsOK'
    BY <1>1, <1>3, <2>2 DEF AnimInv, KindsOK, A!Animations
  <2>5. TimesOK'
    <3> SUFFICES ASSUME NEW b \in A!Animations
                 PROVE  /\ since'[b] \in 0 .. A!EndOfLoop(b)
                        /\ current'[b] \in -Delay[b] .. Duration[b] + 1
                        /\ loopNo'[b] \in 1 .. IF Loops[b] = 0 THEN 1 ELSE Loops[b]
                        /\ played'[b] \in 0 .. A!EndOfPlay(b)
      BY DEF TimesOK, A!EndOfLoop, A!EndOfPlay
    <3>1. /\ since'[b] = since[b] \/ since'[b] = 0
          /\ current'[b] = current[b] \/ current'[b] = 0
          /\ loopNo' = loopNo /\ played' = played
      BY <1>3
    <3>2. QED
      BY <3>1, AnimationConstants, EndsAreNumbers DEF AnimInv, TimesOK
  <2>6. A!RunningIsCalled'
    BY <1>3, <2>3 DEF AnimInv, A!RunningIsCalled, A!Animations
  <2>7. \A b \in InOrder : state'[b] = state[b]
    BY <1>1, <2>3, AnimationConstants
  <2>8. A!OneAtATime' /\ SetWhileRunning'
    BY <1>3, <2>7 DEF AnimInv, A!OneAtATime, SetWhileRunning, InOrder
  <2>9. QED
    BY <2>4, <2>5, <2>6, <2>8 DEF AnimInv
<1>4. QED
  BY <1>2, <1>3 DEF A!resume

LEMMA CallKeeps ==
    ASSUME AnimInv, A!Call
    PROVE  AnimInv'
<1>1. calls' \in 0 .. 3 /\ looping \in BOOLEAN /\ connected \in BOOLEAN
      /\ seqCurrent \in InOrder \cup {NoAnimation}
  BY DEF A!Call, AnimInv, KindsOK
<1>2. ASSUME NEW a \in Single, UNCHANGED A!seqVars,
             A!startAll({a}) \/ A!stopOne(a) \/ A!pause(a) \/ A!resume(a)
      PROVE  AnimInv'
  <2>1. UNCHANGED <<seqCurrent, looping, connected>>
    BY <1>2 DEF A!seqVars
  <2>2. a \in A!Animations /\ {a} \cap InOrder = {}
    BY AnimationConstants
  <2>3. CASE A!startAll({a})
    BY <1>1, <2>1, <2>2, <2>3, StartAllKeeps
  <2>4. CASE A!stopOne(a)
    BY <1>1, <2>1, <2>2, <2>4, StopKeeps
  <2>5. CASE A!pause(a)
    BY <1>1, <2>1, <2>2, <2>5, PauseKeeps
  <2>6. CASE A!resume(a)
    BY <1>1, <2>1, <2>6, ResumeKeeps
  <2>7. QED
    BY <1>2, <2>3, <2>4, <2>5, <2>6
<1>3. CASE A!startSequence
  <2>1. A!First \in InOrder /\ A!First \in A!Animations /\ A!First # NoAnimation
    BY OrderPlaces, AnimationConstants
  <2>2. seqCurrent = NoAnimation /\ seqCurrent' = A!First /\ A!startAll({A!First})
    BY <1>3 DEF A!startSequence
  <2>3. looping' \in BOOLEAN /\ connected' \in BOOLEAN
    BY <1>1, <1>3 DEF A!startSequence
  <2>4. \A b \in InOrder : state[b] # "Running"
    BY <2>2 DEF AnimInv, SetWhileRunning
  <2>5. QED
    BY <1>1, <2>1, <2>2, <2>3, <2>4, StartAllKeeps
<1>4. CASE A!stopSequence
  <2>1. seqCurrent \in InOrder /\ seqCurrent \in A!Animations
    BY <1>1, <1>4, AnimationConstants DEF A!stopSequence
  <2>2. /\ seqCurrent' = NoAnimation /\ A!stopOne(seqCurrent)
        /\ state[seqCurrent] = "Running" \/ \A b \in InOrder : state[b] # "Running"
    BY <1>4 DEF A!stopSequence, InOrder
  <2>3. looping' \in BOOLEAN /\ connected' \in BOOLEAN
    BY <1>1, <1>4 DEF A!stopSequence
  <2>4. QED
    BY <1>1, <2>1, <2>2, <2>3, StopKeeps
<1>5. CASE A!setLooping
  <2>1. /\ UNCHANGED <<state, listed, stalled, waited, seqCurrent, connected>>
        /\ UNCHANGED <<since, current, loopNo, played>>
        /\ looping' \in BOOLEAN
    BY <1>5 DEF A!setLooping, A!timeVars
  <2>2. TimesOK'
    BY <2>1, SameTimes DEF AnimInv
  <2>3. KindsOK'
    BY <1>1, <2>1 DEF AnimInv, KindsOK, A!Animations
  <2>4. QED
    BY <2>1, <2>2, <2>3, FewerRunKeeps DEF AnimInv, SetWhileRunning
<1>6. QED
  BY <1>2, <1>3, <1>4, <1>5 DEF A!Call

(* What funck() does to an animation that runs.                            *)
LEMMA WaitKeeps ==
    ASSUME AnimInv, NEW a \in A!Animations, A!Wait(a), UNCHANGED calls
    PROVE  AnimInv'
<1>1. /\ UNCHANGED <<state, listed, stalled, seqCurrent, looping, connected>>
      /\ UNCHANGED <<since, current, loopNo, played>>
      /\ waited' = IF since[a] >= Delay[a] THEN waited \cup {a} ELSE waited
  BY DEF A!Wait, A!seqVars
<1>2. TimesOK'
  BY <1>1, SameTimes DEF AnimInv
<1>3. KindsOK'
  BY <1>1 DEF AnimInv, KindsOK, A!Animations
<1>4. QED
  BY <1>1, <1>2, <1>3, FewerRunKeeps DEF AnimInv, SetWhileRunning

LEMMA LeaveKeeps ==
    ASSUME AnimInv, NEW a \in A!Animations, A!Leave(a), UNCHANGED calls,
           state[a] # "Running" \/ Duration[a] = 0
    PROVE  AnimInv'
<1>1. /\ UNCHANGED <<stalled, waited, seqCurrent, looping, connected>>
      /\ UNCHANGED <<since, current, loopNo, played>>
      /\ listed' = listed \ {a}
      /\ state' = IF Duration[a] = 0 THEN [state EXCEPT ![a] = "Stopped"] ELSE state
  BY DEF A!Leave, A!seqVars, A!timeVars
<1>2. TimesOK'
  BY <1>1, SameTimes DEF AnimInv
<1>3. state \in [A!Animations -> {"Running", "Paused", "Stopped"}]
  BY DEF AnimInv, KindsOK
<1>4. \A b \in A!Animations :
          state'[b] = IF b = a /\ Duration[a] = 0 THEN "Stopped" ELSE state[b]
  BY <1>1, <1>3
<1>5. state' \in [A!Animations -> {"Running", "Paused", "Stopped"}]
  BY <1>1, <1>3
<1>6. KindsOK'
  BY <1>1, <1>5 DEF AnimInv, KindsOK, A!Animations
<1>7. \A b \in A!Animations :
          state'[b] = "Running" => state[b] = "Running" /\ b # a
  BY <1>4
<1>8. \A b \in A!Animations :
          state'[b] = "Running" =>
              /\ state[b] = "Running"
              /\ b \in listed => b \in listed'
              /\ b \in stalled => b \in stalled'
  BY <1>1, <1>7
<1>9. seqCurrent' = NoAnimation => \A b \in InOrder : state'[b] # "Running"
  BY <1>1, <1>7, AnimationConstants DEF AnimInv, SetWhileRunning
<1>10. QED
  BY <1>2, <1>6, <1>8, <1>9, FewerRunKeeps

LEMMA StepKeeps ==
    ASSUME AnimInv, NEW a \in A!Animations, A!Step(a), UNCHANGED calls
    PROVE  AnimInv'
<1>1. /\ UNCHANGED <<state, listed, stalled, waited, looping, connected>>
      /\ UNCHANGED <<since, loopNo, played>>
      /\ current' = [current EXCEPT ![a] = since[a] - Delay[a]]
      /\ seqCurrent' = IF current[a] = 0 /\ a \in InOrder THEN a ELSE seqCurrent
  BY DEF A!Step, A!StepTime, InOrder
<1>2. TimesOK'
  <2> SUFFICES ASSUME NEW b \in A!Animations
               PROVE  /\ since'[b] \in 0 .. A!EndOfLoop(b)
                      /\ current'[b] \in -Delay[b] .. Duration[b] + 1
                      /\ loopNo'[b] \in 1 .. IF Loops[b] = 0 THEN 1 ELSE Loops[b]
                      /\ played'[b] \in 0 .. A!EndOfPlay(b)
    BY DEF TimesOK, A!EndOfLoop, A!EndOfPlay
  <2>1. since'[b] = since[b] /\ loopNo'[b] = loopNo[b] /\ played'[b] = played[b]
    BY <1>1
  <2>2. current'[b] = current[b] \/ current'[b] = since[b] - Delay[b]
    BY <1>1
  <2>3. since[b] - Delay[b] \in -Delay[b] .. Duration[b] + 1
    BY AnimationConstants DEF AnimInv, TimesOK, A!EndOfLoop
  <2>4. QED
    BY <2>1, <2>2, <2>3 DEF AnimInv, TimesOK
<1>3. KindsOK'
  BY <1>1 DEF AnimInv, KindsOK, A!Animations
<1>4. seqCurrent' = NoAnimation => seqCurrent = NoAnimation
  BY <1>1, AnimationConstants
<1>5. QED
  BY <1>1, <1>2, <1>3, <1>4, FewerRunKeeps DEF AnimInv, SetWhileRunning

LEMMA NextLoopKeeps ==
    ASSUME AnimInv, NEW a \in A!Animations, A!NextLoop(a), UNCHANGED calls
    PROVE  AnimInv'
<1>1. /\ UNCHANGED <<state, listed, stalled, waited, seqCurrent, looping, connected>>
      /\ UNCHANGED played
      /\ loopNo' = [loopNo EXCEPT ![a] = IF Loops[a] = 0 THEN @ ELSE @ + 1]
      /\ since' = [since EXCEPT ![a] = 0] /\ current' = [current EXCEPT ![a] = 0]
      /\ ~ (Loops[a] # 0 /\ loopNo[a] >= Loops[a])
  BY DEF A!NextLoop, A!IsLastLoop, A!seqVars
<1>2. TimesOK'
  <2> SUFFICES ASSUME NEW b \in A!Animations
               PROVE  /\ since'[b] \in 0 .. A!EndOfLoop(b)
                      /\ current'[b] \in -Delay[b] .. Duration[b] + 1
                      /\ loopNo'[b] \in 1 .. IF Loops[b] = 0 THEN 1 ELSE Loops[b]
                      /\ played'[b] \in 0 .. A!EndOfPlay(b)
    BY DEF TimesOK, A!EndOfLoop, A!EndOfPlay
  <2>1. played'[b] = played[b]
        /\ since'[b] \in {since[b], 0} /\ current'[b] \in {current[b], 0}
    BY <1>1
  <2>2. since'[b] \in 0 .. A!EndOfLoop(b) /\ current'[b] \in -Delay[b] .. Duration[b] + 1
    BY <2>1, AnimationConstants, EndsAreNumbers DEF AnimInv, TimesOK
  <2>3. \/ loopNo'[b] = loopNo[b]
        \/ Loops[b] # 0 /\ loopNo[b] < Loops[b] /\ loopNo'[b] = loopNo[b] + 1
    BY <1>1, AnimationConstants DEF AnimInv, TimesOK
  <2>4. loopNo'[b] \in 1 .. IF Loops[b] = 0 THEN 1 ELSE Loops[b]
    BY <2>3, AnimationConstants DEF AnimInv, TimesOK
  <2>5. QED
    BY <2>1, <2>2, <2>4 DEF AnimInv, TimesOK
<1>3. KindsOK'
  BY <1>1 DEF AnimInv, KindsOK, A!Animations
<1>4. QED
  BY <1>1, <1>2, <1>3, FewerRunKeeps DEF AnimInv, SetWhileRunning

(* The end of an animation of the sequence, the only one of it that ran.   *)
LEMMA FinishKeeps ==
    ASSUME AnimInv, NEW a \in A!Animations, A!Finish(a), UNCHANGED calls,
           state[a] = "Running"
    PROVE  AnimInv'
<1> DEFINE these == A!Successors(a)
           ended == [state EXCEPT ![a] = "Stopped"]
<1>1. /\ these \subseteq InOrder /\ these \subseteq A!Animations
      /\ a \notin InOrder => these = {}
      /\ \A b, c \in these : b = c
  BY OneSuccessor, AnimationConstants
<1>2. /\ state' = A!Started(ended, these, "Running")
      /\ listed' = (listed \ {a}) \cup these
      /\ stalled' = stalled \ (these \cup {a})
      /\ since' = A!Started(since, these, 0) /\ current' = A!Started(current, these, 0)
      /\ loopNo' = A!Started(loopNo, these, 1) /\ played' = A!Started(played, these, 0)
      /\ UNCHANGED <<waited, seqCurrent, looping, connected>>
  BY DEF A!Finish, A!seqVars
<1> HIDE DEF these
<1>3. TimesOK'
  BY <1>1, <1>2, StartKeepsTimes DEF AnimInv
<1>4. state \in [A!Animations -> {"Running", "Paused", "Stopped"}]
  BY DEF AnimInv, KindsOK
<1>5. ended \in [A!Animations -> {"Running", "Paused", "Stopped"}]
      /\ \A b \in A!Animations : ended[b] = IF b = a THEN "Stopped" ELSE state[b]
  BY <1>4
<1> HIDE DEF ended
<1>6. state' \in [A!Animations -> {"Running", "Paused", "Stopped"}]
  BY <1>2, <1>5 DEF A!Started
<1>7. \A b \in A!Animations :
          state'[b] = "Running" => b \in these \/ (b # a /\ state[b] = "Running")
  <2> TAKE b \in A!Animations
  <2>1. state'[b] = IF b \in these THEN "Running" ELSE ended[b]
    BY <1>2, StartedOnes
  <2>2. QED
    BY <1>5, <2>1
<1>8. KindsOK'
  BY <1>1, <1>2, <1>6 DEF AnimInv, KindsOK, A!Animations
<1>9. A!RunningIsCalled'
  BY <1>2, <1>7 DEF AnimInv, A!RunningIsCalled, A!Animations
<1>10. a \in InOrder => \A b \in InOrder : b = a \/ state[b] # "Running"
  BY DEF AnimInv, A!OneAtATime, InOrder
<1>11. \A b \in InOrder :
           state'[b] = "Running" => b \in these \/ (b # a /\ state[b] = "Running")
  BY <1>7, AnimationConstants
<1>12. \A b, c \in InOrder : state'[b] = "Running" /\ state'[c] = "Running" => b = c
  <2> SUFFICES ASSUME NEW b \in InOrder, NEW c \in InOrder,
                      state'[b] = "Running", state'[c] = "Running"
               PROVE  b = c
    OBVIOUS
  <2>1. CASE a \in InOrder
    BY <1>1, <1>10, <1>11, <2>1
  <2>2. CASE a \notin InOrder
    BY <1>1, <1>11, <2>2 DEF AnimInv, A!OneAtATime, InOrder
  <2>3. QED
    BY <2>1, <2>2
<1>13. A!OneAtATime'
  BY <1>12 DEF A!OneAtATime, InOrder
<1>14. SetWhileRunning'
  <2>1. CASE a \in InOrder
    BY <1>2, <2>1 DEF AnimInv, SetWhileRunning
  <2>2. CASE a \notin InOrder
    BY <1>1, <1>2, <1>11, <2>2 DEF AnimInv, SetWhileRunning, InOrder
  <2>3. QED
    BY <2>1, <2>2
<1>15. QED
  BY <1>3, <1>8, <1>9, <1>13, <1>14 DEF AnimInv

(* The clock stands at the end of a loop and of the whole.                 *)
LEMMA TickKeeps ==
    ASSUME AnimInv, A!Tick
    PROVE  AnimInv'
<1>1. UNCHANGED <<state, listed, stalled, waited, current, loopNo, seqCurrent, looping, connected, calls>>
  BY DEF A!Tick, A!seqVars
<1>2. TimesOK'
  <2> SUFFICES ASSUME NEW a \in A!Animations
               PROVE  /\ since'[a] \in 0 .. A!EndOfLoop(a)
                      /\ current'[a] \in -Delay[a] .. Duration[a] + 1
                      /\ loopNo'[a] \in 1 .. IF Loops[a] = 0 THEN 1 ELSE Loops[a]
                      /\ played'[a] \in 0 .. A!EndOfPlay(a)
    BY DEF TimesOK, A!EndOfLoop, A!EndOfPlay
  <2>1. since'[a] = since[a] \/ since'[a] = A!Capped(since[a], A!EndOfLoop(a))
    BY DEF A!Tick
  <2>2. played'[a] = played[a] \/ played'[a] = A!Capped(played[a], A!EndOfPlay(a))
    BY DEF A!Tick
  <2>3. \A n, cap \in Nat : n \in 0 .. cap => A!Capped(n, cap) \in 0 .. cap
    BY DEF A!Capped
  <2>4. since[a] \in 0 .. A!EndOfLoop(a) /\ played[a] \in 0 .. A!EndOfPlay(a)
    BY DEF AnimInv, TimesOK
  <2>5. since'[a] \in 0 .. A!EndOfLoop(a)
    BY <2>1, <2>3, <2>4, EndsAreNumbers
  <2>6. played'[a] \in 0 .. A!EndOfPlay(a)
    BY <2>2, <2>3, <2>4, EndsAreNumbers
  <2>7. QED
    BY <1>1, <2>5, <2>6 DEF AnimInv, TimesOK
<1>3. KindsOK'
  BY <1>1 DEF AnimInv, KindsOK, A!Animations
<1>4. QED
  BY <1>1, <1>2, <1>3, FewerRunKeeps DEF AnimInv, SetWhileRunning

LEMMA AnimationsStep == AnimInv /\ [A!Next]_animVars => AnimInv'
<1> SUFFICES ASSUME AnimInv, [A!Next]_animVars PROVE AnimInv'
  OBVIOUS
<1>1. CASE A!Call
  BY <1>1, CallKeeps
<1>2. ASSUME NEW a \in A!Animations, A!funck(a) PROVE AnimInv'
  <2>1. UNCHANGED calls
    BY <1>2 DEF A!funck
  <2>2. CASE (state[a] # "Running" \/ Duration[a] = 0) /\ A!Leave(a)
    BY <2>1, <2>2, LeaveKeeps
  <2>3. CASE state[a] = "Running" /\ A!Wait(a)
    BY <2>1, <2>3, WaitKeeps
  <2>4. CASE state[a] = "Running" /\ A!Step(a)
    BY <2>1, <2>4, StepKeeps
  <2>5. CASE state[a] = "Running" /\ A!NextLoop(a)
    BY <2>1, <2>5, NextLoopKeeps
  <2>6. CASE state[a] = "Running" /\ A!Finish(a)
    BY <2>1, <2>6, FinishKeeps
  <2>7. QED
    BY <1>2, <2>2, <2>3, <2>4, <2>5, <2>6 DEF A!funck
<1>3. CASE A!Tick
  BY <1>3, TickKeeps
<1>4. CASE UNCHANGED animVars
  <2>1. /\ UNCHANGED <<state, listed, stalled, waited, seqCurrent, looping, connected, calls>>
        /\ UNCHANGED <<since, current, loopNo, played>>
    BY <1>4 DEF animVars
  <2>2. TimesOK'
    BY <2>1, SameTimes DEF AnimInv
  <2>3. KindsOK'
    BY <2>1 DEF AnimInv, KindsOK, A!Animations
  <2>4. QED
    BY <2>1, <2>2, <2>3, FewerRunKeeps DEF AnimInv, SetWhileRunning
<1>5. QED
  BY <1>1, <1>2, <1>3, <1>4 DEF A!Next

(***************************************************************************)
(* Whatever is called on animations and their sequence, the engine calls   *)
(* every one that runs, but for those resumed after the pause had taken    *)
(* them out, and of the sequence one at a time runs (lib/Animation.cpp,    *)
(* lib/AnimationSequence.cpp), if stop() does not come between two of its  *)
(* animations.                                                             *)
(***************************************************************************)
THEOREM SequenceRunsOneAtATime == PartsSpec => []AnimationsKept
<1> DEFINE Inv == part = "animations" => AnimInv
<1>1. PartsInit => Inv
  BY AnimationsInit DEF PartsInit
<1>2. Inv /\ [PartsNext]_all => Inv'
  <2> SUFFICES ASSUME Inv, [PartsNext]_all, part' = "animations" PROVE AnimInv'
    OBVIOUS
  <2>1. part = "animations" /\ [A!Next]_animVars
    BY DEF PartsNext, Others, all
  <2>2. QED
    BY <2>1, AnimationsStep
<1>3. Inv => AnimationsKept
  BY TypeInParts DEF AnimationsKept, AnimInv
<1>4. QED
  BY <1>1, <1>2, <1>3, PTL DEF PartsSpec

-------------------------------------------------------------------------------
(***************************************************************************)
(* Timers.  Timers_proofs shows for any threads that no timer is listed    *)
(* twice; its theorems are taken here for the constants of this module, so *)
(* all there is to show is that the timers checked here are those.         *)
(***************************************************************************)

TP == INSTANCE Timers_proofs WITH
        phase <- loopAt, Helpers <- TimerHelpers,
        Intervals <- {2}, RepeatCounts <- {1}, DefaultInterval <- 1,
        IdleTimeout <- 1, LongestTimeout <- 3, CountCap <- 2, MaxLate <- 0

LEMMA TimersAssumed == TP!TimersAssumption
BY PartTimersAssumption DEF TP!TimersAssumption


LEMMA SameTimersInit == T!Init => TP!Once
<1>1. T!Init => TP!Init
  BY DEF T!Init, TP!Init, T!NoOp, TP!NoOp, T!Threads, TP!Threads
<1>2. QED
  BY <1>1, TimersAssumed, TP!OnceInit

(* A step of the timers is a step of the proved ones, action by action.   *)
LEMMA SameCalls ==
    ASSUME NEW th, NEW t, T!UserCall(th, t)
    PROVE  TP!UserCall(th, t)
<1>1. T!MayCall(th) <=> TP!MayCall(th)
  BY DEF T!MayCall, TP!MayCall, T!NoOp, TP!NoOp
<1>2. \A ms, n : T!start(th, t, ms, n) => TP!start(th, t, ms, n)
  BY <1>1 DEF T!start, TP!start, T!fields, TP!fields, T!engine, TP!engine
<1>3. T!restartRunning(th, t) => TP!restartRunning(th, t)
  BY <1>1 DEF T!restartRunning, TP!restartRunning, T!engine, TP!engine
<1>4. T!stop(th, t) => TP!stop(th, t)
  BY <1>1 DEF T!stop, TP!stop, T!engine, TP!engine, T!Owes, TP!Owes
<1>5. \A ms : T!setInterval(th, t, ms) => TP!setInterval(th, t, ms)
  BY <1>1 DEF T!setInterval, TP!setInterval, T!engine, TP!engine
<1>6. \A n : T!setRepeats(th, t, n) => TP!setRepeats(th, t, n)
  BY <1>1 DEF T!setRepeats, TP!setRepeats, T!engine, TP!engine
<1>7. QED
  BY <1>2, <1>3, <1>4, <1>5, <1>6
     DEF T!UserCall, TP!UserCall, T!restartStopped, TP!restartStopped

LEMMA SameSorted ==
    /\ \A seq, rem : T!sorted(seq, rem) = TP!sorted(seq, rem)
    /\ \A seq, i : T!RemoveAt(seq, i) = TP!RemoveAt(seq, i)
    /\ T!Listed = TP!Listed
<1>1. \A seq, rem : T!orders(seq, rem) = TP!orders(seq, rem)
  BY DEF T!orders, TP!orders, T!Bijection, TP!Bijection, T!Injection, TP!Injection,
     T!Surjection, TP!Surjection, T!IsInjective, TP!IsInjective
<1>2. QED
  BY <1>1 DEF T!sorted, TP!sorted, T!RemoveAt, TP!RemoveAt, T!Listed, TP!Listed

LEMMA SameOperations ==
    ASSUME NEW th, T!startFields(th) \/ T!addTimer(th) \/ T!removeTimer(th)
    PROVE  TP!startFields(th) \/ TP!addTimer(th) \/ TP!removeTimer(th)
<1>1. T!startFields(th) => TP!startFields(th)
  BY DEF T!startFields, TP!startFields, T!engine, TP!engine, T!Owes, TP!Owes
<1>2. T!addTimer(th) => TP!addTimer(th)
  BY SameSorted DEF T!addTimer, TP!addTimer, T!LockFree, TP!LockFree, T!fields, TP!fields,
     T!NoOp, TP!NoOp
<1>3. T!removeTimer(th) => TP!removeTimer(th)
  BY SameSorted DEF T!removeTimer, TP!removeTimer, T!LockFree, TP!LockFree, T!fields, TP!fields,
     T!NoOp, TP!NoOp, T!engine, TP!engine
<1>4. QED
  BY <1>1, <1>2, <1>3

LEMMA SameLoop ==
    ASSUME T!LoopStep \/ T!WakeByEvent \/ T!Tick
    PROVE  TP!LoopStep \/ TP!WakeByEvent \/ TP!Tick
<1>1. \A t : (T!Due(t) <=> TP!Due(t)) /\ (T!Spent(t) <=> TP!Spent(t))
  BY DEF T!Due, TP!Due, T!Spent, TP!Spent
<1>2. \A lists, rem : T!ReturnTimeout(lists, rem) <=> TP!ReturnTimeout(lists, rem)
  BY DEF T!ReturnTimeout, TP!ReturnTimeout, T!timeoutOf, TP!timeoutOf
<1>3. T!runTimersEarly => TP!runTimersEarly
  BY <1>1, <1>2 DEF T!runTimersEarly, TP!runTimersEarly, T!fields, TP!fields
<1>4. T!runTimersRetires => TP!runTimersRetires
  BY <1>1, <1>2, SameSorted DEF T!runTimersRetires, TP!runTimersRetires
<1>5. T!fire => TP!fire
  BY <1>1 DEF T!fire, TP!fire
<1>6. T!fired => TP!fired
  BY <1>2, SameSorted DEF T!fired, TP!fired, T!fields, TP!fields, T!NoOp, TP!NoOp
<1>7. T!waitForEvents => TP!waitForEvents
  BY DEF T!waitForEvents, TP!waitForEvents, T!fields, TP!fields
<1>8. T!WakeByTimeout => TP!WakeByTimeout
  BY DEF T!WakeByTimeout, TP!WakeByTimeout, T!fields, TP!fields
<1>9. T!NextCycle => TP!NextCycle
  BY DEF T!NextCycle, TP!NextCycle, T!fields, TP!fields, T!NoOp, TP!NoOp
<1>10. T!WakeByEvent => TP!WakeByEvent
  BY DEF T!WakeByEvent, TP!WakeByEvent, T!fields, TP!fields
<1>11. T!Tick => TP!Tick
  BY SameSorted DEF T!Tick, TP!Tick, T!fields, TP!fields, T!Active, TP!Active
<1>12. QED
  BY <1>3, <1>4, <1>5, <1>6, <1>7, <1>8, <1>9, <1>10, <1>11 DEF T!LoopStep, TP!LoopStep

LEMMA SameTimersStep == TP!Once /\ [T!Next]_timerVars => TP!Once'
<1> SUFFICES ASSUME TP!Once, [T!Next]_timerVars PROVE TP!Once'
  OBVIOUS
<1>1. T!Next => TP!Next
  BY SameCalls, SameOperations, SameLoop DEF T!Next, TP!Next, T!Threads, TP!Threads
<1>2. UNCHANGED timerVars => UNCHANGED TP!vars
  BY DEF timerVars, TP!vars, TP!fields, TP!engine
<1>3. QED
  BY <1>1, <1>2, TimersAssumed, TP!OnceStep

(***************************************************************************)
(* Threads that start, stop and set timers while the loop fires them never *)
(* get one into the engine's list twice (core/Engine.cpp, addTimer), for   *)
(* any set of threads, of timers and of calls.                             *)
(***************************************************************************)
THEOREM TimersAreListedOnce == PartsSpec => []TimersListedOnce
<1> DEFINE Inv == part = "timers" => TP!Once
<1>1. PartsInit => Inv
  BY SameTimersInit DEF PartsInit
<1>2. Inv /\ [PartsNext]_all => Inv'
  <2> SUFFICES ASSUME Inv, [PartsNext]_all, part' = "timers" PROVE TP!Once'
    OBVIOUS
  <2>1. part = "timers" /\ [T!Next]_timerVars
    BY DEF PartsNext, Others, all
  <2>2. QED
    BY <2>1, SameTimersStep
<1>3. Inv => TimersListedOnce
  BY DEF TimersListedOnce, T!ListedOnce, TP!Once, TP!IsInjective
<1>4. QED
  BY <1>1, <1>2, <1>3, PTL DEF PartsSpec

-------------------------------------------------------------------------------
(***************************************************************************)
(* Surface views: the invariant of SurfaceEvents_proofs holds of the two   *)
(* instances, whose steps are steps of the proved ones.                    *)
(***************************************************************************)
SP == INSTANCE SurfaceEvents_proofs WITH
        phase <- at, queue <- events, owed <- unacked, Views <- {v1, v2}, Surfaces <- {s1},
        Opened <- {v1, v2}, Regions <- {left}, Blocking <- {v1}, Hideable <- {v1}, MaxFlips <- 3

HP == INSTANCE SurfaceEvents_proofs WITH
        phase <- at, queue <- events, owed <- unacked, Views <- {v1, v2}, Surfaces <- {s1},
        Opened <- {v1}, Regions <- {left, right}, Blocking <- {v1}, Hideable <- {v1}, MaxFlips <- 4

LEMMA SurfacesAssumed == SP!SurfaceConstants /\ HP!SurfaceConstants
BY PartSurfacesAssumption DEF SP!SurfaceConstants, HP!SurfaceConstants

LEMMA SameSurfacesInit == S!Init => SP!SurfaceInv
<1>1. S!Init => SP!Init
  BY DEF S!Init, SP!Init
<1>2. QED
  BY <1>1, SurfacesAssumed, SP!SurfaceInit

LEMMA SameSurfacesHelpers ==
    /\ \A s : S!Watching(s) = SP!Watching(s)
    /\ \A e : S!Emit(e) <=> SP!Emit(e)
    /\ \A q : S!Trimmed(q) = SP!Trimmed(q)
    /\ S!called = SP!called /\ \A v : S!Accepts(v) <=> SP!Accepts(v)
BY DEF S!Watching, SP!Watching, S!Emit, SP!Emit, S!Trimmed, SP!Trimmed, S!called, SP!called,
       S!Accepts, SP!Accepts

LEMMA SameSurfacesStep == SP!SurfaceInv /\ [S!Next]_surfVars => SP!SurfaceInv'
<1> SUFFICES ASSUME SP!SurfaceInv, [S!Next]_surfVars PROVE SP!SurfaceInv'
  OBVIOUS
<1> USE DEF S!engineVars, SP!engineVars, S!viewVars, SP!viewVars, S!paintVars, SP!paintVars
<1>1. \A s, r : S!Flip(s, r) => SP!Flip(s, r)
  BY SameSurfacesHelpers DEF S!Flip, SP!Flip
<1>2. \A s : S!Destroy(s) => SP!Destroy(s)
  BY SameSurfacesHelpers DEF S!Destroy, SP!Destroy
<1>3. \A v, s : S!setSourceFromSurface(v, s) => SP!setSourceFromSurface(v, s)
  BY SameSurfacesHelpers DEF S!setSourceFromSurface, SP!setSourceFromSurface,
     S!addSurfaceEventListener, SP!addSurfaceEventListener
<1>4. \A v : S!Delete(v) => SP!Delete(v)
  BY SameSurfacesHelpers DEF S!Delete, SP!Delete,
     S!removeSurfaceEventListener, SP!removeSurfaceEventListener
<1>5. \A v : S!setVisible(v) => SP!setVisible(v)
  BY SameSurfacesHelpers DEF S!setVisible, SP!setVisible
<1>6. S!Call => SP!Call
  BY <1>3, <1>4, <1>5 DEF S!Call, SP!Call
<1>7. S!runCallbacks => SP!runCallbacks
  BY SameSurfacesHelpers DEF S!runCallbacks, SP!runCallbacks
<1>8. S!consumeSurfaceEvent => SP!consumeSurfaceEvent
  BY SameSurfacesHelpers DEF S!consumeSurfaceEvent, SP!consumeSurfaceEvent,
     S!consumeUpdate, SP!consumeUpdate, S!onSourceDestroyed, SP!onSourceDestroyed
<1>9. S!EndEvents => SP!EndEvents
  BY SameSurfacesHelpers DEF S!EndEvents, SP!EndEvents
<1>10. S!Paint => SP!Paint
  BY SameSurfacesHelpers DEF S!Paint, SP!Paint
<1>11. S!Next => SP!Next
  BY <1>1, <1>2, <1>6, <1>7, <1>8, <1>9, <1>10 DEF S!Next, SP!Next, S!Turn, SP!Turn
<1>12. UNCHANGED surfVars => UNCHANGED SP!vars
  BY DEF surfVars, SP!vars
<1>13. QED
  BY <1>11, <1>12, SurfacesAssumed, SP!SurfaceStep

LEMMA SameHalvesInit == S!Init => HP!SurfaceInv
<1>1. S!Init => HP!Init
  BY DEF S!Init, HP!Init
<1>2. QED
  BY <1>1, SurfacesAssumed, HP!SurfaceInit

LEMMA SameHalvesHelpers ==
    /\ \A s : H!Watching(s) = HP!Watching(s)
    /\ \A e : H!Emit(e) <=> HP!Emit(e)
    /\ \A q : H!Trimmed(q) = HP!Trimmed(q)
    /\ H!called = HP!called /\ \A v : H!Accepts(v) <=> HP!Accepts(v)
BY DEF H!Watching, HP!Watching, H!Emit, HP!Emit, H!Trimmed, HP!Trimmed, H!called, HP!called,
       H!Accepts, HP!Accepts

LEMMA SameHalvesStep == HP!SurfaceInv /\ [H!Next]_surfVars => HP!SurfaceInv'
<1> SUFFICES ASSUME HP!SurfaceInv, [H!Next]_surfVars PROVE HP!SurfaceInv'
  OBVIOUS
<1> USE DEF H!engineVars, HP!engineVars, H!viewVars, HP!viewVars, H!paintVars, HP!paintVars
<1>1. \A s, r : H!Flip(s, r) => HP!Flip(s, r)
  BY SameHalvesHelpers DEF H!Flip, HP!Flip
<1>2. \A s : H!Destroy(s) => HP!Destroy(s)
  BY SameHalvesHelpers DEF H!Destroy, HP!Destroy
<1>3. \A v, s : H!setSourceFromSurface(v, s) => HP!setSourceFromSurface(v, s)
  BY SameHalvesHelpers DEF H!setSourceFromSurface, HP!setSourceFromSurface,
     H!addSurfaceEventListener, HP!addSurfaceEventListener
<1>4. \A v : H!Delete(v) => HP!Delete(v)
  BY SameHalvesHelpers DEF H!Delete, HP!Delete,
     H!removeSurfaceEventListener, HP!removeSurfaceEventListener
<1>5. \A v : H!setVisible(v) => HP!setVisible(v)
  BY SameHalvesHelpers DEF H!setVisible, HP!setVisible
<1>6. H!Call => HP!Call
  BY <1>3, <1>4, <1>5 DEF H!Call, HP!Call
<1>7. H!runCallbacks => HP!runCallbacks
  BY SameHalvesHelpers DEF H!runCallbacks, HP!runCallbacks
<1>8. H!consumeSurfaceEvent => HP!consumeSurfaceEvent
  BY SameHalvesHelpers DEF H!consumeSurfaceEvent, HP!consumeSurfaceEvent,
     H!consumeUpdate, HP!consumeUpdate, H!onSourceDestroyed, HP!onSourceDestroyed
<1>9. H!EndEvents => HP!EndEvents
  BY SameHalvesHelpers DEF H!EndEvents, HP!EndEvents
<1>10. H!Paint => HP!Paint
  BY SameHalvesHelpers DEF H!Paint, HP!Paint
<1>11. H!Next => HP!Next
  BY <1>1, <1>2, <1>6, <1>7, <1>8, <1>9, <1>10 DEF H!Next, HP!Next, H!Turn, HP!Turn
<1>12. UNCHANGED surfVars => UNCHANGED HP!vars
  BY DEF surfVars, HP!vars
<1>13. QED
  BY <1>11, <1>12, SurfacesAssumed, HP!SurfaceStep

(* Fewer regions and frames are some of more.                              *)
LEMMA WiderTypes == SP!TypeOK => H!TypeOK
<1> SUFFICES ASSUME SP!TypeOK PROVE H!TypeOK
  OBVIOUS
<1>1. SP!Event \subseteq H!Event
  BY DEF SP!Event, H!Event
<1>2. Seq(SP!Event) \subseteq Seq(H!Event)
  BY <1>1
<1>3. events \in [{v1, v2} -> Seq(H!Event)] /\ buffer \in Seq(H!Event)
  BY <1>2 DEF SP!TypeOK
<1>4. /\ flipCount \in [{v1, v2} -> 0 .. 4] /\ flips \in [{s1} -> 0 .. 4]
      /\ handled \in [{v1, v2} -> (0 .. 4) \X (0 .. 4) \X (0 .. 4)]
  <2>1. 0 .. 3 \subseteq 0 .. 4
    OBVIOUS
  <2>2. (0 .. 3) \X (0 .. 3) \X (0 .. 3) \subseteq (0 .. 4) \X (0 .. 4) \X (0 .. 4)
    BY <2>1
  <2>3. QED
    BY <2>1, <2>2 DEF SP!TypeOK
<1>5. dirty \in [{v1, v2} -> SUBSET {left, right}] /\ unacked \in [{v1, v2} -> SUBSET {left, right}]
  BY DEF SP!TypeOK
<1>6. QED
  BY <1>3, <1>4, <1>5 DEF SP!TypeOK, H!TypeOK

(***************************************************************************)
(* Whatever clients draw, lose and hide: the buffer is attached once to    *)
(* every surface that a view watches, a view acknowledges the frame it     *)
(* takes or the one before, and is called while updates wait               *)
(* (ui/SurfaceView.cpp, core/Engine.cpp).                                  *)
(***************************************************************************)
THEOREM SurfacesAreKept == PartsSpec => []SurfacesKept
<1> DEFINE Inv == /\ part = "surfaces" => SP!SurfaceInv
                  /\ part = "halves" => HP!SurfaceInv
<1>1. PartsInit => Inv
  BY SameSurfacesInit, SameHalvesInit DEF PartsInit
<1>2. Inv /\ [PartsNext]_all => Inv'
  <2> SUFFICES ASSUME Inv, [PartsNext]_all PROVE Inv'
    OBVIOUS
  <2>1. CASE part' = "surfaces"
    <3>1. part = "surfaces" /\ [S!Next]_surfVars
      BY <2>1 DEF PartsNext, Others, all
    <3>2. QED
      BY <2>1, <3>1, SameSurfacesStep
  <2>2. CASE part' = "halves"
    <3>1. part = "halves" /\ [H!Next]_surfVars
      BY <2>2 DEF PartsNext, Others, all
    <3>2. QED
      BY <2>2, <3>1, SameHalvesStep
  <2>3. QED
    BY <2>1, <2>2
<1>3. Inv => SurfacesKept
  <2> SUFFICES ASSUME Inv, part \in {"surfaces", "halves"}
               PROVE  H!TypeOK /\ S!AttachedOnce /\ S!AckIsRecent /\ S!WaitingIsCalled
    BY DEF SurfacesKept
  <2>1. CASE part = "surfaces"
    <3>1. SP!TypeOK /\ SP!AttachedOnce /\ SP!AckIsRecent /\ SP!WaitingIsCalled
      BY <2>1, SurfacesAssumed, SP!SurfacesAreKept
    <3>2. H!TypeOK
      BY <3>1, WiderTypes
    <3>3. QED
      BY <3>1, <3>2 DEF S!AttachedOnce, SP!AttachedOnce, S!AckIsRecent, SP!AckIsRecent,
         S!WaitingIsCalled, SP!WaitingIsCalled, S!Watching, SP!Watching
  <2>2. CASE part = "halves"
    <3>1. HP!TypeOK /\ HP!AttachedOnce /\ HP!AckIsRecent /\ HP!WaitingIsCalled
      BY <2>2, SurfacesAssumed, HP!SurfacesAreKept
    <3>2. H!TypeOK
      BY <3>1 DEF H!TypeOK, HP!TypeOK, H!Event, HP!Event
    <3>3. QED
      BY <3>1, <3>2 DEF S!AttachedOnce, HP!AttachedOnce, S!AckIsRecent, HP!AckIsRecent,
         S!WaitingIsCalled, HP!WaitingIsCalled, S!Watching, HP!Watching
  <2>3. QED
    BY <2>1, <2>2
<1>4. QED
  BY <1>1, <1>2, <1>3, PTL DEF PartsSpec

-------------------------------------------------------------------------------
(***************************************************************************)
(* Notifications.  A tag is used once although the Coma thread searches    *)
(* the two lists one after the other: in between the timer moves           *)
(* notifications only from the list that was searched to the one that will *)
(* be, and only the Coma thread itself adds new ones.                      *)
(***************************************************************************)
NoteLives ==
    /\ life \in [Notes -> {"none", "waiting", "appearing", "shown", "leaving", "hidden", "deleted"}]
    /\ \A n \in Notes :
          closes[n] \in IF life[n] = "deleted" THEN {1, 2}
                        ELSE IF life[n] = "hidden" THEN {1} ELSE {0}

(* The notification under way is waiting and not in a list yet.            *)
PendingOnce ==
    /\ \A i, j \in DOMAIN pending : pending[i] = pending[j] => i = j
    /\ comaAt # "idle" => life[toAdd] = "waiting" /\ \A i \in DOMAIN pending : pending[i] # toAdd

Rivals(n, m) == NoteTag[n] # NoTag /\ NoteTag[n] = NoteTag[m]

OneOfATag ==
    /\ \A i, j \in DOMAIN pending : Rivals(pending[i], pending[j]) => i = j
    /\ \A i, j \in DOMAIN active : Rivals(active[i], active[j]) => i = j
    /\ \A i \in DOMAIN pending, j \in DOMAIN active : ~ Rivals(pending[i], active[j])

(* What the Coma thread has searched has no rival of the notification.     *)
Searched ==
    /\ comaAt \in {"pending", "lock", "active"} => NoteTag[toAdd] # NoTag
    /\ comaAt \in {"lock", "active", "push"} =>
          \A i \in DOMAIN pending : ~ Rivals(toAdd, pending[i])
    /\ comaAt = "push" => \A i \in DOMAIN active : ~ Rivals(toAdd, active[i])

NotesInv ==
    N!TypeOK /\ N!AtMostMax /\ NoteLives /\ PendingOnce /\ OneOfATag /\ Searched

LEMMA SameSetOf == \A seq : N!ToSet(seq) = {seq[i] : i \in DOMAIN seq}
BY DEF N!ToSet

LEMMA SameNumber == \A set : N!Cardinality(set) = Cardinality(set)
BY DEF N!Cardinality, Cardinality

(* What the types say of the two lists.                                    *)
LEMMA NoteLists ==
    ASSUME N!TypeOK
    PROVE  /\ pending \in Seq(Notes) /\ active \in Seq(Notes)
           /\ Len(pending) \in Nat /\ DOMAIN pending = 1 .. Len(pending)
           /\ Len(active) \in Nat /\ DOMAIN active = 1 .. Len(active)
           /\ \A i \in DOMAIN pending : pending[i] \in Notes /\ life[pending[i]] = "waiting"
           /\ \A i \in DOMAIN active :
                 /\ active[i] \in Notes
                 /\ life[active[i]] \in {"appearing", "shown", "leaving", "hidden"}
<1>1. pending \in Seq(Notes) /\ active \in Seq(Notes)
  BY DEF N!TypeOK
<1>2. /\ Len(pending) \in Nat /\ DOMAIN pending = 1 .. Len(pending)
      /\ Len(active) \in Nat /\ DOMAIN active = 1 .. Len(active)
      /\ \A i \in DOMAIN pending : pending[i] \in Notes
      /\ \A i \in DOMAIN active : active[i] \in Notes
  BY <1>1
<1>3. \A i \in DOMAIN pending : life[pending[i]] = "waiting"
  BY <1>2, SameSetOf DEF N!TypeOK
<1>4. \A i \in DOMAIN active : life[active[i]] \in {"appearing", "shown", "leaving", "hidden"}
  BY <1>2, SameSetOf DEF N!TypeOK
<1>5. QED
  BY <1>1, <1>2, <1>3, <1>4

(* The converse, for the next state.                                       *)
LEMMA NoteTypes ==
    ASSUME pending' \in Seq(Notes), active' \in Seq(Notes),
           \A i \in DOMAIN pending' : life'[pending'[i]] = "waiting",
           \A i \in DOMAIN active' : life'[active'[i]] \in {"appearing", "shown", "leaving", "hidden"},
           closes' \in [Notes -> 0 .. 2], toAdd' \in Notes,
           collected' \in BOOLEAN, noteBroken' \in BOOLEAN,
           comaAt' \in {"idle", "pending", "lock", "active", "push"}
    PROVE  N!TypeOK'
<1>1. \A n \in Notes : n \in N!ToSet(pending') => life'[n] = "waiting"
  BY SameSetOf
<1>2. \A n \in Notes :
         n \in N!ToSet(active') => life'[n] \in {"appearing", "shown", "leaving", "hidden"}
  BY SameSetOf
<1>3. QED
  BY <1>1, <1>2 DEF N!TypeOK

LEMMA NotesInit == N!Init => NotesInv
<1> SUFFICES ASSUME N!Init PROVE NotesInv
  OBVIOUS
<1>1. /\ pending = << >> /\ active = << >> /\ DOMAIN pending = {} /\ DOMAIN active = {}
      /\ Len(active) = 0 /\ comaAt = "idle"
  BY DEF N!Init
<1>2. N!TypeOK
  <2>1. << >> \in Seq(Notes) /\ closes \in [Notes -> 0 .. 2]
    BY DEF N!Init
  <2>2. N!ToSet(pending) = {} /\ N!ToSet(active) = {}
    BY <1>1, SameSetOf
  <2>3. QED
    BY <1>1, <2>1, <2>2 DEF N!Init, N!TypeOK
<1>3. N!AtMostMax /\ NoteLives /\ PendingOnce /\ OneOfATag /\ Searched
  BY <1>1, PartNotesAssumption DEF N!Init, N!AtMostMax, NoteLives, PendingOnce, OneOfATag, Searched
<1>4. QED
  BY <1>2, <1>3 DEF NotesInv

(* A list without rivals in it has at most one of the new notification.    *)
LEMMA RivalFound ==
    ASSUME NEW seq \in Seq(Notes), NoteTag[toAdd] # NoTag,
           \A i, j \in DOMAIN seq : Rivals(seq[i], seq[j]) => i = j
    PROVE  \/ N!SameTag(seq) = 0 /\ \A i \in DOMAIN seq : ~ Rivals(toAdd, seq[i])
           \/ N!SameTag(seq) \in DOMAIN seq /\ Rivals(toAdd, seq[N!SameTag(seq)])
<1> DEFINE found == {i \in 1 .. Len(seq) : NoteTag[seq[i]] = NoteTag[toAdd]}
<1>1. N!SameTag(seq) = IF found # {} THEN N!Min(found) ELSE 0
  BY DEF N!SameTag, N!SelectInSeq
<1>2. DOMAIN seq = 1 .. Len(seq) /\ Len(seq) \in Nat
  OBVIOUS
<1>3. CASE found = {}
  BY <1>1, <1>2, <1>3 DEF Rivals
<1>4. ASSUME NEW k \in found
      PROVE  N!SameTag(seq) \in DOMAIN seq /\ Rivals(toAdd, seq[N!SameTag(seq)])
  <2>1. found = {k}
    BY <1>2, <1>4 DEF Rivals
  <2>2. k \in 1 .. Len(seq)
    BY <1>4
  <2> HIDE DEF found
  <2>3. N!Min(found) = k
    BY <2>1, <2>2 DEF N!Min
  <2>4. N!SameTag(seq) = k
    BY <1>1, <2>1, <2>3
  <2>5. QED
    BY <1>2, <1>4, <2>4 DEF found, Rivals
<1>5. QED
  BY <1>3, <1>4

(* The Coma thread.                                                        *)
LEMMA addNotificationKeeps ==
    ASSUME NotesInv, NEW n \in Notes, N!addNotification(n)
    PROVE  NotesInv'
<1> USE DEF NotesInv
<1>1. /\ life[n] = "none" /\ toAdd' = n /\ life' = [life EXCEPT ![n] = "waiting"]
      /\ comaAt' = IF NoteTag[n] = NoTag THEN "push" ELSE "pending"
      /\ UNCHANGED <<pending, active, closes, collected, noteBroken>>
  BY DEF N!addNotification
<1>2. /\ \A m \in Notes : life'[m] = IF m = n THEN "waiting" ELSE life[m]
      /\ \A i \in DOMAIN pending : pending[i] \in Notes /\ pending[i] # n
      /\ \A i \in DOMAIN active : active[i] \in Notes /\ active[i] # n
  BY <1>1, NoteLists DEF NoteLives
<1>3. N!TypeOK'
  <2>1. /\ \A i \in DOMAIN pending' : life'[pending'[i]] = "waiting"
        /\ \A i \in DOMAIN active' : life'[active'[i]] \in {"appearing", "shown", "leaving", "hidden"}
    BY <1>1, <1>2, NoteLists
  <2>2. QED
    BY <1>1, <2>1, NoteLists, NoteTypes DEF N!TypeOK
<1>4. N!AtMostMax' /\ NoteLives'
  BY <1>1 DEF N!AtMostMax, NoteLives
<1>5. PendingOnce'
  BY <1>1, <1>2 DEF PendingOnce
<1>6. OneOfATag'
  BY <1>1 DEF OneOfATag, Rivals
<1>7. Searched'
  BY <1>1 DEF Searched, Rivals
<1>8. QED
  BY <1>3, <1>4, <1>5, <1>6, <1>7

(* The notification takes the place of its rival, which is closed.         *)
LEMMA Replacing ==
    ASSUME NotesInv, NEW seq \in Seq(Notes), NEW k \in DOMAIN seq, N!SameTag(seq) = k,
           NEW now \in {"waiting", "appearing"}, N!Retire(seq, now), comaAt # "idle",
           life[seq[k]] \in {"waiting", "appearing", "shown", "leaving", "hidden"},
           seq[k] # toAdd
    PROVE  /\ N!Replaced(seq) \in Seq(Notes) /\ DOMAIN N!Replaced(seq) = DOMAIN seq
           /\ Len(N!Replaced(seq)) = Len(seq)
           /\ \A i \in DOMAIN seq : N!Replaced(seq)[i] = IF i = k THEN toAdd ELSE seq[i]
           /\ \A n \in Notes : life'[n] = IF n = toAdd THEN now
                                          ELSE IF n = seq[k] THEN "deleted" ELSE life[n]
           /\ NoteLives' /\ closes' \in [Notes -> 0 .. 2]
<1> USE DEF NotesInv
<1>1. N!Replaced(seq) = [seq EXCEPT ![k] = toAdd]
  BY DEF N!Replaced
<1>2. toAdd \in Notes /\ seq[k] \in Notes
  BY DEF N!TypeOK
<1>3. /\ life' = [life EXCEPT ![seq[k]] = "deleted", ![toAdd] = now]
      /\ closes' = [closes EXCEPT ![seq[k]] = @ + 1]
  BY DEF N!Retire
<1>4. /\ life \in [Notes -> {"none", "waiting", "appearing", "shown", "leaving", "hidden", "deleted"}]
      /\ closes \in [Notes -> 0 .. 2] /\ closes[seq[k]] \in {0, 1} /\ closes[toAdd] = 0
  BY <1>2 DEF NoteLives, PendingOnce, N!TypeOK
<1>5. /\ \A n \in Notes : life'[n] = IF n = toAdd THEN now
                                     ELSE IF n = seq[k] THEN "deleted" ELSE life[n]
      /\ \A n \in Notes : closes'[n] = IF n = seq[k] THEN closes[n] + 1 ELSE closes[n]
      /\ closes' \in [Notes -> 0 .. 2]
      /\ life' \in [Notes -> {"none", "waiting", "appearing", "shown", "leaving", "hidden", "deleted"}]
  BY <1>2, <1>3, <1>4
<1>6. NoteLives'
  <2>1. ASSUME NEW n \in Notes
        PROVE  closes'[n] \in IF life'[n] = "deleted" THEN {1, 2}
                              ELSE IF life'[n] = "hidden" THEN {1} ELSE {0}
    <3>1. CASE n = toAdd
      BY <1>4, <1>5, <3>1
    <3>2. CASE n # toAdd /\ n = seq[k]
      BY <1>4, <1>5, <3>2
    <3>3. CASE n # toAdd /\ n # seq[k]
      BY <1>5, <3>3 DEF NoteLives
    <3>4. QED
      BY <3>1, <3>2, <3>3
  <2>2. QED
    BY <1>5, <2>1 DEF NoteLives
<1>7. QED
  BY <1>1, <1>2, <1>5, <1>6

LEMMA replacePendingKeeps ==
    ASSUME NotesInv, N!replacePending
    PROVE  NotesInv'
<1> USE DEF NotesInv
<1> DEFINE k == N!SameTag(pending)
<1>1. comaAt = "pending" /\ UNCHANGED <<active, toAdd, collected, noteBroken>>
  BY DEF N!replacePending
<1>2. NoteTag[toAdd] # NoTag /\ life[toAdd] = "waiting" /\ \A i \in DOMAIN pending : pending[i] # toAdd
  BY <1>1 DEF Searched, PendingOnce
<1>3. \/ k = 0 /\ \A i \in DOMAIN pending : ~ Rivals(toAdd, pending[i])
      \/ k \in DOMAIN pending /\ Rivals(toAdd, pending[k])
  BY <1>2, NoteLists, RivalFound DEF OneOfATag
<1>4. CASE k = 0 /\ \A i \in DOMAIN pending : ~ Rivals(toAdd, pending[i])
  <2>1. comaAt' = "lock" /\ UNCHANGED <<pending, life, closes>>
    BY <1>4 DEF N!replacePending
  <2>2. N!TypeOK'
    BY <1>1, <2>1 DEF N!TypeOK
  <2>3. N!AtMostMax' /\ NoteLives' /\ PendingOnce' /\ OneOfATag' /\ Searched'
    BY <1>1, <1>2, <1>4, <2>1
       DEF N!AtMostMax, NoteLives, PendingOnce, OneOfATag, Searched, Rivals
  <2>4. QED
    BY <2>2, <2>3
<1>5. CASE k \in DOMAIN pending /\ Rivals(toAdd, pending[k])
  <2>1. k # 0
    BY <1>5, NoteLists
  <2>2. pending' = N!Replaced(pending) /\ N!Retire(pending, "waiting") /\ comaAt' = "idle"
    BY <2>1 DEF N!replacePending
  <2>3. /\ pending' \in Seq(Notes) /\ DOMAIN pending' = DOMAIN pending
        /\ \A i \in DOMAIN pending : pending'[i] = IF i = k THEN toAdd ELSE pending[i]
        /\ \A n \in Notes : life'[n] = IF n = toAdd THEN "waiting"
                                       ELSE IF n = pending[k] THEN "deleted" ELSE life[n]
        /\ NoteLives' /\ closes' \in [Notes -> 0 .. 2]
    <3>1. pending \in Seq(Notes) /\ k \in DOMAIN pending /\ life[pending[k]] = "waiting"
      BY <1>5, NoteLists
    <3>2. QED
      BY <1>1, <1>2, <2>2, <3>1, Replacing
  <2>4. \A i \in DOMAIN active : active[i] # toAdd /\ active[i] # pending[k]
    BY <1>2, <1>5, NoteLists
  <2>5. toAdd \in Notes /\ collected \in BOOLEAN /\ noteBroken \in BOOLEAN
    BY DEF N!TypeOK
  <2>6. N!TypeOK'
    <3>1. \A i \in DOMAIN pending' : life'[pending'[i]] = "waiting"
      BY <1>5, <2>3, <2>5, NoteLists DEF PendingOnce
    <3>2. \A i \in DOMAIN active' : life'[active'[i]] \in {"appearing", "shown", "leaving", "hidden"}
      BY <1>1, <2>3, <2>4, NoteLists
    <3>3. active' \in Seq(Notes)
      BY <1>1, NoteLists
    <3>4. QED
      BY <1>1, <2>2, <2>3, <2>5, <3>1, <3>2, <3>3, NoteTypes
  <2>7. PendingOnce'
    BY <1>2, <2>2, <2>3 DEF PendingOnce
  <2>8. OneOfATag'
    <3>1. \A i \in DOMAIN pending, n \in Notes :
             (Rivals(pending'[i], n) <=> Rivals(pending[i], n)) /\ (Rivals(n, pending'[i]) <=> Rivals(n, pending[i]))
      BY <1>5, <2>3 DEF Rivals
    <3>2. \A i, j \in DOMAIN pending : Rivals(pending'[i], pending'[j]) => Rivals(pending[i], pending[j])
      BY <1>5, <2>3 DEF Rivals
    <3>3. QED
      BY <1>1, <2>3, <3>1, <3>2, NoteLists DEF OneOfATag
  <2>9. N!AtMostMax' /\ Searched'
    BY <1>1, <2>2 DEF N!AtMostMax, Searched
  <2>10. QED
    BY <2>3, <2>6, <2>7, <2>8, <2>9
<1>6. QED
  BY <1>3, <1>4, <1>5

LEMMA replaceActiveKeeps ==
    ASSUME NotesInv, N!replaceActive
    PROVE  NotesInv'
<1> USE DEF NotesInv
<1> DEFINE k == N!SameTag(active)
<1>1. comaAt = "active" /\ UNCHANGED <<pending, toAdd, collected, noteBroken>>
  BY DEF N!replaceActive
<1>2. /\ NoteTag[toAdd] # NoTag /\ life[toAdd] = "waiting"
      /\ \A i \in DOMAIN pending : pending[i] # toAdd /\ ~ Rivals(toAdd, pending[i])
      /\ \A i \in DOMAIN active : active[i] # toAdd
  BY <1>1, NoteLists DEF Searched, PendingOnce
<1>3. \/ k = 0 /\ \A i \in DOMAIN active : ~ Rivals(toAdd, active[i])
      \/ k \in DOMAIN active /\ Rivals(toAdd, active[k])
  BY <1>2, NoteLists, RivalFound DEF OneOfATag
<1>4. CASE k = 0 /\ \A i \in DOMAIN active : ~ Rivals(toAdd, active[i])
  <2>1. comaAt' = "push" /\ UNCHANGED <<active, life, closes>>
    BY <1>4 DEF N!replaceActive
  <2>2. N!TypeOK'
    BY <1>1, <2>1 DEF N!TypeOK
  <2>3. N!AtMostMax' /\ NoteLives' /\ PendingOnce' /\ OneOfATag' /\ Searched'
    BY <1>1, <1>2, <1>4, <2>1
       DEF N!AtMostMax, NoteLives, PendingOnce, OneOfATag, Searched, Rivals
  <2>4. QED
    BY <2>2, <2>3
<1>5. CASE k \in DOMAIN active /\ Rivals(toAdd, active[k])
  <2>1. k # 0
    BY <1>5, NoteLists
  <2>2. active' = N!Replaced(active) /\ N!Retire(active, "appearing") /\ comaAt' = "idle"
    BY <2>1 DEF N!replaceActive
  <2>3. /\ active' \in Seq(Notes) /\ DOMAIN active' = DOMAIN active /\ Len(active') = Len(active)
        /\ \A i \in DOMAIN active : active'[i] = IF i = k THEN toAdd ELSE active[i]
        /\ \A n \in Notes : life'[n] = IF n = toAdd THEN "appearing"
                                       ELSE IF n = active[k] THEN "deleted" ELSE life[n]
        /\ NoteLives' /\ closes' \in [Notes -> 0 .. 2]
    <3>1. /\ active \in Seq(Notes) /\ k \in DOMAIN active /\ active[k] # toAdd
          /\ life[active[k]] \in {"waiting", "appearing", "shown", "leaving", "hidden"}
      BY <1>2, <1>5, NoteLists
    <3>2. QED
      BY <1>1, <2>2, <3>1, Replacing
  <2>4. \A i \in DOMAIN pending : pending[i] # active[k]
    BY <1>5, NoteLists
  <2>5. toAdd \in Notes /\ collected \in BOOLEAN /\ noteBroken \in BOOLEAN
    BY DEF N!TypeOK
  <2>6. \A i \in DOMAIN active \ {k} : active[i] # active[k]
    BY <1>5 DEF OneOfATag, Rivals
  <2>7. N!TypeOK'
    <3>1. \A i \in DOMAIN pending' : life'[pending'[i]] = "waiting"
      BY <1>1, <1>2, <2>3, <2>4, NoteLists
    <3>2. \A i \in DOMAIN active' : life'[active'[i]] \in {"appearing", "shown", "leaving", "hidden"}
      BY <1>2, <2>3, <2>5, <2>6, NoteLists
    <3>3. pending' \in Seq(Notes)
      BY <1>1, NoteLists
    <3>4. QED
      BY <1>1, <2>2, <2>3, <2>5, <3>1, <3>2, <3>3, NoteTypes
  <2>8. OneOfATag'
    <3>1. \A i, j \in DOMAIN active : Rivals(active'[i], active'[j]) => Rivals(active[i], active[j])
      BY <1>5, <2>3 DEF Rivals
    <3>2. \A i \in DOMAIN pending, j \in DOMAIN active :
             Rivals(pending[i], active'[j]) => Rivals(pending[i], active[j])
      BY <1>5, <2>3 DEF Rivals
    <3>3. QED
      BY <1>1, <2>3, <3>1, <3>2 DEF OneOfATag
  <2>9. N!AtMostMax' /\ Searched' /\ PendingOnce'
    BY <1>1, <2>2, <2>3 DEF N!AtMostMax, Searched, PendingOnce
  <2>10. QED
    BY <2>3, <2>7, <2>8, <2>9
<1>6. QED
  BY <1>3, <1>4, <1>5

LEMMA pushKeeps ==
    ASSUME NotesInv, N!push \/ N!lockActive
    PROVE  NotesInv'
<1> USE DEF NotesInv
<1>1. CASE N!lockActive
  <2>1. N!TypeOK'
    BY <1>1 DEF N!TypeOK, N!lockActive
  <2>2. N!AtMostMax' /\ NoteLives' /\ PendingOnce' /\ OneOfATag' /\ Searched'
    BY <1>1 DEF N!lockActive, N!AtMostMax, NoteLives, PendingOnce, OneOfATag, Searched, Rivals
  <2>3. QED
    BY <2>1, <2>2
<1>2. CASE N!push
  <2>1. /\ comaAt = "push" /\ comaAt' = "idle" /\ pending' = Append(pending, toAdd)
        /\ UNCHANGED <<active, life, closes, toAdd, collected, noteBroken>>
    BY <1>2 DEF N!push
  <2>2. /\ life[toAdd] = "waiting" /\ toAdd \in Notes
        /\ \A i \in DOMAIN pending : pending[i] # toAdd /\ ~ Rivals(toAdd, pending[i])
        /\ \A i \in DOMAIN active : ~ Rivals(toAdd, active[i])
    BY <2>1 DEF PendingOnce, Searched, N!TypeOK
  <2>3. /\ pending' \in Seq(Notes) /\ Len(pending') = Len(pending) + 1
        /\ \A i \in 1 .. Len(pending) : pending'[i] = pending[i]
        /\ pending'[Len(pending) + 1] = toAdd
    BY <2>1, <2>2, NoteLists, AppendProperties
  <2>4. \A i \in DOMAIN pending' : \/ i \in DOMAIN pending /\ pending'[i] = pending[i]
                                   \/ i = Len(pending) + 1 /\ pending'[i] = toAdd
    <3>1. DOMAIN pending' = 1 .. Len(pending) + 1 /\ DOMAIN pending = 1 .. Len(pending)
      BY <2>3, NoteLists
    <3>2. \A i \in 1 .. Len(pending) + 1 : i \in 1 .. Len(pending) \/ i = Len(pending) + 1
      BY NoteLists
    <3>3. QED
      BY <2>3, <3>1, <3>2
  <2>5. N!TypeOK'
    <3>1. \A i \in DOMAIN pending' : life'[pending'[i]] = "waiting"
      BY <2>1, <2>2, <2>4, NoteLists
    <3>2. \A i \in DOMAIN active' : life'[active'[i]] \in {"appearing", "shown", "leaving", "hidden"}
      BY <2>1, NoteLists
    <3>3. /\ active' \in Seq(Notes) /\ closes' \in [Notes -> 0 .. 2]
          /\ collected' \in BOOLEAN /\ noteBroken' \in BOOLEAN
      BY <2>1 DEF N!TypeOK
    <3>4. QED
      BY <2>1, <2>2, <2>3, <3>1, <3>2, <3>3, NoteTypes
  <2>6. N!AtMostMax' /\ NoteLives' /\ Searched'
    BY <2>1 DEF N!AtMostMax, NoteLives, Searched
  <2>7. PendingOnce'
    BY <2>1, <2>2, <2>4 DEF PendingOnce
  <2>8. OneOfATag'
    <3>1. \A n \in Notes : Rivals(n, toAdd) => Rivals(toAdd, n)
      BY DEF Rivals
    <3>2. \A i, j \in DOMAIN pending' : Rivals(pending'[i], pending'[j]) => i = j
      BY <2>2, <2>4, <3>1, NoteLists DEF OneOfATag
    <3>3. \A i \in DOMAIN pending', j \in DOMAIN active : ~ Rivals(pending'[i], active[j])
      BY <2>2, <2>4 DEF OneOfATag
    <3>4. QED
      BY <2>1, <3>2, <3>3 DEF OneOfATag
  <2>9. QED
    BY <2>5, <2>6, <2>7, <2>8
<1>3. QED
  BY <1>1, <1>2

(* A notification plays its animations.                                    *)
LEMMA PlaysKeeps ==
    ASSUME NotesInv, NEW n \in Notes, N!Plays(n)
    PROVE  NotesInv'
<1> USE DEF NotesInv
<1>1. /\ life[n] \in {"appearing", "shown", "leaving"}
      /\ \/ life' = [life EXCEPT ![n] = "shown"] /\ closes' = closes
         \/ life' = [life EXCEPT ![n] = "leaving"] /\ closes' = closes
         \/ life' = [life EXCEPT ![n] = "hidden"] /\ closes' = [closes EXCEPT ![n] = @ + 1]
      /\ UNCHANGED <<pending, active, toAdd, comaAt, collected, noteBroken>>
  BY DEF N!Plays, N!Appeared, N!hide, N!Left
<1>2. /\ life'[n] \in {"shown", "leaving", "hidden"}
      /\ \A m \in Notes \ {n} : life'[m] = life[m] /\ closes'[m] = closes[m]
      /\ closes[n] = 0 /\ closes'[n] = IF life'[n] = "hidden" THEN 1 ELSE 0
      /\ closes' \in [Notes -> 0 .. 2]
      /\ life' \in [Notes -> {"none", "waiting", "appearing", "shown", "leaving", "hidden", "deleted"}]
  <2>1. closes \in [Notes -> 0 .. 2] /\ closes[n] = 0
    BY <1>1 DEF NoteLives, N!TypeOK
  <2>2. life \in [Notes -> {"none", "waiting", "appearing", "shown", "leaving", "hidden", "deleted"}]
    BY DEF NoteLives
  <2>3. QED
    BY <1>1, <2>1, <2>2
<1>3. N!TypeOK'
  <2>1. \A i \in DOMAIN pending' : life'[pending'[i]] = "waiting"
    BY <1>1, <1>2, NoteLists
  <2>2. \A i \in DOMAIN active' : life'[active'[i]] \in {"appearing", "shown", "leaving", "hidden"}
    BY <1>1, <1>2, NoteLists
  <2>3. /\ pending' \in Seq(Notes) /\ active' \in Seq(Notes) /\ toAdd' \in Notes
        /\ collected' \in BOOLEAN /\ noteBroken' \in BOOLEAN
        /\ comaAt' \in {"idle", "pending", "lock", "active", "push"}
    BY <1>1 DEF N!TypeOK
  <2>4. QED
    BY <1>2, <2>1, <2>2, <2>3, NoteTypes
<1>4. NoteLives'
  BY <1>2 DEF NoteLives
<1>5. PendingOnce'
  BY <1>1, <1>2 DEF PendingOnce, N!TypeOK
<1>6. N!AtMostMax' /\ OneOfATag' /\ Searched'
  BY <1>1 DEF N!AtMostMax, OneOfATag, Searched, Rivals
<1>7. QED
  BY <1>3, <1>4, <1>5, <1>6

(* The timer of the main loop clears hidden notifications away.            *)
LEMMA CollectKeeps ==
    ASSUME NotesInv, N!Collect
    PROVE  NotesInv'
<1> USE DEF NotesInv
<1> DEFINE kept == {i \in DOMAIN active : life[active[i]] # "hidden"}
<1>1. /\ comaAt # "active"
      /\ life' = [n \in Notes |-> IF life[n] = "hidden" THEN "deleted" ELSE life[n]]
      /\ collected' = TRUE /\ UNCHANGED <<pending, closes, toAdd, comaAt, noteBroken>>
  BY DEF N!Collect
<1>2. PICK place \in [1 .. N!Cardinality(kept) -> kept] :
         /\ \A i, j \in DOMAIN place : i < j => place[i] < place[j]
         /\ active' = [i \in DOMAIN place |-> active[place[i]]]
  BY DEF N!Collect
<1>3. /\ Len(active) \in Nat /\ DOMAIN active = 1 .. Len(active) /\ active \in Seq(Notes)
      /\ \A i \in DOMAIN active : active[i] \in Notes
  BY NoteLists
<1>4. N!Cardinality(kept) \in 0 .. Len(active)
  <2>1. IsFiniteSet(1 .. Len(active)) /\ Cardinality(1 .. Len(active)) = Len(active)
    <3>1. 1 \in Int /\ Len(active) \in Int
      BY <1>3
    <3>2. /\ IsFiniteSet(1 .. Len(active))
          /\ Cardinality(1 .. Len(active)) = IF 1 > Len(active) THEN 0 ELSE Len(active) - 1 + 1
      BY <3>1, FS_Interval
    <3>3. QED
      BY <1>3, <3>2
  <2>2. kept \subseteq 1 .. Len(active)
    BY <1>3
  <2> HIDE DEF kept
  <2>3. IsFiniteSet(kept) /\ Cardinality(kept) <= Len(active) /\ Cardinality(kept) \in Nat
    BY <2>1, <2>2, FS_Subset, FS_CardinalityType
  <2>4. QED
    BY <1>3, <2>3, SameNumber
<1>5. /\ DOMAIN place = 1 .. N!Cardinality(kept)
      /\ \A i \in DOMAIN place :
            /\ place[i] \in DOMAIN active /\ active'[i] = active[place[i]]
            /\ life[active[place[i]]] # "hidden"
      /\ \A i, j \in DOMAIN place : place[i] = place[j] => i = j
  <2>1. \A i \in DOMAIN place : place[i] \in kept /\ active'[i] = active[place[i]]
    BY <1>2
  <2>2. ASSUME NEW i \in DOMAIN place, NEW j \in DOMAIN place, place[i] = place[j]
        PROVE  i = j
    <3>1. i \in Nat /\ j \in Nat /\ place[i] \in Nat
      BY <1>3, <1>4, <2>1
    <3>2. ~ (i < j) /\ ~ (j < i)
      BY <1>2, <2>2, <3>1
    <3>3. QED
      BY <3>1, <3>2
  <2>3. QED
    BY <2>1, <2>2
<1> HIDE DEF kept
<1>6. active' \in Seq(Notes) /\ Len(active') = N!Cardinality(kept) /\ DOMAIN active' = DOMAIN place
  BY <1>2, <1>3, <1>4, <1>5
<1>7. /\ \A n \in Notes : life'[n] = IF life[n] = "hidden" THEN "deleted" ELSE life[n]
      /\ life' \in [Notes -> {"none", "waiting", "appearing", "shown", "leaving", "hidden", "deleted"}]
  BY <1>1 DEF NoteLives
<1>8. N!TypeOK'
  <2>1. \A i \in DOMAIN pending' : life'[pending'[i]] = "waiting"
    BY <1>1, <1>7, NoteLists
  <2>2. \A i \in DOMAIN active' : life'[active'[i]] \in {"appearing", "shown", "leaving", "hidden"}
    BY <1>5, <1>6, <1>7, NoteLists
  <2>3. /\ pending' \in Seq(Notes) /\ closes' \in [Notes -> 0 .. 2] /\ toAdd' \in Notes
        /\ collected' \in BOOLEAN /\ noteBroken' \in BOOLEAN
        /\ comaAt' \in {"idle", "pending", "lock", "active", "push"}
    BY <1>1 DEF N!TypeOK
  <2>4. QED
    BY <1>6, <2>1, <2>2, <2>3, NoteTypes
<1>9. NoteLives'
  BY <1>1, <1>7 DEF NoteLives
<1>10. PendingOnce'
  BY <1>1, <1>7 DEF PendingOnce, N!TypeOK
<1>11. OneOfATag'
  <2>1. \A i, j \in DOMAIN active' : Rivals(active'[i], active'[j]) => place[i] = place[j]
    BY <1>5, <1>6 DEF OneOfATag
  <2>2. QED
    BY <1>1, <1>5, <1>6, <2>1 DEF OneOfATag
<1>12. Searched'
  BY <1>1, <1>5, <1>6 DEF Searched
<1>13. N!AtMostMax'
  BY <1>3, <1>4, <1>6, PartNotesAssumption DEF N!AtMostMax
<1>14. QED
  BY <1>8, <1>9, <1>10, <1>11, <1>12, <1>13

(* It fills at most the free places, and stops half-way.                   *)
LEMMA PlacesAreFree ==
    ASSUME N!TypeOK, Len(active) < MaxNotes
    PROVE  /\ N!PlacesFilled \in 0 .. Len(pending)
           /\ Len(active) + N!PlacesFilled <= MaxNotes
<1> DEFINE ends(i) == i = Len(pending) \/ i >= MaxNotes - (Len(active) + i)
           goes(i) == \A j \in 0 .. i - 1 : j < MaxNotes - (Len(active) + j)
<1>1. Len(pending) \in Nat /\ Len(active) \in Nat /\ MaxNotes \in Nat
  BY NoteLists, PartNotesAssumption
<1>2. N!PlacesFilled = CHOOSE i \in 0 .. Len(pending) : ends(i) /\ goes(i)
  BY DEF N!PlacesFilled
<1>3. \E i \in 0 .. Len(pending) : ends(i) /\ goes(i)
  <2> DEFINE half == (MaxNotes - Len(active) + 1) \div 2
  <2>1. /\ half \in Nat /\ half >= MaxNotes - (Len(active) + half)
        /\ \A j \in 0 .. half - 1 : j < MaxNotes - (Len(active) + j)
    BY <1>1
  <2> HIDE DEF half
  <2>2. CASE half <= Len(pending)
    <3>1. half \in 0 .. Len(pending) /\ ends(half) /\ goes(half)
      BY <1>1, <2>1, <2>2
    <3>2. QED
      BY <3>1
  <2>3. CASE half > Len(pending)
    <3>1. Len(pending) \in 0 .. Len(pending) /\ ends(Len(pending)) /\ goes(Len(pending))
      BY <1>1, <2>1, <2>3
    <3>2. QED
      BY <3>1
  <2>4. QED
    BY <1>1, <2>1, <2>2, <2>3
<1>4. N!PlacesFilled \in 0 .. Len(pending) /\ goes(N!PlacesFilled)
  <2> HIDE DEF ends, goes
  <2>1. QED
    BY <1>2, <1>3
<1>5. CASE N!PlacesFilled = 0
  BY <1>1, <1>5
<1>6. CASE N!PlacesFilled # 0
  <2>1. N!PlacesFilled - 1 \in 0 .. N!PlacesFilled - 1
    BY <1>1, <1>4, <1>6
  <2>2. N!PlacesFilled - 1 < MaxNotes - (Len(active) + (N!PlacesFilled - 1))
    BY <1>4, <2>1
  <2>3. QED
    BY <1>1, <1>4, <2>2
<1>7. QED
  BY <1>5, <1>6

LEMMA FillKeeps ==
    ASSUME NotesInv, N!Fill
    PROVE  NotesInv'
<1> USE DEF NotesInv
<1> DEFINE moved == IF Len(active) < MaxNotes THEN N!PlacesFilled ELSE 0
           first == SubSeq(pending, 1, moved)
           rest == SubSeq(pending, moved + 1, Len(pending))
<1>1. /\ active' = active \o first /\ pending' = rest
      /\ life' = [m \in Notes |-> IF m \in N!ToSet(first) THEN "appearing" ELSE life[m]]
      /\ noteBroken' \in BOOLEAN /\ collected' = FALSE
      /\ UNCHANGED <<closes, toAdd, comaAt>>
  BY DEF N!Fill
<1>2. /\ Len(pending) \in Nat /\ DOMAIN pending = 1 .. Len(pending) /\ pending \in Seq(Notes)
      /\ Len(active) \in Nat /\ DOMAIN active = 1 .. Len(active) /\ active \in Seq(Notes)
      /\ \A i \in 1 .. Len(pending) : pending[i] \in Notes
  BY NoteLists
<1>3. /\ moved \in 0 .. Len(pending)
      /\ Len(active) + moved <= MaxNotes \/ moved = 0
  BY <1>2, PlacesAreFree
<1> HIDE DEF moved
<1>4. /\ first \in Seq(Notes) /\ Len(first) = moved
      /\ \A i \in 1 .. moved : first[i] = pending[i]
  <2>1. pending \in Seq(Notes) /\ moved \in 0 .. Len(pending)
    BY <1>2, <1>3
  <2>2. QED
    BY <2>1, SplitAfter
<1>5. /\ rest \in Seq(Notes) /\ Len(rest) = Len(pending) - moved
      /\ \A i \in 1 .. Len(pending) - moved : rest[i] = pending[moved + i]
  <2>1. pending \in Seq(Notes) /\ moved \in 0 .. Len(pending)
    BY <1>2, <1>3
  <2>2. QED
    BY <2>1, SplitAfter
<1> HIDE DEF first, rest
<1>6. /\ active' \in Seq(Notes) /\ Len(active') = Len(active) + moved
      /\ DOMAIN active' = 1 .. Len(active) + moved
      /\ \A i \in 1 .. Len(active) : active'[i] = active[i]
      /\ \A i \in 1 .. moved : active'[Len(active) + i] = pending[i]
  <2>1. /\ active' \in Seq(Notes) /\ Len(active') = Len(active) + Len(first)
        /\ \A i \in 1 .. Len(active) + Len(first) :
              active'[i] = IF i <= Len(active) THEN active[i] ELSE first[i - Len(active)]
    BY <1>1, <1>2, <1>4, ConcatProperties
  <2>2. \A i \in 1 .. Len(active) : active'[i] = active[i]
    BY <1>2, <1>3, <1>4, <2>1
  <2>3. ASSUME NEW i \in 1 .. moved PROVE active'[Len(active) + i] = pending[i]
    <3>1. /\ Len(active) + i \in 1 .. Len(active) + Len(first) /\ ~ (Len(active) + i <= Len(active))
          /\ (Len(active) + i) - Len(active) = i
      BY <1>2, <1>3, <1>4
    <3>2. QED
      BY <1>4, <2>1, <3>1
  <2>4. QED
    BY <1>4, <2>1, <2>2, <2>3
<1>7. /\ DOMAIN pending' = 1 .. Len(pending) - moved
      /\ \A i \in DOMAIN pending' : moved + i \in DOMAIN pending /\ pending'[i] = pending[moved + i]
  <2>1. DOMAIN pending' = 1 .. Len(pending) - moved
    BY <1>1, <1>5
  <2>2. \A i \in 1 .. Len(pending) - moved : moved + i \in DOMAIN pending
    BY <1>2, <1>3
  <2>3. QED
    BY <1>1, <1>5, <2>1, <2>2
<1>8. ASSUME NEW i \in DOMAIN active'
      PROVE  \/ i \in DOMAIN active /\ active'[i] = active[i]
             \/ \E j \in 1 .. moved : i = Len(active) + j /\ j \in DOMAIN pending /\ active'[i] = pending[j]
  <2>1. CASE i <= Len(active)
    BY <1>2, <1>6, <2>1
  <2>2. CASE i > Len(active)
    <3>1. i - Len(active) \in 1 .. moved /\ i = Len(active) + (i - Len(active))
      BY <1>2, <1>3, <1>6, <2>2
    <3>2. \A j \in 1 .. moved : j \in DOMAIN pending
      BY <1>2, <1>3
    <3>3. QED
      BY <1>6, <3>1, <3>2
  <2>3. QED
    BY <1>2, <1>6, <2>1, <2>2
<1>9. /\ \A n \in Notes : life'[n] = IF \E j \in 1 .. moved : n = pending[j] THEN "appearing" ELSE life[n]
      /\ life' \in [Notes -> {"none", "waiting", "appearing", "shown", "leaving", "hidden", "deleted"}]
  <2>1. DOMAIN first = 1 .. moved
    BY <1>3, <1>4
  <2>2. \A n : n \in N!ToSet(first) <=> \E j \in 1 .. moved : n = pending[j]
    BY <1>4, <2>1, SameSetOf
  <2>3. QED
    BY <1>1, <2>2 DEF NoteLives
<1>10. \A j \in 1 .. moved : j \in DOMAIN pending
  BY <1>2, <1>3
<1>11. \A i \in DOMAIN pending', j \in 1 .. moved : pending'[i] # pending[j] /\ moved + i # j
  <2>1. \A i \in DOMAIN pending', j \in 1 .. moved : moved + i # j
    BY <1>2, <1>3, <1>7
  <2>2. QED
    BY <1>7, <1>10, <2>1 DEF PendingOnce
<1>12. N!TypeOK'
  <2>1. \A i \in DOMAIN pending' : life'[pending'[i]] = "waiting"
    BY <1>7, <1>9, <1>11, NoteLists
  <2>2. ASSUME NEW i \in DOMAIN active'
        PROVE  life'[active'[i]] \in {"appearing", "shown", "leaving", "hidden"}
    <3>1. CASE i \in DOMAIN active /\ active'[i] = active[i]
      BY <1>9, <3>1, NoteLists
    <3>2. CASE \E j \in 1 .. moved : j \in DOMAIN pending /\ active'[i] = pending[j]
      BY <1>9, <3>2, NoteLists
    <3>3. QED
      BY <1>8, <3>1, <3>2
  <2>3. /\ closes' \in [Notes -> 0 .. 2] /\ toAdd' \in Notes
        /\ comaAt' \in {"idle", "pending", "lock", "active", "push"}
    BY <1>1 DEF N!TypeOK
  <2>4. pending' \in Seq(Notes) /\ collected' \in BOOLEAN
    BY <1>1, <1>5
  <2>5. QED
    BY <1>1, <1>6, <2>1, <2>2, <2>3, <2>4, NoteTypes
<1>13. NoteLives'
  <2>1. \A j \in 1 .. moved : pending[j] \in Notes /\ life[pending[j]] = "waiting"
    BY <1>10, NoteLists
  <2>2. QED
    BY <1>1, <1>9, <2>1 DEF NoteLives
<1>14. PendingOnce'
  <2>1. ASSUME NEW i \in DOMAIN pending', NEW j \in DOMAIN pending', pending'[i] = pending'[j]
        PROVE  i = j
    <3>1. moved + i = moved + j
      BY <1>7, <2>1 DEF PendingOnce
    <3>2. QED
      BY <1>2, <1>3, <1>7, <3>1
  <2>2. ASSUME comaAt # "idle"
        PROVE  life'[toAdd] = "waiting" /\ \A i \in DOMAIN pending' : pending'[i] # toAdd
    BY <1>7, <1>9, <1>10, <2>2 DEF PendingOnce, N!TypeOK
  <2>3. QED
    BY <1>1, <2>1, <2>2 DEF PendingOnce
<1>15. OneOfATag'
  <2>1. ASSUME NEW i \in DOMAIN pending', NEW j \in DOMAIN pending', Rivals(pending'[i], pending'[j])
        PROVE  i = j
    <3>1. moved + i = moved + j
      BY <1>7, <2>1 DEF OneOfATag
    <3>2. QED
      BY <1>2, <1>3, <1>7, <3>1
  <2>2. \A n, m : Rivals(n, m) <=> Rivals(m, n)
    BY DEF Rivals
  <2>3. ASSUME NEW i \in DOMAIN active', NEW j \in DOMAIN active', Rivals(active'[i], active'[j])
        PROVE  i = j
    <3>1. CASE i \in DOMAIN active /\ active'[i] = active[i]
      BY <1>8, <2>2, <2>3, <3>1 DEF OneOfATag
    <3>2. CASE \E k \in 1 .. moved : i = Len(active) + k /\ k \in DOMAIN pending /\ active'[i] = pending[k]
      BY <1>8, <2>2, <2>3, <3>2 DEF OneOfATag
    <3>3. QED
      BY <1>8, <3>1, <3>2
  <2>4. ASSUME NEW i \in DOMAIN pending', NEW j \in DOMAIN active'
        PROVE  ~ Rivals(pending'[i], active'[j])
    <3>1. CASE j \in DOMAIN active /\ active'[j] = active[j]
      BY <1>7, <3>1 DEF OneOfATag
    <3>2. CASE \E k \in 1 .. moved : k \in DOMAIN pending /\ active'[j] = pending[k]
      BY <1>7, <1>11, <3>2 DEF OneOfATag
    <3>3. QED
      BY <1>8, <3>1, <3>2
  <2>5. QED
    BY <2>1, <2>3, <2>4 DEF OneOfATag
<1>16. Searched'
  <2>1. ASSUME comaAt \in {"lock", "active", "push"}, NEW i \in DOMAIN pending'
        PROVE  ~ Rivals(toAdd, pending'[i])
    BY <1>7, <2>1 DEF Searched
  <2>2. ASSUME comaAt = "push", NEW i \in DOMAIN active'
        PROVE  ~ Rivals(toAdd, active'[i])
    BY <1>8, <2>2 DEF Searched
  <2>3. UNCHANGED <<comaAt, toAdd>>
    BY <1>1
  <2>4. QED
    BY <2>1, <2>2, <2>3 DEF Searched
<1>17. N!AtMostMax'
  BY <1>2, <1>3, <1>6, PartNotesAssumption DEF N!AtMostMax
<1>18. QED
  BY <1>12, <1>13, <1>14, <1>15, <1>16, <1>17

LEMMA NotesStep == NotesInv /\ [N!Next]_noteVars => NotesInv'
<1> SUFFICES ASSUME NotesInv, [N!Next]_noteVars PROVE NotesInv'
  OBVIOUS
<1>1. CASE UNCHANGED noteVars
  BY <1>1 DEF noteVars, NotesInv, N!TypeOK, N!AtMostMax, NoteLives, PendingOnce, OneOfATag,
              Searched, Rivals
<1>2. CASE N!Next
  BY <1>2, addNotificationKeeps, replacePendingKeeps, replaceActiveKeeps, pushKeeps, PlaysKeeps,
     CollectKeeps, FillKeeps DEF N!Next, N!addSteps, N!updateNotifications
<1>3. QED
  BY <1>1, <1>2

LEMMA TagsOnce == NotesInv => N!TagsUsedOnce
<1> SUFFICES ASSUME NotesInv PROVE N!TagsUsedOnce
  OBVIOUS
<1> USE DEF NotesInv
<1> DEFINE both == pending \o active
<1>1. /\ Len(pending) \in Nat /\ DOMAIN pending = 1 .. Len(pending)
      /\ Len(active) \in Nat /\ DOMAIN active = 1 .. Len(active)
  BY NoteLists
<1>2. /\ Len(both) = Len(pending) + Len(active) /\ both \in Seq(Notes)
      /\ \A i \in 1 .. Len(pending) + Len(active) :
            both[i] = IF i <= Len(pending) THEN pending[i] ELSE active[i - Len(pending)]
  BY NoteLists, ConcatProperties
<1> HIDE DEF both
<1>3. DOMAIN both = 1 .. Len(pending) + Len(active)
  BY <1>1, <1>2
<1>4. ASSUME NEW i \in DOMAIN both
      PROVE  \/ i \in DOMAIN pending /\ both[i] = pending[i]
             \/ i - Len(pending) \in DOMAIN active /\ both[i] = active[i - Len(pending)]
  BY <1>1, <1>2, <1>3
<1>5. \A n, m : Rivals(n, m) <=> Rivals(m, n)
  BY DEF Rivals
<1>6. ASSUME NEW i \in DOMAIN both, NEW j \in DOMAIN both, Rivals(both[i], both[j])
      PROVE  i = j
  <2>1. CASE i \in DOMAIN pending /\ both[i] = pending[i]
    BY <1>4, <1>6, <2>1 DEF OneOfATag
  <2>2. CASE i - Len(pending) \in DOMAIN active /\ both[i] = active[i - Len(pending)]
    <3>1. ~ (j \in DOMAIN pending /\ both[j] = pending[j])
      BY <1>5, <1>6, <2>2 DEF OneOfATag
    <3>2. i - Len(pending) = j - Len(pending)
      BY <1>4, <1>6, <2>2, <3>1 DEF OneOfATag
    <3>3. QED
      BY <1>1, <1>3, <3>2
  <2>3. QED
    BY <1>4, <2>1, <2>2
<1>7. QED
  BY <1>6 DEF N!TagsUsedOnce, Rivals, both

(***************************************************************************)
(* However the Coma thread's searches and the timer of the main loop fall: *)
(* no more notifications are shown than there are places, a tag is used    *)
(* once, and whoever sent one hears before it is gone that it was closed   *)
(* (compositor/NotificationManager.cpp), for any notifications and tags.   *)
(***************************************************************************)
THEOREM NotificationsAreKept == PartsSpec => []NotificationsKept
<1> DEFINE Inv == part = "notifications" => NotesInv
<1>1. PartsInit => Inv
  BY NotesInit DEF PartsInit
<1>2. Inv /\ [PartsNext]_all => Inv'
  <2> SUFFICES ASSUME Inv, [PartsNext]_all, part' = "notifications" PROVE NotesInv'
    OBVIOUS
  <2>1. part = "notifications" /\ [N!Next]_noteVars
    BY DEF PartsNext, Others, all
  <2>2. QED
    BY <2>1, NotesStep
<1>3. Inv => NotificationsKept
  <2> SUFFICES ASSUME NotesInv PROVE N!TypeOK /\ N!AtMostMax /\ N!TagsUsedOnce /\ N!GoneWasClosed
    BY DEF NotificationsKept
  <2>1. N!GoneWasClosed
    <3>1. \A n \in Notes : life[n] = "deleted" => closes[n] \in {1, 2}
      BY DEF NotesInv, NoteLives
    <3>2. QED
      BY <3>1 DEF N!GoneWasClosed
  <2>2. QED
    BY <2>1, TagsOnce DEF NotesInv
<1>4. QED
  BY <1>1, <1>2, <1>3, PTL DEF PartsSpec
===============================================================================
