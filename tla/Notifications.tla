---------------------------- MODULE Notifications ----------------------------
(***************************************************************************)
(* The notifications of the compositor (NotificationManager): a Coma       *)
(* thread adds them, or puts them in the place of an older one with the    *)
(* same tag; a timer of the main loop clears away those that have hidden   *)
(* themselves and shows waiting ones.  Each list has a mutex, but the      *)
(* timer fills the active one without it: if the Coma thread is inside,    *)
(* the list may be destroyed, and the model stops with `broken` set.       *)
(***************************************************************************)
EXTENDS Naturals, FiniteSets, SequencesExt

CONSTANTS
    Notes,
    Tag,      \* tag of each notification
    NoTag,
    MaxNotifications    \* 3 in the code

VARIABLES
    pending, active,  \* NotificationManager::_pending, _active
    life,             \* what each notification is doing
    closes,           \* Close signals sent to its client
    adding,           \* the notification that the Coma thread adds
    comaAt,           \* where the Coma thread is in addNotification()
    collected,        \* the timer has cleared away hidden ones
    broken

vars == <<pending, active, life, closes, adding, comaAt, collected, broken>>

Init ==
    /\ pending = << >> /\ active = << >>
    /\ life = [n \in Notes |-> "none"]
    /\ closes = [n \in Notes |-> 0]
    /\ adding \in Notes /\ comaAt = "idle"
    /\ collected = FALSE
    /\ broken = FALSE

-----------------------------------------------------------------------------
(* The Coma thread.  A new notification is invisible; without a tag it     *)
(* replaces none.                                                          *)
addNotification(n) ==
    /\ comaAt = "idle" /\ life[n] = "none"
    /\ adding' = n
    /\ life' = [life EXCEPT ![n] = "waiting"]
    /\ comaAt' = IF Tag[n] = NoTag THEN "push" ELSE "pending"
    /\ UNCHANGED <<pending, active, closes, collected, broken>>

SameTag(list) == SelectInSeq(list, LAMBDA m : Tag[m] = Tag[adding])

(* The older notification is closed and deleted; a notification that takes *)
(* the place of an active one is shown.                                    *)
Replaced(list) == [list EXCEPT ![SameTag(list)] = adding]

Retire(list, now) ==
    LET old == list[SameTag(list)] IN
    /\ life' = [life EXCEPT ![old] = "deleted", ![adding] = now]
    /\ closes' = [closes EXCEPT ![old] = @ + 1]

(* Mutant: the active list is not searched.                                *)
replacePendingOnly ==
    /\ comaAt = "pending"
    /\ \/ /\ SameTag(pending) = 0
          /\ comaAt' = "push"
          /\ UNCHANGED <<pending, life, closes>>
       \/ /\ SameTag(pending) # 0
          /\ pending' = Replaced(pending)
          /\ Retire(pending, "waiting")
          /\ comaAt' = "idle"
    /\ UNCHANGED <<active, adding, collected, broken>>

replacePending ==
    /\ comaAt = "pending"
    /\ \/ /\ SameTag(pending) = 0
          /\ comaAt' = "lock"
          /\ UNCHANGED <<pending, life, closes>>
       \/ /\ SameTag(pending) # 0
          /\ pending' = Replaced(pending)
          /\ Retire(pending, "waiting")
          /\ comaAt' = "idle"
    /\ UNCHANGED <<active, adding, collected, broken>>

lockActive ==
    /\ comaAt = "lock"
    /\ comaAt' = "active"
    /\ UNCHANGED <<pending, active, life, closes, adding, collected, broken>>

replaceActive ==
    /\ comaAt = "active"
    /\ \/ /\ SameTag(active) = 0
          /\ comaAt' = "push"
          /\ UNCHANGED <<active, life, closes>>
       \/ /\ SameTag(active) # 0
          /\ active' = Replaced(active)
          /\ Retire(active, "appearing")
          /\ comaAt' = "idle"
    /\ UNCHANGED <<pending, adding, collected, broken>>

push ==
    /\ comaAt = "push"
    /\ pending' = Append(pending, adding)
    /\ comaAt' = "idle"
    /\ UNCHANGED <<active, life, closes, adding, collected, broken>>

addSteps == replacePending \/ lockActive \/ replaceActive \/ push

-----------------------------------------------------------------------------
(* updateNotifications(), called every 1500 ms by a timer of the loop.     *)

(* Mutant: the widget is removed and the list keeps it.                    *)
CollectWidgets ==
    /\ comaAt # "active" /\ ~ collected
    /\ collected' = TRUE
    /\ life' = [n \in Notes |-> IF life[n] = "hidden" THEN "deleted" ELSE life[n]]
    /\ UNCHANGED <<pending, active, closes, adding, comaAt, broken>>

Collect ==
    /\ comaAt # "active" /\ ~ collected
    /\ collected' = TRUE
    /\ LET kept == {i \in DOMAIN active : life[active[i]] # "hidden"}
       IN  \E place \in [1 .. Cardinality(kept) -> kept] :
              /\ \A i, j \in DOMAIN place : i < j => place[i] < place[j]
              /\ active' = [i \in DOMAIN place |-> active[place[i]]]
    /\ life' = [n \in Notes |-> IF life[n] = "hidden" THEN "deleted" ELSE life[n]]
    /\ UNCHANGED <<pending, closes, adding, comaAt, broken>>

(* The loop `for (i = 0; i < _maxNotifications - _active.size(); ++i)`     *)
(* appends to _active, so it ends half-way.                                *)
PlacesFilled ==
    CHOOSE i \in 0 .. Len(pending) :
        /\ i = Len(pending) \/ i >= MaxNotifications - (Len(active) + i)
        /\ \A j \in 0 .. i - 1 : j < MaxNotifications - (Len(active) + j)

Fill ==
    /\ collected
    /\ collected' = FALSE
    /\ LET n == IF Len(active) < MaxNotifications THEN PlacesFilled ELSE 0
           these == SubSeq(pending, 1, n)
       IN  /\ active' = active \o these
           /\ pending' = SubSeq(pending, n + 1, Len(pending))
           /\ life' = [m \in Notes |-> IF m \in ToSet(these) THEN "appearing"
                                       ELSE life[m]]
           /\ broken' \in {FALSE, n > 0 /\ comaAt = "active"}
    /\ UNCHANGED <<closes, adding, comaAt>>

updateNotifications == Collect \/ Fill

-----------------------------------------------------------------------------
(* A notification: tweenEndSlot() at the end of its two animations, and    *)
(* hide(), called by its timer.                                            *)
Appeared(n) ==
    /\ life[n] = "appearing"
    /\ life' = [life EXCEPT ![n] = "shown"]
    /\ UNCHANGED closes

hide(n) ==
    /\ life[n] \in {"appearing", "shown"}
    /\ life' = [life EXCEPT ![n] = "leaving"]
    /\ UNCHANGED closes

Left(n) ==
    /\ life[n] = "leaving"
    /\ life' = [life EXCEPT ![n] = "hidden"]
    /\ closes' = [closes EXCEPT ![n] = @ + 1]

Plays(n) ==
    /\ Appeared(n) \/ hide(n) \/ Left(n)
    /\ UNCHANGED <<pending, active, adding, comaAt, collected, broken>>

Next ==
    /\ ~ broken
    /\ \/ addSteps \/ updateNotifications
       \/ \E n \in Notes : addNotification(n) \/ Plays(n)

Spec == Init /\ [][Next]_vars

(* The Coma thread goes on, and the main loop serves the timers and the    *)
(* animations.                                                             *)
FairSpec ==
    /\ Spec
    /\ WF_vars(~ broken /\ addSteps)
    /\ SF_vars(~ broken /\ Collect) /\ WF_vars(~ broken /\ Fill)
    /\ \A n \in Notes : WF_vars(~ broken /\ Plays(n))

-----------------------------------------------------------------------------
TypeOK ==
    /\ pending \in Seq(Notes) /\ active \in Seq(Notes)
    /\ \A n \in Notes :
          /\ n \in ToSet(pending) => life[n] = "waiting"
          /\ n \in ToSet(active) => life[n] \in {"appearing", "shown", "leaving", "hidden"}
    /\ closes \in [Notes -> 0 .. 2]
    /\ adding \in Notes
    /\ comaAt \in {"idle", "pending", "lock", "active", "push"}
    /\ collected \in BOOLEAN /\ broken \in BOOLEAN

(* No more than _maxNotifications are on the screen at once.               *)
AtMostMax == Len(active) <= MaxNotifications

(* A tag is used once: a later notification with it takes the place of the *)
(* older one, although that may move from one list to the other between    *)
(* the two searches.                                                       *)
TagsUsedOnce ==
    ~ broken =>
        \A i, j \in DOMAIN (pending \o active) :
            LET all == pending \o active IN
            Tag[all[i]] # NoTag /\ Tag[all[i]] = Tag[all[j]] => i = j

(* Whoever sent a notification hears that it was closed before it is gone, *)
(* replaced or hidden.                                                     *)
GoneWasClosed == \A n \in Notes : life[n] = "deleted" => closes[n] > 0

(* Every notification comes to be shown or is replaced.                    *)
EachIsServed ==
    \A n \in Notes : life[n] = "waiting" ~> life[n] # "waiting" \/ broken
=============================================================================
