----------------------------- MODULE EventQueue -----------------------------
(***************************************************************************)
(* What the event buffer promises the code that calls                      *)
(* Engine::postUserEvent(): events are handled one at a time, in the order *)
(* they were posted, and none twice; one that is not handled was thrown    *)
(* away by a reset together with everything that waited with it; and the   *)
(* queue does not keep events for ever.                                    *)
(***************************************************************************)
EXTENDS Naturals

VARIABLES
    queue,  \* numbers of the events that wait, in the order they were posted
    taken   \* the event handled last, 0 before the first

vars == <<queue, taken>>

Init == queue = {} /\ taken = 0

Post ==
    /\ \E e \in queue' :
          /\ e > taken /\ \A f \in queue : f < e
          /\ queue' = queue \cup {e}
    /\ UNCHANGED taken

(* The one that was posted first.                                          *)
Take ==
    \E e \in queue :
        /\ \A f \in queue : e <= f
        /\ queue' = queue \ {e}
        /\ taken' = e

Reset == queue' = {} /\ UNCHANGED taken

Next == Post \/ Take \/ Reset

Safety == Init /\ [][Next]_vars

Spec == Safety /\ WF_vars(Take)
=============================================================================
