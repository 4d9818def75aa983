---------------------------- MODULE RectangleUnion ----------------------------
(***************************************************************************)
(* The two places that merge rectangles one after the other: the update    *)
(* queue of a window (UpdateQueue::add, with united()) and the bounding    *)
(* box of an application's windows (AppCompositor, with unite() on a       *)
(* default-constructed Rectangle; nothing reads the box afterwards).  Both *)
(* are meant to cover everything merged, whatever the order.               *)
(***************************************************************************)
EXTENDS Geometry, FiniteSets, FiniteSetsExt

CONSTANTS
    Given,      \* the rectangles that may be merged, all valid
    MaxMerged   \* bound: how many of them are

GivenAssumption ==
    Given \subseteq Rectangles /\ (\A r \in Given : isValid(r)) /\ MaxMerged \in Nat

VARIABLES
    queued,     \* _updateQueue.rect, once one rectangle was added
    bounds,     \* the bounding box of the windows
    merged      \* ghost: the rectangles merged so far

vars == <<queued, bounds, merged>>

Init ==
    /\ queued = NullRectangle
    /\ bounds = NullRectangle
    /\ merged = {}

Merge(r) ==
    /\ Cardinality(merged) < MaxMerged
    /\ queued' = IF merged = {} THEN r ELSE united(queued, r)
    /\ bounds' = unite(bounds, r)
    /\ merged' = merged \cup {r}

Next == \E r \in Given : Merge(r)

Spec == Init /\ [][Next]_vars

-------------------------------------------------------------------------------
(***************************************************************************)
(* united() is the smallest rectangle around everything merged: every edge *)
(* of the queue is the outermost edge of some merged rectangle.            *)
(***************************************************************************)
UnitedIsHull ==
    merged # {} =>
        /\ queued.x = Min({r.x : r \in merged})
        /\ queued.y = Min({r.y : r \in merged})
        /\ Right(queued) = Max({Right(r) : r \in merged})
        /\ Bottom(queued) = Max({Bottom(r) : r \in merged})

(***************************************************************************)
(* intersected() is exact on pixels and its validity decides whether there *)
(* is anything to paint: what paint() clips to is what the region and the  *)
(* frame share.                                                            *)
(***************************************************************************)
IntersectedIsCommon ==
    \A r \in Given :
        LET clip == intersected(queued, r)
        IN  /\ Pixels(clip) = Pixels(queued) \cap Pixels(r)
            /\ isValid(clip) <=> Pixels(clip) # {}

(***************************************************************************)
(* "Converts this rectangle to the union of this rectangle and given       *)
(* rectangle" (Rectangle::unite): the bounding box covers every window     *)
(* merged into it.                                                         *)
(***************************************************************************)
UniteCovers == \A r \in merged : Pixels(r) \subseteq Pixels(bounds)

===============================================================================
