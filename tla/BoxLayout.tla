------------------------------ MODULE BoxLayout ------------------------------
(***************************************************************************)
(* One box layout whose extent changes and which is tiled now and then.    *)
(* The children have the constraints the documentation calls Fixed (no     *)
(* policy), No (grow, shrink) and Expanding, and no limits of their own    *)
(* but fixed ones with a minimum or a maximum.                             *)
(***************************************************************************)
EXTENDS BoxTiling

CONSTANTS
    Children,    \* the children a layout may have, as they are created
    MaxChildren, \* bound on how many
    Extents,     \* extents of the layout
    Spacings

VARIABLES
    list,        \* the visible children
    extent,      \* width() or height() of the layout
    spacing,     \* _spacing
    minimumFirst,\* an HBoxLayout
    tidy         \* tile() has run since the extent changed, a ghost

vars == <<list, extent, spacing, minimumFirst, tidy>>

Init ==
    /\ list \in UNION {[1 .. n -> Children] : n \in 1 .. MaxChildren}
    /\ extent \in Extents /\ spacing \in Spacings
    /\ minimumFirst \in BOOLEAN
    /\ tidy = FALSE

Tile ==
    /\ LET e == tiled(list, extent, spacing, minimumFirst) IN
       list' = [i \in DOMAIN list |-> [list[i] EXCEPT !.extent = e[i]]]
    /\ tidy' = TRUE
    /\ UNCHANGED <<extent, spacing, minimumFirst>>

setExtent ==
    /\ extent' \in Extents \ {extent}
    /\ tidy' = FALSE
    /\ UNCHANGED <<list, spacing, minimumFirst>>

Next == Tile \/ setExtent

Spec == Init /\ [][Next]_vars

-----------------------------------------------------------------------------
Gaps == (Len(list) - 1) * spacing
Used == Gaps + Total(list, LAMBDA c : c.extent)
Least(c) == IF "shrink" \in c.policy THEN 0 ELSE c.preferred
Enough == Gaps + Total(list, Least) <= extent
Limitless == \A i \in DOMAIN list : list[i].min < 0 /\ list[i].max < 0

(* A tiled row ends inside the layout if its least extents fit.            *)
RowFits == tidy /\ Limitless /\ Enough => Used <= extent

(* It leaves less than a pixel for each child unused if one can grow.      *)
RowFills ==
    tidy /\ Limitless /\ Enough /\ (\E i \in DOMAIN list : "grow" \in list[i].policy)
        => extent - Used < Len(list)

(* "Only widget's preferredSize() must be used" of a fixed child            *)
(* (types/Enums.h, WidgetResizeConstraint), and no child that was given an *)
(* extent is outside its own limits.                                       *)
ConstraintsHeld ==
    tidy => \A i \in DOMAIN list :
        LET c == list[i] IN
        /\ (c.policy = {} /\ c.min < 0 /\ c.max < 0 => c.extent = c.preferred)
        /\ (c.extent # 0 => c.extent >= c.min)
        /\ (c.max > 0 => c.extent <= c.max)

(* Tiling again changes nothing: the result depends on the children and    *)
(* the extent, not on what the children had before.                        *)
TilingIsStable ==
    tidy /\ Limitless =>
        tiled(list, extent, spacing, minimumFirst) = [i \in DOMAIN list |-> list[i].extent]
=============================================================================
