------------------------------ MODULE BoxTiling ------------------------------
(***************************************************************************)
(* tile() of HBoxLayout and VBoxLayout along the axis of the box: how an   *)
(* extent (a width or a height) is shared among the visible children.  A   *)
(* child has a preferred extent, limits (negative when there is none), a   *)
(* resize policy and the extent it has.  The two layouts differ in which   *)
(* limit they look at first.                                               *)
(***************************************************************************)
EXTENDS Integers, SequencesExt

CONSTANTS IntBits, SizeBits   \* widths of int and of size_t, 32 and 64

AsInt(x) == ((x + 2^(IntBits - 1)) % 2^IntBits) - 2^(IntBits - 1)

(* An int divided by the size() of a list is divided as a size_t.          *)
Average(space, n) == AsInt((space % 2^SizeBits) \div n)

Total(s, Of(_)) == FoldLeft(LAMBDA sum, c : sum + Of(c), 0, s)

-----------------------------------------------------------------------------
(* A pass over the children left: those that the average does not suit     *)
(* leave with an extent of their own, and the average of the others        *)
(* changes, unless nothing was used.                                       *)
Pass(st, Leaves(_, _), Using(_)) ==
    LET gone == SelectSeq(st.left, LAMBDA c : Leaves(c, st.average))
        left == SelectSeq(st.left, LAMBDA c : ~ Leaves(c, st.average))
        used == Total(gone, Using)
        space == st.space - used
    IN  [left |-> left, space |-> space,
         average |-> IF used = 0 \/ left = << >> THEN st.average
                     ELSE Average(space, Len(left))]

FixedOut(st) ==
    Pass(st, LAMBDA c, a : c.policy = {} /\ c.min < 0 /\ c.max < 0,
         LAMBDA c : c.preferred)

MinimumOut(st) == Pass(st, LAMBDA c, a : a < c.min, LAMBDA c : c.min)

MaximumOut(st) == Pass(st, LAMBDA c, a : c.max > 0 /\ a > c.max, LAMBDA c : c.max)

(* Mutant: children that may shrink leave too.                             *)
ShrinkOutAll(st) == Pass(st, LAMBDA c, a : a < c.preferred, LAMBDA c : c.preferred)

ShrinkOut(st) ==
    Pass(st, LAMBDA c, a : a < c.preferred /\ "shrink" \notin c.policy,
         LAMBDA c : c.preferred)

(* Here the extent that the child happens to have is used.                 *)
GrowOut(st) ==
    Pass(st, LAMBDA c, a : a > c.preferred /\ "grow" \notin c.policy,
         LAMBDA c : c.extent)

-----------------------------------------------------------------------------
(* setWidth() or setHeight(): an extent that does not change is not        *)
(* checked against the limits.                                             *)
Resized(c, e) ==
    IF e = c.extent THEN e
    ELSE IF e < c.min THEN c.min
    ELSE IF c.max > 0 /\ e > c.max THEN c.max ELSE e

(* What the children left share: the first pass takes out the fixed ones.   *)
shares(list, space) ==
    FixedOut([left |-> list, space |-> space, average |-> Average(space, Len(list))])

narrowed(st, minimumFirst) ==
    GrowOut(ShrinkOut(IF minimumFirst THEN MaximumOut(MinimumOut(st))
                      ELSE MinimumOut(MaximumOut(st))))

Expands(c) == "expand" \in c.policy
expanding(st) == Len(SelectSeq(st.left, Expands))

(* What a child that does not expand leaves of the average.                *)
Spare(c, a) ==
    IF Expands(c) THEN 0
    ELSE IF c.min > 0 /\ a > c.min THEN a - c.min
    ELSE IF a > c.preferred THEN a - c.preferred ELSE 0

expandSpace(st) ==
    IF expanding(st) = 0 THEN 0
    ELSE Total(st.left, LAMBDA c : Spare(c, st.average)) \div expanding(st)

(* A child is given the average because it has a limit or has to shrink,   *)
(* or the average or more because it can grow; others keep what they like. *)
KeepsToAverage(c, st) ==
    \/ expanding(st) = 0 /\ (c.min > 0 \/ c.max > 0)
    \/ "shrink" \in c.policy /\ st.average < c.preferred

Grows(c, st) ==
    IF expanding(st) > 0 THEN Expands(c)
    ELSE ~ KeepsToAverage(c, st) /\ "grow" \in c.policy /\ c.preferred < st.average

GivenTo(c, st) ==
    IF Grows(c, st) THEN st.average + expandSpace(st)
    ELSE IF KeepsToAverage(c, st) THEN st.average ELSE c.preferred

(* What the division leaves over goes to the first child that grows.       *)
spread(list, st) ==
    [i \in DOMAIN list |->
        Resized(list[i], GivenTo(list[i], st) +
            IF Grows(list[i], st) /\ \A j \in 1 .. i - 1 : ~ Grows(list[j], st)
            THEN AsInt(st.space - st.average * Len(st.left)) ELSE 0)]

(* The extents given to the children.                                      *)
tiled(list, extent, spacing, minimumFirst) ==
    spread(list, narrowed(shares(list, extent - (Len(list) - 1) * spacing), minimumFirst))

(* preferredSize() along the axis of the box; an empty layout has 50.      *)
Preferred(c) ==
    IF c.min > 0 /\ c.preferred < c.min THEN c.min
    ELSE IF c.max > 0 /\ c.preferred > c.max THEN c.max ELSE c.preferred

preferredExtent(list, spacing) == Total(list, LAMBDA c : Preferred(c) + spacing) - spacing
=============================================================================
