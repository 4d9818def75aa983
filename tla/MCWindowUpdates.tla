--------------------------- MODULE MCWindowUpdates ----------------------------
(***************************************************************************)
(* A window of 2 x 1 pixels; threads ask for its left pixel, its right     *)
(* pixel together with one outside the frame, an area outside it and       *)
(* nothing at all.                                                         *)
(***************************************************************************)
EXTENDS WindowUpdates, TLC

MCFrame == [x |-> 0, y |-> 0, w |-> 2, h |-> 1]

LeftPixel  == [x |-> 0, y |-> 0, w |-> 1, h |-> 1]
RightEdge  == [x |-> 1, y |-> 0, w |-> 2, h |-> 1]
OutOfFrame == [x |-> 3, y |-> 0, w |-> 1, h |-> 1]

MCRequests == {LeftPixel, RightEdge, OutOfFrame, NullRectangle}

Symmetry == Permutations(Helpers)

===============================================================================
