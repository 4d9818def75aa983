------------------------------- MODULE Geometry -------------------------------
(***************************************************************************)
(* The rectangle algebra of ilixi (types/Rectangle.cpp): a rectangle is a  *)
(* top-left corner and a size, its right and bottom edges are derived.     *)
(* Every dirty region, clip and window bound of the toolkit goes through   *)
(* these operations.                                                       *)
(***************************************************************************)
EXTENDS Integers

Rectangles == [x: Int, y: Int, w: Int, h: Int]

Right(r)  == r.x + r.w
Bottom(r) == r.y + r.h

Lesser(a, b)  == IF a <= b THEN a ELSE b
Greater(a, b) == IF a <= b THEN b ELSE a

(* Rectangle(const Point &topLeft, const Point &bottomRight)               *)
Corners(left, top, right, bottom) ==
    [x |-> left, y |-> top, w |-> right - left, h |-> bottom - top]

NullRectangle == [x |-> 0, y |-> 0, w |-> 0, h |-> 0]

isNull(r)  == r.w = 0 /\ r.h = 0
isValid(r) == r.x < Right(r) /\ r.y < Bottom(r)

(* Rectangles that only share an edge count as intersecting.               *)
intersects(r, s) ==
    /\ r.x <= Right(s)  /\ s.x <= Right(r)
    /\ r.y <= Bottom(s) /\ s.y <= Bottom(r)

intersected(r, s) ==
    IF intersects(r, s)
    THEN Corners(Greater(r.x, s.x), Greater(r.y, s.y),
                 Lesser(Right(r), Right(s)), Lesser(Bottom(r), Bottom(s)))
    ELSE NullRectangle

(* Mutant: the larger sizes are kept instead of the outer edges.           *)
unitedKeepingSize(r, s) ==
    [x |-> Lesser(r.x, s.x), y |-> Lesser(r.y, s.y),
     w |-> Greater(r.w, s.w), h |-> Greater(r.h, s.h)]

united(r, s) ==
    Corners(Lesser(r.x, s.x), Lesser(r.y, s.y),
            Greater(Right(r), Right(s)), Greater(Bottom(r), Bottom(s)))

(***************************************************************************)
(* unite() moves the corner first and only then reads right() and          *)
(* bottom(), which by then follow the moved corner.                        *)
(***************************************************************************)
unite(r, s) ==
    IF isNull(s) THEN r
    ELSE LET moved == [r EXCEPT !.x = Lesser(r.x, s.x), !.y = Lesser(r.y, s.y)]
         IN  [moved EXCEPT !.w = Greater(Right(moved), Right(s)) - moved.x,
                           !.h = Greater(Bottom(moved), Bottom(s)) - moved.y]

(* The pixels a rectangle covers: its right and bottom edges are outside   *)
(* (dfbRegion ends at right() - 1 and bottom() - 1).                       *)
Pixels(r) == (r.x .. Right(r) - 1) \X (r.y .. Bottom(r) - 1)

===============================================================================
