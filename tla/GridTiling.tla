------------------------------ MODULE GridTiling ------------------------------
(***************************************************************************)
(* tile() of GridLayout along one axis: what the widgets in the cells ask  *)
(* of a column (or a row), and how the extent of the layout is shared      *)
(* among the columns.  A line is a column or a row: the extent it asks     *)
(* for, its limits and the policies it takes over from its widgets.        *)
(***************************************************************************)
EXTENDS BoxTiling, FiniteSets

IntMax == 2^(IntBits - 1) - 1

(* LineData as it is constructed.                                          *)
LineData == [value |-> 0, min |-> 0, max |-> IntMax, policy |-> {}, active |-> FALSE]

(* A line with a width or a height the application gave it.                *)
setLine(e) == [LineData EXCEPT !.value = e, !.min = e, !.active = TRUE]

(* An int divided by an int is rounded towards 0.                          *)
Quotient(a, n) == IF a >= 0 THEN a \div n ELSE - ((- a) \div n)

-----------------------------------------------------------------------------
(* What the lines before the last one of a spanning widget let it use.     *)
lent(lines, spacing) ==
    LET Lends(l) == IF l.min # 0 THEN l.min + spacing
                    ELSE IF "shrink" \in l.policy THEN 0 ELSE l.value + spacing
    IN  Total(lines, Lends)

(* The limits of a widget c that ends on the line, less what it may use.   *)
Limited(l, c, used) ==
    [l EXCEPT !.min = IF @ < c.min - used THEN c.min - used ELSE @,
              !.max = IF c.max > 0 /\ @ > c.max - used THEN c.max - used ELSE @]

(* Mutant: a line that is to grow is not marked as one.                    *)
AskedWithoutGrow(l, c, space) ==
    IF space > l.value /\ ("shrink" \notin c.policy \/ "grow" \in l.policy)
    THEN [l EXCEPT !.value = space] ELSE l

(* What it asks for: a widget that can shrink raises the extent only of a  *)
(* line that grows already, or if it cannot grow itself; the line then     *)
(* shrinks.                                                                *)
Asked(l, c, space) ==
    LET raised == IF "shrink" \notin c.policy /\ space > l.value
                  THEN [l EXCEPT !.value = space] ELSE l
    IN  IF "grow" \in c.policy /\ "grow" \notin l.policy
        THEN [raised EXCEPT !.policy = @ \cup {"grow"}]
        ELSE IF "shrink" \in c.policy /\ space > l.value
        THEN [raised EXCEPT !.policy = @ \cup {"shrink"}, !.value = space]
        ELSE raised

updateLine(l, c, space, used) ==
    LET asked == Asked(Limited(l, c, used), c, space)
    IN  [asked EXCEPT !.policy = @ \cup (c.policy \cap {"expand"})]

-----------------------------------------------------------------------------
(* arrangeLine(): the passes over the active lines, as in the box layouts. *)
LineLeaves(pass, l, a) ==
    CASE pass = "fixed"   -> l.policy = {} /\ l.min = 0
      [] pass = "maximum" -> "expand" \notin l.policy /\ a > l.max
      [] pass = "minimum" -> a < l.min
      [] pass = "shrink"  -> a < l.value /\ "shrink" \notin l.policy
      [] pass = "grow"    -> a > l.value /\ "grow" \notin l.policy

LeavesWith(pass, l) ==
    CASE pass = "maximum" -> l.max [] pass = "minimum" -> l.min [] OTHER -> l.value

LinePass(st, pass) ==
    Pass(st, LAMBDA l, a : LineLeaves(pass, l, a), LAMBDA l : LeavesWith(pass, l))

linesLeft(lines, space) ==
    FoldLeft(LinePass,
             [left |-> lines, space |-> space, average |-> Quotient(space, Len(lines))],
             <<"fixed", "maximum", "minimum", "shrink", "grow">>)

(* What a line that does not expand leaves of the average.                 *)
SpareOfLine(l, a) ==
    IF Expands(l) THEN 0
    ELSE IF l.min > 0 /\ a > l.min /\ l.min > l.value THEN a - l.min
    ELSE IF a > l.value THEN a - l.value ELSE 0

(* Lines that take the average: all that expand, or those that can grow.   *)
Stretches(l, a, expand) ==
    IF expand > 0 THEN Expands(l)
    ELSE ~ l.min > a /\ ~ l.max < a /\ l.value < a /\ "grow" \in l.policy

Kept(l, a, expand) ==
    IF l.min > (IF expand > 0 THEN l.value ELSE a) THEN l.min
    ELSE IF l.max < (IF expand > 0 THEN l.value ELSE a) THEN l.max
    ELSE IF "shrink" \in l.policy /\ a < l.value THEN a ELSE l.value

(* The extents of the active lines.                                        *)
arrangeLine(lines, extent, spacing) ==
    LET st == linesLeft(lines, extent - (Len(lines) - 1) * spacing)
        a == st.average
        expand == Len(SelectSeq(lines, Expands))
        more == IF expand = 0 THEN 0
                ELSE Total(st.left, LAMBDA l : SpareOfLine(l, a)) \div expand
        rest == AsInt(st.space - a * Len(st.left))
    IN  [i \in DOMAIN lines |->
            IF Stretches(lines[i], a, expand)
            THEN a + more + IF \A j \in 1 .. i - 1 : ~ Stretches(lines[j], a, expand)
                            THEN rest ELSE 0
            ELSE Kept(lines[i], a, expand)]
=============================================================================
