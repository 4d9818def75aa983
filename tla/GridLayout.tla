------------------------------ MODULE GridLayout ------------------------------
(***************************************************************************)
(* GridLayout: widgets in the cells of a grid, some over several cells, a  *)
(* column with a width of its own, and the geometry and the neighbours     *)
(* that tile() gives the widgets when the window is painted next.  No      *)
(* widget has the constraint Ignored, none is a radio button.              *)
(***************************************************************************)
EXTENDS GridTiling

CONSTANTS
    Widgets, None,
    Outside,    \* what the layout itself has as a neighbour
    Wish,       \* preferred size, limits and policies of each widget, by axis
    HeightFor,  \* heightForWidth() of each widget, -1 if it has none
    Rows, Cols,
    Spans,      \* row and column spans that the application asks for
    Overwrites, \* may a span reach over a cell that is taken
    Widths, Heights, Spacings,  \* of the layout
    OwnWidths   \* widths the application gives to the first column

GridAssumption ==
    /\ {None, Outside} \cap Widgets = {} /\ {Rows, Cols} \subseteq Nat \ {0}
    /\ Spans \subseteq Int \X Int /\ 0 \in OwnWidths

Cells == 0 .. Rows * Cols - 1
At(r, c) == r * Cols + c

VARIABLES
    cells,      \* _cells, each CellData named by its widget
    area,       \* row, col, lastRow and lastCol of a CellData
    children,   \* the children of the layout
    ownWidth,   \* _colWidths[0], 0 when there is none
    width, height, spacing,
    keyNav,     \* _keyNavChildrenFirst
    modified,   \* _modified
    columns, rows,      \* the lines that the last tile() looked at
    columnsAt, rowsAt,  \* where it put them
    geometry, neighbour, \* what it gave the widgets
    broken      \* it has read outside of _cells

settings == <<ownWidth, width, height, spacing, keyNav>>
vars == <<cells, area, children, settings, modified, columns, rows, columnsAt, rowsAt,
          geometry, neighbour, broken>>

NoLines == [lines |-> << >>, used |-> 0]
NoArea == [row |-> 0, col |-> 0, lastRow |-> 0, lastCol |-> 0]

Init ==
    /\ cells = [i \in Cells |-> None]
    /\ area = [w \in Widgets |-> NoArea]
    /\ children = {}
    /\ ownWidth = 0
    /\ width \in Widths /\ height \in Heights /\ spacing \in Spacings
    /\ keyNav \in BOOLEAN
    /\ modified = FALSE
    /\ columns = NoLines /\ rows = NoLines
    /\ columnsAt = << >> /\ rowsAt = << >> /\ geometry = << >> /\ neighbour = << >>
    /\ broken = FALSE

-----------------------------------------------------------------------------
(* doLayout(): what the last tile() did counts no more.                    *)
doLayout ==
    /\ modified' = TRUE
    /\ columns' = NoLines /\ rows' = NoLines
    /\ columnsAt' = << >> /\ rowsAt' = << >> /\ geometry' = << >> /\ neighbour' = << >>

(* The first empty cell, by rows.                                          *)
addWidget(w) ==
    /\ w \notin children
    /\ \E i \in Cells :
          /\ cells[i] = None /\ \A j \in 0 .. i - 1 : cells[j] # None
          /\ cells' = [cells EXCEPT ![i] = w]
          /\ area' = [area EXCEPT ![w] =
                [row |-> i \div Cols, col |-> i % Cols,
                 lastRow |-> i \div Cols, lastCol |-> i % Cols]]
    /\ children' = children \cup {w}
    /\ doLayout /\ UNCHANGED <<settings, broken>>

(* The last line of a span that starts at the line first of n.             *)
lastOf(first, span, n) ==
    LET last == IF span = -1 THEN n - 1
                ELSE IF span > 1 THEN first + span - 1 ELSE first
    IN  IF last >= n THEN n - 1 ELSE last

Covered(a) == {At(r, c) : r \in a.row .. a.lastRow, c \in a.col .. a.lastCol}

addWidgetAt(w, row, col, rowSpan, colSpan) ==
    LET a == [row |-> row, col |-> col, lastRow |-> lastOf(row, rowSpan, Rows),
              lastCol |-> lastOf(col, colSpan, Cols)]
    IN  /\ w \notin children
        /\ cells[At(row, col)] = None
        /\ Overwrites \/ \A i \in Covered(a) : cells[i] = None
        /\ cells' = [i \in Cells |-> IF i \in Covered(a) THEN w ELSE cells[i]]
        /\ area' = [area EXCEPT ![w] = a]
        /\ children' = children \cup {w}
        /\ doLayout /\ UNCHANGED <<settings, broken>>

(* Bound: the CellData of a widget over several cells is deleted at the    *)
(* first of them and read at the next; such a widget is not removed.       *)
removeWidget(w) ==
    /\ w \in children /\ Cardinality({i \in Cells : cells[i] = w}) < 2
    /\ cells' = [i \in Cells |-> IF cells[i] = w THEN None ELSE cells[i]]
    /\ area' = [area EXCEPT ![w] = NoArea]
    /\ children' = children \ {w}
    /\ doLayout /\ UNCHANGED <<settings, broken>>

setColumnWidth(e) ==
    /\ ownWidth' = e
    /\ UNCHANGED <<cells, area, children, width, height, spacing, keyNav, modified,
                   columns, rows, columnsAt, rowsAt, geometry, neighbour, broken>>

-----------------------------------------------------------------------------
(* tile(): the columns, each over its rows.  st.used is spaceUsed, which   *)
(* the rows go on with.                                                    *)
Own(c) == IF c = 0 THEN ownWidth ELSE 0

NotNegative(e) == IF e < 0 THEN 0 ELSE e

AskColumn(st, r, c, lines) ==
    LET w == cells[At(r, c)]
        a == area[w]
        used == IF a.col = a.lastCol THEN 0
                ELSE lent(SubSeq(lines, a.col + 1, c), spacing)
        wish == Wish[w].x
        line == [st.line EXCEPT !.active = TRUE]
        space == IF a.col = a.lastCol THEN wish.preferred
                 ELSE NotNegative(wish.preferred - used)
    IN  IF w = None THEN st
        ELSE IF c # a.lastCol THEN [st EXCEPT !.line = line]
        ELSE [line |-> updateLine(line, wish, space, used), used |-> used]

Column(st, c) ==
    LET whole == FoldLeft(LAMBDA s, r : AskColumn(s, r, c, st.lines),
                          [line |-> LineData, used |-> st.used],
                          [i \in 1 .. Rows |-> i - 1])
    IN  IF Own(c) # 0 THEN [st EXCEPT !.lines = Append(@, setLine(Own(c)))]
        ELSE [lines |-> Append(st.lines, whole.line), used |-> whole.used]

Columns == FoldLeft(Column, [lines |-> << >>, used |-> 0], [i \in 1 .. Cols |-> i - 1])

(* preferredSize() is asked for by columns without a width of their own.   *)
IsAsked(w) == \E i \in Cells : cells[i] = w /\ Own(i % Cols) = 0

cellWidth(w) == IF IsAsked(w) THEN Wish[w].x.preferred ELSE -2

(* The height is corrected when its last row is looked at; a widget        *)
(* without a height for its width is one whose height for it is -1.        *)
cellHeight(w) ==
    LET h == IF IsAsked(w) THEN Wish[w].y.preferred ELSE -2
        policy == Wish[w].y.policy
    IN  IF HeightFor[w] = 0 THEN h
        ELSE IF "shrink" \in policy /\ HeightFor[w] < h THEN HeightFor[w]
        ELSE IF "grow" \in policy /\ HeightFor[w] > h THEN HeightFor[w] ELSE h

AskRow(st, r, c, lines) ==
    LET w == cells[At(r, c)]
        a == area[w]
        used == IF a.row = a.lastRow THEN 0
                ELSE st.used + lent(SubSeq(lines, a.row + 1, r), spacing)
        line == [st.line EXCEPT !.active = TRUE]
        space == IF a.row = a.lastRow THEN cellHeight(w)
                 ELSE NotNegative(cellHeight(w) - used)
    IN  IF w = None THEN st
        ELSE IF c # a.lastCol \/ r # a.lastRow THEN [st EXCEPT !.line = line]
        ELSE [line |-> updateLine(line, Wish[w].y, space, used), used |-> used]

Row(st, r) ==
    LET whole == FoldLeft(LAMBDA s, c : AskRow(s, r, c, st.lines),
                          [line |-> LineData, used |-> st.used],
                          [i \in 1 .. Cols |-> i - 1])
    IN  [lines |-> Append(st.lines, whole.line), used |-> whole.used]

RowsAfter(used) == FoldLeft(Row, [lines |-> << >>, used |-> used], [i \in 1 .. Rows |-> i - 1])

(* The place and the extent of each line, in the order of the lines.       *)
Active(lines) == SelectSeq([i \in 1 .. Len(lines) |-> i], LAMBDA i : lines[i].active)

arranged(lines, extent) ==
    LET active == Active(lines)
        extents == arrangeLine([k \in DOMAIN active |-> lines[active[k]]], extent, spacing)
        upTo(i) == Cardinality({k \in DOMAIN active : active[k] <= i})
        value == [i \in DOMAIN lines |-> IF lines[i].active THEN extents[upTo(i)] ELSE 0]
    IN  [i \in DOMAIN lines |->
            [value |-> value[i],
             pos |-> FoldLeft(LAMBDA p, j : IF lines[j].active THEN p + value[j] + spacing
                                            ELSE p,
                              0, [j \in 1 .. i - 1 |-> j])]]

(* The extent of a widget that wishes c over a room given by its lines.    *)
Settled(c, wanted, room) ==
    LET e == IF \/ c.policy = {}
                \/ room < wanted /\ "shrink" \notin c.policy
                \/ room > wanted /\ "grow" \notin c.policy
             THEN wanted ELSE room
    IN  IF e < c.min THEN c.min ELSE IF c.max > 0 /\ e > c.max THEN c.max ELSE e

(* The lines from first to last with the gaps between them.                *)
Room(lines, first, last) ==
    Total(SubSeq(lines, first + 1, last + 1), LAMBDA l : l.value) + (last - first) * spacing

(* A widget is placed when its last cell is still its own.                 *)
Placed == {w \in children : cells[At(area[w].lastRow, area[w].lastCol)] = w}

Placing(cs, rs, w) ==
    LET a == area[w]
        e == Settled(Wish[w].x, cellWidth(w), Room(cs, a.col, a.lastCol))
        h == Settled(Wish[w].y, cellHeight(w), Room(rs, a.row, a.lastRow))
        down == IF Wish[w].y.policy = {} THEN Quotient(rs[a.row + 1].value - h, 2) ELSE 0
    IN  [x |-> cs[a.col + 1].pos, y |-> rs[a.row + 1].pos + down, w |-> e, h |-> h]

(* The widgets that the arrow keys go to from w, by its last cell.  The    *)
(* first and the last column, if there are two, are joined when children   *)
(* go first.                                                               *)
LeftOf(a) == At(a.row, a.col) - 1
AboveOf(a) == At(a.row - 1, a.col)

InCell(i) == IF i \in Cells THEN cells[i] ELSE Outside

neighbours(w) ==
    LET a == area[w]
        r == a.lastRow
        c == a.lastCol
    IN  [left |-> IF c # 0 THEN InCell(LeftOf(a))
                  ELSE IF keyNav /\ r * Cols > 1 THEN cells[r * Cols - 1] ELSE Outside,
         right |-> IF c < Cols - 1 THEN cells[At(r, c) + 1]
                   ELSE IF c # 0 /\ keyNav /\ r < Rows - 1 /\ cells[At(r + 1, 0)] # None
                   THEN cells[At(r + 1, 0)] ELSE Outside,
         up |-> IF r = 0 THEN Outside ELSE InCell(AboveOf(a)),
         down |-> IF r = Rows - 1 THEN Outside ELSE cells[At(r + 1, c)]]

(* What is there is asked for in the last column and the last row only: in *)
(* those between, a widget from the first cell, or from the first row, has *)
(* the layout look before its cells.                                       *)
Between(k, n) == 0 < k /\ k < n - 1

ReadsOutside(w) ==
    LET a == area[w]
    IN  \/ Between(a.lastCol, Cols) /\ LeftOf(a) < 0
        \/ Between(a.lastRow, Rows) /\ AboveOf(a) < 0

(* A layout without a widget would be divided by its 0 columns.            *)
tile ==
    /\ modified /\ children # {}
    /\ ~ \E w \in Placed : ReadsOutside(w)
    /\ modified' = FALSE
    /\ columns' = Columns
    /\ columnsAt' = arranged(columns'.lines, width)
    /\ rows' = RowsAfter(columns'.used)
    /\ rowsAt' = arranged(rows'.lines, height)
    /\ geometry' = [w \in Placed |-> Placing(columnsAt', rowsAt', w)]
    /\ neighbour' = [w \in Placed |-> neighbours(w)]
    /\ UNCHANGED <<cells, area, children, settings, broken>>

(* Undefined from there on: the model stops.                               *)
tileOutside ==
    /\ modified /\ \E w \in Placed : ReadsOutside(w)
    /\ broken' = TRUE
    /\ UNCHANGED <<cells, area, children, settings, modified, columns, rows,
                   columnsAt, rowsAt, geometry, neighbour>>

Next ==
    /\ ~ broken
    /\ \/ \E w \in Widgets : addWidget(w) \/ removeWidget(w)
       \/ \E w \in Widgets, r \in 0 .. Rows - 1, c \in 0 .. Cols - 1, s \in Spans :
             addWidgetAt(w, r, c, s[1], s[2])
       \/ \E e \in OwnWidths : setColumnWidth(e)
       \/ tile \/ tileOutside

Spec == Init /\ [][Next]_vars

-----------------------------------------------------------------------------
(* Properties.                                                             *)

TypeOK ==
    /\ cells \in [Cells -> Widgets \cup {None}]
    /\ children \subseteq Widgets
    /\ ownWidth \in OwnWidths

(* A child keeps the cells it was given as long as it is in the layout,    *)
(* and a cell holds children only.                                         *)
CellsKept ==
    /\ \A w \in children : {i \in Cells : cells[i] = w} = Covered(area[w])
    /\ \A i \in Cells : cells[i] \in children \cup {None}

(* What the lines and the gaps between them take up, and what they have to.*)
taken(lines, at) ==
    Total([i \in DOMAIN lines |-> IF lines[i].active THEN at[i].value ELSE 0], LAMBDA e : e)
    + (Len(Active(lines)) - 1) * spacing

Least(l) ==
    IF ~ l.active THEN 0 ELSE IF l.min > 0 THEN l.min
    ELSE IF "shrink" \in l.policy THEN 0 ELSE l.value

CanFit(lines, extent) ==
    Total(lines, Least) + (Len(Active(lines)) - 1) * spacing <= extent

Tiled == ~ modified /\ children # {}
ItsLines == {[lines |-> columns.lines, at |-> columnsAt, extent |-> width],
             [lines |-> rows.lines, at |-> rowsAt, extent |-> height]}
CanHold == \A l \in ItsLines : CanFit(l.lines, l.extent)

Spanned == {w \in children : Cardinality(Covered(area[w])) > 1}

(* Without widgets over several cells, lines that can fit into the layout  *)
(* do.                                                                     *)
LinesFit ==
    Tiled /\ Spanned = {} =>
        \A l \in ItsLines : CanFit(l.lines, l.extent) => taken(l.lines, l.at) <= l.extent

(* No line mixes widgets that can shrink with widgets that cannot: such a  *)
(* line takes over the policy of the former and the extent of the latter.  *)
InColumn(w, k) == area[w].col <= k /\ k <= area[w].lastCol
InRow(w, k) == area[w].row <= k /\ k <= area[w].lastRow
Shrinks(w, axis) == "shrink" \in Wish[w][axis].policy

Unmixed ==
    \A u, v \in children :
        /\ (\E k \in 0 .. Cols - 1 : InColumn(u, k) /\ InColumn(v, k))
           => Shrinks(u, "x") = Shrinks(v, "x")
        /\ (\E k \in 0 .. Rows - 1 : InRow(u, k) /\ InRow(v, k))
           => Shrinks(u, "y") = Shrinks(v, "y")

(* Then, and without widgets over several cells, lines fill the layout, up *)
(* to less than a pixel a line, if they fit and one of them can grow.      *)
LinesFill ==
    Tiled /\ Unmixed /\ Spanned = {} =>
        \A l \in ItsLines :
            CanFit(l.lines, l.extent) /\ (\E i \in DOMAIN l.lines : "grow" \in l.lines[i].policy)
            => l.extent - taken(l.lines, l.at) < Len(l.lines)

(* Then each child has its place and none covers another one, if the lines *)
(* fit; but for widgets that can only shrink, which get a height of -1.    *)
Apart(p, q) ==
    p.x + p.w <= q.x \/ q.x + q.w <= p.x \/ p.y + p.h <= q.y \/ q.y + q.h <= p.y

OnlyShrinks(w) == \E axis \in {"x", "y"} : Wish[w][axis].policy = {"shrink"}

WidgetsApart ==
    Tiled /\ Unmixed /\ CanHold /\ (\A w \in children : ~ OnlyShrinks(w)) =>
        /\ DOMAIN geometry = children
        /\ \A u, v \in children : u # v => Apart(geometry[u], geometry[v])

(* Arrow keys of opposite directions undo one another, and none stays      *)
(* where it is.  Without widgets over several cells tile() looks for them  *)
(* in its own cells only.                                                  *)
ArrowsReturn ==
    /\ broken => Spanned # {}
    /\ Tiled =>
        /\ \A w \in children : LET n == neighbour[w]
                               IN  w \notin {n.left, n.right, n.up, n.down}
        /\ Spanned = {} =>
            \A u, v \in children :
                /\ (neighbour[u].right = v) <=> (neighbour[v].left = u)
                /\ (neighbour[u].down = v) <=> (neighbour[v].up = u)
=============================================================================
