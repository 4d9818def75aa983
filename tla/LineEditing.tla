----------------------------- MODULE LineEditing -----------------------------
(***************************************************************************)
(* LineInput: the text, the cursor, the selection and the part of the text *)
(* that is in view, as the pointer, the keys and the application change    *)
(* them.  Glyphs are of the same width, so the text is its length, which   *)
(* is counted as the cursor is (the build without --enable-wstring).       *)
(***************************************************************************)
EXTENDS Integers

CONSTANTS
    Advance,        \* width of a glyph in pixels
    Visible,        \* width of the field without its frame
    Left,           \* frame to the left of the text
    MaxLength,      \* _maxLength
    Pieces,         \* lengths of the texts that are set or appended
    Pointer,        \* places of the pointer
    LengthCap       \* bound of the text

(* Bound: no text that is appended is empty; the cursor goes behind the    *)
(* first glyph of one that replaces a selection, if there is one or not.   *)
LineAssumption ==
    /\ {Advance, Visible, Left, MaxLength, LengthCap} \subseteq Nat
    /\ Pieces \subseteq Nat \ {0} /\ Pointer \subseteq Int

VARIABLE line       \* the fields of the LineInput

NoSelection == [x |-> 0, right |-> 0]

(* The place of the glyph at an index, wherever the text is scrolled to.   *)
cursorPositon(l, i) ==
    IF i = 0 \/ l.length = 0 \/ i > l.length THEN l.x ELSE l.x + i * Advance

(* Mutant: a place behind the text is one after its end.                   *)
xyToIndexPast(l, x) ==
    LET within == {i \in 1 .. l.length : x > l.x + (i - 1) * Advance /\ x <= l.x + i * Advance}
    IN  IF l.length = 0 THEN -1
        ELSE IF x < l.x THEN 0
        ELSE IF within = {} THEN l.length + 1 ELSE CHOOSE i \in within : TRUE

(* The index of the glyph that ends at or after a place.                   *)
xyToIndex(l, x) ==
    LET within == {i \in 1 .. l.length : x > l.x + (i - 1) * Advance /\ x <= l.x + i * Advance}
    IN  IF l.length = 0 THEN -1
        ELSE IF x < l.x THEN 0
        ELSE IF within = {} THEN l.length ELSE CHOOSE i \in within : TRUE

(* Mutant: the text is not moved on at the right end of the field.         *)
scrolledLeftOnly(l) ==
    LET x == cursorPositon(l, l.cursor)
    IN  IF l.cursor = 0 \/ l.length * Advance <= Visible THEN Left
        ELSE IF l.cursor = l.length THEN Visible - l.length * Advance
        ELSE IF x < Left THEN l.x - (cursorPositon(l, l.cursor - 1) - x) + 1
        ELSE l.x

(* Where the text is moved to for the cursor to be seen.                   *)
scrolled(l) ==
    LET x == cursorPositon(l, l.cursor)
    IN  IF l.cursor = 0 \/ l.length * Advance <= Visible THEN Left
        ELSE IF l.cursor = l.length THEN Visible - l.length * Advance
        ELSE IF x < Left THEN l.x - (cursorPositon(l, l.cursor - 1) - x) + 1
        ELSE IF x <= Visible + Left THEN l.x
        ELSE IF l.cursor + 2 < l.length
             THEN l.x - (cursorPositon(l, l.cursor + 2) - x) + 1
        ELSE l.x - 10

updateCursorPosition(l) ==
    LET moved == [l EXCEPT !.x = scrolled(l)]
    IN  [moved EXCEPT !.caret = cursorPositon(moved, l.cursor)]

(* The selection follows the cursor while the user is selecting.           *)
updateSelectionRect(l) ==
    LET at == cursorPositon(l, l.selected)
    IN  IF ~ l.selecting THEN l
        ELSE IF l.selected = l.cursor THEN [l EXCEPT !.selection = NoSelection]
        ELSE IF l.selected > l.cursor
             THEN [l EXCEPT !.selection = [x |-> l.caret, right |-> at]]
        ELSE [l EXCEPT !.selection = [x |-> at, right |-> l.caret]]

refreshed(l) == updateSelectionRect(updateCursorPosition(l))

Init ==
    line = [length |-> 0, cursor |-> 0, selected |-> 0, selecting |-> FALSE,
            x |-> Left, caret |-> Left, selection |-> NoSelection]

-----------------------------------------------------------------------------
isNull(s) == s = NoSelection
pos1 == IF line.selected < line.cursor THEN line.selected ELSE line.cursor
n1 == (IF line.selected < line.cursor THEN line.cursor ELSE line.selected) - pos1

(* What std::basic_string does: erase() stops at the end of the text.      *)
erased(pos, n) == IF pos + n > line.length THEN pos ELSE line.length - n

(* A selection is replaced by n glyphs; the cursor goes behind the first.  *)
replaced(n, cursor) ==
    [line EXCEPT !.length = erased(pos1, n1) + n, !.selection = NoSelection,
                 !.cursor = cursor]

setText(n) ==
    /\ n > 0 \/ line.length > 0
    /\ line' = refreshed([line EXCEPT !.length = n, !.cursor = n, !.selected = 0])

(* clear() of the whole text, and of so many glyphs before the cursor.     *)
clear ==
    line' = refreshed([line EXCEPT !.length = 0, !.cursor = 0,
                          !.selected = IF line.length > 0 THEN 0 ELSE @])

clearBefore(n) ==
    LET chars == IF n > line.cursor THEN line.cursor ELSE n
        base == IF isNull(line.selection)
                THEN [line EXCEPT !.cursor = @ - chars,
                                  !.length = erased(line.cursor - chars, chars)]
                ELSE replaced(0, pos1)
    IN  line' = refreshed([base EXCEPT !.selecting = FALSE])

append(n) ==
    /\ line.length + n <= LengthCap
    /\ line' = refreshed(IF isNull(line.selection)
                         THEN [line EXCEPT !.length = @ + n, !.cursor = @ + n]
                         ELSE replaced(n, pos1 + 1))

-----------------------------------------------------------------------------
startSelection(l) ==
    [l EXCEPT !.selecting = TRUE, !.selected = l.cursor, !.selection = NoSelection]

pointerButtonDownEvent(x) ==
    LET i == xyToIndex(line, x)
    IN  /\ line.length > 0 /\ i # line.cursor
        /\ line' = startSelection(updateCursorPosition([line EXCEPT !.cursor = i]))

pointerMotionEvent(x) ==
    LET i == xyToIndex(line, x)
    IN  /\ line.selecting /\ line.length > 0 /\ i # line.cursor
        /\ line' = refreshed([line EXCEPT !.cursor = i])

pointerButtonUpEvent == line' = [line EXCEPT !.selecting = FALSE]

-----------------------------------------------------------------------------
(* keyDownEvent().                                                         *)
cursorLeft == line.cursor > 0 /\ line' = refreshed([line EXCEPT !.cursor = @ - 1])

cursorRight == line.cursor < line.length /\ line' = refreshed([line EXCEPT !.cursor = @ + 1])

homeKey == line' = refreshed([line EXCEPT !.cursor = 0])

endKey == line' = refreshed([line EXCEPT !.cursor = line.length])

deleteKey ==
    LET base == IF isNull(line.selection)
                THEN [line EXCEPT !.length = IF line.cursor < @ THEN @ - 1 ELSE @]
                ELSE replaced(0, pos1)
    IN  line' = refreshed([base EXCEPT !.selecting = FALSE])

backspaceKey ==
    LET base == IF ~ isNull(line.selection) THEN replaced(0, pos1)
                ELSE IF line.cursor > 0
                THEN [line EXCEPT !.cursor = @ - 1, !.length = @ - 1]
                ELSE line
    IN  line' = refreshed([base EXCEPT !.selecting = FALSE])

enterKey == line' = refreshed(line)

(* The key goes on selecting until a glyph is typed or deleted.            *)
shiftKey ==
    line' = refreshed(IF line.selecting THEN line ELSE startSelection(line))

glyphKey ==
    LET base == IF isNull(line.selection)
                THEN [line EXCEPT !.cursor = @ + 1, !.length = @ + 1]
                ELSE replaced(1, pos1 + 1)
    IN  /\ line.length < LengthCap
        /\ line' = IF MaxLength > 0 /\ line.length = MaxLength
                   THEN [line EXCEPT !.selecting = FALSE]
                   ELSE refreshed([base EXCEPT !.selecting = FALSE])

focusOutEvent == line' = [line EXCEPT !.selection = NoSelection]

Next ==
    \/ \E n \in Pieces : setText(n) \/ append(n)
    \/ clear \/ clearBefore(1)
    \/ \E x \in Pointer : pointerButtonDownEvent(x) \/ pointerMotionEvent(x)
    \/ pointerButtonUpEvent \/ cursorLeft \/ cursorRight \/ homeKey \/ endKey
    \/ deleteKey \/ backspaceKey \/ enterKey \/ shiftKey \/ glyphKey \/ focusOutEvent

Spec == Init /\ [][Next]_line

-----------------------------------------------------------------------------
(* Properties.                                                             *)

(* The rectangle that is shown as selected goes from where the selection   *)
(* began to the cursor: what it covers is what a glyph would replace.      *)
SelectionCovers ==
    ~ isNull(line.selection) =>
        line.selection = [x |-> cursorPositon(line, pos1),
                          right |-> cursorPositon(line, pos1 + n1)]

(* The positions that are given to the text are in it, or the next glyph   *)
(* that is typed would end the program; the cursor is drawn where it is;   *)
(* and the rectangle is right while the user selects.                      *)
CursorKept ==
    /\ line.cursor >= 0 /\ line.cursor <= line.length
    /\ line.caret = cursorPositon(line, line.cursor)
    /\ line.selecting => SelectionCovers

(* A cursor that is in view stays so if it goes by one glyph.              *)
InView(l) == l.caret >= 0 /\ l.caret <= Visible + Left
Near(a, b) == a - b \in -1 .. 1

CaretFollowed ==
    InView(line) /\ Near(line.cursor, line'.cursor) /\ Near(line.length, line'.length)
    => InView(line')
=============================================================================
