------------------------------ MODULE Gestures ------------------------------
(***************************************************************************)
(* GestureRecognizer: a stroke of the pointer becomes a sequence of moves  *)
(* in eight directions, and the gesture nearest to it is reported.         *)
(* Bound: the pointer has one button, the left one.                        *)
(***************************************************************************)
EXTENDS Integers, Sequences, FiniteSets, FiniteSetsExt, SequencesExt

CONSTANTS
    Named,          \* _gestures: their moves, in the order of the names
    Places,         \* <<x, y>> of the pointer
    Delays,         \* milliseconds between two events
    Frequency,      \* _frequency
    MinDistance,    \* _minDistance, a squared distance
    Sensitivity,    \* _sensitivity
    MaxMoves        \* bound: the moves of a stroke before its last event

PlacesAssumption == Places \subseteq Int \X Int

NoGesture == 0      \* the empty name

VARIABLES
    down,           \* the left button is held
    pre,            \* _preX and _preY
    since,          \* time since _lastMoveTS, Frequency at most
    moves,          \* _moves
    path,           \* _path
    matched         \* index of the gesture reported last

vars == <<down, pre, since, moves, path, matched>>

Init ==
    /\ down = FALSE
    /\ pre = <<-1, -1>> /\ since = Frequency
    /\ moves = << >> /\ path = << >>
    /\ matched = NoGesture

-----------------------------------------------------------------------------
(* round(atan2f(dy, dx) * 4 / pi), from 0 to 7.  A move is along an axis   *)
(* when it is less than an eighth of a half turn away from it.             *)
Square(n) == n * n
Absolute(n) == IF n < 0 THEN - n ELSE n
Along(major, minor) ==
    Square(Absolute(major) + Absolute(minor)) < 2 * Square(major)

direction(dx, dy) ==
    IF Along(dx, dy) THEN IF dx > 0 THEN 0 ELSE 4
    ELSE IF Along(dy, dx) THEN IF dy > 0 THEN 2 ELSE 6
    ELSE IF dx > 0 THEN IF dy > 0 THEN 1 ELSE 7
    ELSE IF dy > 0 THEN 3 ELSE 5

-----------------------------------------------------------------------------
(* Mutant: the move that differs is not counted as a change.               *)
ColumnFree(previous, move, b) ==
    FoldLeft(LAMBDA col, j :
                Append(col, Min({1 + col[j], 1 + previous[j + 1], previous[j]})),
             <<previous[1] + 1>>, [j \in DOMAIN b |-> j])

(* The distance of the first moves of a, one more each time, to all the    *)
(* beginnings of b.                                                        *)
Column(previous, move, b) ==
    FoldLeft(LAMBDA col, j :
                Append(col, Min({1 + col[j], 1 + previous[j + 1],
                                 previous[j] + IF move = b[j] THEN 0 ELSE 1})),
             <<previous[1] + 1>>, [j \in DOMAIN b |-> j])

levenshteinDistance(a, b) ==
    Last(FoldLeft(LAMBDA previous, move : Column(previous, move, b),
                  [j \in 1 .. Len(b) + 1 |-> j - 1], a))

(* The first of the nearest gestures, if it is near enough.                *)
matchGesture(stroke) ==
    FoldLeft(LAMBDA best, g :
                LET d == levenshteinDistance(Named[g], stroke)
                IN  IF d <= Sensitivity
                       /\ (best = NoGesture \/ d < levenshteinDistance(Named[best], stroke))
                    THEN g ELSE best,
             NoGesture, IF stroke = << >> THEN << >> ELSE [g \in DOMAIN Named |-> g])

-----------------------------------------------------------------------------
start(p) ==
    /\ ~ down /\ down' = TRUE
    /\ moves' = << >> /\ path' = << >>
    /\ since' = 0 /\ pre' = p
    /\ UNCHANGED matched

(* An event that comes too early or from too near is passed over.          *)
detectMove(p, delay) ==
    LET elapsed == Min({since + delay, Frequency})
        dx == p[1] - pre[1]
        dy == p[2] - pre[2]
        far == dx * dx + dy * dy > MinDistance
    IN  IF elapsed < Frequency
        THEN since' = elapsed /\ UNCHANGED <<pre, moves, path>>
        ELSE /\ since' = 0
             /\ pre' = IF far THEN p ELSE pre
             /\ moves' = IF far THEN Append(moves, direction(dx, dy)) ELSE moves
             /\ path' = IF far THEN Append(path, p) ELSE path

pointerMotion(p, delay) ==
    /\ down /\ Len(moves) < MaxMoves
    /\ detectMove(p, delay)
    /\ UNCHANGED <<down, matched>>

(* stop() looks at the moves with the last one in them.                    *)
pointerButtonUp(p, delay) ==
    /\ down /\ down' = FALSE
    /\ detectMove(p, delay)
    /\ matched' = matchGesture(moves')

Next ==
    \/ \E p \in Places : start(p)
    \/ \E p \in Places, d \in Delays : pointerMotion(p, d) \/ pointerButtonUp(p, d)

Spec == Init /\ [][Next]_vars

-----------------------------------------------------------------------------
(* Properties.                                                             *)

(* The fewest moves to insert, to drop and to change: some of a stay, in   *)
(* their order, in the places of as many of b.                             *)
Ordered(S) == SetToSortSeq(S, LAMBDA i, j : i < j)

Changed(a, b, kept, places) ==
    LET p == Ordered(kept)
        q == Ordered(places)
    IN  Cardinality({k \in DOMAIN p : a[p[k]] # b[q[k]]})

EditDistance(a, b) ==
    Min({Len(a) + Len(b) - 2 * Cardinality(s[1]) + Changed(a, b, s[1], s[2]) :
            s \in {t \in (SUBSET DOMAIN a) \X (SUBSET DOMAIN b) :
                      Cardinality(t[1]) = Cardinality(t[2])}})

(* The gesture that a finished stroke reports is as near to it as any, and *)
(* one that is near enough is reported.                                    *)
NearestReported ==
    ~ down /\ moves # << >> =>
        LET distance == [g \in DOMAIN Named |-> EditDistance(Named[g], moves)]
        IN  IF matched = NoGesture THEN \A g \in DOMAIN Named : distance[g] > Sensitivity
            ELSE /\ distance[matched] <= Sensitivity
                 /\ \A g \in DOMAIN Named :
                        distance[g] >= distance[matched] + IF g < matched THEN 1 ELSE 0

(* A stroke shows as many moves as points, each far from the one before.   *)
PathKept ==
    /\ Len(path) = Len(moves)
    /\ path # << >> => Last(path) = pre
    /\ \A i \in 2 .. Len(path) :
          Square(path[i][1] - path[i - 1][1]) + Square(path[i][2] - path[i - 1][2])
          > MinDistance
=============================================================================
