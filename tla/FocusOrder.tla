------------------------------ MODULE FocusOrder ------------------------------
(***************************************************************************)
(* How the keyboard walks through the widgets of a window: the searches of *)
(* EventManager as functions of the tree, of the widgets that accept key   *)
(* input and of the focused one.  A search yields the widget that is       *)
(* focused afterwards; one that never returns yields Diverges.             *)
(***************************************************************************)
EXTENDS Naturals, SequencesExt, FiniteSetsExt

CONSTANTS
    Creator,   \* the window
    None,      \* a null pointer
    Diverges

(* A tree is [kids, parent, accepts]: the children of every widget in      *)
(* their order, the parent of every widget, and those that setFocusedWidget*)
(* does not refuse.                                                        *)

(* setFocusedWidget() succeeds.                                            *)
CanTake(tree, w, focused) == w \in tree.accepts /\ w # focused

(* Mutant: the search goes on with the widget it came from.                *)
AfterSame(s, w) ==
    IF \E i \in DOMAIN s : s[i] = w
    THEN SubSeq(s, CHOOSE i \in DOMAIN s : s[i] = w, Len(s)) ELSE << >>

After(s, w) ==
    IF \E i \in DOMAIN s : s[i] = w
    THEN SubSeq(s, 1 + CHOOSE i \in DOMAIN s : s[i] = w, Len(s)) ELSE << >>

(* One call of selectNext (forward) or selectPrevious, given what the calls*)
(* it makes yield.  The children that follow startFrom are searched, then  *)
(* those that follow the target in its parent.  A call made after the      *)
(* search has come round to the window (iter) reports success at once.     *)
(* Only selectNext counts the step above the window as having come round.  *)
selection(tree, forward, focused, select, call) ==
    LET round == call.startFrom # None /\ call.target = Creator
        above == forward /\ call.target = None /\ call.startFrom = Creator
        here  == IF call.target # None THEN call.target
                 ELSE IF focused # None THEN focused ELSE Creator
        children == IF forward THEN tree.kids[here] ELSE Reverse(tree.kids[here])
        ahead == IF round \/ call.startFrom = None THEN children
                 ELSE After(children, call.startFrom)
        again(target, startFrom) ==
            select[[target |-> target, startFrom |-> startFrom,
                    iter |-> IF round \/ above THEN 1 ELSE call.iter,
                    fuel |-> call.fuel - 1]]
        found(v) == IF tree.kids[v] # << >> THEN again(v, None)
                    ELSE [ok |-> CanTake(tree, v, focused), focused |-> v]
        hits == {i \in DOMAIN ahead : found(ahead[i]).ok}
    IN  IF call.iter > 0 THEN [ok |-> TRUE, focused |-> focused]
        ELSE IF call.fuel = 0 THEN [ok |-> TRUE, focused |-> Diverges]
        ELSE IF CanTake(tree, here, focused) THEN [ok |-> TRUE, focused |-> here]
        ELSE IF hits # {} THEN found(ahead[Min(hits)])
        ELSE IF children # << >> \/ here # Creator THEN again(tree.parent[here], here)
        ELSE [ok |-> FALSE, focused |-> focused]

(* A call with a null target starts at the focused widget.  The bound of   *)
(* the depth of the calls is beyond what a search that ends needs.         *)
search(tree, forward, focused) ==
    LET Stations == DOMAIN tree.kids \cup {None}
        Fuel  == 2 * Cardinality(DOMAIN tree.kids)
        Calls == [target : Stations, startFrom : Stations, iter : 0 .. 1, fuel : 0 .. Fuel]
        select[call \in Calls] == selection(tree, forward, focused, select, call)
    IN  select[[target |-> None, startFrom |-> None, iter |-> 0, fuel |-> Fuel]].focused

selectNext(tree, focused) == search(tree, TRUE, focused)

selectPrevious(tree, focused) == search(tree, FALSE, focused)
=============================================================================
