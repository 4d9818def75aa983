----------------------------- MODULE WindowStack -----------------------------
(***************************************************************************)
(* What WindowWidget::Modality promises (ui/WindowWidget.h: a WindowModal  *)
(* window blocks input to all other windows): windows are opened on top of *)
(* each other, any of them may be closed, and input reaches only an open   *)
(* window, which is the top one whenever the top one is modal.             *)
(***************************************************************************)
EXTENDS Naturals, SequencesExt

CONSTANTS Windows, NoWindow

VARIABLES
    stack,   \* open windows, the one on top last
    modal,   \* the windows that block the others
    hearer   \* the window that is being given input

vars == <<stack, modal, hearer>>

Top == stack[Len(stack)]
Open == {stack[i] : i \in DOMAIN stack}

Init ==
    /\ stack = << >>
    /\ modal \in SUBSET Windows
    /\ hearer = NoWindow

Raise(w) ==
    /\ w \notin Open
    /\ stack' = Append(stack, w)
    /\ UNCHANGED <<modal, hearer>>

Drop(w) ==
    /\ \E i \in DOMAIN stack : stack[i] = w /\ stack' = RemoveAt(stack, i)
    /\ UNCHANGED <<modal, hearer>>

Hear(w) ==
    /\ hearer = NoWindow
    /\ w \in Open
    /\ Top \in modal => w = Top
    /\ hearer' = w
    /\ UNCHANGED <<stack, modal>>

Heard ==
    /\ hearer' = NoWindow
    /\ UNCHANGED <<stack, modal>>

Next == (\E w \in Windows : Raise(w) \/ Drop(w) \/ Hear(w)) \/ Heard

Spec == Init /\ [][Next]_vars
=============================================================================
