------------------------------- MODULE MCTimers -------------------------------
(***************************************************************************)
(* Small numbers of milliseconds: intervals of 1 and 2, an idle timeout    *)
(* above the lower bound of 1 and a longest timeout above that keep the    *)
(* order of the code's 1, 100 and 10000.                                   *)
(***************************************************************************)
EXTENDS Timers, TLC

Symmetry == Permutations(TimerSet)

===============================================================================
