------------------------------ MODULE MCCallbacks ------------------------------
(***************************************************************************)
(* Two callbacks, so that one can stop or start the other in the same      *)
(* pass, and up to two threads besides the main loop.                      *)
(***************************************************************************)
EXTENDS Callbacks, TLC

Symmetry == Permutations(CallbackSet)

===============================================================================
