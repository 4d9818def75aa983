----------------------------- MODULE MCMainLoop -----------------------------
(* Instances of MainLoop for TLC: applications whose windows are all modal,*)
(* as they are constructed, and one with a dialog that is not.             *)
EXTENDS MainLoop

CONSTANTS TheApp, d1, d2

MCDialogs == {d1, d2}
MCAnimated == {TheApp, d1}
MCModalities == {{TheApp, d1, d2}, {TheApp, d1}}
=============================================================================
