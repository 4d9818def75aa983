---------------------------- MODULE MCAppLifecycle ----------------------------
(* The launcher and one application that may run once.                     *)
EXTENDS AppLifecycle

CONSTANT TheHome, TheApp, coma

MCApps     == {TheHome, TheApp}
MCMultiple == {}
MCCallers  == {coma}
NoCallers  == {}
===============================================================================
