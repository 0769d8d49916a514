------------------------------ MODULE MCTimer -------------------------------
(* Two timers on one main loop, for TLC.                                   *)
EXTENDS G_Timer

CONSTANTS t, u
=============================================================================
