------------------------------ MODULE MCRecovery ------------------------------
(* Two frames, one of each kind, over a network that loses and repeats.    *)
EXTENDS Recovery
=============================================================================
