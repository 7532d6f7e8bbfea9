---------------------------- MODULE MCStreamTable -----------------------------
(* StreamTable for TLC: the constants are given in the configurations.      *)
EXTENDS StreamTable
=============================================================================
