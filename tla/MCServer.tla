------------------------------- MODULE MCServer -------------------------------
(* The server on a small instance: two slots are alike, and no liveness is *)
(* checked under the symmetry.                                             *)
EXTENDS Server, TLC

Symmetry == Permutations(Slots)
=============================================================================
