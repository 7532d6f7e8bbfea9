----------------------------- MODULE MCSendStream -----------------------------
(* TLC instance of SendStream.  The paths are interchangeable.             *)
EXTENDS SendStream, TLC

PathSymmetry == Permutations(Paths)
=============================================================================
