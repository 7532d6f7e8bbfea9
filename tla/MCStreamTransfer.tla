--------------------------- MODULE MCStreamTransfer ---------------------------
(* TLC instance of StreamTransfer.                                         *)
EXTENDS StreamTransfer
=============================================================================
