----------------------------- MODULE MCRecvStream -----------------------------
(* TLC instance of RecvStream.                                             *)
EXTENDS RecvStream
=============================================================================
