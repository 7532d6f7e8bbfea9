---------------------------- MODULE StreamOffsets -----------------------------
(***************************************************************************)
(* What the two halves of a stream have in common: the offsets they name   *)
(* bytes by, and the absence of a final size.                              *)
(***************************************************************************)
EXTENDS Integers

CONSTANT MaxOffset  \* bound: bytes written, and how far a frame of the peer reaches

\* final_size while the stream has none (null)
NoSize == -1
=============================================================================
