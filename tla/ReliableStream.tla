---------------------------- MODULE ReliableStream ----------------------------
(***************************************************************************)
(* What one direction of a QUIC stream promises its two applications,      *)
(* whatever the network does: the reader gets a prefix of what was         *)
(* written, in order; it hears of a clean end only after the last byte;    *)
(* and the writer is told "all received" only when the reader needs        *)
(* nothing more from the network.  Abortion by the writer ends the stream  *)
(* at any point.  No packets, acknowledgements or losses appear here.      *)
(***************************************************************************)
EXTENDS Naturals

CONSTANT MaxOffset  \* bound: bytes the writer writes

VARIABLES
    written,    \* bytes the writer handed over
    finished,   \* the writer closed the stream: `written` is its size
    aborted,    \* the writer reset the stream
    arrived,    \* length of the in-order prefix at the reader's transport
    delivered,  \* bytes the reader's application has taken
    ended,      \* how the stream ended for the reader
    confirmed   \* the writer knows that everything arrived

vars == <<written, finished, aborted, arrived, delivered, ended, confirmed>>

Init ==
    /\ written = 0
    /\ finished = FALSE
    /\ aborted = FALSE
    /\ arrived = 0
    /\ delivered = 0
    /\ ended = "open"
    /\ confirmed = FALSE

Write ==
    /\ ~finished /\ ~aborted
    /\ written' \in (written + 1) .. MaxOffset
    /\ UNCHANGED <<finished, aborted, arrived, delivered, ended, confirmed>>

Finish ==
    /\ ~finished /\ ~aborted
    /\ finished' = TRUE
    /\ UNCHANGED <<written, aborted, arrived, delivered, ended, confirmed>>

Abort ==
    /\ ~aborted /\ ~confirmed
    /\ aborted' = TRUE
    /\ UNCHANGED <<written, finished, arrived, delivered, ended, confirmed>>

\* Bytes arrive, the end of the stream with them when the reader holds it all.
Arrive ==
    /\ ended = "open"
    /\ arrived' \in arrived .. written
    /\ ended' \in {"open"} \cup
          (IF finished /\ delivered = written THEN {"fin"} ELSE {})
    /\ UNCHANGED <<written, finished, aborted, delivered, confirmed>>

\* The reader takes bytes in order; taking the last one may end the stream.
Read ==
    /\ ended = "open"
    /\ delivered' \in (delivered + 1) .. arrived
    /\ ended' \in {"open"} \cup
          (IF finished /\ delivered' = written THEN {"fin"} ELSE {})
    /\ UNCHANGED <<written, finished, aborted, arrived, confirmed>>

\* The abortion reaches the reader: bytes it had not taken are gone.
AbortArrives ==
    /\ aborted
    /\ ended # "reset"
    /\ ended' = "reset"
    /\ arrived' = delivered
    /\ UNCHANGED <<written, finished, aborted, delivered, confirmed>>

Confirm ==
    /\ finished /\ ~aborted
    /\ arrived = written
    /\ confirmed' = TRUE
    /\ UNCHANGED <<written, finished, aborted, arrived, delivered, ended>>

Next == Write \/ Finish \/ Abort \/ Arrive \/ Read \/ AbortArrives \/ Confirm

Spec == Init /\ [][Next]_vars
=============================================================================
