------------------------------ MODULE RecvStream ------------------------------
(***************************************************************************)
(* The receive half of one QUIC stream (src/src/conn/RecvStream.zig) under *)
(* an arbitrary peer: STREAM frames at any offset, in any order, repeated  *)
(* or overlapping, and RESET_STREAM, against the application's reads.      *)
(*                                                                         *)
(* `ranges` is the set of received offsets not yet read (range_list is     *)
(* union and difference, see SendStream).  The reassembly buffer is kept   *)
(* as its physical length and its consumed prefix, which the memory budget *)
(* and every slice taken from it depend on; byte contents are left out.    *)
(* Fields that SendStream has under the same name are prefixed with r_.    *)
(***************************************************************************)
EXTENDS StreamOffsets

CONSTANT MaxSpan  \* RecvStream.max_buffered_span

ASSUME RecvStreamAssumption == MaxOffset \in Nat /\ MaxSpan \in Nat

VARIABLES
    read_offset,  \* bytes below have been read by the application
    end_offset,   \* one past the highest offset the peer has touched
    ranges,       \* offsets received and not yet read
    buf_len,      \* bytes.items.len
    buf_start,    \* consumed prefix inside the buffer
    r_final_size, \* locked by FIN or RESET_STREAM, or NoSize
    fin_seen,
    r_reset,      \* RESET_STREAM was processed
    r_state,      \* RecvStream.State
    closed        \* the error the connection closed with, or "none"

recvVars == <<read_offset, end_offset, ranges, buf_len, buf_start,
              r_final_size, fin_seen, r_reset, r_state, closed>>

RecvStates == {"recv", "size_known", "data_recvd", "data_read", "reset_recvd",
               "reset_read"}
Errors == {"none", "BeyondFinalSize", "FinalSizeChanged", "BufferLimitExceeded"}

\* Mutant of LiveBytes: the consumed prefix is counted as live.
LiveBytesPhysical == buf_len

\* liveBytes()
LiveBytes == buf_len - buf_start

RecvInit ==
    /\ read_offset = 0
    /\ end_offset = 0
    /\ ranges = {}
    /\ buf_len = 0
    /\ buf_start = 0
    /\ r_final_size = NoSize
    /\ fin_seen = FALSE
    /\ r_reset = FALSE
    /\ r_state = "recv"
    /\ closed = "none"

\* Mutant of RecvAdvancedState: the stream ends with the data still unread.
AdvancedBeforeRead(st, ro, rs, fs, seen) ==
    IF ~seen \/ st = "data_read" \/ (ro # fs /\ rs = {}) THEN st ELSE "data_recvd"

\* maybeAdvanceState() with the values the step leaves behind.  The branch
\* for "all received, not yet read" only re-assigns size_known.
RecvAdvancedState(st, ro, rs, fs, seen) ==
    IF ~seen \/ st = "data_read" \/ ro # fs \/ rs # {} THEN st ELSE "data_recvd"

-----------------------------------------------------------------------------
(* recv(): one STREAM frame [offset, offset + len) with or without FIN.    *)

\* A frame that ends further than the buffer may reach past the read cursor.
OverSpan(new_end) == new_end - read_offset > MaxSpan

\* The first check that fails, in the order of the code; errdefer undoes
\* what was set before it, so a refused frame leaves the stream as it was.
RecvError(offset, len, fin) ==
    LET new_end == offset + len
        done    == r_state \in {"data_recvd", "data_read"}
        other_size == IF r_final_size = NoSize THEN end_offset > new_end
                      ELSE ~done /\ r_final_size # new_end
    IN  IF r_final_size # NoSize /\ new_end > r_final_size THEN "BeyondFinalSize"
        ELSE IF fin /\ other_size THEN "FinalSizeChanged"
        ELSE IF ~done /\ len > 0 /\ OverSpan(new_end) THEN "BufferLimitExceeded"
        ELSE "none"

\* A frame that is accepted: lock the size, clip what was read already, grow
\* the buffer to cover the rest, merge, advance the state.
Accept(offset, len, fin) ==
    LET new_end == offset + len
        fresh   == new_end > read_offset /\ len > 0
        clip    == {b \in offset .. (new_end - 1) : b >= read_offset}
        fs      == IF fin THEN new_end ELSE r_final_size
        seen    == fin_seen \/ fin
        st      == IF fin /\ r_state = "recv" THEN "size_known" ELSE r_state
    IN  /\ r_final_size' = fs
        /\ fin_seen' = seen
        /\ ranges' = ranges \cup clip
        /\ end_offset' = IF new_end > end_offset THEN new_end ELSE end_offset
        /\ buf_len' = IF fresh /\ LiveBytes < new_end - read_offset
                      THEN buf_start + (new_end - read_offset) ELSE buf_len
        /\ r_state' = RecvAdvancedState(st, read_offset, ranges', fs, seen)
        /\ UNCHANGED <<read_offset, buf_start, r_reset, closed>>

Recv(offset, len, fin) ==
    /\ closed = "none"
    /\ ~r_reset
    /\ IF RecvError(offset, len, fin) # "none"
       THEN /\ closed' = RecvError(offset, len, fin)
            /\ UNCHANGED <<read_offset, end_offset, ranges, buf_len, buf_start,
                           r_final_size, fin_seen, r_reset, r_state>>
       ELSE /\ r_state \notin {"data_recvd", "data_read"}
            /\ Accept(offset, len, fin)

-----------------------------------------------------------------------------
(* The application reads; the connection compacts and resets.              *)

\* peek(): the run of received offsets that starts at read_offset.
Readable(n) == n >= 1 /\ read_offset .. (read_offset + n - 1) \subseteq ranges

\* Mutant of CompactDue: the prefix goes only with the last byte.
CompactAtEnd(start) == start = buf_len

\* consume() compacts once the prefix reaches half of the buffer.
CompactDue(start) == start >= buf_len \div 2

\* consume(n), also the body of read(): slide the window, compact at half,
\* release the buffer once the stream is drained to its FIN.
Consume(n) ==
    LET start == buf_start + n
        st    == RecvAdvancedState(r_state, read_offset + n,
                     ranges \ (read_offset .. (read_offset + n - 1)),
                     r_final_size, fin_seen)
        len   == IF CompactDue(start) THEN buf_len - start ELSE buf_len
        pre   == IF CompactDue(start) THEN 0 ELSE start
        drop  == st = "data_recvd" /\ len = pre
    IN  /\ Readable(n)
        /\ read_offset' = read_offset + n
        /\ ranges' = ranges \ (read_offset .. (read_offset + n - 1))
        /\ buf_len' = IF drop THEN 0 ELSE len
        /\ buf_start' = IF drop THEN 0 ELSE pre
        /\ r_state' = st
        /\ UNCHANGED <<end_offset, r_final_size, fin_seen, r_reset, closed>>

\* compactPrefix(): the connection takes the prefix back under pressure.
CompactPrefix ==
    /\ buf_start # 0
    /\ buf_len' = IF buf_start >= buf_len THEN 0 ELSE buf_len - buf_start
    /\ buf_start' = 0
    /\ UNCHANGED <<read_offset, end_offset, ranges, r_final_size, fin_seen,
                   r_reset, r_state, closed>>

\* A RESET_STREAM whose final size contradicts what was received.
ResetConflict(fs) == (fin_seen /\ r_final_size # fs) \/ end_offset > fs

\* resetStream(): RESET_STREAM with final size fs.  A second copy is ignored.
PeerReset(fs) ==
    /\ closed = "none"
    /\ ~r_reset
    /\ IF ResetConflict(fs)
       THEN /\ closed' = "FinalSizeChanged"
            /\ UNCHANGED <<read_offset, end_offset, ranges, buf_len, buf_start,
                           r_final_size, fin_seen, r_reset, r_state>>
       ELSE /\ r_reset' = TRUE
            /\ r_final_size' = fs
            /\ r_state' = "reset_recvd"
            /\ ranges' = {}
            /\ buf_len' = 0
            /\ buf_start' = 0
            /\ UNCHANGED <<read_offset, end_offset, fin_seen, closed>>

\* markRead(): the terminal states the application acknowledges.
MarkRead ==
    /\ r_state \in {"data_recvd", "reset_recvd"}
    /\ r_state' = IF r_state = "data_recvd" THEN "data_read" ELSE "reset_read"
    /\ UNCHANGED <<read_offset, end_offset, ranges, buf_len, buf_start,
                   r_final_size, fin_seen, r_reset, closed>>

RecvNext ==
    \/ \E offset \in 0..MaxOffset, len \in 0..MaxOffset, fin \in BOOLEAN :
          offset + len <= MaxOffset /\ Recv(offset, len, fin)
    \/ \E n \in 1..MaxOffset : Consume(n)
    \/ CompactPrefix
    \/ \E fs \in 0..MaxOffset : PeerReset(fs)
    \/ MarkRead

RecvSpec == RecvInit /\ [][RecvNext]_recvVars

-----------------------------------------------------------------------------
(* Properties.                                                             *)

\* Every field keeps its type: the offsets stay within the stream, the consumed
\* prefix within the buffer, and the buffer within the longest it may grow to.
RecvTypeOK ==
    /\ read_offset \in 0..MaxOffset
    /\ end_offset \in 0..MaxOffset
    /\ ranges \in SUBSET (0..(MaxOffset - 1))
    /\ buf_len \in 0..(2 * MaxOffset)
    /\ buf_start \in 0..buf_len
    /\ r_final_size \in {NoSize} \cup 0..MaxOffset
    /\ fin_seen \in BOOLEAN
    /\ r_reset \in BOOLEAN
    /\ r_state \in RecvStates
    /\ closed \in Errors

\* The comment on `ranges` (every range lies between read_offset and
\* end_offset), and what peek and recv rely on to slice the buffer: every
\* range also lies inside the live part of the physical buffer, whatever
\* compaction consume, compactPrefix and resetStream did before.
RangesInBuffer ==
    /\ ranges \subseteq read_offset .. (end_offset - 1)
    /\ ranges \subseteq read_offset .. (read_offset + buf_len - buf_start - 1)

\* The memory a stream may hold: the live part of the buffer never spans more
\* than max_buffered_span, and the consumed prefix that consume leaves in place
\* never holds half of the buffer or more, so the budget's over-charge is
\* bounded by the unread bytes.
BufferBounded ==
    /\ buf_len - buf_start <= MaxSpan
    /\ buf_start = 0 \/ 2 * buf_start < buf_len

\* The bookkeeping of the sliding buffer, exact in both directions: what is
\* received can be read from the buffer, and no more is held than allowed.
BufferSound == RangesInBuffer /\ BufferBounded

\* A clean end is reported when and only when every byte up to the final size
\* was read, and no byte beyond the locked final size was ever accepted.  No
\* order of FIN, duplicates, holes and reads leaves a drained stream in recv or
\* size_known, where the stream table could never reclaim it.
EndIsTruthful ==
    /\ r_state \in {"data_recvd", "data_read"} =>
          fin_seen /\ read_offset = r_final_size /\ ranges = {}
    /\ (~r_reset /\ fin_seen /\ read_offset = r_final_size) =>
          r_state \in {"data_recvd", "data_read"}
    /\ r_final_size # NoSize => end_offset <= r_final_size
=============================================================================
