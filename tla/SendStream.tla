------------------------------ MODULE SendStream ------------------------------
(***************************************************************************)
(* The send half of one QUIC stream (src/src/conn/SendStream.zig) as the   *)
(* connection drives it: the application writes, finishes or resets; the   *)
(* packet builder peeks a chunk and records it under a fresh stream key    *)
(* (src/src/Connection/send.zig); loss recovery acknowledges, loses or     *)
(* probe-requeues the packet that carried it (src/src/Connection/loss.zig).*)
(*                                                                         *)
(* A sorted list of disjoint merged ranges is modelled by the set of       *)
(* offsets it covers: range_list.insertMerge is union, removeRange is set  *)
(* difference, and the first range of the list is the run of consecutive   *)
(* offsets that starts at the least member.  Byte contents are left out;   *)
(* what the properties tell apart is which offsets are pending, in flight  *)
(* or acknowledged.                                                        *)
(***************************************************************************)
EXTENDS StreamOffsets, FiniteSets

CONSTANTS
    Paths,        \* the application paths packets of this stream travel on
    MaxBuffered,  \* SendStream.max_buffered, the send-queue cap
    MaxKey        \* bound: stream keys handed out (nextStreamPacketKey)

ASSUME SendStreamAssumption ==
    /\ Paths # {}
    /\ MaxOffset \in Nat
    /\ MaxBuffered \in Nat \ {0}
    /\ MaxKey \in Nat

VARIABLES
    base_offset,             \* first byte still buffered: all below is acked
    write_offset,            \* one past the last byte written
    pending,                 \* offsets to send or to send again
    in_flight,               \* chunks by stream key: a set of chunk records
    acked_above,             \* offsets acked above the floor
    fin_marked,              \* finish() was called
    fin_in_flight,           \* the FIN is packed into a chunk
    fin_acked,               \* a chunk with the FIN was acknowledged
    probe_requeued_pending,  \* a probe put in-flight bytes into pending
    final_size,              \* write_offset at finish(), or NoSize
    reset,                   \* ResetInfo: "none", then queued/acked flags
    state,                   \* SendStream.State
    reset_in_flight,         \* packets that carry our RESET_STREAM
    next_key                 \* the next stream key, one order for all paths

data == <<base_offset, write_offset, pending, acked_above>>
finVars == <<fin_marked, fin_in_flight, fin_acked, final_size>>
vars == <<data, finVars, in_flight, probe_requeued_pending, reset, state,
          reset_in_flight, next_key>>

States == {"ready", "send", "data_sent", "data_recvd", "reset_sent",
           "reset_recvd"}

\* ResetInfo: null, {queued, acked} = FF, TF, TT.  Its error code and final
\* size never change after resetStream, so the flags are all of its state.
Resets == {"none", "unqueued", "queued", "acked"}

Chunk == [key : 0..MaxKey, path : Paths, offset : 0..MaxOffset,
          length : 0..MaxOffset, fin : BOOLEAN, requeued : BOOLEAN]

ResetPacket == [key : 0..MaxKey, path : Paths]

\* Mutant of Bytes: ranges read as inclusive of their end.
BytesInclusive(c) == c.offset .. (c.offset + c.length)

\* The offsets a chunk carries.
Bytes(c) == c.offset .. (c.offset + c.length - 1)

\* The bytes the stream still buffers: [base_offset, write_offset).
Window == base_offset .. (write_offset - 1)

Init ==
    /\ base_offset = 0
    /\ write_offset = 0
    /\ pending = {}
    /\ in_flight = {}
    /\ acked_above = {}
    /\ fin_marked = FALSE
    /\ fin_in_flight = FALSE
    /\ fin_acked = FALSE
    /\ probe_requeued_pending = FALSE
    /\ final_size = NoSize
    /\ reset = "none"
    /\ state = "ready"
    /\ reset_in_flight = {}
    /\ next_key = 0

-----------------------------------------------------------------------------
(* The application's calls.                                                *)

\* write(): n bytes are accepted; a short write when the cap is near.
Write(n) ==
    /\ ~fin_marked
    /\ reset = "none"
    /\ write_offset - base_offset + n <= MaxBuffered
    /\ write_offset + n <= MaxOffset
    /\ pending' = pending \cup (write_offset .. (write_offset + n - 1))
    /\ write_offset' = write_offset + n
    /\ state' = IF state = "ready" THEN "send" ELSE state
    /\ UNCHANGED <<base_offset, acked_above, finVars, in_flight,
                   probe_requeued_pending, reset, reset_in_flight, next_key>>

\* finish(): the size is final, a FIN is owed.
Finish ==
    /\ reset = "none"
    /\ ~fin_marked
    /\ fin_marked' = TRUE
    /\ final_size' = write_offset
    /\ state' = IF state \in {"ready", "send"} THEN "data_sent" ELSE state
    /\ UNCHANGED <<data, fin_in_flight, fin_acked, in_flight,
                   probe_requeued_pending, reset, reset_in_flight, next_key>>

\* Mutant of ResetStream: the guard on data_recvd is dropped.
ResetStreamAlways ==
    /\ reset = "none"
    /\ reset' = "unqueued"
    /\ state' = "reset_sent"
    /\ pending' = {}
    /\ probe_requeued_pending' = FALSE
    /\ UNCHANGED <<base_offset, write_offset, acked_above, finVars, in_flight,
                   reset_in_flight, next_key>>

\* resetStream(): pending data is dropped, in-flight chunks stay tracked.
ResetStream ==
    /\ reset = "none"
    /\ state # "data_recvd"
    /\ reset' = "unqueued"
    /\ state' = "reset_sent"
    /\ pending' = {}
    /\ probe_requeued_pending' = FALSE
    /\ UNCHANGED <<base_offset, write_offset, acked_above, finVars, in_flight,
                   reset_in_flight, next_key>>

-----------------------------------------------------------------------------
(* The packet builder.                                                     *)

FinOwed == fin_marked /\ ~fin_in_flight /\ ~fin_acked

\* hasPendingChunk()
HasPendingChunk ==
    IF reset # "none" THEN reset = "unqueued" ELSE pending # {} \/ FinOwed

\* peekChunk() then recordSent(): n bytes, a prefix of the first pending
\* range, go out in one packet on path p.  The packet's room and the flow
\* credit (limitChunkToSendFlowAfterPlanned) choose n; the FIN rides on the
\* chunk that reaches the final size.
SendChunk(p, n) ==
    \E off \in pending :
        LET fin == FinOwed /\ off + n = final_size
            c   == [key |-> next_key, path |-> p, offset |-> off, length |-> n,
                    fin |-> fin, requeued |-> FALSE]
        IN  /\ reset = "none"
            /\ \A b \in pending : off <= b
            /\ Bytes(c) \subseteq pending
            /\ next_key < MaxKey
            /\ next_key' = next_key + 1
            /\ in_flight' = in_flight \cup {c}
            /\ pending' = pending \ Bytes(c)
            /\ probe_requeued_pending' =
                  (probe_requeued_pending /\ pending # Bytes(c))
            /\ fin_in_flight' = (fin_in_flight \/ fin)
            /\ UNCHANGED <<base_offset, write_offset, acked_above, fin_marked,
                           fin_acked, final_size, reset, state, reset_in_flight>>

\* peekChunk() with nothing pending: a chunk that is only the FIN.
SendFin(p) ==
    /\ reset = "none"
    /\ pending = {}
    /\ FinOwed
    /\ next_key < MaxKey
    /\ next_key' = next_key + 1
    /\ in_flight' = in_flight \cup
          {[key |-> next_key, path |-> p, offset |-> final_size, length |-> 0,
            fin |-> TRUE, requeued |-> FALSE]}
    /\ fin_in_flight' = TRUE
    /\ UNCHANGED <<data, fin_marked, fin_acked, final_size,
                   probe_requeued_pending, reset, state, reset_in_flight>>

\* pollLevelOnPath: a RESET_STREAM that is not queued yet goes out.
SendReset(p) ==
    /\ reset = "unqueued"
    /\ next_key < MaxKey
    /\ next_key' = next_key + 1
    /\ reset' = "queued"
    /\ reset_in_flight' = reset_in_flight \cup {[key |-> next_key, path |-> p]}
    /\ UNCHANGED <<data, finVars, in_flight, probe_requeued_pending, state>>

-----------------------------------------------------------------------------
(* Loss recovery.                                                          *)

\* The packet builder appends to the path's tracker, and every sweep of it
\* (packet threshold, time threshold, a full tracker's PTO, a failed path)
\* declares packets lost from the oldest on: on one path nothing newer is
\* lost while something older is still tracked.
OldestOnPath(k, p) ==
    /\ \A c \in in_flight : c.path = p => k <= c.key
    /\ \A r \in reset_in_flight : r.path = p => k <= r.key

\* Mutant of AdvancedState: the FIN's acknowledgement alone ends the stream.
AdvancedOnFin(finAcked, floor, rst) ==
    IF state = "reset_sent"
    THEN IF rst = "acked" THEN "reset_recvd" ELSE state
    ELSE IF finAcked /\ fin_marked THEN "data_recvd" ELSE state

\* maybeAdvanceState(), with the values the step leaves behind.
AdvancedState(finAcked, floor, rst) ==
    IF state = "reset_sent"
    THEN IF rst = "acked" THEN "reset_recvd" ELSE state
    ELSE IF finAcked /\ fin_marked /\ floor = final_size
         THEN "data_recvd" ELSE state

\* Mutant of StripAcked: acknowledged bytes stay queued.
StripNothing(B) == pending

\* What a probe re-queued is not sent again once acknowledged.
StripAcked(B) == IF probe_requeued_pending THEN pending \ B ELSE pending

\* markAcked(): strip, then move the floor over everything acknowledged
\* contiguously, or stash above it.
MarkAcked(B) ==
    LET above == (acked_above \cup B) \ (0 .. (base_offset - 1))
    IN  /\ pending' = StripAcked(B)
        /\ probe_requeued_pending' =
              (probe_requeued_pending /\ (pending = {} \/ pending' # {}))
        /\ \E floor \in base_offset .. MaxOffset :
              /\ base_offset .. (floor - 1) \subseteq above
              /\ floor \notin above
              /\ base_offset' = floor
              /\ acked_above' = above \ (0 .. (floor - 1))

\* onPacketAcked(): any tracked packet may be acknowledged.
PacketAcked(c) ==
    /\ c \in in_flight
    /\ in_flight' = in_flight \ {c}
    /\ fin_acked' = (fin_acked \/ c.fin)
    /\ MarkAcked(Bytes(c))
    /\ state' = AdvancedState(fin_acked', base_offset', reset)
    /\ UNCHANGED <<write_offset, fin_marked, fin_in_flight, final_size, reset,
                   reset_in_flight, next_key>>

\* Mutant of Unacked: a chunk that starts below the floor is taken as acked.
UnackedWholeChunks(B) ==
    IF B \cap (0 .. (base_offset - 1)) = {} THEN B \ acked_above ELSE {}

\* addUnackedPending(): only what is neither below the floor nor acked above.
Unacked(B) == (B \ (0 .. (base_offset - 1))) \ acked_above

\* Mutant of FinOwedAgain: a lost FIN is not sent again.
FinNeverOwedAgain(c) == FALSE

\* A chunk that is queued again takes its unacknowledged FIN with it.
FinOwedAgain(c) == c.fin /\ ~fin_acked

\* onPacketLost(): the chunk is pending again, unless the stream was reset
\* or a probe re-queued it before.
PacketLost(c) ==
    LET requeue == reset = "none" /\ ~c.requeued
    IN  /\ c \in in_flight
        /\ OldestOnPath(c.key, c.path)
        /\ in_flight' = in_flight \ {c}
        /\ pending' = IF requeue THEN pending \cup Unacked(Bytes(c)) ELSE pending
        /\ fin_in_flight' = (fin_in_flight /\ ~(requeue /\ FinOwedAgain(c)))
        /\ UNCHANGED <<base_offset, write_offset, acked_above, fin_marked,
                       fin_acked, final_size, probe_requeued_pending, reset,
                       state, reset_in_flight, next_key>>

\* onPacketProbeRequeued(): a PTO sends the chunk's bytes again while the
\* packet stays tracked.  The walk of firePtoOnApplicationPath starts at the
\* oldest packet and stops at the first that still owns data.
PacketProbeRequeued(c) ==
    /\ c \in in_flight
    /\ ~c.requeued
    /\ \A d \in in_flight : (d.path = c.path /\ d.key < c.key) => d.requeued
    /\ in_flight' = (in_flight \ {c}) \cup {[c EXCEPT !.requeued = TRUE]}
    /\ IF reset # "none"
       THEN UNCHANGED <<pending, probe_requeued_pending, fin_in_flight>>
       ELSE /\ pending' = pending \cup Unacked(Bytes(c))
            /\ probe_requeued_pending' =
                  (probe_requeued_pending \/ (c.length > 0 /\ pending' # {}))
            /\ fin_in_flight' = (fin_in_flight /\ ~FinOwedAgain(c))
    /\ UNCHANGED <<base_offset, write_offset, acked_above, fin_marked,
                   fin_acked, final_size, reset, state, reset_in_flight,
                   next_key>>

\* onResetAcked()
ResetAcked(r) ==
    /\ r \in reset_in_flight
    /\ reset_in_flight' = reset_in_flight \ {r}
    /\ reset' = "acked"
    /\ state' = AdvancedState(fin_acked, base_offset, reset')
    /\ UNCHANGED <<data, finVars, in_flight, probe_requeued_pending, next_key>>

\* The flag part of onResetLost(): the frame is owed again unless acked.
RequeueReset == reset' = IF reset = "acked" THEN reset ELSE "unqueued"

\* onResetLost() for a packet declared lost.
ResetLost(r) ==
    /\ r \in reset_in_flight
    /\ OldestOnPath(r.key, r.path)
    /\ reset_in_flight' = reset_in_flight \ {r}
    /\ RequeueReset
    /\ UNCHANGED <<data, finVars, in_flight, probe_requeued_pending, state,
                   next_key>>

\* onResetLost() for a probe (requeueFramesForProbe): the packet stays.
ResetProbeRequeued(r) ==
    /\ r \in reset_in_flight
    /\ RequeueReset
    /\ UNCHANGED <<data, finVars, in_flight, probe_requeued_pending, state,
                   reset_in_flight, next_key>>

Next ==
    \/ \E n \in 1..MaxOffset : Write(n)
    \/ Finish
    \/ ResetStream
    \/ \E p \in Paths, n \in 1..MaxOffset : SendChunk(p, n)
    \/ \E p \in Paths : SendFin(p)
    \/ \E p \in Paths : SendReset(p)
    \/ \E c \in in_flight : PacketAcked(c)
    \/ \E c \in in_flight : PacketLost(c)
    \/ \E c \in in_flight : PacketProbeRequeued(c)
    \/ \E r \in reset_in_flight : ResetAcked(r)
    \/ \E r \in reset_in_flight : ResetLost(r)
    \/ \E r \in reset_in_flight : ResetProbeRequeued(r)

Spec == Init /\ [][Next]_vars

-----------------------------------------------------------------------------
(* Properties.                                                             *)

\* Every field keeps its type; the floor never passes the write offset
\* (the two assertions of advanceFloor).
TypeOK ==
    /\ write_offset \in 0..MaxOffset
    /\ base_offset \in 0..write_offset
    /\ pending \in SUBSET (0..(write_offset - 1))
    /\ acked_above \in SUBSET (0..(write_offset - 1))
    /\ in_flight \in SUBSET Chunk
    /\ fin_marked \in BOOLEAN
    /\ fin_in_flight \in BOOLEAN
    /\ fin_acked \in BOOLEAN
    /\ probe_requeued_pending \in BOOLEAN
    /\ final_size \in {NoSize} \cup 0..MaxOffset
    /\ reset \in Resets
    /\ state \in States
    /\ reset_in_flight \in SUBSET ResetPacket
    /\ next_key \in 0..MaxKey

\* Retransmission never loses track of a byte: as long as the stream is not
\* reset, every buffered byte is acknowledged, queued, or carried by a packet
\* whose loss would queue it (onPacketLost skips probe-requeued packets, so
\* those do not count).  markAcked, onPacketLost, onPacketProbeRequeued and
\* recordSent must agree on this in every order.
NoByteForgotten ==
    reset = "none" =>
        \A b \in Window :
            \/ b \in acked_above
            \/ b \in pending
            \/ \E c \in in_flight : ~c.requeued /\ b \in Bytes(c)

\* The same for the FIN: fin_in_flight stays set only while some packet that
\* no probe superseded carries it, so a lost FIN is always sent again.
NoFinForgotten ==
    (reset = "none" /\ fin_in_flight /\ ~fin_acked) =>
        \E c \in in_flight : c.fin /\ ~c.requeued

\* The same for RESET_STREAM: a reset that is marked sent and not acked is in
\* some tracked packet (onResetLost re-arms it when that packet is lost).
NoResetForgotten == reset = "queued" => reset_in_flight # {}

\* What retransmission owes the peer, together: whatever order acks, losses,
\* probes and late answers come in, no byte, no FIN and no RESET_STREAM is left
\* without an acknowledgement, a place in the queue or a packet whose loss
\* would queue it (SendStream.zig, onPacketAcked / Lost / ProbeRequeued).
NothingForgotten == NoByteForgotten /\ NoFinForgotten /\ NoResetForgotten

\* The comment on the field `pending`: ranges are a subset of
\* [base_offset, write_offset).  peekChunk hands the first one to
\* chunkBytesContiguous, which subtracts base_offset from its offset.
PendingInWindow == pending \subseteq Window

\* An acknowledged byte is never queued again: acks strip it from pending,
\* losses and probes re-queue only unacknowledged bytes.
AckedNotPending == pending \cap acked_above = {}

\* A terminal stream has nothing left to send: reclaiming it (streams.zig,
\* streamReclaimable) drops no data, and data_recvd means that every byte up
\* to the final size was acknowledged.
TerminalIsDone ==
    state \in {"data_recvd", "reset_recvd"} =>
        /\ ~HasPendingChunk
        /\ state = "data_recvd" =>
              fin_acked /\ base_offset = final_size /\ final_size = write_offset

IsTerminal == state \in {"data_recvd", "reset_recvd"}

\* isTerminal() never becomes false again, the acknowledged floor never moves
\* back and a final size never changes, whatever acks and losses come late.
Monotone ==
    [][/\ IsTerminal => IsTerminal'
       /\ base_offset' >= base_offset
       /\ final_size # NoSize => final_size' = final_size]_vars
=============================================================================
