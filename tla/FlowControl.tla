----------------------------- MODULE FlowControl ------------------------------
(***************************************************************************)
(* Stream and connection flow control of one direction of a connection:    *)
(* the sender's credit (src/src/Connection/streams.zig, recv_flow_handlers)*)
(* against the receiver's windows (src/src/Connection/flow.zig,            *)
(* recv_data_handlers, recv_stream_control_handlers), with the STREAM,     *)
(* RESET_STREAM, MAX_DATA and MAX_STREAM_DATA frames between them lost,    *)
(* late or sent again.  Retransmission and reassembly are SendStream's and *)
(* RecvStream's business: here a stream is the bytes it still has to send, *)
(* the bytes the receiver holds, and the counters credit is given by.  The *)
(* windows do not tune themselves (auto_tune_receive_windows = false).     *)
(***************************************************************************)
EXTENDS Integers, FiniteSets, FiniteSetsExt, Functions

CONSTANTS
    Streams,       \* the streams that share the connection window
    Resettable,    \* the streams whose sending application may reset them
    MaxOffset,     \* bound: bytes written on a stream
    StreamWindow,  \* initial_max_stream_data, and the window kept open
    ConnWindow,    \* initial_max_data, and the window kept open
    MaxLosses      \* bound: packets declared lost

ASSUME FlowAssumption ==
    /\ Resettable \subseteq Streams /\ IsFiniteSet(Streams) /\ "connection" \notin Streams
    /\ MaxOffset \in Nat /\ MaxLosses \in Nat
    /\ StreamWindow \in Nat \ {0}
    /\ ConnWindow \in Nat \ {0}

VARIABLES
    \* the sender
    write_offset,       \* SendStream.write_offset per stream
    pending,            \* SendStream.pending per stream
    send_flow_highest,  \* one past the highest byte ever sent per stream
    send_max_data,      \* the peer's stream limit as known here
    we_sent_stream_data,
    peer_max_data,      \* the peer's connection limit as known here
    send_reset,         \* ResetInfo: "none", "owed", "sent"
    \* the receiver
    ranges,             \* bytes received and not read, per stream
    read_offset,
    end_offset,
    recv_max_data,      \* the stream limit granted
    recv_reset,         \* RESET_STREAM's final size, or NoSize
    peer_sent_stream_data,
    local_max_data,     \* the connection limit granted
    recv_stream_bytes_read,
    queued,             \* pending MAX_* frames: the value per scope, 0 = none
    closed,             \* the connection was closed with FLOW_CONTROL_ERROR
    \* the network and loss detection
    net,                \* STREAM and RESET_STREAM frames on their way
    credit_net,         \* MAX_* frames on their way
    credit_sent,        \* MAX_* frames sent and neither acked nor lost
    losses

senderVars == <<write_offset, pending, send_flow_highest, we_sent_stream_data,
                send_reset>>
limitVars  == <<send_max_data, peer_max_data>>
recvVars   == <<ranges, read_offset, end_offset, recv_max_data, recv_reset,
                peer_sent_stream_data, local_max_data, recv_stream_bytes_read,
                queued, closed>>
creditVars == <<credit_net, credit_sent>>
vars == <<senderVars, limitVars, recvVars, net, creditVars, losses>>

NoSize == -1
Conn   == "connection"
Scopes == Streams \cup {Conn}

Least(x, y)    == IF x < y THEN x ELSE y
Greatest(x, y) == IF x > y THEN x ELSE y
Span(from, to) == from .. (to - 1)

Init ==
    /\ write_offset = [s \in Streams |-> 0]
    /\ pending = [s \in Streams |-> {}]
    /\ send_flow_highest = [s \in Streams |-> 0]
    /\ send_max_data = [s \in Streams |-> StreamWindow]
    /\ we_sent_stream_data = 0
    /\ peer_max_data = ConnWindow
    /\ send_reset = [s \in Streams |-> "none"]
    /\ ranges = [s \in Streams |-> {}]
    /\ read_offset = [s \in Streams |-> 0]
    /\ end_offset = [s \in Streams |-> 0]
    /\ recv_max_data = [s \in Streams |-> StreamWindow]
    /\ recv_reset = [s \in Streams |-> NoSize]
    /\ peer_sent_stream_data = 0
    /\ local_max_data = ConnWindow
    /\ recv_stream_bytes_read = 0
    /\ queued = [x \in Scopes |-> 0]
    /\ closed = FALSE
    /\ net = {}
    /\ credit_net = {}
    /\ credit_sent = {}
    /\ losses = 0

-----------------------------------------------------------------------------
(* The sender.                                                             *)

\* streamWrite(): the buffer takes bytes the credit does not cover yet.
Write(s, n) ==
    /\ send_reset[s] = "none"
    /\ write_offset[s] + n <= MaxOffset
    /\ write_offset' = [write_offset EXCEPT ![s] = @ + n]
    /\ pending' = [pending EXCEPT ![s] =
          @ \cup Span(write_offset[s], write_offset[s] + n)]
    /\ UNCHANGED <<send_flow_highest, we_sent_stream_data, send_reset,
                   limitVars, recvVars, net, creditVars, losses>>

\* streamReset(): what is pending is dropped, RESET_STREAM is owed.
ResetStream(s) ==
    /\ s \in Resettable
    /\ send_reset[s] = "none"
    /\ send_reset' = [send_reset EXCEPT ![s] = "owed"]
    /\ pending' = [pending EXCEPT ![s] = {}]
    /\ UNCHANGED <<write_offset, send_flow_highest, we_sent_stream_data,
                   limitVars, recvVars, net, creditVars, losses>>

\* Mutant of AllowedEnd: the connection limit is not consulted.
AllowedByStream(s, offset) ==
    Greatest(offset, send_flow_highest[s])
        + Greatest(0, send_max_data[s] - send_flow_highest[s])

\* limitChunkToSendFlowAfterPlanned(): how far a chunk at `offset` may reach.
\* Bytes below send_flow_highest were charged before and are free.
AllowedEnd(s, offset) ==
    LET allowance == Least(send_max_data[s] - send_flow_highest[s],
                           peer_max_data - we_sent_stream_data)
    IN  Greatest(offset, send_flow_highest[s]) + Greatest(0, allowance)

\* A STREAM frame with n bytes from the first pending range goes out, and
\* recordStreamFlowSent charges what is new.
SendData(s, n) ==
    LET offset == Min(pending[s])
        end    == offset + n
        new    == Greatest(0, end - send_flow_highest[s])
    IN  /\ pending[s] # {}
        /\ Span(offset, end) \subseteq pending[s]
        /\ end <= AllowedEnd(s, offset)
        /\ pending' = [pending EXCEPT ![s] = @ \ Span(offset, end)]
        /\ send_flow_highest' = [send_flow_highest EXCEPT ![s] = @ + new]
        /\ we_sent_stream_data' = we_sent_stream_data + new
        /\ net' = net \cup {[kind |-> "stream", stream |-> s,
                             offset |-> offset, end |-> end]}
        /\ UNCHANGED <<write_offset, send_reset, limitVars, recvVars,
                       creditVars, losses>>

\* RESET_STREAM goes out with the final size resetStream() recorded, the
\* write offset.
SendReset(s) ==
    /\ send_reset[s] = "owed"
    /\ send_reset' = [send_reset EXCEPT ![s] = "sent"]
    /\ net' = net \cup {[kind |-> "reset", stream |-> s,
                         offset |-> write_offset[s], end |-> write_offset[s]]}
    /\ UNCHANGED <<write_offset, pending, send_flow_highest,
                   we_sent_stream_data, limitVars, recvVars, creditVars, losses>>

\* The packet with frame f is declared lost: rightly (it is gone) or not (it
\* arrives later).  Stream data is pending again, a RESET_STREAM owed again.
LoseData(f, gone) ==
    LET s == f.stream
    IN  /\ losses < MaxLosses
        /\ losses' = losses + 1
        /\ net' = IF gone THEN net \ {f} ELSE net
        /\ IF f.kind = "reset"
           THEN /\ send_reset' = [send_reset EXCEPT ![s] = "owed"]
                /\ UNCHANGED pending
           ELSE /\ pending' = [pending EXCEPT ![s] = IF send_reset[s] = "none"
                                 THEN @ \cup Span(f.offset, f.end) ELSE @]
                /\ UNCHANGED send_reset
        /\ UNCHANGED <<write_offset, send_flow_highest, we_sent_stream_data,
                       limitVars, recvVars, creditVars>>

-----------------------------------------------------------------------------
(* The receiver.                                                           *)

\* creditPeerStreamHighWater(): what a frame that reaches `end` is charged.
Charge(s, end) == Greatest(0, end - end_offset[s])

WithinCredit(s, end) ==
    /\ Greatest(end_offset[s], end) <= recv_max_data[s]
    /\ Charge(s, end) > 0 =>
          peer_sent_stream_data + Charge(s, end) <= local_max_data

\* shouldQueueReceiveCredit()
CreditDue(consumed, advertised, window) ==
    /\ consumed # 0
    /\ consumed + window > advertised
    /\ consumed >= advertised \/ advertised - consumed <= window \div 2

\* The limit announced next: a full window beyond what was consumed.
NewLimit(consumed, advertised, window) == consumed + window

\* creditConnectionRecvWindow(n), and on stream s (or on none) the
\* MAX_STREAM_DATA afterStreamConsume queues for the new read offset.
GiveCredit(n, s, consumed) ==
    LET read   == recv_stream_bytes_read + n
        max    == NewLimit(read, local_max_data, ConnWindow)
        smax   == NewLimit(consumed, recv_max_data[s], StreamWindow)
        conn   == n > 0 /\ CreditDue(read, local_max_data, ConnWindow)
        stream == s # Conn /\ CreditDue(consumed, recv_max_data[s], StreamWindow)
    IN  /\ recv_stream_bytes_read' = read
        /\ local_max_data' = IF conn THEN max ELSE local_max_data
        /\ recv_max_data' =
              IF stream THEN [recv_max_data EXCEPT ![s] = smax] ELSE recv_max_data
        /\ queued' = [x \in Scopes |->
              IF x = Conn /\ conn THEN Greatest(queued[x], max)
              ELSE IF x = s /\ stream THEN Greatest(queued[x], smax)
              ELSE queued[x]]

\* handleStream()
RecvData(f) ==
    LET s == f.stream
    IN  /\ f.kind = "stream"
        /\ ~closed
        /\ net' = net \ {f}
        /\ IF ~WithinCredit(s, f.end)
           THEN /\ closed' = TRUE
                /\ UNCHANGED <<ranges, end_offset, peer_sent_stream_data>>
           ELSE /\ peer_sent_stream_data' = peer_sent_stream_data + Charge(s, f.end)
                /\ IF recv_reset[s] # NoSize
                   THEN UNCHANGED <<ranges, end_offset>>
                   ELSE /\ ranges' = [ranges EXCEPT ![s] =
                              @ \cup (Span(f.offset, f.end) \ Span(0, read_offset[s]))]
                        /\ end_offset' = [end_offset EXCEPT ![s] =
                              Greatest(@, f.end)]
                /\ UNCHANGED closed
        /\ UNCHANGED <<senderVars, limitVars, read_offset, recv_max_data,
                       recv_reset, local_max_data, recv_stream_bytes_read,
                       queued, creditVars, losses>>

\* Mutant of Abandoned: bytes nobody reads stay charged.
AbandonedKept(s, size) == 0

\* What the first RESET_STREAM gives back to the connection window.
Abandoned(s, size) ==
    IF recv_reset[s] = NoSize THEN size - read_offset[s] ELSE 0

\* handleResetStream(): the final size is charged like data, and the bytes
\* nobody will read are given back to the connection window once.
RecvReset(f) ==
    LET s == f.stream
    IN  /\ f.kind = "reset"
        /\ ~closed
        /\ net' = net \ {f}
        /\ IF ~WithinCredit(s, f.end)
           THEN /\ closed' = TRUE
                /\ UNCHANGED <<ranges, recv_reset, peer_sent_stream_data,
                               recv_max_data, local_max_data,
                               recv_stream_bytes_read, queued>>
           ELSE /\ peer_sent_stream_data' = peer_sent_stream_data + Charge(s, f.end)
                /\ recv_reset' = [recv_reset EXCEPT ![s] = f.end]
                /\ ranges' = [ranges EXCEPT ![s] = {}]
                /\ GiveCredit(Abandoned(s, f.end), Conn, 0)
                /\ UNCHANGED closed
        /\ UNCHANGED <<senderVars, limitVars, read_offset, end_offset,
                       creditVars, losses>>

\* Mutant of Readable: a consumer is not held to the bytes that are there.
ReadableAny(s, n) == ranges[s] # {}

\* peek(): n in-order bytes are there.
Readable(s, n) == Span(read_offset[s], read_offset[s] + n) \subseteq ranges[s]

\* streamRead(): n in-order bytes, then afterStreamConsume().
Read(s, n) ==
    LET to == read_offset[s] + n
    IN  /\ ~closed
        /\ Readable(s, n)
        /\ ranges' = [ranges EXCEPT ![s] = @ \ Span(0, to)]
        /\ read_offset' = [read_offset EXCEPT ![s] = to]
        /\ GiveCredit(n, s, to)
        /\ UNCHANGED <<senderVars, limitVars, end_offset, recv_reset,
                       peer_sent_stream_data, closed, net, creditVars, losses>>

-----------------------------------------------------------------------------
(* MAX_DATA and MAX_STREAM_DATA on their way to the sender.                *)

\* A queued frame goes out and is tracked until acknowledged or lost.
SendCredit(x) ==
    LET f == [scope |-> x, value |-> queued[x]]
    IN  /\ ~closed
        /\ queued[x] # 0
        /\ queued' = [queued EXCEPT ![x] = 0]
        /\ credit_net' = credit_net \cup {f}
        /\ credit_sent' = credit_sent \cup {f}
        /\ UNCHANGED <<senderVars, limitVars, ranges, read_offset, end_offset,
                       recv_max_data, recv_reset, peer_sent_stream_data,
                       local_max_data, recv_stream_bytes_read, closed, net,
                       losses>>

\* handleMaxData() / handleMaxStreamData(): a limit only ever rises.
RecvCredit(f) ==
    /\ credit_net' = credit_net \ {f}
    /\ IF f.scope = Conn
       THEN /\ peer_max_data' = Greatest(peer_max_data, f.value)
            /\ UNCHANGED send_max_data
       ELSE /\ send_max_data' = [send_max_data EXCEPT ![f.scope] =
                  Greatest(@, f.value)]
            /\ UNCHANGED peer_max_data
    /\ UNCHANGED <<senderVars, recvVars, net, credit_sent, losses>>

Limit(x)   == IF x = Conn THEN peer_max_data ELSE send_max_data[x]
Granted(x) == IF x = Conn THEN local_max_data ELSE recv_max_data[x]

\* An acknowledged credit frame is forgotten.  Only a frame that arrived is
\* acknowledged: the sender then knows at least its value.
CreditAcked(f) ==
    /\ Limit(f.scope) >= f.value
    /\ credit_sent' = credit_sent \ {f}
    /\ UNCHANGED <<senderVars, limitVars, recvVars, net, credit_net, losses>>

\* Mutant of LoseCredit: a lost credit frame is not queued again.
LoseCreditSilently(f, gone) ==
    /\ losses < MaxLosses
    /\ losses' = losses + 1
    /\ credit_sent' = credit_sent \ {f}
    /\ credit_net' = IF gone THEN credit_net \ {f} ELSE credit_net
    /\ UNCHANGED <<senderVars, limitVars, recvVars, net>>

\* dispatchLostControlFrames: queueMaxData / queueMaxStreamData again with
\* the value of the lost frame.
LoseCredit(f, gone) ==
    /\ losses < MaxLosses
    /\ losses' = losses + 1
    /\ credit_sent' = credit_sent \ {f}
    /\ credit_net' = IF gone THEN credit_net \ {f} ELSE credit_net
    /\ queued' = [queued EXCEPT ![f.scope] = Greatest(@, f.value)]
    /\ UNCHANGED <<senderVars, limitVars, ranges, read_offset, end_offset,
                   recv_max_data, recv_reset, peer_sent_stream_data,
                   local_max_data, recv_stream_bytes_read, closed, net>>

Next ==
    \/ \E s \in Streams, n \in 1..MaxOffset : Write(s, n)
    \/ \E s \in Streams : ResetStream(s)
    \/ \E s \in Streams, n \in 1..MaxOffset : SendData(s, n)
    \/ \E s \in Streams : SendReset(s)
    \/ \E f \in net, gone \in BOOLEAN : LoseData(f, gone)
    \/ \E f \in net : RecvData(f)
    \/ \E f \in net : RecvReset(f)
    \/ \E s \in Streams, n \in 1..MaxOffset : Read(s, n)
    \/ \E x \in Scopes : SendCredit(x)
    \/ \E f \in credit_net : RecvCredit(f)
    \/ \E f \in credit_sent : CreditAcked(f)
    \/ \E f \in credit_sent, gone \in BOOLEAN : LoseCredit(f, gone)

\* The endpoints poll, process datagrams and the reader reads every stream.
Fairness ==
    /\ \A s \in Streams : /\ WF_vars(\E n \in 1..MaxOffset : SendData(s, n))
                          /\ WF_vars(SendReset(s))
                          /\ WF_vars(\E n \in 1..MaxOffset : Read(s, n))
    /\ WF_vars(\E f \in net : RecvData(f) \/ RecvReset(f))
    /\ \A x \in Scopes : WF_vars(SendCredit(x))
    /\ WF_vars(\E f \in credit_net : RecvCredit(f))

Spec == Init /\ [][Next]_vars
FairSpec == Spec /\ Fairness

-----------------------------------------------------------------------------
(* Properties.                                                             *)

\* Every field keeps its type: limits and marks of a stream stay within what
\* was written of it, and no counter of the connection ever goes below zero.
TypeOK ==
    /\ write_offset \in [Streams -> 0..MaxOffset]
    /\ pending \in [Streams -> SUBSET (0..MaxOffset)]
    /\ send_flow_highest \in [Streams -> 0..MaxOffset]
    /\ send_max_data \in [Streams -> Nat]
    /\ {we_sent_stream_data, peer_max_data, peer_sent_stream_data,
        local_max_data, recv_stream_bytes_read, losses} \subseteq Nat
    /\ send_reset \in [Streams -> {"none", "owed", "sent"}]
    /\ ranges \in [Streams -> SUBSET (0..MaxOffset)]
    /\ read_offset \in [Streams -> 0..MaxOffset]
    /\ end_offset \in [Streams -> 0..MaxOffset]
    /\ recv_max_data \in [Streams -> Nat]
    /\ recv_reset \in [Streams -> {NoSize} \cup 0..MaxOffset]
    /\ queued \in [Scopes -> Nat]
    /\ closed \in BOOLEAN

NoReset == \A s \in Streams : send_reset[s] = "none"

\* While no stream is reset, two endpoints that both run this code never close
\* each other's connection with FLOW_CONTROL_ERROR: every frame the sender's
\* accounting lets out fits the receiver's, however credit, data and
\* retransmissions cross.
NoFlowControlError == NoReset => ~closed

\* The same of a reset stream: the comment on creditPeerStreamHighWater, "a
\* RESET_STREAM final size counts against stream and connection flow control
\* exactly as delivered STREAM data does", taken together with the sender's
\* duty to stay inside the limits it knows.
ResetKeepsLimits == ~closed

\* While no stream is reset, the receiver never counts a byte the sender has
\* not counted.
BytesAgree == NoReset => peer_sent_stream_data <= we_sent_stream_data

\* The comment on peer_sent_stream_data, "Sum of per-stream receive high-water
\* marks the peer has forced": each stream counts its highest byte, or its
\* final size once reset, exactly once.
ChargedOnce ==
    peer_sent_stream_data =
        FoldFunctionOnSet(LAMBDA a, b : a + b, 0,
            [s \in Streams |-> Greatest(end_offset[s], recv_reset[s])], Streams)

\* Credit is never forgotten: while the sender does not know the limit the
\* receiver granted, a frame with that limit is queued or tracked, so its
\* loss would send it again.  (Otherwise both sides could wait for ever.)
NoCreditForgotten ==
    \A x \in Scopes :
        \/ Limit(x) = Granted(x)
        \/ queued[x] = Granted(x)
        \/ [scope |-> x, value |-> Granted(x)] \in credit_sent

\* The two ends' books: of bytes on the way out, of credit on the way back.
AccountsAgree == BytesAgree /\ NoCreditForgotten

\* No credit deadlock: again and again everything written has been read, on
\* every stream that is not reset, also when another stream was reset with
\* bytes nobody read, and whatever credit frames were lost.
AllRead ==
    []<>(closed \/ \A s \in Streams :
            send_reset[s] # "none" \/ read_offset[s] = write_offset[s])
=============================================================================
