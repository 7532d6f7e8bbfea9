---------------------------- MODULE StreamTransfer ----------------------------
(***************************************************************************)
(* One direction of a stream end to end: SendStream on one endpoint,       *)
(* RecvStream on the other, and between them a network that loses and      *)
(* reorders packets and a loss detector that is sometimes wrong.  A packet *)
(* carries one frame of the stream.  The receiver processes a packet       *)
(* number once (AckTracker.contains), so a duplicated packet is no step.   *)
(*                                                                         *)
(* SendStream's Init, Next and vars are the sender's, RecvInit, RecvNext   *)
(* and recvVars the receiver's, TransferInit and so on those of the whole. *)
(*                                                                         *)
(* The refinement: read together, the two halves implement ReliableStream. *)
(***************************************************************************)
EXTENDS SendStream, RecvStream

CONSTANT MaxFaults  \* bound: packets dropped plus timers that fire too early

ASSUME TransferAssumption ==
    SendStreamAssumption /\ RecvStreamAssumption /\ MaxFaults \in Nat

VARIABLES
    net,        \* packets on their way
    received,   \* packet numbers the receiver has processed
    largest,    \* the largest packet number acknowledged to the sender
    faults      \* faults so far

sendVars == vars
transferVars == <<sendVars, recvVars, net, received, largest, faults>>

TransferInit ==
    /\ Init
    /\ RecvInit
    /\ net = {}
    /\ received = {}
    /\ largest = -1
    /\ faults = 0

-----------------------------------------------------------------------------
(* The two applications.                                                   *)

AppWrites ==
    /\ \/ \E n \in 1..MaxOffset : Write(n)
       \/ Finish
       \/ ResetStream
    /\ UNCHANGED <<recvVars, net, received, largest, faults>>

AppReads ==
    /\ \/ \E n \in 1..MaxOffset : Consume(n)
       \/ MarkRead
    /\ UNCHANGED <<sendVars, net, received, largest, faults>>

-----------------------------------------------------------------------------
(* Packets.                                                                *)

\* What the packet that carries chunk c, or the RESET_STREAM, looks like.
DataPacket(c) == [key |-> c.key, kind |-> "stream", offset |-> c.offset,
                  length |-> c.length, fin |-> c.fin]

\* Mutant of ResetFrame: the final size is the acknowledged floor.
ResetFrameFloor(k) == [key |-> k, kind |-> "reset", offset |-> base_offset,
                       length |-> 0, fin |-> FALSE]

ResetFrame(k) == [key |-> k, kind |-> "reset", offset |-> write_offset,
                  length |-> 0, fin |-> FALSE]

\* limitChunkToSendFlow(), with credit that comes at once (FlowControl has it
\* late): what is sent fits the receiver's window, which is never configured
\* wider than max_buffered_span (max_initial_stream_receive_window).
WithinWindow(c) == c.offset + c.length <= read_offset + MaxSpan

\* poll(): one packet with what the stream owes.
Send ==
    /\ \/ \E p \in Paths, n \in 1..MaxOffset :
             /\ SendChunk(p, n)
             /\ \A c \in in_flight' \ in_flight : WithinWindow(c)
             /\ net' = net \cup {DataPacket(c) : c \in in_flight' \ in_flight}
       \/ \E p \in Paths :
             /\ SendFin(p)
             /\ net' = net \cup {DataPacket(c) : c \in in_flight' \ in_flight}
       \/ \E p \in Paths :
             /\ SendReset(p)
             /\ net' = net \cup {ResetFrame(next_key)}
    /\ UNCHANGED <<recvVars, received, largest, faults>>

Drop(m) ==
    /\ faults < MaxFaults
    /\ faults' = faults + 1
    /\ net' = net \ {m}
    /\ UNCHANGED <<sendVars, recvVars, received, largest>>

\* handleStream / handleResetStream on the receiver.  A frame that finds the
\* stream reset or complete changes nothing and is acknowledged all the same.
Apply(m) ==
    IF m.kind = "reset" THEN PeerReset(m.offset)
                        ELSE Recv(m.offset, m.length, m.fin)

Ignored(m) ==
    /\ closed = "none"
    /\ \/ r_reset
       \/ /\ m.kind = "stream"
          /\ r_state \in {"data_recvd", "data_read"}
          /\ RecvError(m.offset, m.length, m.fin) = "none"

Deliver(m) ==
    /\ net' = net \ {m}
    /\ received' = received \cup {m.key}
    /\ \/ Apply(m)
       \/ Ignored(m) /\ UNCHANGED recvVars
    /\ UNCHANGED <<sendVars, largest, faults>>

-----------------------------------------------------------------------------
(* Loss recovery on the sender.                                            *)

AckArrives(k) ==
    /\ k \in received
    /\ \/ \E c \in in_flight : c.key = k /\ PacketAcked(c)
       \/ \E r \in reset_in_flight : r.key = k /\ ResetAcked(r)
    /\ largest' = IF k > largest THEN k ELSE largest
    /\ UNCHANGED <<recvVars, net, received, faults>>

\* A packet older than one acknowledged is declared lost (packet or time
\* threshold).  When it did arrive, or is still to arrive, that is a fault.
Wrong(k) == k \in received \/ \E m \in net : m.key = k

DeclareLost(k) ==
    /\ k < largest
    /\ Wrong(k) => faults < MaxFaults
    /\ faults' = IF Wrong(k) THEN faults + 1 ELSE faults
    /\ \/ \E c \in in_flight : c.key = k /\ PacketLost(c)
       \/ \E r \in reset_in_flight : r.key = k /\ ResetLost(r)
    /\ UNCHANGED <<recvVars, net, received, largest>>

\* Nothing the sender has sent can still be answered.
Quiet == net = {} /\ \A k \in received : \A c \in in_flight \cup reset_in_flight :
                         c.key # k

\* A probe timeout fires; while an answer is still on its way, too early.
Probe ==
    /\ ~Quiet => faults < MaxFaults
    /\ faults' = IF Quiet THEN faults ELSE faults + 1
    /\ \/ \E c \in in_flight : PacketProbeRequeued(c)
       \/ \E r \in reset_in_flight : ResetProbeRequeued(r) /\ reset = "queued"
    /\ UNCHANGED <<recvVars, net, received, largest>>

TransferNext ==
    \/ AppWrites
    \/ AppReads
    \/ Send
    \/ \E m \in net : Drop(m)
    \/ \E m \in net : Deliver(m)
    \/ \E k \in received : AckArrives(k)
    \/ \E k \in 0..MaxKey : DeclareLost(k)
    \/ Probe

\* The embedder's loop polls, feeds datagrams in and ticks the timers; the
\* reader reads.  Nothing makes the writer write, finish or reset.
Fairness ==
    /\ WF_transferVars(Send)
    /\ WF_transferVars(\E m \in net : Deliver(m))
    /\ WF_transferVars(\E k \in received : AckArrives(k))
    /\ WF_transferVars(Probe)
    /\ WF_transferVars(AppReads)

TransferSpec == TransferInit /\ [][TransferNext]_transferVars
FairSpec == TransferSpec /\ Fairness

-----------------------------------------------------------------------------
(* Properties.                                                             *)

\* A sender that obeys SendStream never makes RecvStream close the connection:
\* every copy, split or merge of a retransmitted chunk agrees on the final
\* size, after a reset too.
NoPeerError == closed = "none"

\* The two ends agree on the end: nothing is read that was not written, a FIN
\* the receiver saw names the sender's final size, and a sender in data_recvd
\* (which frees the stream) has a receiver with the FIN and every byte.
EndAgreed ==
    /\ read_offset <= write_offset
    /\ fin_seen => fin_marked /\ r_final_size = final_size
    /\ (state = "data_recvd" /\ ~r_reset) =>
          fin_seen /\ 0 .. (final_size - 1) \subseteq (0 .. (read_offset - 1)) \cup ranges

\* Seen from the receiver and from both ends at once: neither finds fault with
\* the end the other names.
EndsAgree == NoPeerError /\ EndAgreed

\* The length of the in-order prefix the receiver holds.
InOrder == CHOOSE n \in read_offset .. MaxOffset :
              /\ read_offset .. (n - 1) \subseteq ranges
              /\ n \notin ranges

A == INSTANCE ReliableStream WITH
        written   <- write_offset,
        finished  <- fin_marked,
        aborted   <- reset # "none",
        arrived   <- InOrder,
        delivered <- read_offset,
        ended     <- IF r_reset THEN "reset"
                     ELSE IF r_state \in {"data_recvd", "data_read"} THEN "fin"
                     ELSE "open",
        confirmed <- state = "data_recvd" /\ reset = "none"

\* Every step of the two halves, the network and the timers is a step of the
\* abstract reliable stream, or leaves it alone.
ImplementsReliableStream == A!Spec

\* A stream that was finished or reset ends on both sides: whatever MaxFaults
\* drops, early timers and false losses do, the sender becomes terminal (its
\* memory can be reclaimed) and the reader hears of the end.
BothEnd ==
    (fin_marked \/ reset # "none") ~>
        (IsTerminal /\ r_state \in {"data_read", "reset_read"})
=============================================================================
