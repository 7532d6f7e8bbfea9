------------------------------- MODULE Recovery -------------------------------
(***************************************************************************)
(* Loss recovery in one application packet number space: the packets in    *)
(* flight (src/src/conn/SentPacketTracker.zig), what an ACK, a loss sweep  *)
(* and a probe timeout do with their frames                                *)
(* (src/src/Connection/recv_ack_handlers.zig, loss.zig), the losses        *)
(* remembered in case they arrive (src/src/conn/ReorderWindow.zig) and the *)
(* controller's loss episodes (src/src/conn/congestion.zig).               *)
(*                                                                         *)
(* Packets are lost, delayed and reordered: an ACK frame covers any of the *)
(* packets sent, so a packet is acknowledged late or never, and ACK frames *)
(* are lost, repeated and reordered too.  Every packet is ack-eliciting    *)
(* and of one size, a packet number stands for its send time, and the      *)
(* window is a number of packets.                                          *)
(***************************************************************************)
EXTENDS Integers, Sequences, FiniteSets, FiniteSetsExt

CONSTANTS
    Stream, Crypto,  \* data: a STREAM frame (of a stream each), a CRYPTO range
    Control,         \* control frames, queued as often as there is a reason to
    MaxPn,           \* bound: packets ever sent
    MaxInFlight,     \* SentPacketTracker capacity
    Cwnd,            \* the congestion window, in packets
    PacketThreshold, \* initial_packet_threshold
    RingSlots,       \* ReorderWindow.ring_slots
    MaxMarks         \* bound: higher counts of marks reported (ECN-CE)

ASSUME RecoveryAssumption ==
    /\ MaxPn \in Nat \ {0} /\ MaxInFlight \in Nat \ {0} /\ Cwnd \in Nat \ {0}
    /\ PacketThreshold \in Nat \ {0} /\ RingSlots \in Nat \ {0} /\ MaxMarks \in Nat
    /\ Stream \cap Crypto = {} /\ (Stream \cup Crypto) \cap Control = {}

VARIABLES
    next_pn,       \* PnSpace.next_pn
    sent,          \* SentPacketTracker: packet numbers in flight
    owned,         \* per packet number: the frames on record for it
    copied,        \* those of them a probe queued again (requeued_for_probe,
                   \* probe_requeued)
    queued,        \* frames waiting to be sent (again)
    probe_pending, \* streams with probe_requeued_pending
    acked,         \* frames of acknowledged packets
    largest_acked, \* PnSpace.largest_acked_sent
    pending_ping, pto_probe_count,
    packet_rule,   \* packet_threshold is the initial one, not the widest
    lost_ring,     \* ReorderWindow.records, oldest first
    episodes,      \* LossEpisodes; next_pn when the last opened; those taken back
    recovery_start,\* next_pn when the recovery period began
    counted,       \* per packet declared lost: the episode it was counted in
    marks,         \* marks reported, and the episodes they opened
    received       \* packets the peer acknowledged: the ones it has

frameVars   == <<owned, copied, queued, probe_pending, acked>>
flightVars  == <<next_pn, sent, frameVars, largest_acked>>
probeVars   == <<pending_ping, pto_probe_count>>
reorderVars == <<packet_rule, lost_ring>>
ccVars      == <<episodes, recovery_start, counted, marks>>
vars == <<flightVars, probeVars, reorderVars, ccVars, received>>

Pns    == 0 .. (MaxPn - 1)
Data   == Stream \cup Crypto
Frames == Data \cup Control
None   == -1

Init ==
    /\ next_pn = 0 /\ sent = {} /\ queued = Frames /\ acked = {}
    /\ owned = [p \in Pns |-> {}] /\ copied = [p \in Pns |-> {}]
    /\ probe_pending = {} /\ largest_acked = None
    /\ pending_ping = FALSE /\ pto_probe_count = 0
    /\ packet_rule = TRUE /\ lost_ring = <<>>
    /\ episodes = [episode |-> 0, pending |-> 0, undoable |-> FALSE,
                   prev_pending |-> 0, prev_undoable |-> FALSE, opened_at |-> 0, undone |-> {}]
    /\ recovery_start = None /\ counted = [p \in Pns |-> None]
    /\ marks = [seen |-> 0, opened |-> {}]
    /\ received = {}

-----------------------------------------------------------------------------
(* The controller's loss episodes.                                         *)

InRecovery(start, p) == start # None /\ p < start

\* LossEpisodes.open(): the current episode becomes the previous one.
OpenEpisode(e) ==
    [e EXCEPT !.episode = @ + 1, !.pending = 0, !.undoable = TRUE, !.opened_at = next_pn,
              !.prev_pending = e.pending,
              !.prev_undoable = e.undoable /\ e.pending # 0]

\* LossEpisodes.noteDeclaredLost().
CountLost(e, n) == [e EXCEPT !.pending = @ + n]

\* Mutant of Arrived: one late packet takes the current episode back.
ArrivedFirst(e, cur, prev) ==
    [e EXCEPT !.pending = Max({0, @ - cur}),
              !.undoable = @ /\ cur = 0,
              !.undone = @ \cup (IF e.undoable /\ cur > 0 THEN {e.episode} ELSE {})]

\* LossEpisodes.arrived() for cur packets of the current episode and prev of
\* the previous one.
Arrived(e, cur, prev) ==
    LET undo   == e.undoable /\ e.pending # 0 /\ cur >= e.pending
        undo_p == e.prev_undoable /\ e.prev_pending # 0 /\ prev >= e.prev_pending
    IN  [e EXCEPT !.pending = Max({0, @ - cur}),
                  !.undoable = @ /\ ~undo,
                  !.prev_pending = IF e.prev_undoable THEN Max({0, @ - prev}) ELSE @,
                  !.prev_undoable = @ /\ ~undo_p,
                  !.undone = @ \cup (IF undo THEN {e.episode} ELSE {})
                               \cup (IF undo_p THEN {e.episode - 1} ELSE {})]

\* NewReno.onSpuriousLoss(): the recovery period ends with the reduction it
\* began with, unless a later reduction stands.
RecoveryAfterUndo(before, after, start) ==
    IF after.undone # before.undone /\ ~after.undoable THEN None ELSE start

-----------------------------------------------------------------------------
(* The remembered losses.                                                  *)

Live(ring) == {k \in DOMAIN ring : ring[k].pn # None}

\* The remembered losses a range of ACK frame a covers.
Late(a) == {k \in Live(lost_ring) : lost_ring[k].pn \in a}

\* settle() may put the thresholds back after enough rounds of real losses.
MaySettle == ~packet_rule /\ Live(lost_ring) # {}

\* widen(): a late packet the widest thresholds would have covered turns the
\* packet rule off.
RuleAfter(late, widen, back) ==
    IF late # {} /\ widen THEN FALSE ELSE packet_rule \/ back

\* takeCovered(): the records ks become tombstones; a ring with nothing else
\* starts over.
TakeCovered(ring, ks) ==
    LET r == [k \in DOMAIN ring |->
                IF k \in ks THEN [ring[k] EXCEPT !.pn = None] ELSE ring[k]]
    IN  IF Live(r) = {} THEN <<>> ELSE r

\* The k-th lowest packet of set ps.
Nth(ps, k) == CHOOSE p \in ps : Cardinality({q \in ps : q < p}) = k - 1

\* remember() and stampLast() for the packets of set ps, lowest first.
Remember(ring, ps, episode) ==
    LET r == ring \o [k \in 1 .. Cardinality(ps) |-> [pn |-> Nth(ps, k), episode |-> episode]]
    IN  SubSeq(r, Max({1, Len(r) - RingSlots + 1}), Len(r))

-----------------------------------------------------------------------------
(* The sender.                                                             *)

\* Mutant of WindowOpen: a probe waits for the window like any packet.
WindowOpenNoProbe == Cardinality(sent) < Cwnd

\* congestionBlockedOnPath(): a PING or a probe goes past the window.
WindowOpen == pending_ping \/ pto_probe_count > 0 \/ Cardinality(sent) < Cwnd

\* The gate that is asked before a frame leaves its queue (tracker_full).
TrackerFull == Cardinality(sent) >= MaxInFlight

\* pollLevelOnPath(): a packet with some of the queued frames, or a PING.  A
\* full tracker closes every gate.
SendPacket ==
    \E fs \in SUBSET queued :
        /\ ~TrackerFull /\ WindowOpen
        /\ next_pn < MaxPn
        /\ fs # {} \/ pending_ping
        /\ next_pn' = next_pn + 1
        /\ sent' = sent \cup {next_pn}
        /\ owned' = [owned EXCEPT ![next_pn] = fs]
        /\ queued' = queued \ fs
        /\ probe_pending' = probe_pending \ fs
        /\ pending_ping' = FALSE
        /\ pto_probe_count' = Max({0, pto_probe_count - 1})
        /\ UNCHANGED <<copied, acked, largest_acked, reorderVars, ccVars, received>>

\* dispatchAcked() for every packet of set ps.
Acked(ps) == acked \cup UNION {owned[p] : p \in ps}

\* An ACK takes a probe's copy back as long as it is queued: markAcked() for a
\* stream whose queue the probe filled, discardSentCryptoForPacket() for CRYPTO
\* data of a record that was copied.
TakenBack(ps) ==
    (probe_pending \cap UNION {owned[p] : p \in ps})
        \cup (Crypto \cap UNION {copied[p] : p \in ps})

\* What the record of a packet answers for: a probe's copy has taken over the
\* rest.
Answers(p) == owned[p] \ copied[p]

\* Mutant of LostFrames: what another copy's ACK completed goes again.
LostAnswers(p, ack) == Answers(p)

\* What goes again of a lost packet: what it answers for, but no stream bytes
\* that are acknowledged (addUnackedPending()); of CRYPTO data nobody
\* remembers that (DATAGRAM frames and PINGs never go again).
LostFrames(p, ack) == Answers(p) \ (Stream \cap ack)

\* requeueLostPacketOnPath() for every packet of set ps, after the packets of
\* set new were acknowledged.
Requeued(ps, new) ==
    (queued \ TakenBack(new)) \cup UNION {LostFrames(p, Acked(new)) : p \in ps}

\* The packets of set new are acknowledged, then those of set lost declared
\* lost; the records of both are freed (SentPacket.deinit()).
Leave(new, lost) ==
    /\ sent' = sent \ (new \cup lost)
    /\ owned' = [p \in Pns |-> IF p \in new \cup lost THEN {} ELSE owned[p]]
    /\ copied' = [p \in Pns |-> IF p \in new \cup lost THEN {} ELSE copied[p]]
    /\ acked' = Acked(new)
    /\ queued' = Requeued(lost, new)
    /\ probe_pending' = probe_pending \ TakenBack(new)

\* The controller hears of the packets of set ps (onPacketLost()), and they
\* are counted and remembered (noteDeclaredLost()): the new episodes,
\* recovery period, ring and counts.  Losses long enough apart are persistent
\* congestion, which ends the period.
Declare(ps, persistent, e, start, ring) ==
    LET opens == ~InRecovery(start, Max(ps))
        e1    == IF opens THEN OpenEpisode(e) ELSE e
    IN  IF ps = {} THEN [e |-> e, start |-> start, ring |-> ring, counted |-> counted]
        ELSE [e |-> CountLost(e1, Cardinality(ps)),
              start |-> IF persistent THEN None ELSE IF opens THEN next_pn ELSE start,
              ring |-> Remember(ring, ps, e1.episode),
              counted |-> [p \in Pns |-> IF p \in ps THEN e1.episode ELSE counted[p]]]

MayPersist(ps) == IF Cardinality(ps) < 2 THEN {FALSE} ELSE BOOLEAN

\* sweepLosses(): the packets of set ps go, and nothing else happened.
Sweep(ps, persistent) ==
    LET d == Declare(ps, persistent, episodes, recovery_start, lost_ring)
    IN  /\ Leave({}, ps)
        /\ episodes' = d.e /\ recovery_start' = d.start
        /\ lost_ring' = d.ring /\ counted' = d.counted

\* The packet threshold of RFC 9002 6.1.1.
LostByCount(in_flight, top) == {p \in in_flight : top - p >= PacketThreshold}

\* recv_ack_handlers.apply(): one ACK frame.  `back` is settle() putting the
\* thresholds back, `widen` a late packet within the widest threshold, `ce` a
\* higher count of marks.
RecvAck(a, back, widen, ce) ==
    \E persistent \in BOOLEAN :
    LET top   == Max({largest_acked, Max(a)})
        late  == Late(a)
        new   == a \cap sent
        rule  == RuleAfter(late, widen, back)
        In(n) == Cardinality({k \in late : lost_ring[k].episode = n})
        e1    == Arrived(episodes, In(episodes.episode), In(episodes.episode - 1))
        r1    == RecoveryAfterUndo(episodes, e1, recovery_start)
        r2    == IF new # {} /\ ~InRecovery(r1, Max(new)) THEN None ELSE r1
        ceNow == ce /\ ~(Max(a) \in new /\ InRecovery(r2, Max(a)))
        e3    == IF ceNow THEN OpenEpisode(e1) ELSE e1
        r3    == IF ceNow THEN next_pn ELSE r2
        lost  == IF rule THEN LostByCount(sent \ new, top) ELSE {}
        d     == Declare(lost, persistent, e3, r3, TakeCovered(lost_ring, late))
    IN  /\ persistent \in MayPersist(lost)
        /\ largest_acked' = top
        /\ Leave(new, lost)
        /\ packet_rule' = rule
        /\ lost_ring' = d.ring
        /\ episodes' = d.e
        /\ recovery_start' = d.start
        /\ counted' = d.counted
        /\ marks' = [seen   |-> marks.seen + (IF ce THEN 1 ELSE 0),
                     opened |-> marks.opened \cup (IF ceNow THEN {e3.episode} ELSE {})]
        /\ received' = received \cup a
        /\ UNCHANGED <<next_pn, probeVars>>

\* detectLossesByTimeThresholdOnApplicationPath(): the packets at or below
\* the largest acknowledged one that left before the cutoff.
TimeLoss ==
    \E cutoff \in 0 .. largest_acked :
        LET ps == {p \in sent : p <= cutoff}
        IN  /\ ps # {}
            /\ \E persistent \in MayPersist(ps) : Sweep(ps, persistent)
            /\ UNCHANGED <<next_pn, largest_acked, probeVars, packet_rule, marks, received>>

\* Mutant of Probe: every timeout adds a probe.
ProbeUnbounded(any) ==
    /\ pending_ping' = ~any
    /\ pto_probe_count' = IF any THEN pto_probe_count + 1 ELSE pto_probe_count

\* What a probe timeout leaves behind when it put frames in a queue or not.
Probe(any) ==
    /\ pending_ping' = ~any
    /\ pto_probe_count' = IF any /\ pto_probe_count < 2 THEN pto_probe_count + 1
                          ELSE pto_probe_count

\* The packets a probe copies data of: the oldest, or else the oldest that
\* answers for some.
ProbeSource == LET owners == {p \in sent : Answers(p) \cap Data # {}}
               IN  IF owners = {} THEN {} ELSE {Min(owners)}

\* The data it copies, acknowledged or not (onPacketProbeRequeued() is true of
\* both).
ProbeData == UNION {Answers(p) \cap Data : p \in ProbeSource}

\* requeueFramesForProbe() and the walk after it: the frames queued again.
ProbeFrames == (owned[Min(sent)] \cap Control) \cup (ProbeData \ (Stream \cap acked))

\* onPacketProbeRequeued(), requeueSentCryptoForProbe(): the record stays, so
\* that a late ACK still counts for the data, but answers for it no more.
CopiedAfterProbe ==
    [p \in Pns |-> IF p \in ProbeSource THEN copied[p] \cup (owned[p] \cap Data)
                    ELSE copied[p]]

\* firePtoOnApplicationPath() with room in the tracker: nothing is declared
\* lost.
PtoProbe ==
    /\ sent # {} /\ ~TrackerFull
    /\ queued' = queued \cup ProbeFrames
    /\ copied' = CopiedAfterProbe
    /\ probe_pending' = probe_pending \cup (ProbeData \cap Stream \cap queued')
    /\ Probe(owned[Min(sent)] \cap Control # {} \/ ProbeSource # {})
    /\ UNCHANGED <<next_pn, sent, owned, acked, largest_acked, reorderVars, ccVars, received>>

\* firePtoOnApplicationPath() with a full tracker: the oldest packet makes
\* room.  A stream's record counts as queued again although a copy was.
PtoExpire ==
    /\ TrackerFull
    /\ Sweep({Min(sent)}, FALSE)
    /\ Probe(owned[Min(sent)] \ (Crypto \cap copied[Min(sent)]) # {})
    /\ UNCHANGED <<next_pn, largest_acked, packet_rule, marks, received>>

-----------------------------------------------------------------------------
(* The peer and the network: an ACK frame that arrives covers any packets. *)

Choice(possible) == IF possible THEN BOOLEAN ELSE {FALSE}

Acknowledge(a) ==
    \E back  \in Choice(MaySettle),
       widen \in Choice(Late(a) # {}),
       ce    \in Choice(marks.seen < MaxMarks) :
        RecvAck(a, back, widen, ce)

Next ==
    \/ SendPacket \/ TimeLoss \/ PtoProbe \/ PtoExpire
    \/ \E a \in (SUBSET (0 .. (next_pn - 1))) \ {{}} : Acknowledge(a)

Spec == Init /\ [][Next]_vars

\* The application polls and the probe timer runs.  Nothing is asked of the
\* network, of the peer, or of the time threshold.
FairSpec == Spec /\ WF_vars(SendPacket) /\ WF_vars(PtoProbe \/ PtoExpire)

-----------------------------------------------------------------------------
(* Properties.                                                             *)

\* Every field keeps its type; the tracker keeps within its capacity, also
\* when probes are sent, and the ring within its slots.
TypeOK ==
    /\ next_pn \in 0 .. MaxPn /\ largest_acked \in None .. (next_pn - 1)
    /\ sent \subseteq 0 .. (next_pn - 1) /\ Cardinality(sent) <= MaxInFlight
    /\ owned \in [Pns -> SUBSET Frames] /\ copied \in [Pns -> SUBSET Data]
    /\ queued \subseteq Frames /\ acked \subseteq Frames /\ probe_pending \subseteq queued \cap Stream
    /\ pending_ping \in BOOLEAN /\ pto_probe_count \in 0 .. 2
    /\ Len(lost_ring) <= RingSlots
    /\ received \subseteq 0 .. (next_pn - 1)

\* The packets that answer for a frame: their loss queues it again.
Owners(f) == {p \in sent : f \in Answers(p)}

\* Every frame is acknowledged, queued, or answered for by a packet in flight:
\* no order of ACKs, loss sweeps, probes and expiries loses a frame.  A record
\* that a probe copied does not count: its loss queues nothing.
NothingForgotten ==
    \A f \in Frames : f \in acked \/ f \in queued \/ Owners(f) # {}

\* Of the queue and the packets in flight at most one answers for stream or
\* CRYPTO data, however many copies of it are on their way: nothing is queued
\* twice, and the losses of all copies queue it once.
OneOwner ==
    \A f \in Data : Cardinality(Owners(f)) + (IF f \in queued THEN 1 ELSE 0) <= 1

\* Stream bytes are not in the queue once they are acknowledged, by whichever
\* copy: a late ACK of the first packet takes the copy of a probe out of the
\* queue again, and the loss of the copy does not bring it back.
AckedNotQueued == queued \cap acked \cap Stream = {}

\* Every frame is answered for, data by one, acknowledged bytes are not sent.
FramesKept == NothingForgotten /\ OneOwner /\ AckedNotQueued

\* A loss episode is taken back only when every packet counted in it arrived,
\* through repeated ACK ranges, a ring that overflows and a second episode.
UndoneArrived ==
    \A p \in Pns : counted[p] \in episodes.undone => p \in received

\* What the controller counts as still missing in its current episode is at
\* least what the ring remembers of it, so a late packet is never counted
\* against the wrong episode.
PendingCoversRing ==
    Cardinality({k \in Live(lost_ring) : lost_ring[k].episode = episodes.episode})
        <= episodes.pending

\* The controller's account of its loss episodes, against what the ring
\* remembers and what the receiver has.
EpisodesSound == UndoneArrived /\ PendingCoversRing

\* Everything is acknowledged and nothing is in flight, or the bound on packet
\* numbers is reached: neither a closed window, nor a full tracker, nor a
\* silent peer stops the sender for good.
Settled == <>[](next_pn = MaxPn \/ (Frames \subseteq acked /\ sent = {}))

\* Packets sent before a reduction are the same congestion event: their loss,
\* found later, is no second reduction (tests/conformance/
\* rfc9002_loss_recovery.zig, "one reduction, not two").
OneReduction ==
    [][\A n \in {episodes.episode + 1} :
         (\E p \in Pns : counted'[p] = n) /\ n \notin marks'.opened
           => \/ \E p \in Pns : counted'[p] = n /\ p >= episodes.opened_at
              \/ episodes.episode \in episodes'.undone]_vars

\* A reaction to reported congestion is not taken back: "there was no
\* congestion" is what an undo means (LossEpisodes).
MarkStands == episodes.undone \cap marks.opened = {}
=============================================================================
