----------------------------- MODULE StreamTable ------------------------------
(***************************************************************************)
(* The streams a peer may open: the acceptor's id space                    *)
(* (src/src/conn/StreamIdSpace.zig), its table of live streams and their   *)
(* reclamation (src/src/Connection/streams.zig), the note of how a         *)
(* reclaimed stream ended (src/src/conn/RecvEndRing.zig), and the          *)
(* MAX_STREAMS / STREAMS_BLOCKED frames by which ids come back to the      *)
(* opener (src/src/Connection/flow.zig).  One kind of stream,              *)
(* bidirectional: both halves must end.  A stream's frames reach the       *)
(* acceptor in any order, any number of times, also after its end.         *)
(***************************************************************************)
EXTENDS Integers, Sequences, FiniteSets

CONSTANTS
    MaxStreams,    \* bound: ids the opener ever uses
    Window,        \* initial_max_streams_bidi
    Batch,         \* RecvEndRing.gc_batch
    MaxLosses,     \* bound: MAX_STREAMS frames declared lost
    Kinds,         \* the frames the opener's streams send
    Stoppable,     \* ids the acceptor's application may stop reading
    MayShutDown    \* whether the acceptor may shut down gracefully

ASSUME TableAssumption ==
    /\ MaxStreams \in Nat /\ Window \in Nat \ {0} /\ Batch \in Nat \ {0}
    /\ MaxLosses \in Nat /\ MayShutDown \in BOOLEAN
    /\ Kinds \subseteq {"data", "fin", "reset"}

VARIABLES
    granted,     \* the opener's limit
    asked,       \* ids the opener has opened
    blocked_net, \* STREAMS_BLOCKED values sent; each may arrive at any time
    opened, holes, closed, limit,          \* StreamIdSpace of the acceptor
    live,        \* Connection.streams
    recv_state,  \* per id: "open", "fin" (unread), "ended"
    send_ended,  \* ids whose sending part is terminal
    stopped,     \* ids with recv_stopped
    candidates, full_scan, gc_pending,     \* streams_gc_*
    ring,        \* RecvEndRing, oldest first
    reaped,      \* what the last two ticks reclaimed, latest first
    peer_blocked, pending_max, graceful,
    error,       \* the connection was closed with STREAM_LIMIT_ERROR
    max_net, max_sent, losses              \* MAX_STREAMS on their way

openerVars == <<granted, asked, blocked_net>>
idVars     == <<opened, holes, closed, limit>>
halfVars   == <<recv_state, send_ended, stopped>>
gcVars     == <<candidates, full_scan, gc_pending>>
endVars    == <<ring, reaped>>
creditVars == <<peer_blocked, pending_max>>
wireVars   == <<max_net, max_sent, losses>>
vars == <<openerVars, idVars, live, halfVars, gcVars, endVars, creditVars,
          graceful, error, wireVars>>

Ids   == 0 .. (MaxStreams - 1)
None  == -1
Greatest(x, y) == IF x > y THEN x ELSE y

Init ==
    /\ granted = Window /\ asked = {} /\ blocked_net = {}
    /\ opened = 0 /\ holes = {} /\ closed = 0 /\ limit = Window
    /\ live = {}
    /\ recv_state = [i \in Ids |-> "open"] /\ send_ended = {} /\ stopped = {}
    /\ candidates = {} /\ full_scan = FALSE /\ gc_pending = FALSE
    /\ ring = <<>> /\ reaped = <<{}, {}>>
    /\ peer_blocked = None /\ pending_max = None /\ graceful = FALSE
    /\ error = FALSE
    /\ max_net = {} /\ max_sent = {} /\ losses = 0

-----------------------------------------------------------------------------
(* Credit.                                                                 *)

\* creditToAdvertise(): is credit up to `target` given now?
Due(op, target, lim, blocked) ==
    \/ target - lim >= Greatest(1, Window \div 2)
    \/ op >= lim
    \/ blocked # None /\ blocked >= lim

\* The limit an id space with cl closed streams is entitled to.
Target(cl) == Window + cl

\* maybeAdvertiseStreamCredit() + queueMaxStreams(): the limit afterwards.
Advertised(op, cl, lim, blocked) ==
    IF ~graceful /\ Target(cl) > lim /\ Due(op, Target(cl), lim, blocked)
    THEN Target(cl) ELSE lim

\* What queueMaxStreams() leaves behind when the limit goes to lim.
QueueMax(lim, blocked) ==
    /\ limit' = lim
    /\ peer_blocked' = IF limit < lim /\ lim > blocked THEN None ELSE blocked
    /\ pending_max' = IF limit < lim THEN lim ELSE pending_max

-----------------------------------------------------------------------------
(* Reclamation.                                                            *)

Terminated(i, rs, se) == rs[i] = "ended" /\ i \in se

\* Mutant of ListFull: a stream that does not fit the list is not noted.
ListFullForgets == [cand |-> candidates, scan |-> full_scan, due |-> gc_pending]

\* noteStreamGc() with the candidate list full: ask for the whole walk.
ListFull == [cand |-> candidates, scan |-> TRUE, due |-> TRUE]

\* noteStreamGc() for stream i once its halves are rs, se, st.
NoteGc(i, rs, se, st) ==
    LET note == IF ~(i \in st \/ Terminated(i, rs, se))
                THEN [cand |-> candidates, scan |-> full_scan, due |-> gc_pending]
                ELSE IF i \in candidates \/ full_scan
                THEN [cand |-> candidates, scan |-> full_scan, due |-> TRUE]
                ELSE IF Cardinality(candidates) = Batch THEN ListFull
                ELSE [cand |-> candidates \cup {i}, scan |-> full_scan, due |-> TRUE]
    IN  candidates' = note.cand /\ full_scan' = note.scan /\ gc_pending' = note.due

Capacity == 2 * Batch

\* RecvEndRing.push() of every id of sequence s.
Push(s) ==
    LET all == ring \o s
    IN  SubSeq(all, Greatest(1, Len(all) - Capacity + 1), Len(all))

\* The unread end of a stopped stream is read away (discardStopped).
Discarded(walked) ==
    [i \in Ids |-> IF i \in walked \cap stopped /\ recv_state[i] = "fin"
                   THEN "ended" ELSE recv_state[i]]

\* The limit once k streams were reclaimed: each one may give credit.
LimitAfter[k \in 0 .. MaxStreams] ==
    IF k = 0 THEN limit
    ELSE Advertised(opened, closed + k, LimitAfter[k - 1], peer_blocked)

\* tick(): gcClosedStreams() over the candidates or, after an overflow, over
\* the table, at most a batch at once.
Tick ==
    \E walked \in SUBSET live : \E gone \in SUBSET walked :
        LET scanned == IF full_scan THEN live ELSE candidates
            rs   == Discarded(walked)
            done == {i \in walked : Terminated(i, rs, send_ended)}
            n    == Cardinality(gone)
        IN  /\ gc_pending
            /\ walked \subseteq scanned
            /\ walked = scanned \/ Cardinality(done) = Batch + 1
            /\ gone \subseteq done
            /\ n = (IF Cardinality(done) > Batch THEN Batch ELSE Cardinality(done))
            /\ live' = live \ gone
            /\ closed' = closed + n
            /\ QueueMax(LimitAfter[n], peer_blocked)
            /\ recv_state' = rs
            /\ candidates' = {}
            /\ full_scan' = (n = Batch)
            /\ gc_pending' = (n = Batch)
            /\ \E s \in [1 .. n -> gone] :
                  {s[k] : k \in 1 .. n} = gone /\ ring' = Push(s)
            /\ reaped' = <<gone, reaped[1]>>
            /\ UNCHANGED <<openerVars, opened, holes, send_ended, stopped,
                           graceful, error, wireVars>>

-----------------------------------------------------------------------------
(* Streams.                                                                *)

\* Mutant of Gone: the id space keeps no tombstone.
GoneNever(i) == FALSE

\* classify() = used and no live stream: it was reclaimed.
Gone(i) == i < opened /\ i \notin holes /\ i \notin live

\* materializeStream(): lower ids never used become holes.
Materialize(i) ==
    /\ live' = live \cup {i}
    /\ holes' = (holes \cup (opened .. (i - 1))) \ {i}
    /\ opened' = Greatest(opened, i + 1)

\* A STREAM (data, fin) or RESET_STREAM frame of the opener's stream i:
\* ensurePeerStream(), then the receive half, then noteStreamGc().  A FIN
\* with nothing left to read ends the half at once.
RecvFrame(i, kind) ==
    /\ ~error
    /\ i \in asked
    /\ ~Gone(i)
    /\ IF i \notin live /\ i >= limit
       THEN /\ error' = TRUE
            /\ UNCHANGED <<idVars, live, halfVars, gcVars, creditVars>>
       ELSE /\ IF i \in live
               THEN UNCHANGED <<idVars, live, creditVars>>
               ELSE /\ Materialize(i)
                    /\ QueueMax(Advertised(Greatest(opened, i + 1), closed,
                                           limit, peer_blocked), peer_blocked)
                    /\ UNCHANGED closed
            /\ \E to \in IF kind = "data" \/ recv_state[i] = "ended" THEN {recv_state[i]}
                         ELSE IF kind = "reset" \/ i \in stopped THEN {"ended"}
                         ELSE {"fin", "ended"} :
                  recv_state' = [recv_state EXCEPT ![i] = to]
            /\ NoteGc(i, recv_state', send_ended, stopped)
            /\ UNCHANGED <<send_ended, stopped, error>>
    /\ UNCHANGED <<openerVars, endVars, graceful, wireVars>>

\* The last acknowledgement of the acceptor's own part of the stream.
SendEnds(i) ==
    /\ i \in live \ send_ended
    /\ send_ended' = send_ended \cup {i}
    /\ NoteGc(i, recv_state, send_ended', stopped)
    /\ UNCHANGED <<openerVars, idVars, live, recv_state, stopped, endVars,
                   creditVars, graceful, error, wireVars>>

\* The application reads up to the FIN (afterStreamConsume).
Read(i) ==
    /\ i \in live
    /\ recv_state[i] = "fin"
    /\ recv_state' = [recv_state EXCEPT ![i] = "ended"]
    /\ NoteGc(i, recv_state', send_ended, stopped)
    /\ UNCHANGED <<openerVars, idVars, live, send_ended, stopped, endVars,
                   creditVars, graceful, error, wireVars>>

\* streamStopSending(): also for a stream opened only implicitly.
StopSending(i) ==
    /\ i \in live \cup holes
    /\ recv_state[i] # "ended"
    /\ i \notin stopped
    /\ IF i \in live THEN UNCHANGED <<live, holes, opened>> ELSE Materialize(i)
    /\ stopped' = stopped \cup {i}
    /\ NoteGc(i, recv_state, send_ended, stopped')
    /\ UNCHANGED <<openerVars, closed, limit, recv_state, send_ended, endVars,
                   creditVars, graceful, error, wireVars>>

ShutDown ==
    /\ MayShutDown
    /\ graceful' = TRUE
    /\ UNCHANGED <<openerVars, idVars, live, halfVars, gcVars, endVars,
                   creditVars, error, wireVars>>

-----------------------------------------------------------------------------
(* The opener and the frames between the two.                              *)

\* The opener's limit check.
Below(i) == i < granted

\* openLocalStream() below the limit, in any order of ids ...
Open(i) ==
    /\ i \in Ids \ asked
    /\ Below(i)
    /\ asked' = asked \cup {i}
    /\ UNCHANGED <<granted, blocked_net, idVars, live, halfVars, gcVars, endVars,
                   creditVars, graceful, error, wireVars>>

\* ... and at it: STREAMS_BLOCKED goes out.
OpenBlocked ==
    /\ \E i \in Ids \ asked : ~Below(i)
    /\ blocked_net' = blocked_net \cup {granted}
    /\ UNCHANGED <<granted, asked, idVars, live, halfVars, gcVars, endVars,
                   creditVars, graceful, error, wireVars>>

\* handleStreamsBlocked(): possibly an old copy.
RecvBlocked(v) ==
    /\ QueueMax(Advertised(opened, closed, limit, v), v)
    /\ UNCHANGED <<openerVars, opened, holes, closed, live, halfVars, gcVars,
                   endVars, graceful, error, wireVars>>

SendMax ==
    /\ pending_max # None
    /\ max_net' = max_net \cup {pending_max}
    /\ max_sent' = max_sent \cup {pending_max}
    /\ pending_max' = None
    /\ UNCHANGED <<openerVars, idVars, live, halfVars, gcVars, endVars,
                   peer_blocked, graceful, error, losses>>

\* handleMaxStreams()
RecvMax(v) ==
    /\ granted' = Greatest(granted, v)
    /\ max_net' = max_net \ {v}
    /\ UNCHANGED <<asked, blocked_net, idVars, live, halfVars, gcVars, endVars,
                   creditVars, graceful, error, max_sent, losses>>

\* Only a frame that arrived is acknowledged.
MaxAcked(v) ==
    /\ granted >= v
    /\ max_sent' = max_sent \ {v}
    /\ UNCHANGED <<openerVars, idVars, live, halfVars, gcVars, endVars,
                   creditVars, graceful, error, max_net, losses>>

\* Mutant of Requeued: a lost frame goes through queueMaxStreams(), which
\* ignores a limit that is not new.
RequeuedAsNew(v) == pending_max

\* requeueLostMaxStreams(): the current limit, unless a later frame has it.
Requeued(v) ==
    IF graceful \/ v < limit THEN pending_max ELSE Greatest(limit, pending_max)

\* The packet with MAX_STREAMS(v) is declared lost (it is gone, or only late)
\* or a probe timeout sends its frames again (it stays tracked).
LoseMax(v, gone, probe) ==
    /\ losses < MaxLosses
    /\ losses' = losses + 1
    /\ max_net' = IF gone THEN max_net \ {v} ELSE max_net
    /\ max_sent' = IF probe THEN max_sent ELSE max_sent \ {v}
    /\ pending_max' = Requeued(v)
    /\ UNCHANGED <<openerVars, idVars, live, halfVars, gcVars, endVars,
                   peer_blocked, graceful, error>>

Next ==
    \/ Tick
    \/ \E i \in Ids : \E kind \in Kinds : RecvFrame(i, kind)
    \/ \E i \in Ids : SendEnds(i)
    \/ \E i \in Ids : Read(i)
    \/ \E i \in Stoppable : StopSending(i)
    \/ ShutDown
    \/ \E i \in Ids : Open(i)
    \/ OpenBlocked
    \/ \E v \in blocked_net : RecvBlocked(v)
    \/ SendMax
    \/ \E v \in max_net : RecvMax(v)
    \/ \E v \in max_sent : MaxAcked(v)
    \/ \E v \in max_sent : \E probe \in BOOLEAN : \E gone \in BOOLEAN :
          (gone => ~probe) /\ LoseMax(v, gone, probe)

\* The embedder ticks, polls and reads; packets that are not lost arrive; the
\* opener keeps opening and finishes what it opened.
Fairness ==
    /\ WF_vars(Tick)
    /\ WF_vars(SendMax)
    /\ \A v \in 0 .. (Window + MaxStreams) : WF_vars(v \in max_net /\ RecvMax(v))
    /\ \A i \in Ids : /\ WF_vars(Open(i))
                      /\ WF_vars(\E kind \in Kinds \ {"data"} : RecvFrame(i, kind))
                      /\ WF_vars(SendEnds(i))
                      /\ WF_vars(Read(i))

Spec == Init /\ [][Next]_vars
FairSpec == Spec /\ Fairness

-----------------------------------------------------------------------------
(* Properties.                                                             *)

\* Every field keeps its type; an id is live, skipped or closed.
TypeOK ==
    /\ asked \subseteq Ids /\ live \subseteq Ids /\ stopped \subseteq Ids
    /\ holes \subseteq 0 .. (opened - 1) /\ live \subseteq (0 .. (opened - 1)) \ holes
    /\ opened - closed = Cardinality(live) + Cardinality(holes)
    /\ recv_state \in [Ids -> {"open", "fin", "ended"}]
    /\ candidates \subseteq live /\ Cardinality(candidates) <= Batch
    /\ Len(ring) <= 2 * Batch

\* The memory argument of StreamIdSpace: live streams and holes together stay
\* inside the window, however many streams come and go.
HeldBounded == Cardinality(live) + Cardinality(holes) <= Window

\* Every live stream with work for the GC is named to it: it is on the list
\* or the walk is due, and then the tick is due too.  (gcClosedStreams asserts
\* in Debug that the list finds what the walk finds.)
NothingUncollected ==
    /\ \A i \in live :
          (Terminated(i, recv_state, send_ended) \/ (i \in stopped /\ recv_state[i] = "fin"))
             => i \in candidates \/ full_scan
    /\ (candidates # {} \/ full_scan) => gc_pending

\* The comment on maybeAdvertiseStreamCredit, "after any operation, no credit
\* is owed": an opener that has used every id it was given, or is short of
\* half a window, is not left without the ids of its closed streams.
NoCreditOwed ==
    (opened = limit \/ 2 * (Window + closed - limit) >= Window) =>
        limit >= Window + closed \/ graceful

\* RecvEndRing: the note of a reclaimed stream survives through the end of
\* the next tick.
EndNoteSurvives ==
    \A i \in reaped[1] \cup reaped[2] : \E k \in 1 .. Len(ring) : ring[k] = i

\* What the table may hold, and that the tick lets go of all the rest: of the
\* streams, of their ids, but not of the notes it has just made.
TableSound == HeldBounded /\ NothingUncollected /\ NoCreditOwed /\ EndNoteSurvives

\* A late frame never brings a reclaimed stream back to life.
NeverReborn ==
    [][\A i \in Ids : i < opened /\ i \notin holes /\ i \notin live
                         => i \notin live']_vars

\* Ids come back: an opener that wants MaxStreams streams, more than the
\* window, gets to open every one of them unless the acceptor shuts down.
AllOpened == <>(graceful \/ asked = Ids)
=============================================================================
