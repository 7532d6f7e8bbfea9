------------------------------- MODULE KeyUpdate ------------------------------
(***************************************************************************)
(* 1-RTT key updates between two endpoints that both run                   *)
(* src/src/Connection/keys.zig: who may start an update and when, the      *)
(* answer to the peer's, the three read generations a packet is tried with *)
(* (Connection/recv_dispatch.zig, openApplicationPacket), and the limits   *)
(* on what one key may protect.                                            *)
(*                                                                         *)
(* A generation of keys is its epoch; the key phase on the wire is the     *)
(* epoch's parity.  A packet is opened by the keys of its own epoch and no *)
(* others, so the derivation of keys is left out.  The network keeps every *)
(* packet: one that is never received was lost, one received twice was     *)
(* copied, and any order is possible.                                      *)
(***************************************************************************)
EXTENDS Integers

CONSTANTS
    MaxEpoch,         \* bound: nobody starts an update past this epoch
    Threshold,        \* proactive_update_threshold
    Confidentiality,  \* confidentiality_limit
    Integrity         \* integrity_limit

ASSUME KeyUpdateAssumption ==
    /\ MaxEpoch \in Nat \ {0}
    /\ Threshold \in Nat /\ Confidentiality \in Nat /\ Integrity \in Nat \ {0}

Ends == {"client", "server"}
Other(a) == IF a = "client" THEN "server" ELSE "client"

VARIABLES
    write,        \* app_write_current: the epoch an end sends with
    read,         \* app_read_current; app_read_next is always one more
    previous,     \* app_read_previous is still kept
    pending_ack,  \* app_write_update_pending_ack
    cooling,      \* app_next_local_update_after_us lies ahead
    protected,    \* packets_protected with the current write key
    failures,     \* app_failed_auth_packets
    confirmed,    \* handshake_keys_discarded
    closed,       \* an end closed with AEAD_LIMIT_REACHED: the model ends here
    got,          \* highest epoch of the peer's packets to acknowledge
    net           \* every packet sent

vars == <<write, read, previous, pending_ack, cooling, protected, failures,
          confirmed, closed, got, net>>

Epochs == 0 .. MaxEpoch
None == -1

\* A packet that asks for an ACK acknowledges None.  An ACK covers everything
\* received, so the highest epoch among it decides; a packet that both asks
\* and acknowledges is received like the two in a row.
Packet == [from : Ends, epoch : Epochs, acks : {None} \cup Epochs]

Phase(epoch) == epoch % 2

\* installApplicationSecret() in both directions.
Init ==
    /\ write = [a \in Ends |-> 0] /\ read = [a \in Ends |-> 0]
    /\ previous = [a \in Ends |-> FALSE]
    /\ pending_ack = [a \in Ends |-> FALSE]
    /\ cooling = [a \in Ends |-> FALSE]
    /\ protected = [a \in Ends |-> 0]
    /\ failures = [a \in Ends |-> 0]
    /\ confirmed = [a \in Ends |-> FALSE]
    /\ closed = FALSE
    /\ got = [a \in Ends |-> None]
    /\ net = {}

-----------------------------------------------------------------------------
(* Sending.                                                                *)

\* canInitiateKeyUpdateAt()
CanInitiate(a) == confirmed[a] /\ ~pending_ack[a] /\ ~cooling[a]

\* requestKeyUpdate(): installNextApplicationWriteKeys().
Request(a) ==
    /\ ~closed /\ CanInitiate(a)
    /\ write' = [write EXCEPT ![a] = @ + 1]
    /\ pending_ack' = [pending_ack EXCEPT ![a] = TRUE]
    /\ protected' = [protected EXCEPT ![a] = 0]
    /\ UNCHANGED <<read, previous, cooling, failures, confirmed, closed, got, net>>

\* prepareApplicationWriteKeys(), before poll builds anything: at the threshold
\* it updates if it may ...
MustUpdate(a) == protected[a] >= Threshold /\ CanInitiate(a)

\* Mutant of Spent: the limit is the last count allowed.
SpentLate(a) == ~MustUpdate(a) /\ protected[a] > Confidentiality

\* ... and otherwise at the limit it closes.
Spent(a) == ~MustUpdate(a) /\ protected[a] >= Confidentiality

\* A poll at the threshold; what it then has to send is a Send of its own, for
\* there may be nothing.
PollUpdates(a) == MustUpdate(a) /\ Request(a)

\* A poll at the limit: close() with AEAD_LIMIT_REACHED.
PollCloses(a) ==
    /\ ~closed /\ Spent(a)
    /\ closed' = TRUE
    /\ UNCHANGED <<write, read, previous, pending_ack, cooling, protected,
                   failures, confirmed, got, net>>

\* A packet goes out and is counted against the key
\* (recordApplicationPacketProtected()): data that asks for an ACK, or the ACK
\* of what was received.
Send(a, acks) ==
    /\ ~closed /\ ~MustUpdate(a) /\ ~Spent(a)
    /\ net' = net \cup {[from |-> a, epoch |-> write[a], acks |-> acks]}
    /\ protected' = [protected EXCEPT ![a] = @ + 1]
    /\ UNCHANGED <<write, read, previous, pending_ack, cooling, failures,
                   confirmed, closed, got>>

-----------------------------------------------------------------------------
(* Receiving.                                                              *)

\* The read generations, in the order openApplicationPacket() tries them.
Opens(a, epoch) ==
    \/ epoch = read[a]
    \/ epoch = read[a] - 1 /\ previous[a]
    \/ epoch = read[a] + 1

\* Mutant of KeyEpoch: the stamp of the key before the update.
KeyEpochStale(epoch) == IF epoch = 0 THEN 0 ELSE epoch - 1

\* The epoch recordApplicationPacketProtected() put on the sender's record of
\* a packet it protected with this epoch.
KeyEpoch(epoch) == epoch

\* Mutant of Confirms: an ACK of any packet confirms the update.
ConfirmsAny(a, epoch, m) == m.acks # None

\* onApplicationPacketAckedForKeys(): an ACK of a packet of the current epoch
\* opens the gate again, after three probe timeouts.
Confirms(a, epoch, m) == m.acks # None /\ epoch = KeyEpoch(m.acks)

\* maybeRespondToPeerKeyUpdate(): the answer to an update of the peer.
Respond(a, epoch) == Phase(write[a]) # Phase(epoch)

\* handleShort() of a packet that opens: a packet of the next generation
\* promotes the read keys and is answered before its frames are read.
Receive(a, m) ==
    LET next   == m.epoch = read[a] + 1
        answer == next /\ Respond(a, m.epoch)
        w      == IF answer THEN write[a] + 1 ELSE write[a]
        p      == answer \/ pending_ack[a]
        done   == p /\ Confirms(a, w, m)
    IN  /\ m.from = Other(a) /\ ~closed
        /\ Opens(a, m.epoch)
        /\ read' = [read EXCEPT ![a] = IF next THEN m.epoch ELSE @]
        /\ previous' = [previous EXCEPT ![a] = @ \/ next]
        /\ write' = [write EXCEPT ![a] = w]
        /\ protected' = [protected EXCEPT ![a] = IF answer THEN 0 ELSE @]
        /\ pending_ack' = [pending_ack EXCEPT ![a] = p /\ ~done]
        /\ cooling' = [cooling EXCEPT ![a] = @ \/ done]
        /\ got' = [got EXCEPT ![a] = IF m.acks = None /\ m.epoch > @ THEN m.epoch ELSE @]
        /\ confirmed' = [confirmed EXCEPT ![a] = @ \/ (a = "client" /\ m.acks # None)]
        /\ UNCHANGED <<failures, closed, net>>

\* handleShort() of a packet no generation opens, late or damaged:
\* noteApplicationAuthFailure().
Reject(a) ==
    /\ ~closed
    /\ failures' = [failures EXCEPT ![a] = @ + 1]
    /\ closed' = (failures'[a] >= Integrity)
    /\ UNCHANGED <<write, read, previous, pending_ack, cooling, protected,
                   confirmed, got, net>>

-----------------------------------------------------------------------------
(* Timers and the handshake.                                               *)

\* discardExpiredApplicationReadKeys()
Discard(a) ==
    /\ ~closed /\ previous[a]
    /\ previous' = [previous EXCEPT ![a] = FALSE]
    /\ UNCHANGED <<write, read, pending_ack, cooling, protected, failures,
                   confirmed, closed, got, net>>

\* Three probe timeouts after the acknowledgement.
CoolDown(a) ==
    /\ ~closed /\ cooling[a] /\ write[a] < MaxEpoch
    /\ cooling' = [cooling EXCEPT ![a] = FALSE]
    /\ UNCHANGED <<write, read, previous, pending_ack, protected, failures,
                   confirmed, closed, got, net>>

\* The client's Finished reaches the server, then HANDSHAKE_DONE the client.
Confirm(a) ==
    /\ ~closed /\ ~confirmed[a] /\ (a = "client" => confirmed["server"])
    /\ confirmed' = [confirmed EXCEPT ![a] = TRUE]
    /\ UNCHANGED <<write, read, previous, pending_ack, cooling, protected,
                   failures, closed, got, net>>

Next ==
    \E a \in Ends :
        \/ Request(a) \/ PollUpdates(a) \/ PollCloses(a) \/ Reject(a)
        \/ \E acks \in {None, got[a]} : Send(a, acks)
        \/ \E m \in net : Receive(a, m)
        \/ Discard(a) \/ CoolDown(a) \/ Confirm(a)

Spec == Init /\ [][Next]_vars

-----------------------------------------------------------------------------
(* Properties.                                                             *)

\* Every field keeps its type; no key protects more packets than its limit
\* while the connection is open.
TypeOK ==
    /\ write \in [Ends -> Epochs] /\ read \in [Ends -> Epochs]
    /\ previous \in [Ends -> BOOLEAN] /\ pending_ack \in [Ends -> BOOLEAN]
    /\ cooling \in [Ends -> BOOLEAN] /\ protected \in [Ends -> 0 .. Confidentiality]
    /\ failures \in [Ends -> 0 .. Integrity] /\ confirmed \in [Ends -> BOOLEAN]
    /\ closed \in BOOLEAN
    /\ got \in [Ends -> {None} \cup Epochs]
    /\ net \in SUBSET Packet

\* No packet is ever too new for the peer: whatever the order of updates,
\* answers, simultaneous updates and late ACKs, the epoch of every packet sent
\* is at most one past the peer's read keys, so the three generations of
\* openApplicationPacket suffice and the phase bit is never ambiguous.
InStep ==
    /\ \A m \in net : m.epoch <= read[Other(m.from)] + 1
    /\ \A a \in Ends : write[a] \in {read[a], read[a] + 1}

\* An update cannot get stuck: whatever was lost, discarded or updated since,
\* what an end sends now opens at the peer, and once the peer has received a
\* packet of the new keys, the ACK it would send now confirms the update
\* (app_write_update_pending_ack is cleared by the next ACK that arrives).
AckConfirms ==
    \A a \in Ends :
        LET b == Other(a)
        IN  /\ Opens(a, write[b])
            /\ (pending_ack[a] /\ got[b] = write[a]) =>
                  Confirms(a, write[a],
                           [from |-> b, epoch |-> write[b], acks |-> got[b]])
=============================================================================
