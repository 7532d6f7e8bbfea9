---------------------------- MODULE KeyUpdateProofs ---------------------------
(***************************************************************************)
(* Theorems about KeyUpdate, for every number of updates and every limit:  *)
(* the two ends never drift apart by more than one generation of keys.     *)
(***************************************************************************)
EXTENDS KeyUpdate, TLAPS

\* The ends of one connection, pairwise: what an end writes with is what it
\* reads or one ahead; it never reads ahead of the peer's write keys, nor
\* writes two ahead of the peer's read keys; and an open gate means that the
\* last update went around, out with the new keys and back with the new keys.
DriftInv ==
    \A a \in Ends :
        /\ write[a] = read[a] \/ write[a] = read[a] + 1
        /\ read[a] <= write[Other(a)]
        /\ write[a] <= read[Other(a)] + 1
        /\ ~pending_ack[a] => read[Other(a)] >= write[a] /\ read[a] >= write[a]

\* A packet carries the keys of its time, and acknowledges only what its
\* sender had the keys to read.
PacketInv ==
    /\ \A m \in net :
          /\ m.epoch <= write[m.from]
          /\ m.acks # None => m.acks <= m.epoch /\ m.acks <= read[m.from]
    /\ \A a \in Ends : got[a] <= read[a]

\* The bound on epochs sits in CoolDown alone.
BoundInv == \A a \in Ends : write[a] = MaxEpoch => cooling[a] \/ pending_ack[a]

\* An open connection has counted fewer forgeries than the limit.
OpenInv == ~closed => \A a \in Ends : failures[a] < Integrity

KInv == TypeOK /\ DriftInv /\ PacketInv /\ BoundInv /\ OpenInv

\* The peer of the peer is the end itself.
LEMMA OtherFacts ==
    \A a \in Ends : Other(a) \in Ends /\ Other(a) # a /\ Other(Other(a)) = a
BY DEF Ends, Other

\* The two ends are all there are.
LEMMA TwoEnds == \A a, b \in Ends : b = a \/ b = Other(a)
BY DEF Ends, Other

\* Phases tell two neighbouring epochs apart, and nothing else.
LEMMA PhaseFacts ==
    \A e \in Int : Phase(e) # Phase(e + 1) /\ Phase(e) = Phase(e + 2)
BY DEF Phase

\* The invariant holds when the keys are installed.
LEMMA InitKInv == Init => KInv
<1> SUFFICES ASSUME Init PROVE KInv
  OBVIOUS
<1>1. TypeOK
  <2>1. /\ write \in [Ends -> Epochs] /\ read \in [Ends -> Epochs]
        /\ protected \in [Ends -> 0 .. Confidentiality]
        /\ failures \in [Ends -> 0 .. Integrity]
        /\ got \in [Ends -> {None} \cup Epochs]
    BY KeyUpdateAssumption DEF Init, Epochs
  <2>2. /\ previous \in [Ends -> BOOLEAN] /\ pending_ack \in [Ends -> BOOLEAN]
        /\ cooling \in [Ends -> BOOLEAN] /\ confirmed \in [Ends -> BOOLEAN]
        /\ closed \in BOOLEAN /\ net \in SUBSET Packet
    BY Zenon DEF Init
  <2> QED BY <2>1, <2>2 DEF TypeOK
<1>2. DriftInv
  BY OtherFacts DEF Init, DriftInv
<1>3. PacketInv
  BY DEF Init, PacketInv, None
<1>4. BoundInv
  BY KeyUpdateAssumption DEF Init, BoundInv
<1>5. OpenInv
  BY KeyUpdateAssumption DEF Init, OpenInv
<1> QED BY <1>1, <1>2, <1>3, <1>4, <1>5 DEF KInv

\* A step of end a that starts an update keeps the invariant.
LEMMA StepRequest ==
    ASSUME KInv, NEW a \in Ends, Request(a)
    PROVE  KInv'
<1> USE DEF KInv
<1>1. /\ write \in [Ends -> Epochs] /\ read \in [Ends -> Epochs]
      /\ pending_ack \in [Ends -> BOOLEAN] /\ protected \in [Ends -> 0 .. Confidentiality]
      /\ cooling \in [Ends -> BOOLEAN]
  BY DEF TypeOK
<1>2. /\ write'[a] = write[a] + 1 /\ write'[Other(a)] = write[Other(a)]
      /\ pending_ack'[a] = TRUE /\ pending_ack'[Other(a)] = pending_ack[Other(a)]
      /\ UNCHANGED <<read, previous, cooling, failures, confirmed, closed, got, net>>
  BY <1>1, OtherFacts DEF Request
<1>3. ~pending_ack[a] /\ ~cooling[a]
  BY DEF Request, CanInitiate
<1>4. write[a] \in 0 .. (MaxEpoch - 1)
  BY <1>1, <1>3, KeyUpdateAssumption DEF BoundInv, Epochs
<1>5. TypeOK'
  BY <1>1, <1>4, KeyUpdateAssumption DEF Request, TypeOK, Epochs
<1>6. DriftInv'
  <2> SUFFICES ASSUME NEW b \in Ends
               PROVE  /\ write'[b] = read'[b] \/ write'[b] = read'[b] + 1
                      /\ read'[b] <= write'[Other(b)]
                      /\ write'[b] <= read'[Other(b)] + 1
                      /\ ~pending_ack'[b] => read'[Other(b)] >= write'[b] /\ read'[b] >= write'[b]
    BY DEF DriftInv
  <2>1. b = a \/ b = Other(a)
    BY TwoEnds
  <2>2. /\ write[a] \in Int /\ read[a] \in Int
        /\ write[Other(a)] \in Int /\ read[Other(a)] \in Int
    BY <1>1, OtherFacts DEF Epochs
  <2> QED BY <1>2, <1>3, <2>1, <2>2, OtherFacts DEF DriftInv
<1>7. PacketInv'
  <2>1. \A b \in Ends : write'[b] >= write[b]
    BY <1>1, <1>2, TwoEnds DEF Epochs
  <2>2. \A m \in net : m.from \in Ends /\ m.epoch \in Int
    BY DEF TypeOK, Packet, Epochs
  <2>3. \A m \in net : m.epoch <= write'[m.from]
    BY <1>1, <1>2, <2>1, <2>2, <1>5 DEF PacketInv, Epochs, TypeOK
  <2> QED BY <1>2, <2>3 DEF PacketInv
<1>8. BoundInv'
  BY <1>2, TwoEnds DEF BoundInv
<1>9. OpenInv'
  BY <1>2 DEF OpenInv
<1> QED BY <1>5, <1>6, <1>7, <1>8, <1>9

\* Sending a packet keeps it.
LEMMA StepSend ==
    ASSUME KInv, NEW a \in Ends, NEW acks \in {None, got[a]}, Send(a, acks)
    PROVE  KInv'
<1> USE DEF KInv
<1> DEFINE m0 == [from |-> a, epoch |-> write[a], acks |-> acks]
<1>1. /\ write \in [Ends -> Epochs] /\ read \in [Ends -> Epochs]
      /\ protected \in [Ends -> 0 .. Confidentiality]
      /\ got \in [Ends -> {None} \cup Epochs]
  BY DEF TypeOK
<1>2. /\ net' = net \cup {m0}
      /\ UNCHANGED <<write, read, previous, pending_ack, cooling, failures,
                     confirmed, closed, got>>
  BY DEF Send
<1>3. protected[a] < Confidentiality
  BY <1>1, KeyUpdateAssumption DEF Send, Spent
<1>4. protected' \in [Ends -> 0 .. Confidentiality]
  BY <1>1, <1>3, KeyUpdateAssumption DEF Send
<1>5. m0 \in Packet
  BY <1>1 DEF Packet
<1>6. TypeOK'
  BY <1>2, <1>4, <1>5 DEF TypeOK
<1>7. DriftInv' /\ BoundInv' /\ OpenInv'
  BY <1>2 DEF DriftInv, BoundInv, OpenInv
<1>8. PacketInv'
  <2>1. /\ m0.epoch <= write[m0.from]
        /\ m0.acks # None => m0.acks <= m0.epoch /\ m0.acks <= read[m0.from]
    <3>1. write[a] \in Int /\ read[a] \in Int
      BY <1>1 DEF Epochs
    <3>2. acks # None => acks = got[a] /\ got[a] \in Int /\ got[a] <= read[a]
      BY <1>1 DEF PacketInv, Epochs
    <3>3. read[a] <= write[a]
      BY <3>1 DEF DriftInv
    <3> QED BY <3>1, <3>2, <3>3
  <2> QED BY <1>2, <2>1 DEF PacketInv
<1> QED BY <1>6, <1>7, <1>8

\* The epochs and gates an end has after it opened a packet.
LEMMA ReceiveFacts ==
    ASSUME KInv, NEW a \in Ends, NEW m \in net, Receive(a, m)
    PROVE  /\ read'[a] = IF m.epoch = read[a] + 1 THEN m.epoch ELSE read[a]
           /\ read'[a] >= m.epoch
           /\ read'[Other(a)] = read[Other(a)]
           /\ write'[a] = IF m.epoch = read[a] + 1 /\ write[a] = read[a]
                          THEN write[a] + 1 ELSE write[a]
           /\ write'[Other(a)] = write[Other(a)]
           /\ pending_ack'[Other(a)] = pending_ack[Other(a)]
           /\ ~pending_ack'[a] =>
                 (~pending_ack[a] /\ write'[a] = write[a]) \/ m.acks = write'[a]
           /\ m.from = Other(a)
           /\ \A b \in Ends : cooling[b] => cooling'[b]
           /\ pending_ack[a] => pending_ack'[a] \/ cooling'[a]
<1> USE DEF KInv
<1>1. /\ write \in [Ends -> Epochs] /\ read \in [Ends -> Epochs]
      /\ pending_ack \in [Ends -> BOOLEAN] /\ cooling \in [Ends -> BOOLEAN]
      /\ m.epoch \in Epochs
  BY DEF TypeOK, Packet
<1>2. /\ write[a] \in Int /\ read[a] \in Int /\ m.epoch \in Int
      /\ write[a] = read[a] \/ write[a] = read[a] + 1
  BY <1>1 DEF DriftInv, Epochs
<1> DEFINE next   == m.epoch = read[a] + 1
           answer == next /\ Respond(a, m.epoch)
           w      == IF answer THEN write[a] + 1 ELSE write[a]
           p      == answer \/ pending_ack[a]
           done   == p /\ Confirms(a, w, m)
<1>3. answer <=> next /\ write[a] = read[a]
  <2>1. CASE write[a] = read[a]
    BY <2>1, <1>2, PhaseFacts DEF Respond
  <2>2. CASE write[a] = read[a] + 1
    BY <2>2, <1>2 DEF Respond
  <2> QED BY <1>2, <2>1, <2>2
<1>4. /\ m.from = Other(a) /\ Opens(a, m.epoch)
      /\ read' = [read EXCEPT ![a] = IF next THEN m.epoch ELSE @]
      /\ write' = [write EXCEPT ![a] = w]
      /\ pending_ack' = [pending_ack EXCEPT ![a] = p /\ ~done]
      /\ cooling' = [cooling EXCEPT ![a] = @ \/ done]
  BY DEF Receive
<1>5. done => m.acks = w
  BY DEF Confirms, KeyEpoch
<1>6. /\ read'[a] = IF next THEN m.epoch ELSE read[a]
      /\ read'[Other(a)] = read[Other(a)]
      /\ write'[a] = w /\ write'[Other(a)] = write[Other(a)]
  BY <1>1, <1>4, OtherFacts
<1>7. /\ pending_ack'[a] = (p /\ ~done)
      /\ pending_ack'[Other(a)] = pending_ack[Other(a)]
      /\ \A b \in Ends : cooling[b] => cooling'[b]
      /\ done => cooling'[a]
  BY <1>1, <1>4, OtherFacts, Zenon
<1>8. read'[a] >= m.epoch
  BY <1>2, <1>4, <1>6 DEF Opens
<1> HIDE DEF next, answer, p, done
<1>9. ~pending_ack'[a] => (~pending_ack[a] /\ ~answer) \/ done
  BY <1>7 DEF p
<1>10. pending_ack[a] => pending_ack'[a] \/ cooling'[a]
  BY <1>7 DEF p
<1> QED BY <1>3, <1>4, <1>5, <1>6, <1>7, <1>8, <1>9, <1>10 DEF next

\* Opening a packet, and the answer to an update in it, keep the invariant.
LEMMA StepReceive ==
    ASSUME KInv, NEW a \in Ends, NEW m \in net, Receive(a, m)
    PROVE  KInv'
<1> USE DEF KInv
<1> DEFINE b == Other(a)
<1>1. /\ write \in [Ends -> Epochs] /\ read \in [Ends -> Epochs]
      /\ got \in [Ends -> {None} \cup Epochs]
      /\ protected \in [Ends -> 0 .. Confidentiality]
      /\ m.epoch \in Epochs /\ m.acks \in {None} \cup Epochs
  BY DEF TypeOK, Packet
<1>2. b \in Ends /\ b # a /\ Other(b) = a /\ \A c \in Ends : c = a \/ c = b
  BY OtherFacts, TwoEnds
<1> HIDE DEF b
<1>3. /\ write[a] \in Int /\ read[a] \in Int /\ write[b] \in Int /\ read[b] \in Int
      /\ m.epoch \in Int
  BY <1>1, <1>2 DEF Epochs
<1>4. /\ m.from = b
      /\ read'[a] = IF m.epoch = read[a] + 1 THEN m.epoch ELSE read[a]
      /\ read'[a] >= m.epoch
      /\ read'[b] = read[b]
      /\ write'[a] = IF m.epoch = read[a] + 1 /\ write[a] = read[a]
                     THEN write[a] + 1 ELSE write[a]
      /\ write'[b] = write[b]
      /\ pending_ack'[b] = pending_ack[b]
      /\ ~pending_ack'[a] =>
            (~pending_ack[a] /\ write'[a] = write[a]) \/ m.acks = write'[a]
  BY ReceiveFacts DEF b
<1>5. /\ m.epoch <= write[b]
      /\ m.acks # None => m.acks <= m.epoch /\ m.acks <= read[b]
  BY <1>4 DEF PacketInv
<1>6. read'[a] >= read[a] /\ write'[a] >= write[a]
  BY <1>3, <1>4
<1>7. DriftInv'
  <2>1. /\ write[a] = read[a] \/ write[a] = read[a] + 1
        /\ write[b] = read[b] \/ write[b] = read[b] + 1
        /\ read[a] <= write[b] /\ read[b] <= write[a]
        /\ write[a] <= read[b] + 1 /\ write[b] <= read[a] + 1
        /\ ~pending_ack[a] => read[b] >= write[a] /\ read[a] >= write[a]
        /\ ~pending_ack[b] => read[a] >= write[b] /\ read[b] >= write[b]
    BY <1>2 DEF DriftInv, b
  <2>2. /\ write'[a] = read'[a] \/ write'[a] = read'[a] + 1
        /\ read'[a] <= write'[b] /\ read'[b] <= write'[a]
        /\ write'[a] <= read'[b] + 1 /\ write'[b] <= read'[a] + 1
    BY <1>3, <1>4, <1>5, <1>6, <2>1
  <2>3. ~pending_ack'[a] => read'[b] >= write'[a] /\ read'[a] >= write'[a]
    <3>1. CASE ~pending_ack[a] /\ write'[a] = write[a]
      BY <3>1, <1>3, <1>4, <1>6, <2>1
    <3>2. CASE m.acks = write'[a]
      <4>1. m.acks # None
        BY <3>2, <1>3, <1>6, <1>1, <1>4 DEF None, Epochs
      <4> QED BY <3>2, <4>1, <1>3, <1>4, <1>5
    <3> QED BY <1>4, <3>1, <3>2
  <2>4. ~pending_ack'[b] => read'[a] >= write'[b] /\ read'[b] >= write'[b]
    BY <1>3, <1>4, <1>6, <2>1
  <2> QED BY <1>2, <1>3, <1>4, <2>1, <2>2, <2>3, <2>4 DEF DriftInv, b
<1>8. PacketInv'
  <2>1. net' = net
    BY DEF Receive
  <2>2. \A n \in net : /\ n.from \in Ends /\ n.epoch \in Int
                       /\ n.acks # None => n.acks \in Int
    BY DEF TypeOK, Packet, Epochs
  <2>3. \A c \in Ends : /\ write'[c] >= write[c] /\ read'[c] >= read[c]
                        /\ write[c] \in Int /\ read[c] \in Int
                        /\ write'[c] \in Int /\ read'[c] \in Int
    BY <1>2, <1>3, <1>4, <1>6
  <2>4. \A n \in net :
           /\ n.epoch <= write'[n.from]
           /\ n.acks # None => n.acks <= n.epoch /\ n.acks <= read'[n.from]
    <3> SUFFICES ASSUME NEW n \in net
                 PROVE  /\ n.epoch <= write'[n.from]
                        /\ n.acks # None => n.acks <= n.epoch /\ n.acks <= read'[n.from]
      OBVIOUS
    <3>1. n.from \in Ends /\ n.epoch \in Int /\ (n.acks # None => n.acks \in Int)
      BY <2>2
    <3>2. /\ n.epoch <= write[n.from]
          /\ n.acks # None => n.acks <= n.epoch /\ n.acks <= read[n.from]
      BY DEF PacketInv
    <3> QED BY <2>3, <3>1, <3>2
  <2>5. got'[b] = got[b] /\ (got'[a] = got[a] \/ got'[a] = m.epoch)
    BY <1>1, <1>2 DEF Receive
  <2>6. got'[a] <= read'[a] /\ got'[b] <= read'[b]
    <3>1. got[a] <= read[a] /\ got[b] <= read[b]
      BY <1>2 DEF PacketInv
    <3>2. got[a] \in Int
      BY <1>1 DEF None, Epochs
    <3> QED BY <1>3, <1>4, <1>6, <2>5, <3>1, <3>2
  <2> QED BY <1>2, <2>1, <2>4, <2>6 DEF PacketInv
<1>9. BoundInv'
  <2>1. write'[b] = MaxEpoch => cooling'[b] \/ pending_ack'[b]
    BY <1>2, <1>4, ReceiveFacts DEF BoundInv
  <2>2. write'[a] = MaxEpoch => cooling'[a] \/ pending_ack'[a]
    <3>1. CASE write'[a] = write[a]
      BY <3>1, ReceiveFacts DEF BoundInv
    <3>2. CASE write'[a] # write[a]
      <4>1. m.epoch = read[a] + 1 /\ Respond(a, m.epoch)
        BY <3>2, <1>1 DEF Receive
      <4>2. /\ pending_ack'[a] = ~Confirms(a, write[a] + 1, m)
            /\ cooling'[a] = (cooling[a] \/ Confirms(a, write[a] + 1, m))
        <5>1. pending_ack \in [Ends -> BOOLEAN] /\ cooling \in [Ends -> BOOLEAN]
          BY DEF TypeOK
        <5> QED BY <4>1, <5>1, Zenon DEF Receive
      <4> QED BY <4>2
    <3> QED BY <3>1, <3>2
  <2> QED BY <1>2, <2>1, <2>2 DEF BoundInv
<1>10. TypeOK'
  <2>1. write'[a] \in Epochs /\ read'[a] \in Epochs
    <3>1. write[b] <= MaxEpoch /\ write[a] \in Epochs /\ read[a] \in Epochs
      BY <1>1, <1>2 DEF Epochs
    <3> QED BY <3>1, <1>1, <1>3, <1>4, <1>5, KeyUpdateAssumption DEF Epochs
  <2>2. write' \in [Ends -> Epochs] /\ read' \in [Ends -> Epochs]
    <3>1. /\ DOMAIN write' = Ends /\ DOMAIN read' = Ends
          /\ write' = [c \in Ends |-> write'[c]] /\ read' = [c \in Ends |-> read'[c]]
      BY <1>1 DEF Receive
    <3> QED BY <1>1, <1>2, <1>4, <2>1, <3>1
  <2>3. got' \in [Ends -> {None} \cup Epochs]
    BY <1>1 DEF Receive
  <2>4. protected' \in [Ends -> 0 .. Confidentiality]
    BY <1>1, KeyUpdateAssumption DEF Receive
  <2>5. /\ previous' \in [Ends -> BOOLEAN] /\ pending_ack' \in [Ends -> BOOLEAN]
        /\ cooling' \in [Ends -> BOOLEAN] /\ confirmed' \in [Ends -> BOOLEAN]
    <3>1. /\ previous \in [Ends -> BOOLEAN] /\ pending_ack \in [Ends -> BOOLEAN]
          /\ cooling \in [Ends -> BOOLEAN] /\ confirmed \in [Ends -> BOOLEAN]
      BY DEF TypeOK
    <3> QED BY <3>1, Zenon DEF Receive
  <2> QED BY <2>2, <2>3, <2>4, <2>5 DEF TypeOK, Receive
<1>11. OpenInv'
  BY DEF Receive, OpenInv
<1> QED BY <1>7, <1>8, <1>9, <1>10, <1>11

\* The steps that touch neither the epochs nor the packets.
LEMMA StepRest ==
    ASSUME KInv, NEW a \in Ends,
           \/ PollCloses(a) \/ Reject(a) \/ Discard(a) \/ CoolDown(a) \/ Confirm(a)
    PROVE  KInv'
<1> USE DEF KInv
<1>1. UNCHANGED <<write, read, pending_ack, got, net, protected>>
  BY DEF PollCloses, Reject, Discard, CoolDown, Confirm
<1>2. DriftInv' /\ PacketInv'
  BY <1>1 DEF DriftInv, PacketInv
<1>3. BoundInv'
  <2>1. CASE CoolDown(a)
    BY <2>1, <1>1 DEF CoolDown, TypeOK, BoundInv, Epochs
  <2>2. CASE PollCloses(a) \/ Reject(a) \/ Discard(a) \/ Confirm(a)
    BY <2>2 DEF PollCloses, Reject, Discard, Confirm, BoundInv
  <2> QED BY <2>1, <2>2
<1>4. TypeOK'
  <2>1. CASE Reject(a)
    <3>1. failures \in [Ends -> 0 .. Integrity] /\ closed' \in BOOLEAN
      BY <2>1 DEF TypeOK, Reject
    <3>2. failures' \in [Ends -> 0 .. Integrity]
      BY <2>1, <3>1, KeyUpdateAssumption DEF Reject, OpenInv
    <3> QED BY <2>1, <3>1, <3>2 DEF TypeOK, Reject
  <2>2. CASE PollCloses(a)
    BY <2>2 DEF TypeOK, PollCloses
  <2>3. CASE Discard(a) \/ CoolDown(a) \/ Confirm(a)
    <3>1. /\ previous \in [Ends -> BOOLEAN] /\ cooling \in [Ends -> BOOLEAN]
          /\ confirmed \in [Ends -> BOOLEAN]
      BY DEF TypeOK
    <3>2. /\ previous' \in [Ends -> BOOLEAN] /\ cooling' \in [Ends -> BOOLEAN]
          /\ confirmed' \in [Ends -> BOOLEAN]
      BY <2>3, <3>1, Zenon DEF Discard, CoolDown, Confirm
    <3> QED BY <2>3, <3>2, <1>1 DEF TypeOK, Discard, CoolDown, Confirm
  <2> QED BY <2>1, <2>2, <2>3
<1>5. OpenInv'
  <2>1. CASE Reject(a)
    <3>1. /\ failures \in [Ends -> 0 .. Integrity] /\ ~closed
          /\ failures' = [failures EXCEPT ![a] = failures[a] + 1]
          /\ closed' = (failures'[a] >= Integrity)
      BY <2>1 DEF Reject, TypeOK
    <3>2. ~closed' => failures'[a] < Integrity
      <4>1. ~closed' => ~(failures'[a] >= Integrity)
        BY <3>1, Zenon
      <4>2. failures'[a] \in Int
        BY <3>1
      <4> QED BY <4>1, <4>2, KeyUpdateAssumption
    <3>3. failures'[Other(a)] = failures[Other(a)]
      BY <3>1, OtherFacts
    <3> QED BY <3>1, <3>2, <3>3, TwoEnds DEF OpenInv
  <2>2. CASE PollCloses(a) \/ Discard(a) \/ CoolDown(a) \/ Confirm(a)
    BY <2>2 DEF PollCloses, Discard, CoolDown, Confirm, OpenInv
  <2> QED BY <2>1, <2>2
<1> QED BY <1>2, <1>3, <1>4, <1>5

\* The inductive invariant of the key schedule.
LEMMA InvariantKInv == Spec => []KInv
<1>1. ASSUME KInv, [Next]_vars PROVE KInv'
  <2>1. CASE UNCHANGED vars
    BY <1>1, <2>1 DEF vars, KInv, TypeOK, DriftInv, PacketInv, BoundInv, OpenInv
  <2>2. ASSUME NEW a \in Ends, Request(a) \/ PollUpdates(a) PROVE KInv'
    BY <1>1, <2>2, StepRequest DEF PollUpdates
  <2>3. ASSUME NEW a \in Ends, NEW acks \in {None, got[a]}, Send(a, acks) PROVE KInv'
    BY <1>1, <2>3, StepSend
  <2>4. ASSUME NEW a \in Ends, NEW m \in net, Receive(a, m) PROVE KInv'
    BY <1>1, <2>4, StepReceive
  <2>5. ASSUME NEW a \in Ends,
               PollCloses(a) \/ Reject(a) \/ Discard(a) \/ CoolDown(a) \/ Confirm(a)
        PROVE  KInv'
    BY <1>1, <2>5, StepRest
  <2> QED BY <1>1, <2>1, <2>2, <2>3, <2>4, <2>5 DEF Next
<1> QED BY <1>1, InitKInv, PTL DEF Spec

\* The key schedule keeps its types, and no key protects more packets than
\* its limit, for any limits and any number of updates.
THEOREM KeysTypeCorrect == Spec => []TypeOK
<1>1. KInv => TypeOK
  BY DEF KInv
<1> QED BY <1>1, InvariantKInv, PTL

\* Two ends that run keys.zig never drift apart: every packet, however late,
\* is at most one epoch ahead of the keys its receiver reads with, and each
\* end writes with the epoch it reads or the next.  Three read generations and
\* one phase bit are enough, whoever updates, both at once included.
THEOREM NeverDrift == Spec => []InStep
<1>1. KInv => InStep
  <2> SUFFICES ASSUME KInv PROVE InStep
    OBVIOUS
  <2>1. ASSUME NEW m \in net PROVE m.epoch <= read[Other(m.from)] + 1
    <3>1. m.from \in Ends /\ m.epoch \in Int
      BY DEF KInv, TypeOK, Packet, Epochs
    <3>2. write[m.from] \in Int /\ read[Other(m.from)] \in Int
      BY <3>1, OtherFacts DEF KInv, TypeOK, Epochs
    <3>3. m.epoch <= write[m.from] /\ write[m.from] <= read[Other(m.from)] + 1
      BY <3>1 DEF KInv, PacketInv, DriftInv
    <3> QED BY <3>1, <3>2, <3>3
  <2>2. \A a \in Ends : write[a] \in {read[a], read[a] + 1}
    BY DEF KInv, DriftInv
  <2> QED BY <2>1, <2>2 DEF InStep
<1> QED BY <1>1, InvariantKInv, PTL

\* No update gets stuck: an end always opens what its peer sends now, and the
\* ACK of a packet of the new keys is taken for the confirmation it is.
THEOREM NoUpdateStuck == Spec => []AckConfirms
<1>1. KInv => AckConfirms
  <2> SUFFICES ASSUME KInv, NEW a \in Ends
               PROVE  /\ Opens(a, write[Other(a)])
                      /\ (pending_ack[a] /\ got[Other(a)] = write[a]) =>
                            Confirms(a, write[a], [from |-> Other(a),
                                epoch |-> write[Other(a)], acks |-> got[Other(a)]])
    BY DEF AckConfirms
  <2>1. write[a] \in Nat /\ read[a] \in Int /\ write[Other(a)] \in Int
    BY OtherFacts DEF KInv, TypeOK, Epochs
  <2>2. read[a] <= write[Other(a)] /\ write[Other(a)] <= read[a] + 1
    BY OtherFacts DEF KInv, DriftInv
  <2>3. Opens(a, write[Other(a)])
    BY <2>1, <2>2 DEF Opens
  <2>4. got[Other(a)] = write[a] =>
           Confirms(a, write[a], [from |-> Other(a), epoch |-> write[Other(a)],
                                  acks |-> got[Other(a)]])
    BY <2>1 DEF Confirms, KeyEpoch, None
  <2> QED BY <2>3, <2>4
<1> QED BY <1>1, InvariantKInv, PTL
=============================================================================
