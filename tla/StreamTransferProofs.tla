------------------------- MODULE StreamTransferProofs -------------------------
(***************************************************************************)
(* Theorems about a stream: about its send half (SendStream) and its       *)
(* receive half (RecvStream) alone, and about the two end to end: the ends *)
(* agree, and read together they are a ReliableStream (A), for any size of *)
(* stream, window, buffer and packet number, any number of paths and any   *)
(* number of faults.                                                       *)
(*                                                                         *)
(* TInv, EndInv and RInv are the halves' inductive invariants; CrossInv    *)
(* relates them through the packets on their way and the packet numbers    *)
(* the receiver has processed.                                             *)
(***************************************************************************)
EXTENDS StreamTransfer, WellFoundedInduction, TLAPS

\* The constants of the two halves.
LEMMA Constants ==
    /\ Paths # {} /\ MaxOffset \in Nat /\ MaxBuffered \in Nat \ {0} /\ MaxKey \in Nat
    /\ MaxSpan \in Nat
BY TransferAssumption DEF SendStreamAssumption, RecvStreamAssumption

-----------------------------------------------------------------------------
(* The send half: the invariant.                                           *)

\* Tracked packets carry written bytes under keys handed out before.
ChunksOK ==
    \A c \in in_flight : c.offset + c.length <= write_offset /\ c.key < next_key

\* finish() fixes the size, and only then a FIN travels.
SizeOK ==
    /\ fin_marked => final_size = write_offset
    /\ ~fin_marked => final_size = NoSize
    /\ (fin_acked \/ \E c \in in_flight : c.fin) => fin_marked

TypedInv == TypeOK /\ ChunksOK
TInv == TypedInv /\ SizeOK

-----------------------------------------------------------------------------
(* The send half: the type invariant.                                      *)

\* A fresh stream satisfies the invariant.
LEMMA InitTInv == Init => TInv
<1> SUFFICES ASSUME Init PROVE TInv
  OBVIOUS
<1>1. write_offset = 0 /\ base_offset = 0 /\ next_key = 0 /\ final_size = NoSize
  BY DEF Init
<1>2. /\ write_offset \in 0..MaxOffset
      /\ base_offset \in 0..write_offset
      /\ next_key \in 0..MaxKey
  BY <1>1, Constants
<1>3. /\ pending = {} /\ acked_above = {} /\ in_flight = {}
      /\ reset_in_flight = {}
  BY DEF Init
<1>4. reset \in Resets /\ state \in States
  BY DEF Init, Resets, States
<1>5. /\ fin_marked = FALSE /\ fin_in_flight \in BOOLEAN
      /\ fin_acked = FALSE /\ probe_requeued_pending \in BOOLEAN
  BY DEF Init
<1> QED BY <1>1, <1>2, <1>3, <1>4, <1>5 DEF TInv, TypedInv, TypeOK, ChunksOK, SizeOK

\* Whatever set of chunk bytes is acknowledged, the floor ends between the
\* old floor and the write offset, and what stays above it was acknowledged.
LEMMA MarkAckedFacts ==
    ASSUME TypeOK, NEW B \in SUBSET (0..(write_offset - 1)), MarkAcked(B)
    PROVE  /\ base_offset' \in base_offset..write_offset
           /\ acked_above' = (acked_above \cup B) \ (0 .. (base_offset' - 1))
           /\ base_offset .. (base_offset' - 1) \subseteq acked_above \cup B
           /\ pending' = StripAcked(B)
           /\ pending' \subseteq pending
           /\ probe_requeued_pending' \in BOOLEAN
<1> DEFINE above == (acked_above \cup B) \ (0 .. (base_offset - 1))
<1>1. PICK floor \in base_offset .. MaxOffset :
         /\ base_offset .. (floor - 1) \subseteq above
         /\ floor \notin above
         /\ base_offset' = floor
         /\ acked_above' = above \ (0 .. (floor - 1))
  BY DEF MarkAcked
<1>2. above \in SUBSET (0..(write_offset - 1))
  BY DEF TypeOK
<1>3. floor <= write_offset
  <2>1. CASE floor = base_offset
    BY <2>1 DEF TypeOK
  <2>2. CASE floor > base_offset
    <3>1. floor - 1 \in base_offset .. (floor - 1)
      BY <2>2, Constants DEF TypeOK
    <3> QED BY <3>1, <1>1, <1>2 DEF TypeOK
  <2> QED BY <2>1, <2>2, Constants DEF TypeOK
<1>4. acked_above' = (acked_above \cup B) \ (0 .. (base_offset' - 1))
  BY <1>1, Constants DEF TypeOK
<1>5. pending' = StripAcked(B) /\ pending' \subseteq pending
  BY DEF MarkAcked, StripAcked
<1>6. probe_requeued_pending' \in BOOLEAN
  BY DEF MarkAcked
<1> QED BY <1>1, <1>3, <1>4, <1>5, <1>6, Constants DEF TypeOK

\* The bytes of a tracked chunk were written.
LEMMA BytesWritten ==
    ASSUME TInv, NEW c \in in_flight
    PROVE  Bytes(c) \in SUBSET (0..(write_offset - 1))
BY Constants DEF TInv, TypedInv, TypeOK, ChunksOK, Chunk, Bytes

\* What the packet builder adds: one fresh chunk of pending bytes.
LEMMA SendChunkFacts ==
    ASSUME TypeOK, NEW p \in Paths, NEW n \in 1..MaxOffset, SendChunk(p, n)
    PROVE  \E c \in Chunk :
              /\ c.key = next_key /\ c.path = p /\ c.length = n /\ ~c.requeued
              /\ c.offset + c.length <= write_offset
              /\ Bytes(c) \subseteq pending
              /\ c.fin => FinOwed
              /\ in_flight' = in_flight \cup {c}
              /\ pending' = pending \ Bytes(c)
              /\ probe_requeued_pending' =
                    (probe_requeued_pending /\ pending # Bytes(c))
              /\ fin_in_flight' = (fin_in_flight \/ c.fin)
<1> DEFINE fin(o) == FinOwed /\ o + n = final_size
           c(o)   == [key |-> next_key, path |-> p, offset |-> o,
                      length |-> n, fin |-> fin(o), requeued |-> FALSE]
<1>1. PICK off \in pending :
        /\ Bytes(c(off)) \subseteq pending
        /\ in_flight' = in_flight \cup {c(off)}
        /\ pending' = pending \ Bytes(c(off))
        /\ probe_requeued_pending' =
              (probe_requeued_pending /\ pending # Bytes(c(off)))
        /\ fin_in_flight' = (fin_in_flight \/ fin(off))
  BY DEF SendChunk
<1>2. off \in Nat /\ off < write_offset /\ write_offset \in 0..MaxOffset
  BY DEF TypeOK
<1>3. Bytes(c(off)) = off .. (off + n - 1)
  BY DEF Bytes
<1>4. off + n <= write_offset
  <2>1. off + n - 1 \in off .. (off + n - 1)
    BY <1>2
  <2>2. off + n - 1 \in pending
    BY <1>1, <1>3, <2>1
  <2> QED BY <1>2, <2>2 DEF TypeOK
<1>5. fin(off) \in BOOLEAN
  BY DEF FinOwed, TypeOK
<1>6. c(off) \in Chunk
  BY <1>2, <1>4, <1>5, Constants DEF Chunk, TypeOK
<1> HIDE DEF fin
<1>7. /\ c(off).key = next_key /\ c(off).path = p /\ c(off).length = n
      /\ ~c(off).requeued /\ c(off).offset = off /\ c(off).fin = fin(off)
  OBVIOUS
<1>8. fin(off) => FinOwed
  BY DEF fin
<1> HIDE DEF c
<1> QED BY <1>1, <1>4, <1>6, <1>7, <1>8

\* Every step keeps the type invariant.
LEMMA StepTypedInv == TInv /\ [Next]_vars => TypedInv'
<1> SUFFICES ASSUME TInv, [Next]_vars PROVE TypedInv'
  OBVIOUS
<1> USE Constants
<1>1. ASSUME NEW n \in 1..MaxOffset, Write(n) PROVE TypedInv'
  <2>1. /\ write_offset' \in write_offset..MaxOffset
        /\ base_offset' \in 0..write_offset'
    BY <1>1 DEF Write, TInv, TypedInv, TypeOK
  <2>2. pending' \in SUBSET (0..(write_offset' - 1))
    BY <1>1, <2>1 DEF Write, TInv, TypedInv, TypeOK
  <2>3. acked_above' \in SUBSET (0..(write_offset' - 1))
    BY <1>1, <2>1 DEF Write, TInv, TypedInv, TypeOK
  <2>4. ChunksOK'
    BY <1>1, <2>1 DEF Write, TInv, TypedInv, TypeOK, ChunksOK, Chunk
  <2>5. state' \in States
    BY <1>1 DEF Write, TInv, TypedInv, TypeOK, States
  <2> QED BY <1>1, <2>1, <2>2, <2>3, <2>4, <2>5 DEF Write, TInv, TypedInv, TypeOK, finVars
<1>2. CASE Finish
  BY <1>2 DEF Finish, TInv, TypedInv, TypeOK, ChunksOK, data, States, Resets
<1>3. CASE ResetStream
  BY <1>3 DEF ResetStream, TInv, TypedInv, TypeOK, ChunksOK, finVars, States, Resets
<1>4. ASSUME NEW p \in Paths, NEW n \in 1..MaxOffset, SendChunk(p, n)
      PROVE  TypedInv'
  <2>1. PICK c \in Chunk :
          /\ c.key = next_key
          /\ c.offset + c.length <= write_offset
          /\ in_flight' = in_flight \cup {c}
          /\ pending' = pending \ Bytes(c)
          /\ probe_requeued_pending' =
                (probe_requeued_pending /\ pending # Bytes(c))
          /\ fin_in_flight' = (fin_in_flight \/ c.fin)
    BY <1>4, SendChunkFacts DEF TInv, TypedInv
  <2>2. next_key' \in 0..MaxKey /\ next_key' = next_key + 1
    BY <1>4 DEF SendChunk, TInv, TypedInv, TypeOK
  <2>3. ChunksOK'
    BY <1>4, <2>1, <2>2 DEF SendChunk, ChunksOK, TInv, TypedInv, TypeOK, Chunk
  <2>4. fin_in_flight' \in BOOLEAN /\ probe_requeued_pending' \in BOOLEAN
    BY <2>1 DEF TInv, TypedInv, TypeOK, Chunk
  <2>5. in_flight' \in SUBSET Chunk /\ pending' \in SUBSET (0..(write_offset - 1))
    BY <2>1 DEF TInv, TypedInv, TypeOK
  <2> QED BY <1>4, <2>2, <2>3, <2>4, <2>5 DEF SendChunk, TInv, TypedInv, TypeOK
<1>5. ASSUME NEW p \in Paths, SendFin(p) PROVE TypedInv'
  <2> DEFINE c == [key |-> next_key, path |-> p, offset |-> final_size,
                   length |-> 0, fin |-> TRUE, requeued |-> FALSE]
  <2>1. final_size \in 0..MaxOffset /\ final_size <= write_offset
    BY <1>5 DEF SendFin, FinOwed, TInv, TypedInv, TypeOK, SizeOK
  <2>2. c \in Chunk
    BY <1>5, <2>1 DEF SendFin, TInv, TypedInv, TypeOK, Chunk
  <2>3. in_flight' = in_flight \cup {c} /\ next_key' = next_key + 1
    BY <1>5 DEF SendFin
  <2>4. c.key = next_key /\ c.offset + c.length = final_size
    BY <2>1
  <2> HIDE DEF c
  <2>5. in_flight' \in SUBSET Chunk
    BY <2>2, <2>3 DEF TInv, TypedInv, TypeOK
  <2>6. ChunksOK'
    BY <1>5, <2>1, <2>3, <2>4
       DEF SendFin, TInv, TypedInv, TypeOK, ChunksOK, data, Chunk
  <2> QED
    BY <1>5, <2>3, <2>5, <2>6 DEF SendFin, TInv, TypedInv, TypeOK, data
<1>6. ASSUME NEW p \in Paths, SendReset(p) PROVE TypedInv'
  BY <1>6 DEF SendReset, TInv, TypedInv, TypeOK, ChunksOK, data, finVars, Chunk,
              ResetPacket, Resets
<1>7. ASSUME NEW c \in in_flight, PacketAcked(c) PROVE TypedInv'
  <2>1. Bytes(c) \in SUBSET (0..(write_offset - 1)) /\ MarkAcked(Bytes(c))
    BY <1>7, BytesWritten DEF PacketAcked
  <2>2. /\ base_offset' \in base_offset..write_offset
        /\ acked_above' = (acked_above \cup Bytes(c)) \ (0 .. (base_offset' - 1))
        /\ pending' \subseteq pending
        /\ probe_requeued_pending' \in BOOLEAN
    BY <2>1, MarkAckedFacts DEF TInv, TypedInv
  <2>3. state' \in States
    BY <1>7 DEF PacketAcked, AdvancedState, TInv, TypedInv, TypeOK, States
  <2>4. in_flight' \in SUBSET Chunk /\ ChunksOK' /\ fin_acked' \in BOOLEAN
    BY <1>7 DEF PacketAcked, TInv, TypedInv, TypeOK, ChunksOK, Chunk
  <2>5. /\ base_offset' \in 0..write_offset
        /\ acked_above' \in SUBSET (0..(write_offset - 1))
    <3>1. acked_above \cup Bytes(c) \in SUBSET (0..(write_offset - 1))
      BY <2>1 DEF TInv, TypedInv, TypeOK
    <3>2. acked_above' \subseteq acked_above \cup Bytes(c)
      BY <2>2
    <3> QED BY <2>2, <3>1, <3>2 DEF TInv, TypedInv, TypeOK
  <2> QED BY <1>7, <2>2, <2>3, <2>4, <2>5 DEF PacketAcked, TInv, TypedInv, TypeOK
<1>8. ASSUME NEW c \in in_flight, PacketLost(c) PROVE TypedInv'
  <2>1. pending' \in SUBSET (0..(write_offset - 1))
    BY <1>8, BytesWritten DEF PacketLost, Unacked, TInv, TypedInv, TypeOK
  <2>2. in_flight' \in SUBSET Chunk /\ ChunksOK' /\ fin_in_flight' \in BOOLEAN
    BY <1>8 DEF PacketLost, TInv, TypedInv, TypeOK, ChunksOK, Chunk
  <2> QED BY <1>8, <2>1, <2>2 DEF PacketLost, TInv, TypedInv, TypeOK
<1>9. ASSUME NEW c \in in_flight, PacketProbeRequeued(c) PROVE TypedInv'
  <2>1. pending' \in SUBSET (0..(write_offset - 1))
    BY <1>9, BytesWritten DEF PacketProbeRequeued, Unacked, TInv, TypedInv, TypeOK
  <2>2. [c EXCEPT !.requeued = TRUE] \in Chunk
    BY DEF TInv, TypedInv, TypeOK, Chunk
  <2>3. in_flight' \in SUBSET Chunk
    BY <1>9, <2>2 DEF PacketProbeRequeued, TInv, TypedInv, TypeOK
  <2>4. ChunksOK'
    BY <1>9 DEF PacketProbeRequeued, TInv, TypedInv, TypeOK, ChunksOK, Chunk
  <2>5. fin_in_flight' \in BOOLEAN /\ probe_requeued_pending' \in BOOLEAN
    BY <1>9 DEF PacketProbeRequeued, TInv, TypedInv, TypeOK
  <2> QED BY <1>9, <2>1, <2>3, <2>4, <2>5 DEF PacketProbeRequeued, TInv, TypedInv, TypeOK
<1>10. ASSUME NEW r \in reset_in_flight, ResetAcked(r) PROVE TypedInv'
  BY <1>10 DEF ResetAcked, AdvancedState, TInv, TypedInv, TypeOK, ChunksOK, data, finVars,
               Resets, States
<1>11. ASSUME NEW r \in reset_in_flight, ResetLost(r) PROVE TypedInv'
  BY <1>11 DEF ResetLost, RequeueReset, TInv, TypedInv, TypeOK, ChunksOK, data, finVars,
               Resets
<1>12. ASSUME NEW r \in reset_in_flight, ResetProbeRequeued(r) PROVE TypedInv'
  BY <1>12 DEF ResetProbeRequeued, RequeueReset, TInv, TypedInv, TypeOK, ChunksOK, data,
               finVars, Resets
<1>13. CASE UNCHANGED vars
  BY <1>13 DEF vars, data, finVars, TInv, TypedInv, TypeOK, ChunksOK
<1> QED
  BY <1>1, <1>2, <1>3, <1>4, <1>5, <1>6, <1>7, <1>8, <1>9, <1>10, <1>11, <1>12,
     <1>13 DEF Next

\* Every step keeps the agreement between final size, FIN and write offset.
LEMMA StepSizeOK == TInv /\ [Next]_vars => SizeOK'
<1> SUFFICES ASSUME TInv, [Next]_vars PROVE SizeOK'
  OBVIOUS
<1>1. ASSUME NEW n \in 1..MaxOffset, Write(n) PROVE SizeOK'
  BY <1>1 DEF Write, TInv, SizeOK, finVars
<1>2. CASE Finish
  BY <1>2 DEF Finish, TInv, SizeOK, data
<1>3. CASE ResetStream
  BY <1>3 DEF ResetStream, TInv, SizeOK, finVars
<1>4. ASSUME NEW p \in Paths, NEW n \in 1..MaxOffset, SendChunk(p, n)
      PROVE  SizeOK'
  <2>1. PICK c \in Chunk : (c.fin => FinOwed) /\ in_flight' = in_flight \cup {c}
    BY <1>4, SendChunkFacts DEF TInv, TypedInv
  <2> QED BY <1>4, <2>1 DEF SendChunk, FinOwed, TInv, SizeOK
<1>5. ASSUME NEW p \in Paths, SendFin(p) PROVE SizeOK'
  BY <1>5 DEF SendFin, FinOwed, TInv, SizeOK, data
<1>6. ASSUME NEW p \in Paths, SendReset(p) PROVE SizeOK'
  BY <1>6 DEF SendReset, TInv, SizeOK, data, finVars
<1>7. ASSUME NEW c \in in_flight, PacketAcked(c) PROVE SizeOK'
  BY <1>7 DEF PacketAcked, TInv, SizeOK
<1>8. ASSUME NEW c \in in_flight, PacketLost(c) PROVE SizeOK'
  BY <1>8 DEF PacketLost, TInv, SizeOK
<1>9. ASSUME NEW c \in in_flight, PacketProbeRequeued(c) PROVE SizeOK'
  BY <1>9 DEF PacketProbeRequeued, TInv, TypedInv, TypeOK, Chunk, SizeOK
<1>10. CASE \/ \E r \in reset_in_flight : ResetAcked(r)
            \/ \E r \in reset_in_flight : ResetLost(r)
            \/ \E r \in reset_in_flight : ResetProbeRequeued(r)
  BY <1>10 DEF ResetAcked, ResetLost, ResetProbeRequeued, TInv, SizeOK, data,
               finVars
<1>11. CASE UNCHANGED vars
  BY <1>11 DEF vars, data, finVars, TInv, SizeOK
<1> QED
  BY <1>1, <1>2, <1>3, <1>4, <1>5, <1>6, <1>7, <1>8, <1>9, <1>10, <1>11 DEF Next

\* Types and sizes hold in every state.
LEMMA InvariantTInv == Spec => []TInv
<1>1. TInv /\ [Next]_vars => TInv'
  BY StepTypedInv, StepSizeOK DEF TInv
<1> QED BY <1>1, InitTInv, PTL DEF Spec

\* Every field of SendStream keeps its type, and the acknowledged floor never
\* passes the write offset (the assertions of advanceFloor), for any sizes.
THEOREM SendTypeCorrect == Spec => []TypeOK
<1>1. TInv => TypeOK
  BY DEF TInv, TypedInv
<1> QED BY <1>1, InvariantTInv, PTL

-----------------------------------------------------------------------------
(* The send half: nothing owed is ever forgotten, on any number of paths.  *)

\* A step keeps every byte acknowledged, queued or in a live packet.
LEMMA StepNoByteForgotten ==
    TInv /\ NoByteForgotten /\ [Next]_vars => NoByteForgotten'
<1> SUFFICES ASSUME TInv, NoByteForgotten, [Next]_vars, (reset = "none")',
                    NEW b \in Window'
             PROVE  \/ b \in acked_above'
                    \/ b \in pending'
                    \/ \E c \in in_flight' : ~c.requeued /\ b \in Bytes(c)
  BY DEF NoByteForgotten, Bytes
<1> DEFINE Goal == \/ b \in acked_above'
                   \/ b \in pending'
                   \/ \E c \in in_flight' : ~c.requeued /\ b \in Bytes(c)
<1> USE DEF TInv, TypedInv
<1>1. ASSUME NEW n \in 1..MaxOffset, Write(n) PROVE Goal
  <2>1. /\ write_offset' = write_offset + n /\ base_offset' = base_offset
        /\ pending' = pending \cup (write_offset .. (write_offset + n - 1))
        /\ acked_above' = acked_above /\ in_flight' = in_flight
        /\ reset = "none"
    BY <1>1 DEF Write
  <2>2. b \in Window \/ b \in write_offset .. (write_offset + n - 1)
    BY <2>1 DEF Window, TypeOK
  <2> QED BY <2>1, <2>2 DEF NoByteForgotten
<1>2. CASE Finish
  BY <1>2 DEF Finish, NoByteForgotten, data, Window
<1>3. CASE ResetStream
  BY <1>3 DEF ResetStream
<1>4. ASSUME NEW p \in Paths, NEW n \in 1..MaxOffset, SendChunk(p, n) PROVE Goal
  <2>1. PICK c \in Chunk :
          /\ ~c.requeued
          /\ in_flight' = in_flight \cup {c}
          /\ pending' = pending \ Bytes(c)
    BY <1>4, SendChunkFacts
  <2>2. b \in Window /\ reset = "none" /\ acked_above' = acked_above
    BY <1>4 DEF SendChunk, Window
  <2> QED BY <2>1, <2>2 DEF NoByteForgotten
<1>5. ASSUME NEW p \in Paths, SendFin(p) PROVE Goal
  BY <1>5 DEF SendFin, NoByteForgotten, data, Window
<1>6. ASSUME NEW p \in Paths, SendReset(p) PROVE Goal
  BY <1>6 DEF SendReset
<1>7. ASSUME NEW c \in in_flight, PacketAcked(c) PROVE Goal
  <2>1. /\ base_offset' \in base_offset..write_offset
        /\ acked_above' = (acked_above \cup Bytes(c)) \ (0 .. (base_offset' - 1))
        /\ pending' = StripAcked(Bytes(c))
    BY <1>7, BytesWritten, MarkAckedFacts DEF PacketAcked
  <2>2. /\ in_flight' = in_flight \ {c}
        /\ reset = "none" /\ write_offset' = write_offset
    BY <1>7 DEF PacketAcked
  <2>3. b \in Window /\ b \notin 0 .. (base_offset' - 1)
    <3>1. b \in base_offset' .. (write_offset - 1)
      BY <2>2 DEF Window
    <3>2. base_offset \in Nat /\ write_offset \in Nat /\ base_offset' \in Nat
      BY <2>1, Constants DEF TypeOK
    <3>3. b \in Int /\ b >= base_offset' /\ b <= write_offset - 1
      BY <3>1, <3>2
    <3>4. base_offset' >= base_offset
      BY <2>1, <3>2
    <3>5. b \in base_offset .. (write_offset - 1)
      BY <3>2, <3>3, <3>4
    <3>6. b \notin 0 .. (base_offset' - 1)
      <4>1. PICK f \in Nat : f = base_offset'
        BY <3>2
      <4>2. b \in Int /\ b >= f
        BY <3>3, <4>1
      <4>3. b \notin 0 .. (f - 1)
        BY <4>2
      <4> QED BY <4>1, <4>3
    <3> QED BY <3>5, <3>6 DEF Window
  <2>4. CASE b \in acked_above \cup Bytes(c)
    BY <2>1, <2>3, <2>4
  <2>5. CASE b \in pending /\ b \notin Bytes(c)
    BY <2>1, <2>5 DEF StripAcked
  <2>6. CASE \E d \in in_flight : ~d.requeued /\ b \in Bytes(d) /\ d # c
    BY <2>2, <2>6
  <2> QED BY <2>2, <2>3, <2>4, <2>5, <2>6 DEF NoByteForgotten
<1>8. ASSUME NEW c \in in_flight, PacketLost(c) PROVE Goal
  <2>1. /\ b \in Window /\ reset = "none" /\ acked_above' = acked_above
        /\ in_flight' = in_flight \ {c}
        /\ pending \subseteq pending'
        /\ ~c.requeued => pending' = pending \cup Unacked(Bytes(c))
    BY <1>8 DEF PacketLost, Window
  <2>2. b \notin 0 .. (base_offset - 1)
    BY <2>1 DEF Window, TypeOK
  <2>3. CASE ~c.requeued /\ b \in Bytes(c)
    BY <2>1, <2>2, <2>3 DEF Unacked
  <2> QED BY <2>1, <2>3 DEF NoByteForgotten
<1>9. ASSUME NEW c \in in_flight, PacketProbeRequeued(c) PROVE Goal
  <2>1. /\ b \in Window /\ reset = "none" /\ acked_above' = acked_above
        /\ in_flight \ {c} \subseteq in_flight'
        /\ pending' = pending \cup Unacked(Bytes(c))
    BY <1>9 DEF PacketProbeRequeued, Window
  <2>2. b \notin 0 .. (base_offset - 1)
    BY <2>1 DEF Window, TypeOK
  <2>3. CASE b \in Bytes(c)
    BY <2>1, <2>2, <2>3 DEF Unacked
  <2> QED BY <2>1, <2>3 DEF NoByteForgotten
<1>10. ASSUME NEW r \in reset_in_flight,
              ResetAcked(r) \/ ResetLost(r) \/ ResetProbeRequeued(r)
       PROVE  Goal
  BY <1>10 DEF ResetAcked, ResetLost, ResetProbeRequeued, RequeueReset, data,
               NoByteForgotten, Window
<1>11. CASE UNCHANGED vars
  BY <1>11 DEF vars, data, finVars, NoByteForgotten, Window
<1> QED
  BY <1>1, <1>2, <1>3, <1>4, <1>5, <1>6, <1>7, <1>8, <1>9, <1>10, <1>11 DEF Next

\* Retransmission never loses track of a byte: in every order of
\* acknowledgements, losses and probes, on any number of paths, an
\* unacknowledged byte is queued or in a packet whose loss queues it.
THEOREM ByteNeverForgotten == Spec => []NoByteForgotten
<1>1. Init => NoByteForgotten
  BY DEF Init, NoByteForgotten, Window
<1> QED BY <1>1, InvariantTInv, StepNoByteForgotten, PTL DEF Spec

\* A FIN that counts as sent is in a packet whose loss sends it again.
THEOREM FinNeverForgotten == Spec => []NoFinForgotten
<1>1. Init => NoFinForgotten
  BY DEF Init, NoFinForgotten
<1>2. TInv /\ NoFinForgotten /\ [Next]_vars => NoFinForgotten'
  <2> SUFFICES ASSUME TInv, NoFinForgotten, [Next]_vars,
                      (reset = "none" /\ fin_in_flight /\ ~fin_acked)'
               PROVE  \E c \in in_flight' : c.fin /\ ~c.requeued
    BY DEF NoFinForgotten
  <2> USE DEF TInv, TypedInv
  <2> DEFINE Goal == \E c \in in_flight' : c.fin /\ ~c.requeued
  <2>1. ASSUME NEW n \in 1..MaxOffset, Write(n) PROVE Goal
    BY <2>1 DEF Write, finVars, NoFinForgotten
  <2>2. CASE Finish \/ ResetStream
    BY <2>2 DEF Finish, ResetStream, NoFinForgotten
  <2>3. ASSUME NEW p \in Paths, NEW n \in 1..MaxOffset, SendChunk(p, n) PROVE Goal
    <3>1. PICK c \in Chunk : /\ ~c.requeued
                             /\ in_flight' = in_flight \cup {c}
                             /\ fin_in_flight' = (fin_in_flight \/ c.fin)
      BY <2>3, SendChunkFacts
    <3> QED BY <2>3, <3>1 DEF SendChunk, NoFinForgotten
  <2>4. ASSUME NEW p \in Paths, SendFin(p) PROVE Goal
    <3> DEFINE c == [key |-> next_key, path |-> p, offset |-> final_size,
                     length |-> 0, fin |-> TRUE, requeued |-> FALSE]
    <3>1. c \in in_flight' /\ c.fin /\ ~c.requeued
      BY <2>4 DEF SendFin
    <3> QED BY <3>1
  <2>5. ASSUME NEW p \in Paths, SendReset(p) PROVE Goal
    BY <2>5 DEF SendReset
  <2>6. ASSUME NEW c \in in_flight, PacketAcked(c) PROVE Goal
    BY <2>6 DEF PacketAcked, NoFinForgotten
  <2>7. ASSUME NEW c \in in_flight, PacketLost(c) PROVE Goal
    BY <2>7 DEF PacketLost, FinOwedAgain, NoFinForgotten
  <2>8. ASSUME NEW c \in in_flight, PacketProbeRequeued(c) PROVE Goal
    <3>1. /\ in_flight \ {c} \subseteq in_flight' /\ reset = "none"
          /\ fin_in_flight /\ ~fin_acked /\ ~c.fin
      BY <2>8 DEF PacketProbeRequeued, FinOwedAgain, TypeOK
    <3> QED BY <3>1 DEF NoFinForgotten
  <2>9. ASSUME NEW r \in reset_in_flight,
               ResetAcked(r) \/ ResetLost(r) \/ ResetProbeRequeued(r)
        PROVE  Goal
    BY <2>9 DEF ResetAcked, ResetLost, ResetProbeRequeued, RequeueReset, finVars,
                NoFinForgotten
  <2>10. CASE UNCHANGED vars
    BY <2>10 DEF vars, finVars, NoFinForgotten
  <2> QED
    BY <2>1, <2>2, <2>3, <2>4, <2>5, <2>6, <2>7, <2>8, <2>9, <2>10 DEF Next
<1> QED BY <1>1, <1>2, InvariantTInv, PTL DEF Spec

\* A RESET_STREAM that counts as sent and is not acknowledged is tracked.
THEOREM ResetNeverForgotten == Spec => []NoResetForgotten
<1>1. Init => NoResetForgotten
  BY DEF Init, NoResetForgotten
<1>2. NoResetForgotten /\ [Next]_vars => NoResetForgotten'
  BY DEF NoResetForgotten, Next, Write, Finish, ResetStream, SendChunk, SendFin,
         SendReset, PacketAcked, PacketLost, PacketProbeRequeued, ResetAcked,
         ResetLost, ResetProbeRequeued, RequeueReset, vars
<1> QED BY <1>1, <1>2, PTL DEF Spec

\* Whatever order acks, losses, probes and late answers come in, no byte, FIN
\* or RESET_STREAM is left without an acknowledgement, a place in the queue or
\* a packet whose loss queues it again.
THEOREM NothingEverForgotten == Spec => []NothingForgotten
<1>1. NoByteForgotten /\ NoFinForgotten /\ NoResetForgotten => NothingForgotten
  BY DEF NothingForgotten
<1> QED
  BY <1>1, ByteNeverForgotten, FinNeverForgotten, ResetNeverForgotten, PTL

-----------------------------------------------------------------------------
(* The send half: on one path, acknowledged bytes leave the queue.         *)
(*                                                                         *)
(* probe_requeued_pending is the only thing that makes markAcked look for  *)
(* acknowledged bytes in pending.  PathInv says why that is enough on one  *)
(* path: a pending byte that is also in flight got there by a probe, since *)
(* losses go oldest first and a probe skips nothing older.  With two paths *)
(* PathInv fails, and so does PendingInWindow (MCSendStreamMultipath).     *)

\* All packets of the stream travel on one path.
SinglePath == \A p, q \in Paths : p = q

\* Stream keys name chunks.
Unique == \A c, d \in in_flight : c.key = d.key => c = d

\* A byte that was sent again is in an older packet a probe superseded.
OverlapRequeued ==
    \A c, d \in in_flight : \A b \in Bytes(c) :
        (b \in Bytes(d) /\ c.key < d.key) => c.requeued

\* A queued byte that is in flight was queued by a probe, and the flag says so.
PendingCovered ==
    \A c \in in_flight : \A b \in Bytes(c) :
        b \in pending => c.requeued /\ probe_requeued_pending

PathInv ==
    /\ Unique
    /\ OverlapRequeued
    /\ PendingCovered
    /\ PendingInWindow
    /\ AckedNotPending

\* Every step on a single path keeps PathInv.
LEMMA StepPathInv ==
    ASSUME SinglePath
    PROVE  TInv /\ PathInv /\ [Next]_vars => PathInv'
<1> SUFFICES ASSUME TInv, PathInv, [Next]_vars PROVE PathInv'
  OBVIOUS
<1> USE DEF TInv, TypedInv
<1>1. ASSUME NEW n \in 1..MaxOffset, Write(n) PROVE PathInv'
  <2> DEFINE new == write_offset .. (write_offset + n - 1)
  <2>1. /\ write_offset' = write_offset + n /\ base_offset' = base_offset
        /\ pending' = pending \cup new
        /\ acked_above' = acked_above /\ in_flight' = in_flight
        /\ probe_requeued_pending' = probe_requeued_pending
    BY <1>1 DEF Write
  <2>2. \A c \in in_flight : Bytes(c) \cap new = {}
    BY DEF TypeOK, ChunksOK, Chunk, Bytes
  <2>3. acked_above \cap new = {}
    BY DEF TypeOK
  <2>4. Unique' /\ OverlapRequeued' /\ PendingCovered'
    BY <2>1, <2>2 DEF PathInv, Unique, OverlapRequeued, PendingCovered
  <2>5. PendingInWindow'
    BY <2>1 DEF PathInv, PendingInWindow, Window, TypeOK
  <2>6. AckedNotPending'
    BY <2>1, <2>3 DEF PathInv, AckedNotPending
  <2> QED BY <2>4, <2>5, <2>6 DEF PathInv
<1>2. CASE Finish
  BY <1>2 DEF Finish, data, PathInv, Unique, OverlapRequeued, PendingCovered,
              PendingInWindow, Window, AckedNotPending
<1>3. CASE ResetStream
  BY <1>3 DEF ResetStream, PathInv, Unique, OverlapRequeued, PendingCovered,
              PendingInWindow, AckedNotPending
<1>4. ASSUME NEW p \in Paths, NEW n \in 1..MaxOffset, SendChunk(p, n)
      PROVE  PathInv'
  <2>1. PICK c \in Chunk :
          /\ c.key = next_key /\ Bytes(c) \subseteq pending
          /\ in_flight' = in_flight \cup {c}
          /\ pending' = pending \ Bytes(c)
          /\ probe_requeued_pending' =
                (probe_requeued_pending /\ pending # Bytes(c))
    BY <1>4, SendChunkFacts
  <2>2. UNCHANGED <<base_offset, write_offset, acked_above>>
    BY <1>4 DEF SendChunk
  <2>3. \A d \in in_flight : d.key < c.key /\ d.key # c.key /\ ~(c.key < d.key)
    BY <2>1 DEF ChunksOK, TypeOK, Chunk
  <2>4. Unique'
    BY <2>1, <2>3 DEF PathInv, Unique
  <2>5. OverlapRequeued'
    <3>1. ~(c.key < c.key)
      BY DEF Chunk
    <3> QED BY <2>1, <2>3, <3>1 DEF PathInv, OverlapRequeued, PendingCovered
  <2>6. PendingCovered'
    BY <2>1 DEF PathInv, PendingCovered
  <2> QED BY <2>1, <2>2, <2>4, <2>5, <2>6
          DEF PathInv, PendingInWindow, Window, AckedNotPending
<1>5. ASSUME NEW p \in Paths, SendFin(p) PROVE PathInv'
  <2> DEFINE c == [key |-> next_key, path |-> p, offset |-> final_size,
                   length |-> 0, fin |-> TRUE, requeued |-> FALSE]
  <2>1. /\ in_flight' = in_flight \cup {c}
        /\ UNCHANGED <<data, probe_requeued_pending>>
    BY <1>5 DEF SendFin
  <2>2. c.key = next_key
    OBVIOUS
  <2>3. Bytes(c) = {}
    <3>1. final_size \in Int
      BY Constants DEF TypeOK, NoSize
    <3> QED BY <3>1 DEF Bytes
  <2> HIDE DEF c
  <2>4. \A d \in in_flight : d.key # c.key
    BY <2>2 DEF ChunksOK, TypeOK, Chunk
  <2> QED BY <2>1, <2>3, <2>4 DEF data, PathInv, Unique, OverlapRequeued,
          PendingCovered, PendingInWindow, Window, AckedNotPending
<1>6. ASSUME NEW p \in Paths, SendReset(p) PROVE PathInv'
  BY <1>6 DEF SendReset, data, PathInv, Unique, OverlapRequeued, PendingCovered,
              PendingInWindow, Window, AckedNotPending
<1>7. ASSUME NEW c \in in_flight, PacketAcked(c) PROVE PathInv'
  <2>1. /\ base_offset' \in base_offset..write_offset
        /\ acked_above' = (acked_above \cup Bytes(c)) \ (0 .. (base_offset' - 1))
        /\ base_offset .. (base_offset' - 1) \subseteq acked_above \cup Bytes(c)
        /\ pending' = StripAcked(Bytes(c))
    BY <1>7, BytesWritten, MarkAckedFacts DEF PacketAcked
  <2>2. /\ in_flight' = in_flight \ {c} /\ write_offset' = write_offset
        /\ probe_requeued_pending' =
              (probe_requeued_pending /\ (pending = {} \/ pending' # {}))
    BY <1>7 DEF PacketAcked, MarkAcked
  <2>3. pending' \subseteq pending /\ pending' \cap (acked_above \cup Bytes(c)) = {}
    BY <2>1 DEF StripAcked, PathInv, PendingCovered, AckedNotPending
  <2>4. Unique' /\ OverlapRequeued' /\ PendingCovered'
    BY <2>2, <2>3 DEF PathInv, Unique, OverlapRequeued, PendingCovered
  <2>5. AckedNotPending'
    BY <2>1, <2>3 DEF AckedNotPending
  <2>6. PendingInWindow'
    <3>1. PICK f \in Nat : f = base_offset'
      BY <2>1, Constants DEF TypeOK
    <3>2. SUFFICES ASSUME NEW b \in pending' PROVE b \in f .. (write_offset - 1)
      BY <2>2, <3>1 DEF PendingInWindow, Window
    <3>3. b \in base_offset .. (write_offset - 1) /\ b \notin base_offset .. (f - 1)
      BY <2>1, <2>3, <3>1 DEF PathInv, PendingInWindow, Window
    <3> QED BY <3>3 DEF TypeOK
  <2> QED BY <2>4, <2>5, <2>6 DEF PathInv
<1>8. ASSUME NEW c \in in_flight, PacketLost(c) PROVE PathInv'
  <2>1. /\ in_flight' = in_flight \ {c}
        /\ UNCHANGED <<base_offset, write_offset, acked_above,
                       probe_requeued_pending>>
        /\ \/ pending' = pending
           \/ ~c.requeued /\ pending' = pending \cup Unacked(Bytes(c))
    BY <1>8 DEF PacketLost
  <2>2. \A d \in in_flight : d # c => c.key < d.key
    <3>1. \A d \in in_flight : c.key <= d.key
      BY <1>8, SinglePath DEF SinglePath, PacketLost, OldestOnPath, TypeOK, Chunk
    <3> QED BY <3>1 DEF PathInv, Unique, TypeOK, Chunk
  <2>3. Unique' /\ OverlapRequeued'
    BY <2>1 DEF PathInv, Unique, OverlapRequeued
  <2>4. PendingCovered'
    BY <2>1, <2>2 DEF PathInv, PendingCovered, OverlapRequeued, Unacked
  <2>5. Unacked(Bytes(c)) \subseteq Window /\ Unacked(Bytes(c)) \cap acked_above = {}
    BY BytesWritten DEF Unacked, Window, TypeOK
  <2> QED BY <2>1, <2>3, <2>4, <2>5
          DEF PathInv, PendingInWindow, Window, AckedNotPending
<1>9. ASSUME NEW c \in in_flight, PacketProbeRequeued(c) PROVE PathInv'
  <2> DEFINE m == [c EXCEPT !.requeued = TRUE]
  <2>1. m.key = c.key /\ m.requeued /\ Bytes(m) = Bytes(c)
    BY DEF TypeOK, Chunk, Bytes
  <2>2. in_flight' = (in_flight \ {c}) \cup {m} /\ ~c.requeued
    BY <1>9 DEF PacketProbeRequeued
  <2> HIDE DEF m
  <2>3. /\ UNCHANGED <<base_offset, write_offset, acked_above>>
        /\ \/ UNCHANGED <<pending, probe_requeued_pending>>
           \/ /\ pending' = pending \cup Unacked(Bytes(c))
              /\ probe_requeued_pending' =
                    (probe_requeued_pending \/ (c.length > 0 /\ pending' # {}))
    BY <1>9 DEF PacketProbeRequeued
  <2>4. \A d \in in_flight : d.key < c.key => d.requeued
    BY <1>9, SinglePath DEF SinglePath, PacketProbeRequeued, TypeOK, Chunk
  <2>5. \A d \in in_flight : \A b \in Bytes(c) :
           (b \in Bytes(d) /\ d # c) => d.requeued
    <3>1. \A d \in in_flight : d # c => d.key < c.key \/ c.key < d.key
      BY DEF PathInv, Unique, TypeOK, Chunk
    <3> QED BY <2>2, <2>4, <3>1 DEF PathInv, OverlapRequeued
  <2>6. Unique'
    BY <2>1, <2>2 DEF PathInv, Unique
  <2>7. OverlapRequeued'
    BY <2>1, <2>2, <2>5 DEF PathInv, OverlapRequeued
  <2>8. PendingCovered'
    <3>1. \A b \in Bytes(c) : c.length > 0
      BY DEF TypeOK, Chunk, Bytes
    <3>2. CASE UNCHANGED <<pending, probe_requeued_pending>>
      BY <2>1, <2>2, <3>2 DEF PathInv, PendingCovered
    <3>3. CASE /\ pending' = pending \cup Unacked(Bytes(c))
               /\ probe_requeued_pending' =
                    (probe_requeued_pending \/ (c.length > 0 /\ pending' # {}))
      <4>1. SUFFICES ASSUME NEW d \in in_flight', NEW b \in Bytes(d), b \in pending'
                     PROVE  d.requeued /\ probe_requeued_pending'
        BY DEF PendingCovered, Bytes
      <4>2. CASE b \in Bytes(c)
        BY <2>1, <2>2, <2>5, <3>1, <3>3, <4>1, <4>2 DEF PathInv, PendingCovered
      <4>3. CASE b \notin Bytes(c)
        BY <2>1, <2>2, <3>3, <4>1, <4>3 DEF PathInv, PendingCovered, Unacked
      <4> QED BY <4>2, <4>3
    <3> QED BY <2>3, <3>2, <3>3
  <2>9. Unacked(Bytes(c)) \subseteq Window /\ Unacked(Bytes(c)) \cap acked_above = {}
    BY BytesWritten DEF Unacked, Window, TypeOK
  <2> QED BY <2>3, <2>6, <2>7, <2>8, <2>9
          DEF PathInv, PendingInWindow, Window, AckedNotPending
<1>10. ASSUME NEW r \in reset_in_flight,
              ResetAcked(r) \/ ResetLost(r) \/ ResetProbeRequeued(r)
       PROVE  PathInv'
  <2>1. UNCHANGED <<data, in_flight, probe_requeued_pending>>
    BY <1>10 DEF ResetAcked, ResetLost, ResetProbeRequeued
  <2> QED BY <2>1 DEF data, PathInv, Unique, OverlapRequeued, PendingCovered,
                      PendingInWindow, Window, AckedNotPending
<1>11. CASE UNCHANGED vars
  BY <1>11 DEF vars, data, PathInv, Unique, OverlapRequeued, PendingCovered,
     PendingInWindow, Window, AckedNotPending
<1> QED
  BY <1>1, <1>2, <1>3, <1>4, <1>5, <1>6, <1>7, <1>8, <1>9, <1>10, <1>11 DEF Next

\* With a single path, PathInv holds in every state.
LEMMA InvariantPathInv ==
    ASSUME SinglePath
    PROVE  Spec => []PathInv
<1>1. Init => PathInv
  BY DEF Init, PathInv, Unique, OverlapRequeued, PendingCovered, PendingInWindow,
         AckedNotPending
<1>2. TInv /\ PathInv /\ [Next]_vars => PathInv'
  BY SinglePath, StepPathInv
<1> QED BY <1>1, <1>2, InvariantTInv, PTL DEF Spec

\* On one path, what is queued lies between the acknowledged floor and the
\* write offset: chunkBytesContiguous never computes an offset below the
\* buffer.  (With two paths it can: see MCSendStreamMultipath.)
THEOREM PendingStaysInWindow ==
    ASSUME SinglePath
    PROVE  Spec => []PendingInWindow
<1>1. Spec => []PathInv
  BY SinglePath, InvariantPathInv
<1>2. PathInv => PendingInWindow
  BY DEF PathInv
<1> QED BY <1>1, <1>2, PTL

\* On one path an acknowledged byte is never queued again.
THEOREM AckedStaysAcked ==
    ASSUME SinglePath
    PROVE  Spec => []AckedNotPending
<1>1. Spec => []PathInv
  BY SinglePath, InvariantPathInv
<1>2. PathInv => AckedNotPending
  BY DEF PathInv
<1> QED BY <1>1, <1>2, PTL

-----------------------------------------------------------------------------
(* The send half: the terminal states.                                     *)

\* How the state machine, the reset flags and the floor go together.
EndInv ==
    /\ state = "data_recvd" => /\ fin_acked /\ fin_marked
                               /\ base_offset = final_size
                               /\ reset \in {"none", "acked"}
    /\ state = "reset_recvd" => reset = "acked"
    /\ state = "reset_sent" => reset \in {"unqueued", "queued"}
    /\ reset # "none" => state \in {"reset_sent", "reset_recvd", "data_recvd"}
    /\ reset_in_flight # {} => reset # "none"

\* Every step keeps EndInv.
LEMMA StepEndInv == TInv /\ EndInv /\ [Next]_vars => EndInv'
<1> SUFFICES ASSUME TInv, EndInv, [Next]_vars PROVE EndInv'
  OBVIOUS
<1> USE DEF TInv, TypedInv
<1>1. ASSUME NEW n \in 1..MaxOffset, Write(n) PROVE EndInv'
  BY <1>1 DEF Write, finVars, EndInv
<1>2. CASE Finish
  BY <1>2 DEF Finish, data, EndInv
<1>3. CASE ResetStream
  BY <1>3 DEF ResetStream, finVars, EndInv
<1>4. ASSUME NEW p \in Paths, NEW n \in 1..MaxOffset, SendChunk(p, n)
      PROVE  EndInv'
  BY <1>4 DEF SendChunk, EndInv
<1>5. ASSUME NEW p \in Paths, SendFin(p) PROVE EndInv'
  BY <1>5 DEF SendFin, data, EndInv
<1>6. ASSUME NEW p \in Paths, SendReset(p) PROVE EndInv'
  BY <1>6 DEF SendReset, data, finVars, EndInv
<1>7. ASSUME NEW c \in in_flight, PacketAcked(c) PROVE EndInv'
  <2>1. /\ UNCHANGED <<fin_marked, final_size, reset, reset_in_flight>>
        /\ fin_acked' = (fin_acked \/ c.fin)
        /\ state' = AdvancedState(fin_acked', base_offset', reset)
    BY <1>7 DEF PacketAcked
  <2>2. base_offset' \in base_offset..write_offset
    BY <1>7, BytesWritten, MarkAckedFacts DEF PacketAcked
  <2>3. base_offset = final_size /\ fin_marked => base_offset' = final_size
    BY <2>2, Constants DEF SizeOK, TypeOK
  <2>4. fin_acked => fin_acked'
    BY <2>1
  <2> QED BY <2>1, <2>3, <2>4 DEF AdvancedState, EndInv, SizeOK
<1>8. ASSUME NEW c \in in_flight, PacketLost(c) PROVE EndInv'
  BY <1>8 DEF PacketLost, EndInv
<1>9. ASSUME NEW c \in in_flight, PacketProbeRequeued(c) PROVE EndInv'
  BY <1>9 DEF PacketProbeRequeued, EndInv
<1>10. ASSUME NEW r \in reset_in_flight, ResetAcked(r) PROVE EndInv'
  <2>1. /\ UNCHANGED <<data, finVars>>
        /\ reset' = "acked"
        /\ reset_in_flight' = reset_in_flight \ {r}
        /\ state' = AdvancedState(fin_acked, base_offset, "acked")
    BY <1>10 DEF ResetAcked
  <2>2. reset # "none"
    BY DEF EndInv
  <2> QED BY <2>1, <2>2 DEF data, finVars, AdvancedState, EndInv
<1>11. ASSUME NEW r \in reset_in_flight, ResetLost(r) \/ ResetProbeRequeued(r)
       PROVE  EndInv'
  <2>1. /\ UNCHANGED <<data, finVars, state>>
        /\ reset' = IF reset = "acked" THEN reset ELSE "unqueued"
    BY <1>11 DEF ResetLost, ResetProbeRequeued, RequeueReset
  <2>2. reset # "none"
    BY DEF EndInv
  <2> QED BY <2>1, <2>2 DEF data, finVars, EndInv
<1>12. CASE UNCHANGED vars
  BY <1>12 DEF vars, data, finVars, EndInv
<1> QED
  BY <1>1, <1>2, <1>3, <1>4, <1>5, <1>6, <1>7, <1>8, <1>9, <1>10, <1>11, <1>12
     DEF Next

\* The two invariants together.
LEMMA InvariantEndInv == Spec => []EndInv
<1>1. Init => EndInv
  BY DEF Init, EndInv
<1> QED BY <1>1, InvariantTInv, StepEndInv, PTL DEF Spec

\* A terminal stream owes nothing: on one path, data_recvd is reached only
\* with every byte and the FIN acknowledged, and neither terminal state has
\* anything left to send.
THEOREM TerminalOwesNothing ==
    ASSUME SinglePath
    PROVE  Spec => []TerminalIsDone
<1>1. Spec => []PathInv
  BY SinglePath, InvariantPathInv
<1>2. TInv /\ EndInv /\ PathInv => TerminalIsDone
  <2> SUFFICES ASSUME TInv, EndInv, PathInv, IsTerminal PROVE TerminalIsDone
    BY DEF TerminalIsDone, IsTerminal
  <2>1. CASE state = "data_recvd"
    <3>1. fin_acked /\ base_offset = final_size /\ final_size = write_offset
      BY <2>1 DEF EndInv, TInv, SizeOK
    <3>2. Window = {}
      BY <3>1, Constants DEF Window, TInv, TypedInv, TypeOK
    <3>3. ~HasPendingChunk
      BY <2>1, <3>1, <3>2
         DEF HasPendingChunk, FinOwed, EndInv, PathInv, PendingInWindow
    <3> QED BY <2>1, <3>1, <3>3 DEF TerminalIsDone
  <2>2. CASE state = "reset_recvd"
    BY <2>2 DEF TerminalIsDone, HasPendingChunk, EndInv
  <2> QED BY <2>1, <2>2 DEF IsTerminal
<1> QED BY <1>1, <1>2, InvariantTInv, InvariantEndInv, PTL

\* isTerminal never becomes false again, the floor never moves back and the
\* final size never changes, whatever order acks and losses come in.
THEOREM EndsAreMonotone == Spec => Monotone
<1> DEFINE M == /\ IsTerminal => IsTerminal'
                /\ base_offset' >= base_offset
                /\ final_size # NoSize => final_size' = final_size
<1>1. TInv /\ EndInv /\ [Next]_vars => [M]_vars
  <2> SUFFICES ASSUME TInv, EndInv, Next PROVE M
    OBVIOUS
  <2> USE DEF TInv, TypedInv
  <2>1. base_offset >= base_offset
    BY DEF TypeOK
  <2>2. CASE \E n \in 1..MaxOffset : Write(n)
    BY <2>1, <2>2 DEF Write, finVars, IsTerminal
  <2>3. CASE Finish
    BY <2>1, <2>3 DEF Finish, data, IsTerminal, SizeOK
  <2>4. CASE ResetStream
    BY <2>1, <2>4 DEF ResetStream, finVars, IsTerminal, EndInv
  <2>5. CASE \/ \E p \in Paths, n \in 1..MaxOffset : SendChunk(p, n)
             \/ \E p \in Paths : SendFin(p)
             \/ \E p \in Paths : SendReset(p)
    BY <2>1, <2>5 DEF SendChunk, SendFin, SendReset, data, finVars, IsTerminal
  <2>6. ASSUME NEW c \in in_flight, PacketAcked(c) PROVE M
    <3>1. base_offset' \in base_offset..write_offset
      BY <2>6, BytesWritten, MarkAckedFacts DEF PacketAcked
    <3>2. base_offset' >= base_offset
      BY <3>1, Constants DEF TypeOK
    <3> QED BY <2>6, <3>2 DEF PacketAcked, AdvancedState, IsTerminal
  <2>7. CASE \/ \E c \in in_flight : PacketLost(c)
             \/ \E c \in in_flight : PacketProbeRequeued(c)
    BY <2>1, <2>7 DEF PacketLost, PacketProbeRequeued, IsTerminal
  <2>8. CASE \/ \E r \in reset_in_flight : ResetAcked(r)
             \/ \E r \in reset_in_flight : ResetLost(r)
             \/ \E r \in reset_in_flight : ResetProbeRequeued(r)
    BY <2>1, <2>8 DEF ResetAcked, ResetLost, ResetProbeRequeued, data, finVars,
                      AdvancedState, IsTerminal
  <2> QED BY <2>2, <2>3, <2>4, <2>5, <2>6, <2>7, <2>8 DEF Next
<1>2. Spec => [][M]_vars
  BY <1>1, InvariantTInv, InvariantEndInv, PTL DEF Spec
<1> QED BY <1>2 DEF Monotone

-----------------------------------------------------------------------------
(* The receive half: the invariant and the operators.                      *)

\* What makes the two bounds inductive: the live part of the buffer ends where
\* the received bytes end, at the latest.
RecvWindow ==
    /\ read_offset <= end_offset
    /\ buf_len - buf_start <= end_offset - read_offset

RInv == RecvTypeOK /\ BufferSound /\ EndIsTruthful /\ RecvWindow

\* maybeAdvanceState() ends the stream when all is read, and only then.
LEMMA AdvancedFacts ==
    ASSUME NEW st \in RecvStates, NEW ro, NEW rs, NEW fs, NEW seen \in BOOLEAN
    PROVE  /\ RecvAdvancedState(st, ro, rs, fs, seen) \in RecvStates
           /\ seen /\ ro = fs /\ rs = {} =>
                 RecvAdvancedState(st, ro, rs, fs, seen) \in {"data_recvd", "data_read"}
           /\ ~(seen /\ ro = fs /\ rs = {}) => RecvAdvancedState(st, ro, rs, fs, seen) = st
BY DEF RecvAdvancedState, RecvStates

\* What the invariant says of the numbers.
LEMMA Numbers ==
    ASSUME RInv
    PROVE  /\ read_offset \in Nat /\ end_offset \in Nat /\ buf_len \in Nat /\ buf_start \in Nat
           /\ r_final_size \in Int /\ MaxOffset \in Nat /\ MaxSpan \in Nat
           /\ read_offset <= end_offset /\ end_offset <= MaxOffset /\ buf_start <= buf_len
BY Constants DEF RInv, RecvTypeOK, RecvWindow, NoSize

\* What it says of a received byte.
LEMMA BytesOf ==
    ASSUME RInv, NEW b \in ranges
    PROVE  /\ b \in Nat /\ read_offset <= b /\ b < end_offset
           /\ b < read_offset + (buf_len - buf_start)
BY Numbers DEF RInv, RecvTypeOK, BufferSound, RangesInBuffer

\* A buffer in its bounds is no longer than its type says.
LEMMA BufferType ==
    ASSUME NEW ro \in Nat, NEW eo \in Nat, NEW bl \in Nat, NEW bs \in Nat,
           eo <= MaxOffset, bs <= bl, bl - bs <= eo - ro, bs = 0 \/ 2 * bs < bl
    PROVE  bl \in 0..(2 * MaxOffset) /\ bs \in 0..bl
BY Constants

-----------------------------------------------------------------------------
(* The receive half: the steps.                                            *)

\* A frame that is accepted: recv().
LEMMA StepAccept ==
    ASSUME RInv, NEW offset \in 0..MaxOffset, NEW len \in 0..MaxOffset, NEW fin \in BOOLEAN,
           offset + len <= MaxOffset, closed = "none", ~r_reset,
           RecvError(offset, len, fin) = "none", r_state \notin {"data_recvd", "data_read"},
           Accept(offset, len, fin)
    PROVE  RInv'
<1> DEFINE new_end == offset + len
           fresh   == new_end > read_offset /\ len > 0
           clip    == {b \in offset .. (new_end - 1) : b >= read_offset}
           fs      == IF fin THEN new_end ELSE r_final_size
           seen    == fin_seen \/ fin
           st      == IF fin /\ r_state = "recv" THEN "size_known" ELSE r_state
<1> USE Constants
<1>0. offset \in Nat /\ len \in Nat /\ new_end \in Nat /\ new_end <= MaxOffset
  OBVIOUS
<1>1. /\ r_final_size # NoSize => new_end <= r_final_size
      /\ fin /\ r_final_size # NoSize => r_final_size = new_end
      /\ fin /\ r_final_size = NoSize => end_offset <= new_end
      /\ len > 0 => new_end - read_offset <= MaxSpan
  BY <1>0, Numbers DEF RecvError, OverSpan
<1>2. /\ r_final_size' = fs /\ fin_seen' = seen /\ ranges' = ranges \cup clip
      /\ end_offset' = (IF new_end > end_offset THEN new_end ELSE end_offset)
      /\ buf_len' = (IF fresh /\ buf_len - buf_start < new_end - read_offset
                      THEN buf_start + (new_end - read_offset) ELSE buf_len)
      /\ r_state' = RecvAdvancedState(st, read_offset, ranges', fs, seen)
      /\ UNCHANGED <<read_offset, buf_start, r_reset, closed>>
  BY DEF Accept, LiveBytes
<1>3. /\ end_offset' \in Nat /\ end_offset' <= MaxOffset /\ end_offset' >= end_offset
      /\ new_end <= end_offset'
  <2> HIDE DEF new_end
  <2>1. end_offset' = (IF new_end > end_offset THEN new_end ELSE end_offset)
    BY <1>2
  <2> QED BY <1>0, <2>1, Numbers
<1>4. \A b \in clip : /\ b \in Nat /\ read_offset <= b /\ b < new_end
                      /\ new_end > read_offset /\ len > 0
  BY <1>0, Numbers
<1>5. /\ buf_len' \in Nat /\ buf_len' >= buf_len /\ buf_start' = buf_start
      /\ fresh => buf_len' - buf_start >= new_end - read_offset
      /\ buf_len' = buf_len \/ (fresh /\ buf_len' - buf_start = new_end - read_offset)
  BY <1>0, <1>2, Numbers
<1> HIDE DEF clip, st, seen, fs, new_end
<1>6. RangesInBuffer'
  <2>1. \A b \in ranges : /\ b \in read_offset .. (end_offset' - 1)
                          /\ b \in read_offset .. (read_offset + buf_len' - buf_start - 1)
    BY <1>3, <1>5, Numbers, BytesOf
  <2>2. \A b \in clip : /\ b \in read_offset .. (end_offset' - 1)
                        /\ b \in read_offset .. (read_offset + buf_len' - buf_start - 1)
    <3>1. \A b \in clip : /\ b \in Nat /\ read_offset <= b /\ b < end_offset'
                          /\ b < read_offset + buf_len' - buf_start
      BY <1>0, <1>3, <1>4, <1>5, Numbers
    <3> QED BY <1>3, <1>5, <3>1, Numbers
  <2> QED BY <1>2, <2>1, <2>2 DEF RangesInBuffer
<1>7. BufferBounded'
  <2>1. buf_len - buf_start <= MaxSpan /\ (buf_start = 0 \/ 2 * buf_start < buf_len)
    BY DEF RInv, BufferSound, BufferBounded
  <2> QED BY <1>0, <1>1, <1>5, <2>1, Numbers DEF BufferBounded
<1>8. RecvWindow'
  <2>1. buf_len - buf_start <= end_offset - read_offset
    BY DEF RInv, RecvWindow
  <2> QED BY <1>0, <1>2, <1>3, <1>5, <2>1, Numbers DEF RecvWindow
<1>9. r_final_size' # NoSize => end_offset' <= r_final_size'
  <2>1. r_final_size # NoSize => end_offset <= r_final_size
    BY DEF RInv, EndIsTruthful
  <2>2. end_offset' = new_end \/ end_offset' = end_offset
    BY <1>2
  <2>3. CASE fin
    <3>1. r_final_size' = new_end
      BY <1>2, <2>3 DEF fs
    <3> QED BY <1>0, <1>1, <2>1, <2>2, <2>3, <3>1, Numbers
  <2>4. CASE ~fin
    <3>1. r_final_size' = r_final_size
      BY <1>2, <2>4 DEF fs
    <3> QED BY <1>0, <1>1, <2>1, <2>2, <3>1, Numbers
  <2> QED BY <2>3, <2>4
<1>10. st \in RecvStates /\ st \notin {"data_recvd", "data_read"} /\ seen \in BOOLEAN
  BY DEF RInv, RecvTypeOK, RecvStates, st, seen
<1>11. EndIsTruthful'
  <2>1. /\ r_state' \in RecvStates
        /\ seen /\ read_offset = fs /\ ranges' = {} => r_state' \in {"data_recvd", "data_read"}
        /\ ~(seen /\ read_offset = fs /\ ranges' = {}) => r_state' = st
    BY <1>2, <1>10, AdvancedFacts
  <2>2. read_offset = fs => ranges' = {}
    BY <1>2, <1>3, <1>6, <1>9, Numbers DEF RangesInBuffer, NoSize
  <2> QED BY <1>2, <1>9, <1>10, <2>1, <2>2 DEF EndIsTruthful
<1>12. RecvTypeOK'
  <2>1. r_state' \in RecvStates
    BY <1>2, <1>10, AdvancedFacts
  <2>2. buf_len' \in 0..(2 * MaxOffset) /\ buf_start' \in 0..buf_len'
    <3>1. buf_start <= buf_len'
      BY <1>5, Numbers
    <3>2. buf_len' - buf_start <= end_offset' - read_offset
      BY <1>2, <1>8 DEF RecvWindow
    <3>3. buf_start = 0 \/ 2 * buf_start < buf_len'
      BY <1>5, <1>7 DEF BufferBounded
    <3> QED BY <1>3, <1>5, <3>1, <3>2, <3>3, Numbers, BufferType
  <2>3. r_final_size' \in {NoSize} \cup 0..MaxOffset
    BY <1>0, <1>2 DEF RInv, RecvTypeOK, fs
  <2>4. ranges' \in SUBSET (0..(MaxOffset - 1))
    BY <1>3, <1>6, <1>2, Numbers DEF RangesInBuffer
  <2>5. end_offset' \in 0..MaxOffset
    BY <1>3
  <2> QED BY <1>2, <1>10, <2>1, <2>2, <2>3, <2>4, <2>5 DEF RInv, RecvTypeOK
<1> QED BY <1>6, <1>7, <1>8, <1>11, <1>12 DEF RInv, BufferSound

\* A frame, accepted or refused.
LEMMA StepRecv ==
    ASSUME RInv, NEW offset \in 0..MaxOffset, NEW len \in 0..MaxOffset, NEW fin \in BOOLEAN,
           offset + len <= MaxOffset, Recv(offset, len, fin)
    PROVE  RInv'
<1>1. CASE RecvError(offset, len, fin) = "none"
  BY <1>1, StepAccept DEF Recv
<1>2. CASE RecvError(offset, len, fin) # "none"
  <2>1. RecvError(offset, len, fin) \in Errors
    BY DEF RecvError, Errors
  <2>2. /\ closed' \in Errors
        /\ UNCHANGED <<read_offset, end_offset, ranges, buf_len, buf_start,
                       r_final_size, fin_seen, r_reset, r_state>>
    BY <1>2, <2>1 DEF Recv
  <2> QED BY <2>2 DEF RInv, RecvTypeOK, BufferSound, RangesInBuffer, BufferBounded,
                      EndIsTruthful, RecvWindow
<1> QED BY <1>1, <1>2

\* The application reads: consume().
LEMMA StepConsume ==
    ASSUME RInv, NEW n \in 1..MaxOffset, Consume(n)
    PROVE  RInv'
<1> DEFINE run   == read_offset .. (read_offset + n - 1)
           start == buf_start + n
           st    == RecvAdvancedState(r_state, read_offset + n, ranges \ run, r_final_size, fin_seen)
           len   == IF CompactDue(start) THEN buf_len - start ELSE buf_len
           pre   == IF CompactDue(start) THEN 0 ELSE start
           drop  == st = "data_recvd" /\ len = pre
<1> USE Constants
<1>1. /\ Readable(n) /\ read_offset' = read_offset + n /\ ranges' = ranges \ run
      /\ buf_len' = (IF drop THEN 0 ELSE len) /\ buf_start' = (IF drop THEN 0 ELSE pre)
      /\ r_state' = st /\ UNCHANGED <<end_offset, r_final_size, fin_seen, r_reset, closed>>
  BY DEF Consume
<1>2. n \in Nat /\ n >= 1 /\ run \subseteq ranges
  BY <1>1 DEF Readable
<1>3. read_offset + n - 1 \in ranges /\ read_offset \in ranges
  BY <1>2, Numbers
<1>4. read_offset + n <= end_offset /\ n <= buf_len - buf_start
  BY <1>2, <1>3, Numbers, BytesOf
<1>5. \A b \in ranges' : b \in ranges /\ read_offset + n <= b
  BY <1>1, <1>2, Numbers, BytesOf
<1>6. /\ len \in Nat /\ pre \in Nat /\ len - pre = buf_len - buf_start - n
      /\ pre = 0 \/ 2 * pre < len
  <2>1. start \in Nat /\ start <= buf_len
    BY <1>2, <1>4, Numbers
  <2>2. ~CompactDue(start) => 2 * start < buf_len
    BY <2>1, Numbers DEF CompactDue
  <2> QED BY <1>2, <2>1, <2>2, Numbers
<1> HIDE DEF run, start, len, pre, st
<1>7. /\ buf_len' \in Nat /\ buf_start' \in Nat
      /\ buf_len' - buf_start' = buf_len - buf_start - n
      /\ buf_start' = 0 \/ 2 * buf_start' < buf_len'
  BY <1>1, <1>6, Numbers
<1>8. RangesInBuffer'
  <2> SUFFICES ASSUME NEW b \in ranges'
               PROVE  /\ b \in read_offset' .. (end_offset' - 1)
                      /\ b \in read_offset' .. (read_offset' + buf_len' - buf_start' - 1)
    BY DEF RangesInBuffer
  <2>1. /\ b \in Nat /\ read_offset + n <= b /\ b < end_offset
        /\ b < read_offset + (buf_len - buf_start)
    BY <1>5, BytesOf
  <2> QED BY <1>1, <1>2, <1>7, <2>1, Numbers
<1>9. BufferBounded'
  <2>1. buf_len - buf_start <= MaxSpan
    BY DEF RInv, BufferSound, BufferBounded
  <2>2. /\ buf_len' - buf_start' = buf_len - buf_start - n
        /\ n \in Nat /\ buf_len \in Nat /\ buf_start \in Nat
    BY <1>2, <1>7, Numbers
  <2>3. buf_len' - buf_start' <= MaxSpan
    BY <2>1, <2>2
  <2> QED BY <1>7, <2>3 DEF BufferBounded
<1>10. RecvWindow'
  <2>1. buf_len - buf_start <= end_offset - read_offset
    BY DEF RInv, RecvWindow
  <2> QED BY <1>1, <1>2, <1>4, <1>7, <2>1, Numbers DEF RecvWindow
<1>11. r_state \in RecvStates /\ fin_seen \in BOOLEAN /\ r_state \notin {"data_recvd", "data_read"}
  BY <1>3 DEF RInv, RecvTypeOK, EndIsTruthful
<1>12. /\ st \in RecvStates
       /\ fin_seen /\ read_offset + n = r_final_size /\ ranges' = {} =>
             st \in {"data_recvd", "data_read"}
       /\ ~(fin_seen /\ read_offset + n = r_final_size /\ ranges' = {}) => st = r_state
  BY <1>1, <1>11, AdvancedFacts DEF st
<1>13. EndIsTruthful'
  <2>1. r_final_size # NoSize => end_offset <= r_final_size
    BY DEF RInv, EndIsTruthful
  <2>2. read_offset + n = r_final_size => ranges' = {}
    BY <1>1, <1>2, <1>8, <2>1, Numbers DEF RangesInBuffer, NoSize
  <2> QED BY <1>1, <1>11, <1>12, <2>1, <2>2 DEF EndIsTruthful
<1>14. RecvTypeOK'
  <2>1. read_offset' \in Nat /\ read_offset' <= MaxOffset /\ end_offset' \in Nat
    BY <1>1, <1>2, <1>4, Numbers
  <2>2. buf_start' <= buf_len'
    BY <1>4, <1>7, Numbers
  <2>3. buf_len' \in 0..(2 * MaxOffset) /\ buf_start' \in 0..buf_len'
    <3>1. buf_len' - buf_start' <= end_offset' - read_offset'
      BY <1>10 DEF RecvWindow
    <3> QED BY <1>1, <1>7, <2>1, <2>2, <3>1, Numbers, BufferType
  <2>4. ranges' \in SUBSET (0..(MaxOffset - 1))
    BY <1>5 DEF RInv, RecvTypeOK
  <2>5. read_offset' \in 0..MaxOffset /\ r_state' \in RecvStates
    BY <1>1, <1>12, <2>1, Numbers
  <2> QED BY <1>1, <2>3, <2>4, <2>5 DEF RInv, RecvTypeOK
<1> QED BY <1>8, <1>9, <1>10, <1>13, <1>14 DEF RInv, BufferSound

\* The connection takes the consumed prefix back: compactPrefix().
LEMMA StepCompactPrefix ==
    ASSUME RInv, CompactPrefix
    PROVE  RInv'
<1>1. /\ buf_len' = (IF buf_start >= buf_len THEN 0 ELSE buf_len - buf_start) /\ buf_start' = 0
      /\ UNCHANGED <<read_offset, end_offset, ranges, r_final_size, fin_seen, r_reset,
                     r_state, closed>>
  BY DEF CompactPrefix
<1>2. buf_len' \in Nat /\ buf_len' - buf_start' = buf_len - buf_start /\ buf_len' <= buf_len
  BY <1>1, Numbers
<1>3. RecvTypeOK'
  BY <1>1, <1>2, Constants DEF RInv, RecvTypeOK
<1>4. BufferBounded' /\ RecvWindow'
  BY <1>1, <1>2 DEF RInv, BufferSound, BufferBounded, RecvWindow
<1>5. RangesInBuffer'
  BY <1>1, <1>2, Numbers, BytesOf DEF RangesInBuffer
<1>6. EndIsTruthful'
  BY <1>1 DEF RInv, EndIsTruthful
<1> QED BY <1>3, <1>4, <1>5, <1>6 DEF RInv, BufferSound

\* The peer resets the stream: resetStream().
LEMMA StepPeerReset ==
    ASSUME RInv, NEW fs \in 0..MaxOffset, PeerReset(fs)
    PROVE  RInv'
<1> USE Constants
<1>1. CASE ResetConflict(fs)
  BY <1>1 DEF PeerReset, RInv, RecvTypeOK, Errors, BufferSound, RangesInBuffer, BufferBounded,
              EndIsTruthful, RecvWindow
<1>2. CASE ~ResetConflict(fs)
  <2>1. /\ r_reset' = TRUE /\ r_final_size' = fs /\ r_state' = "reset_recvd"
        /\ ranges' = {} /\ buf_len' = 0 /\ buf_start' = 0
        /\ UNCHANGED <<read_offset, end_offset, fin_seen, closed>>
        /\ end_offset <= fs
    BY <1>2, Numbers DEF PeerReset, ResetConflict
  <2>2. RecvTypeOK'
    BY <2>1 DEF RInv, RecvTypeOK, RecvStates
  <2>3. BufferSound' /\ EndIsTruthful' /\ RecvWindow'
    BY <2>1, Numbers DEF BufferSound, RangesInBuffer, BufferBounded, EndIsTruthful, RecvWindow
  <2> QED BY <2>2, <2>3 DEF RInv
<1> QED BY <1>1, <1>2

\* The application acknowledges the end: markRead().
LEMMA StepMarkRead ==
    ASSUME RInv, MarkRead
    PROVE  RInv'
BY DEF MarkRead, RInv, RecvTypeOK, RecvStates, BufferSound, RangesInBuffer, BufferBounded,
       EndIsTruthful, RecvWindow

-----------------------------------------------------------------------------
(* The receive half: the theorems.                                         *)

\* The stream starts empty.
LEMMA InitRInv == RecvInit => RInv
<1> SUFFICES ASSUME RecvInit PROVE RInv
  OBVIOUS
<1>1. RecvTypeOK
  <2>1. 0 \in 0..MaxOffset /\ 0 \in 0..(2 * MaxOffset) /\ 0 \in 0..0
    BY Constants
  <2> QED BY <2>1 DEF RecvInit, RecvTypeOK, RecvStates, Errors
<1>2. BufferSound /\ RecvWindow
  BY Constants DEF RecvInit, BufferSound, RangesInBuffer, BufferBounded, RecvWindow
<1>3. EndIsTruthful
  BY DEF RecvInit, EndIsTruthful
<1> QED BY <1>1, <1>2, <1>3 DEF RInv

\* Every step keeps the invariant.
LEMMA NextRInv == RInv /\ [RecvNext]_recvVars => RInv'
<1> SUFFICES ASSUME RInv, [RecvNext]_recvVars PROVE RInv'
  OBVIOUS
<1>1. CASE UNCHANGED recvVars
  BY <1>1 DEF recvVars, RInv, RecvTypeOK, BufferSound, RangesInBuffer, BufferBounded,
              EndIsTruthful, RecvWindow
<1>2. CASE RecvNext
  BY <1>2, StepRecv, StepConsume, StepCompactPrefix, StepPeerReset, StepMarkRead DEF RecvNext
<1> QED BY <1>1, <1>2

\* The invariant is one of the receive half.
THEOREM InvariantRInv == RecvSpec => []RInv
BY InitRInv, NextRInv, PTL DEF RecvSpec

\* Every field keeps its type; the buffer never grows past twice the stream.
THEOREM RecvTypeCorrect == RecvSpec => []RecvTypeOK
<1>1. RInv => RecvTypeOK
  BY DEF RInv
<1> QED BY <1>1, InvariantRInv, PTL

\* Whatever consume, compactPrefix and resetStream did, a received byte lies in
\* the live part of the buffer, and the buffer keeps to its budget.
THEOREM BufferAlwaysSound == RecvSpec => []BufferSound
<1>1. RInv => BufferSound
  BY DEF RInv
<1> QED BY <1>1, InvariantRInv, PTL

\* The stream ends when and only when every byte up to the final size has been
\* read, and no byte past that size is ever accepted.
THEOREM EndsTruthfully == RecvSpec => []EndIsTruthful
<1>1. RInv => EndIsTruthful
  BY DEF RInv
<1> QED BY <1>1, InvariantRInv, PTL

-----------------------------------------------------------------------------
(* End to end: the invariant.                                              *)

\* The bytes the receiver has.
Held == (0 .. (read_offset - 1)) \cup ranges

\* A packet on its way carries written bytes, inside the window the receiver
\* opens, and the size the sender has settled on; a chunk still tracked under
\* its number is what it carries.
PacketOK(m) ==
    /\ m.key \in 0 .. (next_key - 1) /\ m.kind \in {"stream", "reset"}
    /\ m.offset \in Nat /\ m.length \in Nat /\ m.fin \in BOOLEAN
    /\ m.kind = "stream" =>
          /\ m.offset + m.length <= write_offset
          /\ m.length > 0 => m.offset + m.length <= read_offset + MaxSpan
          /\ m.fin => fin_marked /\ m.offset + m.length = write_offset
    /\ m.kind = "reset" => reset # "none" /\ m.offset = write_offset
    /\ \A c \in in_flight : c.key = m.key => m = DataPacket(c)
NetOK == \A m \in net : PacketOK(m)

\* What the receiver takes for the end is the sender's.
EndsOK ==
    /\ closed = "none" /\ end_offset <= write_offset
    /\ fin_seen => fin_marked /\ r_final_size = write_offset
    /\ ~r_reset /\ ~fin_seen => r_final_size = NoSize
    /\ r_reset => reset # "none" /\ ranges = {}

\* What a packet that arrived carried is at the receiver, and so is all that
\* was ever acknowledged.
ArrivedOK ==
    /\ received \subseteq 0 .. (next_key - 1)
    /\ ~r_reset =>
          \A c \in in_flight : c.key \in received =>
             Bytes(c) \subseteq Held /\ (c.fin => fin_seen)
AckedOK ==
    ~r_reset => /\ 0 .. (base_offset - 1) \subseteq Held /\ acked_above \subseteq Held
                /\ fin_acked => fin_seen

CrossInv == NetOK /\ EndsOK /\ ArrivedOK /\ AckedOK
XInv == TInv /\ EndInv /\ RInv /\ CrossInv

\* Intervals that end later, and that end where another begins.
LEMMA Longer ==
    ASSUME NEW a \in Nat, NEW b \in Nat, a <= b
    PROVE  0 .. (a - 1) \subseteq 0 .. (b - 1)
OBVIOUS

LEMMA Joined ==
    ASSUME NEW a \in Nat, NEW b \in Nat, a <= b
    PROVE  0 .. (b - 1) = (0 .. (a - 1)) \cup (a .. (b - 1))
OBVIOUS

\* What the invariant says of the numbers.
LEMMA Scalars ==
    ASSUME XInv
    PROVE  /\ write_offset \in Nat /\ write_offset <= MaxOffset /\ base_offset \in Nat
           /\ base_offset <= write_offset /\ next_key \in Nat /\ MaxOffset \in Nat /\ MaxSpan \in Nat
           /\ read_offset \in Nat /\ end_offset \in Nat /\ read_offset <= end_offset
           /\ end_offset <= write_offset
           /\ fin_marked => final_size = write_offset
           /\ ranges \subseteq read_offset .. (end_offset - 1)
<1>1. /\ write_offset \in Nat /\ write_offset <= MaxOffset /\ base_offset \in Nat
      /\ base_offset <= write_offset /\ next_key \in Nat /\ MaxOffset \in Nat /\ MaxSpan \in Nat
  BY Constants DEF XInv, TInv, TypedInv, TypeOK
<1>2. read_offset \in Nat /\ end_offset \in Nat /\ read_offset <= end_offset
  BY Constants DEF XInv, RInv, RecvTypeOK, RecvWindow
<1>3. end_offset <= write_offset /\ (fin_marked => final_size = write_offset)
  BY DEF XInv, CrossInv, EndsOK, TInv, SizeOK
<1>4. ranges \subseteq read_offset .. (end_offset - 1)
  BY DEF XInv, RInv, BufferSound, RangesInBuffer
<1> QED BY <1>1, <1>2, <1>3, <1>4

\* And of the chunks in flight.
LEMMA Facts ==
    ASSUME XInv
    PROVE  /\ write_offset \in Nat /\ write_offset <= MaxOffset /\ base_offset \in Nat
           /\ base_offset <= write_offset /\ next_key \in Nat /\ MaxOffset \in Nat /\ MaxSpan \in Nat
           /\ read_offset \in Nat /\ end_offset \in Nat /\ read_offset <= end_offset
           /\ end_offset <= write_offset
           /\ fin_marked => final_size = write_offset
           /\ ranges \subseteq read_offset .. (end_offset - 1)
           /\ \A c \in in_flight : /\ c \in Chunk /\ c.key \in Nat /\ c.offset \in Nat
                                   /\ c.length \in Nat /\ c.fin \in BOOLEAN /\ c.key < next_key
                                   /\ c.offset + c.length <= write_offset
<1>1. ASSUME NEW c \in in_flight
      PROVE  /\ c \in Chunk /\ c.key \in Nat /\ c.offset \in Nat
             /\ c.length \in Nat /\ c.fin \in BOOLEAN /\ c.key < next_key
             /\ c.offset + c.length <= write_offset
  <2>1. c \in Chunk /\ c.offset + c.length <= write_offset /\ c.key < next_key
    BY DEF XInv, TInv, TypedInv, TypeOK, ChunksOK
  <2> QED BY <2>1, Constants DEF Chunk
<1> QED BY <1>1, Scalars

\* A frame of an honest sender is one of those RecvStream is proved for.
LEMMA FrameInBounds ==
    ASSUME XInv, NEW m \in net
    PROVE  /\ m.kind = "stream" => /\ m.offset \in 0..MaxOffset /\ m.length \in 0..MaxOffset
                                   /\ m.offset + m.length <= MaxOffset
           /\ m.kind = "reset" => m.offset \in 0..MaxOffset
           /\ m.fin \in BOOLEAN
<1>1. PacketOK(m)
  BY DEF XInv, CrossInv, NetOK
<1> QED BY <1>1, Facts DEF PacketOK

\* A step of the whole is a step of each half, or leaves it alone.
LEMMA HalvesMove == XInv /\ [TransferNext]_transferVars => [Next]_vars /\ [RecvNext]_recvVars
<1> SUFFICES ASSUME XInv, [TransferNext]_transferVars
             PROVE  [Next]_vars /\ [RecvNext]_recvVars
  OBVIOUS
<1>s. UNCHANGED sendVars => UNCHANGED vars
  BY DEF sendVars, vars, data, finVars
<1>r. UNCHANGED recvVars => UNCHANGED recvVars
  BY DEF recvVars, recvVars
<1>1. CASE AppWrites
  BY <1>1, <1>r DEF AppWrites, Next
<1>2. CASE AppReads
  BY <1>2, <1>s DEF AppReads, RecvNext
<1>3. CASE Send
  BY <1>3, <1>r DEF Send, Next
<1>4. ASSUME NEW m \in net, Drop(m) PROVE [Next]_vars /\ [RecvNext]_recvVars
  BY <1>4, <1>s, <1>r DEF Drop
<1>5. ASSUME NEW m \in net, Deliver(m) PROVE [Next]_vars /\ [RecvNext]_recvVars
  <2>1. [Next]_vars
    BY <1>5, <1>s DEF Deliver
  <2>2. CASE Apply(m)
    <3>1. m.kind \in {"stream", "reset"}
      BY DEF XInv, CrossInv, NetOK, PacketOK
    <3>2. CASE m.kind = "reset"
      BY <2>1, <2>2, <3>2, FrameInBounds DEF Apply, RecvNext
    <3>3. CASE m.kind = "stream"
      BY <2>1, <2>2, <3>3, FrameInBounds DEF Apply, RecvNext
    <3> QED BY <3>1, <3>2, <3>3
  <2>3. CASE UNCHANGED recvVars
    BY <2>1, <2>3, <1>r
  <2> QED BY <1>5, <2>2, <2>3 DEF Deliver
<1>6. ASSUME NEW k \in received, AckArrives(k) PROVE [Next]_vars /\ [RecvNext]_recvVars
  BY <1>6, <1>r DEF AckArrives, Next
<1>7. ASSUME NEW k \in 0..MaxKey, DeclareLost(k) PROVE [Next]_vars /\ [RecvNext]_recvVars
  BY <1>7, <1>r DEF DeclareLost, Next
<1>8. CASE Probe
  BY <1>8, <1>r DEF Probe, Next
<1>9. CASE UNCHANGED transferVars
  BY <1>9, <1>s, <1>r DEF transferVars
<1> QED BY <1>1, <1>2, <1>3, <1>4, <1>5, <1>6, <1>7, <1>8, <1>9 DEF TransferNext

\* The halves' own invariants hold on.
LEMMA HalvesKept == XInv /\ [TransferNext]_transferVars => TInv' /\ EndInv' /\ RInv'
BY HalvesMove, StepTypedInv, StepSizeOK, StepEndInv, NextRInv DEF XInv, TInv

-----------------------------------------------------------------------------
(* End to end: the sender's steps.                                         *)

\* The sender moves on, keeping what it has promised: a size once settled, and
\* of the chunks in flight nothing but whether a probe sent them again.
Grows ==
    /\ write_offset' >= write_offset /\ next_key' >= next_key
    /\ fin_marked => fin_marked' /\ write_offset' = write_offset
    /\ reset # "none" => reset' # "none" /\ write_offset' = write_offset

LEMMA SenderMoves ==
    ASSUME XInv, TInv', UNCHANGED <<recvVars, received>>, net' \subseteq net, Grows,
           \A c \in in_flight' : \E d \in in_flight :
              c.key = d.key /\ c.offset = d.offset /\ c.length = d.length /\ c.fin = d.fin,
           AckedOK'
    PROVE  CrossInv'
<1>0. /\ write_offset' \in Nat /\ next_key' \in Nat
      /\ read_offset' = read_offset /\ end_offset' = end_offset /\ ranges' = ranges
      /\ r_final_size' = r_final_size /\ fin_seen' = fin_seen /\ r_reset' = r_reset
      /\ closed' = closed /\ received' = received
  BY Constants DEF recvVars, TInv, TypedInv, TypeOK
<1>1. NetOK'
  <2> SUFFICES ASSUME NEW m \in net' PROVE PacketOK(m)'
    BY DEF NetOK
  <2>1. PacketOK(m)
    BY DEF XInv, CrossInv, NetOK
  <2>2. ASSUME NEW c \in in_flight', c.key = m.key PROVE m = DataPacket(c)
    <3>1. PICK d \in in_flight :
             c.key = d.key /\ c.offset = d.offset /\ c.length = d.length /\ c.fin = d.fin
      OBVIOUS
    <3>2. m = DataPacket(d)
      BY <2>1, <2>2, <3>1 DEF PacketOK
    <3> QED BY <3>1, <3>2 DEF DataPacket
  <2>3. m.key \in 0 .. (next_key' - 1)
    BY <1>0, <2>1, Facts DEF PacketOK, Grows
  <2>4. m.kind = "stream" =>
          /\ m.offset + m.length <= write_offset'
          /\ m.length > 0 => m.offset + m.length <= read_offset' + MaxSpan
          /\ m.fin => fin_marked' /\ m.offset + m.length = write_offset'
    BY <1>0, <2>1, Facts DEF PacketOK, Grows
  <2>5. m.kind = "reset" => reset' # "none" /\ m.offset = write_offset'
    BY <2>1 DEF PacketOK, Grows
  <2> QED BY <2>1, <2>2, <2>3, <2>4, <2>5 DEF PacketOK, DataPacket
<1>2. EndsOK'
  BY <1>0, Facts DEF XInv, CrossInv, EndsOK, Grows
<1>3. ArrivedOK'
  <2>1. received' \subseteq 0 .. (next_key' - 1)
    <3>1. received \subseteq 0 .. (next_key - 1)
      BY DEF XInv, CrossInv, ArrivedOK
    <3>2. next_key \in Nat
      BY Scalars
    <3>3. next_key' \in Nat /\ next_key' >= next_key /\ received' = received
      BY <1>0 DEF Grows
    <3>4. 0 .. (next_key - 1) \subseteq 0 .. (next_key' - 1)
      BY <3>2, <3>3, Longer
    <3> QED BY <3>1, <3>3, <3>4
  <2>2. Held' = Held
    BY <1>0 DEF Held
  <2>3. ASSUME ~r_reset', NEW c \in in_flight', c.key \in received'
        PROVE  Bytes(c) \subseteq Held' /\ (c.fin => fin_seen')
    <3>1. PICK d \in in_flight :
             c.key = d.key /\ c.offset = d.offset /\ c.length = d.length /\ c.fin = d.fin
      OBVIOUS
    <3>2. Bytes(d) \subseteq Held /\ (d.fin => fin_seen)
      BY <1>0, <2>3, <3>1 DEF XInv, CrossInv, ArrivedOK
    <3> QED BY <1>0, <2>2, <3>1, <3>2 DEF Bytes
  <2> QED BY <2>1, <2>3 DEF ArrivedOK, Bytes
<1> QED BY <1>1, <1>2, <1>3 DEF CrossInv

\* Nothing was acknowledged.
LEMMA AckedStays ==
    ASSUME XInv, UNCHANGED <<recvVars, base_offset, acked_above, fin_acked>>
    PROVE  AckedOK'
BY DEF XInv, CrossInv, AckedOK, Held, recvVars

\* write(), finish(), resetStream()
LEMMA CrossAppWrites ==
    ASSUME XInv, TInv', AppWrites
    PROVE  CrossInv'
<1>0. UNCHANGED <<recvVars, received>> /\ net' = net
  BY DEF AppWrites
<1>1. UNCHANGED <<base_offset, acked_above, fin_acked, in_flight>> /\ Grows
  <2>1. ASSUME NEW n \in 1..MaxOffset, Write(n)
        PROVE  UNCHANGED <<base_offset, acked_above, fin_acked, in_flight>> /\ Grows
    BY <2>1, Facts DEF Write, finVars, Grows
  <2>2. CASE Finish
    BY <2>2, Facts DEF Finish, data, Grows
  <2>3. CASE ResetStream
    BY <2>3, Facts DEF ResetStream, finVars, Grows
  <2> QED BY <2>1, <2>2, <2>3 DEF AppWrites
<1> QED BY <1>0, <1>1, SenderMoves, AckedStays

\* A packet is dropped.
LEMMA CrossDrop ==
    ASSUME XInv, TInv', NEW m \in net, Drop(m)
    PROVE  CrossInv'
<1>1. /\ UNCHANGED <<recvVars, received>> /\ net' \subseteq net
      /\ UNCHANGED <<base_offset, acked_above, fin_acked, in_flight>> /\ Grows
  BY Facts DEF Drop, sendVars, vars, data, finVars, Grows
<1> QED BY <1>1, SenderMoves, AckedStays

\* onPacketLost(), onResetLost()
LEMMA CrossDeclareLost ==
    ASSUME XInv, TInv', NEW k \in 0..MaxKey, DeclareLost(k)
    PROVE  CrossInv'
<1>0. UNCHANGED <<recvVars, received>> /\ net' = net
  BY DEF DeclareLost
<1>1. /\ UNCHANGED <<base_offset, acked_above, fin_acked>> /\ in_flight' \subseteq in_flight
      /\ Grows
  <2>1. ASSUME NEW c \in in_flight, PacketLost(c)
        PROVE  /\ UNCHANGED <<base_offset, acked_above, fin_acked>>
               /\ in_flight' \subseteq in_flight /\ Grows
    BY <2>1, Facts DEF PacketLost, Grows
  <2>2. ASSUME NEW r \in reset_in_flight, ResetLost(r)
        PROVE  /\ UNCHANGED <<base_offset, acked_above, fin_acked>>
               /\ in_flight' \subseteq in_flight /\ Grows
    BY <2>2, Facts DEF ResetLost, RequeueReset, data, finVars, Grows
  <2> QED BY <2>1, <2>2 DEF DeclareLost
<1> QED BY <1>0, <1>1, SenderMoves, AckedStays

\* onPacketProbeRequeued(), and RESET_STREAM again
LEMMA CrossProbe ==
    ASSUME XInv, TInv', Probe
    PROVE  CrossInv'
<1>0. UNCHANGED <<recvVars, received>> /\ net' = net
  BY DEF Probe
<1> DEFINE Same == \A c \in in_flight' : \E d \in in_flight :
              c.key = d.key /\ c.offset = d.offset /\ c.length = d.length /\ c.fin = d.fin
<1>1. UNCHANGED <<base_offset, acked_above, fin_acked>> /\ Grows /\ Same
  <2>1. ASSUME NEW c \in in_flight, PacketProbeRequeued(c)
        PROVE  UNCHANGED <<base_offset, acked_above, fin_acked>> /\ Grows /\ Same
    <3>1. in_flight' = (in_flight \ {c}) \cup {[c EXCEPT !.requeued = TRUE]}
      BY <2>1 DEF PacketProbeRequeued
    <3>2. c \in Chunk
      BY Facts
    <3>3. Same
      BY <3>1, <3>2 DEF Chunk
    <3> QED BY <2>1, <3>3, Facts DEF PacketProbeRequeued, Grows
  <2>2. ASSUME NEW r \in reset_in_flight, ResetProbeRequeued(r)
        PROVE  UNCHANGED <<base_offset, acked_above, fin_acked>> /\ Grows /\ Same
    BY <2>2, Facts DEF ResetProbeRequeued, RequeueReset, data, finVars, Grows
  <2> QED BY <2>1, <2>2 DEF Probe
<1> HIDE DEF Same
<1> QED BY <1>0, <1>1, SenderMoves, AckedStays DEF Same

\* onPacketAcked(): what is acknowledged had arrived.
LEMMA CrossAckArrives ==
    ASSUME XInv, TInv', NEW k \in received, AckArrives(k)
    PROVE  CrossInv'
<1>0. UNCHANGED <<recvVars, received>> /\ net' = net
  BY DEF AckArrives
<1>1. ASSUME NEW c \in in_flight, c.key = k, PacketAcked(c) PROVE CrossInv'
  <2>1. /\ in_flight' = in_flight \ {c} /\ fin_acked' = (fin_acked \/ c.fin)
        /\ UNCHANGED <<write_offset, fin_marked, reset, next_key>>
    BY <1>1 DEF PacketAcked
  <2>2. /\ base_offset' \in base_offset .. write_offset
        /\ acked_above' = (acked_above \cup Bytes(c)) \ (0 .. (base_offset' - 1))
        /\ base_offset .. (base_offset' - 1) \subseteq acked_above \cup Bytes(c)
    <3>1. Bytes(c) \in SUBSET (0 .. (write_offset - 1)) /\ TypeOK
      BY BytesWritten DEF XInv, TInv, TypedInv
    <3> QED BY <1>1, <3>1, MarkAckedFacts DEF PacketAcked
  <2>3. Grows
    BY <2>1, Facts DEF Grows
  <2>4. AckedOK'
    <3> SUFFICES ASSUME ~r_reset
                 PROVE  /\ 0 .. (base_offset' - 1) \subseteq Held /\ acked_above' \subseteq Held
                        /\ fin_acked' => fin_seen
      BY <1>0 DEF AckedOK, Held, recvVars
    <3>1. Bytes(c) \subseteq Held /\ (c.fin => fin_seen)
      BY <1>1 DEF XInv, CrossInv, ArrivedOK
    <3>2. /\ 0 .. (base_offset - 1) \subseteq Held /\ acked_above \subseteq Held
          /\ fin_acked => fin_seen
      BY DEF XInv, CrossInv, AckedOK
    <3>3. 0 .. (base_offset' - 1) = (0 .. (base_offset - 1)) \cup (base_offset .. (base_offset' - 1))
      <4>1. /\ base_offset \in Nat /\ write_offset \in Nat
            /\ base_offset' \in base_offset .. write_offset
        BY <2>2, Scalars
      <4>2. base_offset' \in Nat /\ base_offset <= base_offset'
        BY <4>1
      <4> QED BY <4>1, <4>2, Joined
    <3>4. base_offset .. (base_offset' - 1) \subseteq Held /\ acked_above' \subseteq Held
      BY <2>2, <3>1, <3>2
    <3> QED BY <2>1, <3>1, <3>2, <3>3, <3>4
  <2> QED BY <1>0, <2>1, <2>3, <2>4, SenderMoves
<1>2. ASSUME NEW r \in reset_in_flight, ResetAcked(r) PROVE CrossInv'
  <2>1. UNCHANGED <<base_offset, acked_above, fin_acked, in_flight>> /\ Grows
    BY <1>2, Facts DEF ResetAcked, data, finVars, Grows
  <2> QED BY <1>0, <2>1, SenderMoves, AckedStays
<1> QED BY <1>1, <1>2 DEF AckArrives

\* The packet builder: what goes out is new, is tracked under its number and
\* carries what the sender stands by.
LEMMA PacketsOut ==
    ASSUME XInv, TInv', UNCHANGED <<recvVars, received, write_offset, fin_marked,
                                    base_offset, acked_above, fin_acked>>,
           NEW new, net' = net \cup {new}, PacketOK(new)',
           new.key = next_key, next_key' = next_key + 1, reset # "none" => reset' # "none",
           \A c \in in_flight' : c \in in_flight \/ c.key = next_key
    PROVE  CrossInv'
<1>0. /\ read_offset' = read_offset /\ end_offset' = end_offset /\ ranges' = ranges
      /\ r_final_size' = r_final_size /\ fin_seen' = fin_seen /\ r_reset' = r_reset
      /\ closed' = closed /\ received' = received
  BY DEF recvVars
<1>1. NetOK'
  <2> SUFFICES ASSUME NEW m \in net, m # new PROVE PacketOK(m)'
    BY DEF NetOK
  <2>1. PacketOK(m)
    BY DEF XInv, CrossInv, NetOK
  <2>2. m.key < next_key /\ m.key \in 0 .. (next_key' - 1)
    BY <2>1, Facts DEF PacketOK
  <2>3. \A c \in in_flight' : c.key = m.key => m = DataPacket(c)
    BY <2>1, <2>2, Facts DEF PacketOK
  <2> QED BY <1>0, <2>1, <2>2, <2>3 DEF PacketOK, DataPacket
<1>2. EndsOK'
  BY <1>0 DEF XInv, CrossInv, EndsOK
<1>3. ArrivedOK'
  <2>1. received \subseteq 0 .. (next_key - 1)
    BY DEF XInv, CrossInv, ArrivedOK
  <2>2. received' \subseteq 0 .. (next_key' - 1)
    BY <1>0, <2>1, Facts
  <2>3. ASSUME ~r_reset', NEW c \in in_flight', c.key \in received'
        PROVE  Bytes(c) \subseteq Held' /\ (c.fin => fin_seen')
    <3>1. c \in in_flight
      BY <1>0, <2>1, <2>3, Facts
    <3>2. Held' = Held
      BY <1>0 DEF Held
    <3> QED BY <1>0, <2>3, <3>1, <3>2 DEF XInv, CrossInv, ArrivedOK
  <2> QED BY <2>2, <2>3 DEF ArrivedOK, Bytes
<1>4. AckedOK'
  BY AckedStays
<1> QED BY <1>1, <1>2, <1>3, <1>4 DEF CrossInv

\* A chunk that goes out is a packet that stands.
LEMMA ChunkOut ==
    ASSUME XInv, TInv', UNCHANGED <<recvVars, received, write_offset, fin_marked,
                                    base_offset, acked_above, fin_acked, reset>>,
           NEW c, c \notin in_flight, in_flight' = in_flight \cup {c}, c.key = next_key,
           next_key' = next_key + 1, net' = net \cup {DataPacket(c)},
           c.length > 0 => c.offset + c.length <= read_offset + MaxSpan,
           c.fin => c.offset + c.length = write_offset
    PROVE  CrossInv'
<1> DEFINE new == DataPacket(c)
<1>1. /\ c \in Chunk /\ c.offset + c.length <= write_offset'
      /\ c.key \in Nat /\ c.offset \in Nat /\ c.length \in Nat /\ c.fin \in BOOLEAN
  <2>1. c \in Chunk /\ c.offset + c.length <= write_offset'
    BY DEF TInv, TypedInv, TypeOK, ChunksOK
  <2> QED BY <2>1, Constants DEF Chunk
<1>2. /\ new.key = c.key /\ new.kind = "stream" /\ new.offset = c.offset
      /\ new.length = c.length /\ new.fin = c.fin
  BY DEF DataPacket
<1>3. c.fin => fin_marked'
  BY DEF TInv, SizeOK
<1>4. read_offset' = read_offset
  BY DEF recvVars
<1>5. \A d \in in_flight' : d.key = new.key => new = DataPacket(d)
  <2> SUFFICES ASSUME NEW d \in in_flight', d.key = next_key PROVE d = c
    BY <1>2
  <2> QED BY Facts
<1>6. PacketOK(new)'
  <2>1. new.key \in 0 .. (next_key' - 1)
    BY <1>1, <1>2, Facts
  <2>2. new.kind = "stream" =>
           /\ new.offset + new.length <= write_offset'
           /\ new.length > 0 => new.offset + new.length <= read_offset' + MaxSpan
           /\ new.fin => fin_marked' /\ new.offset + new.length = write_offset'
    BY <1>1, <1>2, <1>3, <1>4
  <2> HIDE DEF new
  <2> QED BY <1>1, <1>2, <1>5, <2>1, <2>2 DEF PacketOK, DataPacket
<1>7. net' = net \cup {new} /\ new.key = next_key
  BY <1>2
<1>8. \A d \in in_flight' : d \in in_flight \/ d.key = next_key
  OBVIOUS
<1> HIDE DEF new
<1> QED BY <1>6, <1>7, <1>8, PacketsOut

\* peekChunk(), recordSent(), and RESET_STREAM going out
LEMMA CrossSend ==
    ASSUME XInv, TInv', Send
    PROVE  CrossInv'
<1>0. UNCHANGED <<recvVars, received>>
  BY DEF Send
<1>f. ~ \E c \in in_flight : c.key = next_key
  BY Facts
<1>1. ASSUME NEW p \in Paths, NEW n \in 1..MaxOffset, SendChunk(p, n),
             \A c \in in_flight' \ in_flight : WithinWindow(c),
             net' = net \cup {DataPacket(c) : c \in in_flight' \ in_flight}
      PROVE  CrossInv'
  <2>1. PICK off \in pending :
           LET fin == FinOwed /\ off + n = final_size
               c   == [key |-> next_key, path |-> p, offset |-> off, length |-> n,
                       fin |-> fin, requeued |-> FALSE]
           IN  /\ next_key' = next_key + 1
               /\ in_flight' = in_flight \cup {c}
               /\ UNCHANGED <<base_offset, write_offset, acked_above, fin_marked,
                              fin_acked, reset>>
    BY <1>1 DEF SendChunk
  <2> DEFINE c == [key |-> next_key, path |-> p, offset |-> off, length |-> n,
                   fin |-> (FinOwed /\ off + n = final_size), requeued |-> FALSE]
  <2>2. /\ next_key' = next_key + 1 /\ in_flight' = in_flight \cup {c}
        /\ UNCHANGED <<base_offset, write_offset, acked_above, fin_marked, fin_acked, reset>>
    BY <2>1
  <2>3. c.key = next_key /\ c.offset + c.length = off + n /\ c \notin in_flight
    BY <1>f
  <2>4. c.fin => c.offset + c.length = write_offset
    <3>1. c.fin => fin_marked /\ c.offset + c.length = final_size
      BY DEF FinOwed
    <3> HIDE DEF c
    <3> QED BY <3>1, Scalars
  <2> HIDE DEF c
  <2>5. in_flight' \ in_flight = {c}
    BY <2>2, <2>3
  <2>6. c.offset + c.length <= read_offset + MaxSpan /\ net' = net \cup {DataPacket(c)}
    BY <1>1, <2>5 DEF WithinWindow
  <2> QED BY <1>0, <2>2, <2>3, <2>4, <2>6, ChunkOut
<1>2. ASSUME NEW p \in Paths, SendFin(p),
             net' = net \cup {DataPacket(c) : c \in in_flight' \ in_flight}
      PROVE  CrossInv'
  <2> DEFINE c == [key |-> next_key, path |-> p, offset |-> final_size, length |-> 0,
                   fin |-> TRUE, requeued |-> FALSE]
  <2>1. /\ next_key' = next_key + 1 /\ in_flight' = in_flight \cup {c} /\ FinOwed
        /\ UNCHANGED <<base_offset, write_offset, acked_above, fin_marked, fin_acked, reset>>
    BY <1>2 DEF SendFin, data
  <2>2. c.key = next_key /\ c \notin in_flight /\ c.length = 0
    BY <1>f
  <2>3. c.offset + c.length = write_offset
    <3>1. c.offset = final_size /\ c.length = 0
      OBVIOUS
    <3>2. final_size = write_offset /\ write_offset \in Nat
      BY <2>1, Scalars DEF FinOwed
    <3> HIDE DEF c
    <3> QED BY <3>1, <3>2
  <2> HIDE DEF c
  <2>4. in_flight' \ in_flight = {c}
    BY <2>1, <2>2
  <2>5. net' = net \cup {DataPacket(c)}
    BY <1>2, <2>4
  <2>6. ~(c.length > 0)
    BY <2>2
  <2> QED BY <1>0, <2>1, <2>2, <2>3, <2>5, <2>6, ChunkOut
<1>3. ASSUME NEW p \in Paths, SendReset(p), net' = net \cup {ResetFrame(next_key)}
      PROVE  CrossInv'
  <2>0. PICK new : new = ResetFrame(next_key)
    OBVIOUS
  <2>1. /\ next_key' = next_key + 1 /\ reset = "unqueued" /\ reset' = "queued"
        /\ UNCHANGED <<base_offset, write_offset, acked_above, fin_marked, fin_acked, in_flight>>
    BY <1>3 DEF SendReset, data, finVars
  <2>2. /\ new.key = next_key /\ new.kind = "reset" /\ new.offset = write_offset
        /\ new.length = 0 /\ new.fin = FALSE
    BY <2>0 DEF ResetFrame
  <2>3. PacketOK(new)'
    <3>1. new.key \in 0 .. (next_key' - 1) /\ new.offset \in Nat /\ new.length \in Nat
      BY <2>1, <2>2, Scalars
    <3>2. \A c \in in_flight' : c.key # new.key
      BY <1>f, <2>1, <2>2
    <3>3. new.fin \in BOOLEAN /\ new.kind \in {"stream", "reset"} /\ new.kind # "stream"
      BY <2>2
    <3>4. reset' # "none" /\ new.offset = write_offset'
      BY <2>1, <2>2
    <3> QED BY <3>1, <3>2, <3>3, <3>4 DEF PacketOK, DataPacket
  <2>4. \A c \in in_flight' : c \in in_flight \/ c.key = next_key
    BY <2>1
  <2>5. net' = net \cup {new}
    BY <1>3, <2>0
  <2>6. new.key = next_key /\ (reset # "none" => reset' # "none")
    BY <2>1, <2>2
  <2> QED BY <1>0, <2>1, <2>3, <2>4, <2>5, <2>6, PacketsOut
<1> QED BY <1>1, <1>2, <1>3 DEF Send

-----------------------------------------------------------------------------
(* End to end: the receiver's steps.                                       *)

\* The receiver moves on: what it has it keeps, or the stream is reset.
LEMMA ReceiverMoves ==
    ASSUME XInv, UNCHANGED sendVars, net' \subseteq net, EndsOK',
           read_offset' \in Nat, read_offset' >= read_offset,
           received' \subseteq 0 .. (next_key - 1),
           ~r_reset' => ~r_reset /\ Held \subseteq Held' /\ (fin_seen => fin_seen'),
           ~r_reset' => \A c \in in_flight : c.key \in received' \ received =>
                           Bytes(c) \subseteq Held' /\ (c.fin => fin_seen')
    PROVE  CrossInv'
<1>0. UNCHANGED <<write_offset, base_offset, acked_above, fin_acked, fin_marked, in_flight,
                  next_key, reset>>
  BY DEF sendVars, vars, data, finVars
<1>1. NetOK'
  <2> SUFFICES ASSUME NEW m \in net' PROVE PacketOK(m)'
    BY DEF NetOK
  <2>1. PacketOK(m)
    BY DEF XInv, CrossInv, NetOK
  <2>2. m.length > 0 /\ m.kind = "stream" => m.offset + m.length <= read_offset' + MaxSpan
    BY <2>1, Facts DEF PacketOK
  <2> QED BY <1>0, <2>1, <2>2 DEF PacketOK, DataPacket
<1>2. ArrivedOK'
  <2> SUFFICES ASSUME ~r_reset', NEW c \in in_flight, c.key \in received'
               PROVE  Bytes(c) \subseteq Held' /\ (c.fin => fin_seen')
    BY <1>0 DEF ArrivedOK, Bytes
  <2>1. CASE c.key \in received
    BY <2>1 DEF XInv, CrossInv, ArrivedOK
  <2>2. CASE c.key \notin received
    BY <2>2
  <2> QED BY <2>1, <2>2
<1>3. AckedOK'
  BY <1>0 DEF XInv, CrossInv, AckedOK
<1> QED BY <1>1, <1>2, <1>3 DEF CrossInv

\* Reading moves bytes from the buffer to the application.
LEMMA ConsumeFacts ==
    ASSUME XInv, NEW n \in 1..MaxOffset, Consume(n)
    PROVE  /\ read_offset' = read_offset + n /\ ranges' = ranges \ (read_offset .. (read_offset + n - 1))
           /\ read_offset .. (read_offset + n - 1) \subseteq ranges /\ ~r_reset
           /\ r_state' = RecvAdvancedState(r_state, read_offset', ranges', r_final_size, fin_seen)
           /\ Held \subseteq Held'
           /\ UNCHANGED <<end_offset, r_final_size, fin_seen, r_reset, closed>>
<1>1. /\ read_offset' = read_offset + n /\ ranges' = ranges \ (read_offset .. (read_offset + n - 1))
      /\ read_offset .. (read_offset + n - 1) \subseteq ranges
      /\ r_state' = RecvAdvancedState(r_state, read_offset', ranges', r_final_size, fin_seen)
      /\ UNCHANGED <<end_offset, r_final_size, fin_seen, r_reset, closed>>
  BY DEF Consume, Readable
<1>2. ~r_reset
  <2>1. read_offset \in ranges
    BY <1>1, Facts
  <2> QED BY <2>1 DEF XInv, CrossInv, EndsOK
<1>3. Held \subseteq Held'
  <2> SUFFICES ASSUME NEW b \in Held PROVE b \in 0 .. (read_offset' - 1) \/ b \in ranges'
    BY DEF Held
  <2>1. n \in Nat /\ read_offset \in Nat
    BY Facts
  <2>2. CASE b \in 0 .. (read_offset - 1)
    BY <1>1, <2>1, <2>2
  <2>3. CASE b \in ranges
    <3>1. b \in Nat /\ read_offset <= b
      BY <2>3, Facts
    <3> QED BY <1>1, <2>1, <2>3, <3>1
  <2> QED BY <2>2, <2>3 DEF Held
<1> QED BY <1>1, <1>2, <1>3

\* streamRead(), streamConsume()
LEMMA CrossAppReads ==
    ASSUME XInv, AppReads
    PROVE  CrossInv'
<1>0. UNCHANGED sendVars /\ net' = net /\ received' = received
  BY DEF AppReads
<1>e. EndsOK /\ received \subseteq 0 .. (next_key - 1)
  BY DEF XInv, CrossInv, ArrivedOK
<1>1. ASSUME NEW n \in 1..MaxOffset, Consume(n) PROVE CrossInv'
  <2>1. EndsOK'
    BY <1>0, <1>e, <1>1, ConsumeFacts DEF EndsOK, sendVars, vars, data, finVars
  <2>2. read_offset' \in Nat /\ read_offset' >= read_offset
    BY <1>1, ConsumeFacts, Facts
  <2> QED BY <1>0, <1>e, <1>1, <2>1, <2>2, ConsumeFacts, ReceiverMoves
<1>2. CASE MarkRead
  <2>1. UNCHANGED <<read_offset, end_offset, ranges, r_final_size, fin_seen, r_reset, closed>>
    BY <1>2 DEF MarkRead
  <2>2. EndsOK' /\ Held' = Held
    BY <1>0, <1>e, <2>1 DEF EndsOK, Held, sendVars, vars, data, finVars
  <2> QED BY <1>0, <1>e, <2>1, <2>2, Facts, ReceiverMoves
<1> QED BY <1>1, <1>2 DEF AppReads

\* An honest STREAM frame is accepted: it agrees with the size the receiver
\* knows and fits its window.
LEMMA FrameAgrees ==
    ASSUME XInv, NEW m \in net, m.kind = "stream", ~r_reset
    PROVE  RecvError(m.offset, m.length, m.fin) = "none"
<1>1. /\ m.offset \in Nat /\ m.length \in Nat /\ m.fin \in BOOLEAN
      /\ m.offset + m.length <= write_offset
      /\ m.length > 0 => m.offset + m.length <= read_offset + MaxSpan
      /\ m.fin => m.offset + m.length = write_offset
  BY DEF XInv, CrossInv, NetOK, PacketOK
<1>2. /\ end_offset <= write_offset
      /\ r_final_size # NoSize => r_final_size = write_offset
  BY DEF XInv, CrossInv, EndsOK
<1>3. /\ write_offset \in Nat /\ read_offset \in Nat /\ end_offset \in Nat /\ MaxSpan \in Nat
  BY Scalars
<1> DEFINE new_end == m.offset + m.length
<1>4. ~(r_final_size # NoSize /\ new_end > r_final_size)
  BY <1>1, <1>2, <1>3
<1>5. m.fin => ~(IF r_final_size # NoSize THEN ~(r_state \in {"data_recvd", "data_read"}) /\ r_final_size # new_end
                 ELSE end_offset > new_end)
  BY <1>1, <1>2, <1>3
<1>6. ~(m.length > 0 /\ OverSpan(new_end))
  BY <1>1, <1>3 DEF OverSpan
<1> QED BY <1>4, <1>5, <1>6 DEF RecvError

\* What it leaves behind.
LEMMA AcceptFacts ==
    ASSUME XInv, NEW m \in net, m.kind = "stream", Recv(m.offset, m.length, m.fin)
    PROVE  /\ ~r_reset /\ r_state \notin {"data_recvd", "data_read"}
           /\ UNCHANGED <<read_offset, r_reset, closed>>
           /\ r_final_size' = IF m.fin THEN m.offset + m.length ELSE r_final_size
           /\ fin_seen' = (fin_seen \/ m.fin)
           /\ ranges \subseteq ranges'
           /\ \A b \in m.offset .. (m.offset + m.length - 1) : b >= read_offset => b \in ranges'
           /\ end_offset' = IF m.offset + m.length > end_offset
                            THEN m.offset + m.length ELSE end_offset
           /\ r_state' = RecvAdvancedState(IF m.fin /\ r_state = "recv" THEN "size_known" ELSE r_state,
                            read_offset, ranges', r_final_size', fin_seen')
<1>1. ~r_reset
  BY DEF Recv
<1>2. Accept(m.offset, m.length, m.fin) /\ r_state \notin {"data_recvd", "data_read"}
  BY <1>1, FrameAgrees DEF Recv
<1>3. UNCHANGED <<read_offset, r_reset, closed>> /\ fin_seen' = (fin_seen \/ m.fin)
  BY <1>2 DEF Accept
<1>4. r_final_size' = IF m.fin THEN m.offset + m.length ELSE r_final_size
  BY <1>2 DEF Accept
<1>5. /\ ranges \subseteq ranges'
      /\ \A b \in m.offset .. (m.offset + m.length - 1) : b >= read_offset => b \in ranges'
  <2>1. ranges \subseteq ranges'
    BY <1>2 DEF Accept
  <2>2. ASSUME NEW b \in m.offset .. (m.offset + m.length - 1), b >= read_offset
        PROVE  b \in ranges'
    <3>1. m.offset \in Nat /\ m.length \in Nat /\ read_offset \in Nat
      BY Scalars DEF XInv, CrossInv, NetOK, PacketOK
    <3>2. PICK new_end \in Nat : new_end = m.offset + m.length
      BY <3>1
    <3>3. ranges' = ranges \cup {x \in m.offset .. (new_end - 1) : x >= read_offset}
      BY <1>2, <3>2 DEF Accept
    <3> QED BY <2>2, <3>1, <3>2, <3>3
  <2> QED BY <2>1, <2>2
<1>6. end_offset' = IF m.offset + m.length > end_offset
                   THEN m.offset + m.length ELSE end_offset
  BY <1>2 DEF Accept
<1>7. r_state' = RecvAdvancedState(IF m.fin /\ r_state = "recv" THEN "size_known" ELSE r_state,
                   read_offset, ranges', r_final_size', fin_seen')
  BY <1>2, <1>3, <1>4 DEF Accept
<1> QED BY <1>1, <1>2, <1>3, <1>4, <1>5, <1>6, <1>7

\* The receiver has the bytes of a frame it accepted.
LEMMA BytesHeld ==
    ASSUME XInv, NEW m \in net, m.kind = "stream", Recv(m.offset, m.length, m.fin)
    PROVE  m.offset .. (m.offset + m.length - 1) \subseteq Held' /\ Held \subseteq Held'
<1>1. m.offset \in Nat /\ m.length \in Nat
  BY DEF XInv, CrossInv, NetOK, PacketOK
<1>2. /\ ranges \subseteq ranges'
      /\ \A b \in m.offset .. (m.offset + m.length - 1) : b >= read_offset => b \in ranges'
      /\ read_offset' = read_offset
  BY AcceptFacts
<1>3. ASSUME NEW b \in m.offset .. (m.offset + m.length - 1)
      PROVE  b \in 0 .. (read_offset - 1) \/ b \in ranges'
  <2>1. b \in Nat /\ read_offset \in Nat
    BY <1>1, Scalars
  <2>2. CASE b >= read_offset
    BY <1>2, <2>2
  <2>3. CASE ~(b >= read_offset)
    BY <2>1, <2>3
  <2> QED BY <2>2, <2>3
<1>4. Held' = (0 .. (read_offset - 1)) \cup ranges'
  BY <1>2 DEF Held
<1> QED BY <1>2, <1>3, <1>4 DEF Held

\* A frame the receiver ignores tells it nothing: it has all of the stream.
LEMMA CompleteHasAll ==
    ASSUME XInv, ~r_reset, r_state \in {"data_recvd", "data_read"}
    PROVE  /\ fin_seen /\ fin_marked /\ read_offset = write_offset
           /\ Held = 0 .. (write_offset - 1) /\ ranges = {}
<1>1. fin_seen /\ read_offset = r_final_size
  BY DEF XInv, RInv, EndIsTruthful
<1>2. fin_marked /\ r_final_size = write_offset
  BY <1>1 DEF XInv, CrossInv, EndsOK
<1>3. ranges = {}
  <2>1. /\ ranges \subseteq read_offset .. (end_offset - 1) /\ end_offset <= write_offset
        /\ write_offset \in Nat /\ end_offset \in Nat
    BY Scalars
  <2>2. \A b \in read_offset .. (end_offset - 1) : FALSE
    BY <1>1, <1>2, <2>1
  <2> QED BY <2>1, <2>2
<1> QED BY <1>1, <1>2, <1>3 DEF Held

\* handleStream(), handleResetStream()
LEMMA CrossDeliver ==
    ASSUME XInv, NEW m \in net, Deliver(m)
    PROVE  CrossInv'
<1>0. /\ UNCHANGED sendVars /\ net' = net \ {m} /\ received' = received \cup {m.key}
      /\ UNCHANGED <<write_offset, fin_marked, reset, in_flight, next_key>>
  BY DEF Deliver, sendVars, vars, data, finVars
<1>p. PacketOK(m) /\ EndsOK
  BY DEF XInv, CrossInv, NetOK
<1>n. net' \subseteq net /\ received' \subseteq 0 .. (next_key - 1)
  BY <1>0, <1>p DEF XInv, CrossInv, ArrivedOK, PacketOK
<1>k. ASSUME NEW c \in in_flight, c.key \in received' \ received
      PROVE  /\ m.kind = "stream" /\ c.fin = m.fin
             /\ Bytes(c) = m.offset .. (m.offset + m.length - 1)
  <2>1. m = DataPacket(c)
    BY <1>0, <1>k, <1>p DEF PacketOK
  <2>2. m.kind = "stream" /\ c.fin = m.fin /\ c.offset = m.offset /\ c.length = m.length
    BY <2>1 DEF DataPacket
  <2> QED BY <2>2 DEF Bytes
<1>1. CASE m.kind = "reset" /\ PeerReset(m.offset)
  <2>1. reset # "none" /\ m.offset = write_offset
    BY <1>1, <1>p DEF PacketOK
  <2>2. ~ResetConflict(m.offset)
    BY <1>p, <2>1, Scalars DEF ResetConflict, EndsOK
  <2>3. /\ r_reset' = TRUE /\ r_final_size' = write_offset /\ ranges' = {}
        /\ UNCHANGED <<read_offset, end_offset, fin_seen, closed>>
    BY <1>1, <2>1, <2>2 DEF PeerReset
  <2>4. EndsOK'
    BY <1>0, <1>p, <2>1, <2>3 DEF EndsOK
  <2>5. read_offset' \in Nat /\ read_offset' >= read_offset
    BY <2>3, Scalars
  <2> QED BY <1>0, <1>n, <2>3, <2>4, <2>5, ReceiverMoves
<1>2. CASE m.kind = "stream" /\ Recv(m.offset, m.length, m.fin)
  <2>1. /\ m.fin \in BOOLEAN /\ m.offset + m.length <= write_offset
        /\ m.fin => fin_marked /\ m.offset + m.length = write_offset
    BY <1>2, <1>p DEF PacketOK
  <2>2. EndsOK'
    <3>1. end_offset' <= write_offset'
      BY <1>0, <1>2, <1>p, <2>1, AcceptFacts DEF EndsOK
    <3> QED BY <1>0, <1>2, <1>p, <2>1, <3>1, AcceptFacts DEF EndsOK
  <2>3. read_offset' \in Nat /\ read_offset' >= read_offset
    BY <1>2, AcceptFacts, Scalars
  <2>4. ~r_reset /\ Held \subseteq Held' /\ (fin_seen => fin_seen')
    BY <1>2, AcceptFacts, BytesHeld
  <2>5. ASSUME NEW c \in in_flight, c.key \in received' \ received
        PROVE  Bytes(c) \subseteq Held' /\ (c.fin => fin_seen')
    BY <1>2, <1>k, <2>5, AcceptFacts, BytesHeld
  <2> QED BY <1>0, <1>n, <2>2, <2>3, <2>4, <2>5, ReceiverMoves
<1>3. CASE Ignored(m) /\ UNCHANGED recvVars
  <2>1. UNCHANGED <<read_offset, end_offset, ranges, r_final_size, fin_seen, r_reset, closed>>
    BY <1>3 DEF recvVars
  <2>2. EndsOK' /\ Held' = Held
    BY <1>0, <1>p, <2>1 DEF EndsOK, Held
  <2>3. read_offset' \in Nat /\ read_offset' >= read_offset
    BY <2>1, Scalars
  <2>4. ASSUME ~r_reset, NEW c \in in_flight, c.key \in received' \ received
        PROVE  Bytes(c) \subseteq Held' /\ (c.fin => fin_seen')
    <3>1. fin_seen /\ Held = 0 .. (write_offset - 1)
      BY <1>3, <2>4, CompleteHasAll DEF Ignored
    <3>2. Bytes(c) \subseteq 0 .. (write_offset - 1)
      BY BytesWritten DEF XInv, TInv
    <3> QED BY <2>1, <2>2, <3>1, <3>2
  <2> QED BY <1>0, <1>n, <2>1, <2>2, <2>3, <2>4, ReceiverMoves
<1> QED BY <1>1, <1>2, <1>3, <1>p DEF Deliver, Apply, PacketOK

-----------------------------------------------------------------------------
(* End to end: the two halves agree.                                       *)

LEMMA InitXInv == TransferInit => XInv
<1> SUFFICES ASSUME TransferInit PROVE XInv
  OBVIOUS
<1>1. Init /\ RecvInit /\ net = {} /\ received = {}
  BY DEF TransferInit
<1>2. TInv /\ EndInv /\ RInv
  <2>1. EndInv
    BY <1>1 DEF Init, EndInv
  <2> QED BY <1>1, <2>1, InitTInv, InitRInv
<1>3. CrossInv
  <2>1. /\ write_offset = 0 /\ base_offset = 0 /\ acked_above = {} /\ fin_acked = FALSE
        /\ in_flight = {} /\ end_offset = 0 /\ closed = "none" /\ fin_seen = FALSE
        /\ r_reset = FALSE /\ r_final_size = NoSize
    BY <1>1 DEF Init, RecvInit
  <2> QED BY <1>1, <2>1 DEF CrossInv, NetOK, EndsOK, ArrivedOK, AckedOK
<1> QED BY <1>2, <1>3 DEF XInv

LEMMA NextXInv == XInv /\ [TransferNext]_transferVars => XInv'
<1> SUFFICES ASSUME XInv, [TransferNext]_transferVars PROVE XInv'
  OBVIOUS
<1>1. TInv' /\ EndInv' /\ RInv'
  BY HalvesKept
<1>2. CrossInv'
  <2>1. CASE AppWrites
    BY <1>1, <2>1, CrossAppWrites
  <2>2. CASE AppReads
    BY <2>2, CrossAppReads
  <2>3. CASE Send
    BY <1>1, <2>3, CrossSend
  <2>4. CASE \E m \in net : Drop(m)
    BY <1>1, <2>4, CrossDrop
  <2>5. CASE \E m \in net : Deliver(m)
    BY <2>5, CrossDeliver
  <2>6. CASE \E k \in received : AckArrives(k)
    BY <1>1, <2>6, CrossAckArrives
  <2>7. CASE \E k \in 0..MaxKey : DeclareLost(k)
    BY <1>1, <2>7, CrossDeclareLost
  <2>8. CASE Probe
    BY <1>1, <2>8, CrossProbe
  <2>9. CASE UNCHANGED transferVars
    <3>1. UNCHANGED <<recvVars, received>> /\ net' = net
      BY <2>9 DEF transferVars
    <3>2. UNCHANGED <<base_offset, acked_above, fin_acked, in_flight>> /\ Grows
      BY <2>9, Scalars DEF transferVars, sendVars, vars, data, finVars, Grows
    <3> QED BY <1>1, <3>1, <3>2, SenderMoves, AckedStays
  <2> QED BY <2>1, <2>2, <2>3, <2>4, <2>5, <2>6, <2>7, <2>8, <2>9 DEF TransferNext
<1> QED BY <1>1, <1>2 DEF XInv

\* In a state of the invariant the two ends agree.
LEMMA XInvAgrees == XInv => EndsAgree
<1> SUFFICES ASSUME XInv PROVE EndsAgree
  OBVIOUS
<1>1. NoPeerError /\ read_offset <= write_offset
  <2>1. closed = "none"
    BY DEF XInv, CrossInv, EndsOK
  <2> QED BY <2>1, Scalars DEF NoPeerError
<1>2. fin_seen => fin_marked /\ r_final_size = final_size
  BY Scalars DEF XInv, CrossInv, EndsOK
<1>3. ASSUME state = "data_recvd", ~r_reset
      PROVE  fin_seen /\ 0 .. (final_size - 1) \subseteq (0 .. (read_offset - 1)) \cup ranges
  <2>1. fin_acked /\ base_offset = final_size
    BY <1>3 DEF XInv, EndInv
  <2> QED BY <1>3, <2>1 DEF XInv, CrossInv, AckedOK, Held
<1> QED BY <1>1, <1>2, <1>3 DEF EndsAgree, EndAgreed

\* Whatever the network loses or reorders and however wrong the loss detector
\* is, the receiver never finds fault with an honest sender, nothing is read
\* that was not written, and a sender that reached data_recvd (and whose stream
\* is freed) has a receiver with every byte and the FIN.
THEOREM EndsAlwaysAgree == TransferSpec => []EndsAgree
<1>1. TransferSpec => []XInv
  BY InitXInv, NextXInv, PTL DEF TransferSpec
<1> QED BY <1>1, XInvAgrees, PTL

-----------------------------------------------------------------------------
(* The refinement: the length of the in-order prefix.                      *)

\* A set of naturals with a member has a least one.
LEMMA LeastExists ==
    ASSUME NEW T, T \subseteq Nat, T # {}
    PROVE  \E x \in T : \A y \in T : x <= y
<1> DEFINE Less == {ss \in Nat \X Nat : ss[1] < ss[2]}
<1>1. IsWellFoundedOn(Less, Nat)
  BY NatLessThanWellFounded DEF OpToRel
<1>2. \A x, y \in T : <<y, x>> \in Less <=> y < x
  OBVIOUS
<1> HIDE DEF Less
<1>3. PICK x \in T : \A y \in T : ~(<<y, x>> \in Less)
  BY <1>1, WFMin
<1>4. \A y \in T : ~(y < x)
  BY <1>2, <1>3
<1> QED BY <1>4

\* The run of received offsets ends at the first one that is missing.
LEMMA PrefixExists ==
    ASSUME NEW ro \in 0..MaxOffset, NEW rs \in SUBSET (0 .. (MaxOffset - 1))
    PROVE  \E n \in ro .. MaxOffset : ro .. (n - 1) \subseteq rs /\ n \notin rs
<1>1. MaxOffset \in Nat /\ ro \in Nat /\ ro <= MaxOffset
  BY Constants
<1> DEFINE Missing == {n \in ro .. MaxOffset : n \notin rs}
<1>2. MaxOffset \in Missing /\ Missing \subseteq Nat
  BY <1>1
<1>3. PICK n \in Missing : \A y \in Missing : n <= y
  BY <1>2, LeastExists
<1>4. ASSUME NEW b \in ro .. (n - 1), b \notin rs PROVE FALSE
  <2>1. b \in Missing /\ n \in Nat /\ b \in Nat /\ ~(n <= b)
    BY <1>1, <1>4
  <2> QED BY <1>3, <2>1
<1> QED BY <1>3, <1>4

\* InOrder is that end, and of a complete stream nothing is missing.
PrefixOK ==
    /\ InOrder \in read_offset .. MaxOffset
    /\ read_offset .. (InOrder - 1) \subseteq ranges
    /\ InOrder \notin ranges
    /\ InOrder <= write_offset
    /\ ~r_reset /\ r_state \in {"data_recvd", "data_read"} =>
          fin_marked /\ read_offset = write_offset

LEMMA PrefixNow == XInv => PrefixOK
<1> SUFFICES ASSUME XInv PROVE PrefixOK
  OBVIOUS
<1>1. read_offset \in 0..MaxOffset /\ ranges \in SUBSET (0 .. (MaxOffset - 1))
  BY DEF XInv, RInv, RecvTypeOK
<1>2. \E n \in read_offset .. MaxOffset :
         read_offset .. (n - 1) \subseteq ranges /\ n \notin ranges
  BY <1>1, PrefixExists
<1>3. /\ InOrder \in read_offset .. MaxOffset
      /\ read_offset .. (InOrder - 1) \subseteq ranges
      /\ InOrder \notin ranges
  BY <1>2 DEF InOrder
<1> HIDE DEF InOrder
<1>4. InOrder <= write_offset
  <2>0. /\ read_offset \in Nat /\ end_offset \in Nat /\ write_offset \in Nat /\ MaxOffset \in Nat
        /\ end_offset <= write_offset /\ read_offset <= end_offset
        /\ ranges \subseteq read_offset .. (end_offset - 1)
    BY Scalars
  <2>1. CASE InOrder = read_offset
    BY <2>0, <2>1
  <2>2. CASE InOrder # read_offset
    <3>1. InOrder - 1 \in read_offset .. (InOrder - 1)
      BY <1>3, <2>0, <2>2
    <3>2. InOrder - 1 \in read_offset .. (end_offset - 1)
      BY <1>3, <2>0, <3>1
    <3> QED BY <1>3, <2>0, <3>2
  <2> QED BY <2>1, <2>2
<1>5. ASSUME ~r_reset, r_state \in {"data_recvd", "data_read"}
      PROVE  fin_marked /\ read_offset = write_offset
  BY <1>5, CompleteHasAll
<1> QED BY <1>3, <1>4, <1>5 DEF PrefixOK

LEMMA PrefixNext == XInv' => PrefixOK'
BY PrefixNow, PTL

\* It is the only one.
LEMMA InOrderIs ==
    ASSUME PrefixOK, NEW n \in Nat, MaxOffset \in Nat, read_offset \in Nat, read_offset <= n,
           read_offset .. (n - 1) \subseteq ranges, n \notin ranges
    PROVE  InOrder = n
<1>1. InOrder \in Nat /\ read_offset <= InOrder
  BY DEF PrefixOK
<1>2. CASE InOrder < n
  BY <1>1, <1>2 DEF PrefixOK
<1>3. CASE n < InOrder
  <2>1. n \in read_offset .. (InOrder - 1)
    BY <1>1, <1>3
  <2> QED BY <2>1 DEF PrefixOK
<1> QED BY <1>1, <1>2, <1>3

\* A receiver whose buffer only lost what was read, or nothing, has the same
\* prefix; one with more bytes has no shorter one.
LEMMA InOrderSame ==
    ASSUME UNCHANGED <<read_offset, ranges>>
    PROVE  InOrder' = InOrder
BY DEF InOrder

-----------------------------------------------------------------------------
(* The refinement: every step is one of the reliable stream's, or none.    *)

Ended == IF r_reset THEN "reset"
         ELSE IF r_state \in {"data_recvd", "data_read"} THEN "fin"
         ELSE "open"
Confirmed == state = "data_recvd" /\ reset = "none"

\* A step of the sender leaves the reader's side of the abstract state alone.
LEMMA ReaderKept ==
    ASSUME UNCHANGED recvVars
    PROVE  InOrder' = InOrder /\ read_offset' = read_offset /\ Ended' = Ended
<1>1. UNCHANGED <<read_offset, ranges, r_reset, r_state>>
  BY DEF recvVars
<1> QED BY <1>1, InOrderSame DEF Ended

\* And a step of the receiver the writer's.
LEMMA WriterKept ==
    ASSUME UNCHANGED sendVars
    PROVE  /\ write_offset' = write_offset /\ fin_marked' = fin_marked
           /\ (reset # "none")' = (reset # "none") /\ Confirmed' = Confirmed
BY DEF sendVars, vars, data, finVars, Confirmed

\* The abstract variables.
LEMMA Stutter ==
    ASSUME write_offset' = write_offset, fin_marked' = fin_marked,
           (reset # "none")' = (reset # "none"), InOrder' = InOrder,
           read_offset' = read_offset, Ended' = Ended, Confirmed' = Confirmed
    PROVE  UNCHANGED A!vars
BY DEF A!vars, Ended, Confirmed

\* The writer's calls are the abstract writer's.
LEMMA AbsWrites ==
    ASSUME XInv, AppWrites
    PROVE  A!Next
<1>1. InOrder' = InOrder /\ read_offset' = read_offset /\ Ended' = Ended
  BY ReaderKept DEF AppWrites
<1>2. ASSUME NEW n \in 1..MaxOffset, Write(n) PROVE A!Write
  <2>1. /\ ~fin_marked /\ reset = "none" /\ write_offset + n <= MaxOffset
        /\ write_offset' = write_offset + n /\ UNCHANGED <<fin_marked, reset>>
        /\ state' = IF state = "ready" THEN "send" ELSE state
    BY <1>2 DEF Write, finVars
  <2>2. Confirmed' = Confirmed
    BY <2>1 DEF Confirmed
  <2>3. write_offset' \in (write_offset + 1) .. MaxOffset
    BY <2>1, Scalars
  <2> QED BY <1>1, <2>1, <2>2, <2>3 DEF A!Write, Ended, Confirmed
<1>3. ASSUME Finish PROVE A!Finish
  <2>1. /\ ~fin_marked /\ reset = "none" /\ fin_marked' = TRUE
        /\ UNCHANGED <<write_offset, reset>>
        /\ state' = IF state \in {"ready", "send"} THEN "data_sent" ELSE state
    BY <1>3 DEF Finish, data
  <2>2. Confirmed' = Confirmed
    BY <2>1 DEF Confirmed
  <2>3. ~(reset # "none") /\ (reset # "none")' = (reset # "none")
    BY <2>1
  <2> QED BY <1>1, <2>1, <2>2, <2>3 DEF A!Finish, Ended, Confirmed
<1>4. ASSUME ResetStream PROVE A!Abort
  <2>1. /\ reset = "none" /\ state # "data_recvd" /\ reset' = "unqueued"
        /\ UNCHANGED <<write_offset, fin_marked>>
    BY <1>4 DEF ResetStream, finVars
  <2>2. ~Confirmed /\ ~Confirmed'
    BY <2>1 DEF Confirmed
  <2>3. ~(reset # "none") /\ (reset # "none")' = TRUE
    BY <2>1
  <2>4. Confirmed' = Confirmed
    BY <2>1 DEF Confirmed
  <2> QED BY <1>1, <2>1, <2>2, <2>3, <2>4 DEF A!Abort, Ended, Confirmed
<1> QED BY <1>2, <1>3, <1>4 DEF AppWrites, A!Next

\* A run and the run after it are one run.
LEMMA Extended ==
    ASSUME NEW a \in Nat, NEW n \in Nat, NEW m \in Nat, NEW e \in (a + n) .. m, NEW from, NEW rest,
           rest = from \ (a .. (a + n - 1)), a .. (a + n - 1) \subseteq from,
           (a + n) .. (e - 1) \subseteq rest, e \notin rest
    PROVE  e \in Nat /\ a <= e /\ a .. (e - 1) \subseteq from /\ e \notin from
<1>1. e \in Nat /\ a + n <= e
  OBVIOUS
<1>2. a <= e /\ e \notin a .. (a + n - 1)
  BY <1>1
<1>3. ASSUME NEW b \in a .. (e - 1) PROVE b \in from
  <2>1. b \in a .. (a + n - 1) \/ b \in (a + n) .. (e - 1)
    BY <1>1
  <2> QED BY <2>1
<1> QED BY <1>1, <1>2, <1>3

\* The reader's are the abstract reader's.
LEMMA AbsReads ==
    ASSUME XInv, PrefixOK, PrefixOK', AppReads
    PROVE  [A!Next]_(A!vars)
<1>1. /\ write_offset' = write_offset /\ fin_marked' = fin_marked
      /\ (reset # "none")' = (reset # "none") /\ Confirmed' = Confirmed
  BY WriterKept DEF AppReads
<1>s. read_offset \in Nat /\ MaxOffset \in Nat
  BY Scalars
<1>2. ASSUME NEW n \in 1..MaxOffset, Consume(n) PROVE A!Read
  <2>1. /\ read_offset' = read_offset + n /\ ranges' = ranges \ (read_offset .. (read_offset + n - 1))
        /\ read_offset .. (read_offset + n - 1) \subseteq ranges /\ ~r_reset /\ ~r_reset'
    BY <1>2, ConsumeFacts
  <2>n. n \in Nat /\ n >= 1
    BY <1>s
  <2>2. r_state \notin {"data_recvd", "data_read"}
    <3>1. read_offset \in ranges
      BY <1>s, <2>1, <2>n
    <3> QED BY <2>1, <3>1, CompleteHasAll
  <2>3. InOrder \in Nat /\ read_offset + n <= InOrder
    <3>1. InOrder \in Nat /\ read_offset <= InOrder /\ InOrder \notin ranges
      BY <1>s DEF PrefixOK
    <3>2. CASE InOrder < read_offset + n
      <4>1. InOrder \in read_offset .. (read_offset + n - 1)
        BY <1>s, <2>n, <3>1, <3>2
      <4> QED BY <2>1, <3>1, <4>1
    <3> QED BY <1>s, <2>n, <3>1, <3>2
  <2>4. InOrder' = InOrder
    <3>0. PICK io, rs : io = InOrder' /\ rs = ranges'
      OBVIOUS
    <3>1. io \in (read_offset + n) .. MaxOffset /\ io \notin rs
      BY <2>1, <3>0 DEF PrefixOK
    <3>2. (read_offset + n) .. (io - 1) \subseteq rs
      BY <2>1, <3>0 DEF PrefixOK
    <3>3. rs = ranges \ (read_offset .. (read_offset + n - 1))
      BY <2>1, <3>0
    <3>4. /\ io \in Nat /\ read_offset <= io
          /\ read_offset .. (io - 1) \subseteq ranges /\ io \notin ranges
      BY <1>s, <2>1, <2>n, <3>1, <3>2, <3>3, Extended
    <3> QED BY <1>s, <3>0, <3>4, InOrderIs
  <2>5. Ended = "open" /\ Ended' \in {"open", "fin"}
    BY <2>1, <2>2 DEF Ended
  <2>6. Ended' = "fin" => fin_marked /\ read_offset' = write_offset
    BY <1>1, <2>1 DEF Ended, PrefixOK
  <2>7. read_offset' \in (read_offset + 1) .. InOrder
    BY <1>s, <2>1, <2>n, <2>3
  <2> QED BY <1>1, <2>4, <2>5, <2>6, <2>7 DEF A!Read, Ended, Confirmed
<1>3. ASSUME MarkRead PROVE UNCHANGED A!vars
  <2>1. /\ UNCHANGED <<read_offset, ranges, r_reset>>
        /\ r_state \in {"data_recvd", "reset_recvd"}
        /\ r_state' = IF r_state = "data_recvd" THEN "data_read" ELSE "reset_read"
    BY <1>3 DEF MarkRead
  <2>2. Ended' = Ended
    BY <2>1 DEF Ended
  <2> QED BY <1>1, <2>1, <2>2, InOrderSame, Stutter
<1> QED BY <1>2, <1>3 DEF AppReads, A!Next

\* Packets that go out, are dropped, lost or sent again are no abstract step.
LEMMA AbsSilent ==
    ASSUME UNCHANGED <<recvVars, write_offset, fin_marked, state>>,
           (reset # "none")' = (reset # "none"), reset = "none" => reset' = "none"
    PROVE  UNCHANGED A!vars
<1>1. Confirmed' = Confirmed
  BY DEF Confirmed
<1> QED BY <1>1, ReaderKept, Stutter

LEMMA AbsPackets ==
    ASSUME XInv, Send \/ (\E m \in net : Drop(m)) \/ (\E k \in 0..MaxKey : DeclareLost(k)) \/ Probe
    PROVE  UNCHANGED A!vars
<1>1. CASE Send
  BY <1>1, AbsSilent DEF Send, SendChunk, SendFin, SendReset, data, finVars
<1>2. ASSUME NEW m \in net, Drop(m) PROVE UNCHANGED A!vars
  BY <1>2, AbsSilent DEF Drop, sendVars, vars, data, finVars
<1>r. reset_in_flight # {} => reset # "none"
  BY DEF XInv, EndInv
<1>3. ASSUME NEW k \in 0..MaxKey, DeclareLost(k) PROVE UNCHANGED A!vars
  BY <1>3, <1>r, AbsSilent DEF DeclareLost, PacketLost, ResetLost, RequeueReset,
     data, finVars
<1>4. CASE Probe
  BY <1>4, <1>r, AbsSilent DEF Probe, PacketProbeRequeued, ResetProbeRequeued,
     RequeueReset, data, finVars
<1> QED BY <1>1, <1>2, <1>3, <1>4

\* A frame that arrives brings bytes, the end or the abortion.
LEMMA AbsDeliver ==
    ASSUME XInv, XInv', PrefixOK, PrefixOK', NEW m \in net, Deliver(m)
    PROVE  [A!Next]_(A!vars)
<1>1. /\ write_offset' = write_offset /\ fin_marked' = fin_marked
      /\ (reset # "none")' = (reset # "none") /\ Confirmed' = Confirmed
  BY WriterKept DEF Deliver
<1>s. read_offset \in Nat /\ MaxOffset \in Nat /\ write_offset \in Nat
  BY Scalars
<1>p. PacketOK(m) /\ EndsOK
  BY DEF XInv, CrossInv, NetOK
<1>2. ASSUME m.kind = "reset", PeerReset(m.offset) PROVE A!AbortArrives
  <2>1. reset # "none" /\ m.offset = write_offset
    BY <1>2, <1>p DEF PacketOK
  <2>2. ~ResetConflict(m.offset)
    BY <1>p, <2>1, Scalars DEF ResetConflict, EndsOK
  <2>3. /\ ~r_reset /\ r_reset' = TRUE /\ ranges' = {} /\ read_offset' = read_offset
    BY <1>2, <2>2 DEF PeerReset
  <2>4. InOrder' = read_offset
    <3>0. PICK io : io = InOrder'
      OBVIOUS
    <3>1. io \in read_offset .. MaxOffset /\ read_offset \notin read_offset .. (io - 1)
      BY <2>3, <3>0 DEF PrefixOK
    <3>2. io = read_offset
      BY <1>s, <3>1
    <3> QED BY <3>0, <3>2
  <2>5. Ended # "reset" /\ Ended' = "reset"
    BY <2>3 DEF Ended
  <2> QED BY <1>1, <2>1, <2>3, <2>4, <2>5 DEF A!AbortArrives, Ended, Confirmed
<1>3. ASSUME m.kind = "stream", Recv(m.offset, m.length, m.fin) PROVE A!Arrive
  <2>1. /\ ~r_reset /\ ~r_reset' /\ r_state \notin {"data_recvd", "data_read"}
        /\ read_offset' = read_offset /\ ranges \subseteq ranges'
    BY <1>3, AcceptFacts
  <2>2. /\ InOrder \in Nat /\ InOrder' \in Nat /\ read_offset <= InOrder
        /\ read_offset <= InOrder' /\ InOrder' <= write_offset
        /\ read_offset .. (InOrder - 1) \subseteq ranges' /\ InOrder' \notin ranges'
    BY <1>s, <1>1, <2>1 DEF PrefixOK
  <2>3. InOrder <= InOrder'
    <3>1. CASE InOrder' < InOrder
      <4>1. InOrder' \in read_offset .. (InOrder - 1)
        BY <1>s, <2>2, <3>1
      <4> QED BY <2>2, <4>1
    <3> QED BY <2>2, <3>1
  <2>4. InOrder' \in InOrder .. write_offset
    BY <1>s, <2>2, <2>3
  <2>5. Ended = "open" /\ Ended' \in {"open", "fin"}
    BY <2>1 DEF Ended
  <2>6. Ended' = "fin" => fin_marked /\ read_offset = write_offset
    BY <1>1, <2>1 DEF Ended, PrefixOK
  <2> QED BY <1>1, <2>1, <2>4, <2>5, <2>6 DEF A!Arrive, Ended, Confirmed
<1>4. ASSUME UNCHANGED recvVars PROVE UNCHANGED A!vars
  BY <1>1, <1>4, ReaderKept, Stutter
<1> QED BY <1>2, <1>3, <1>4, <1>p DEF Deliver, Apply, PacketOK, A!Next

\* An acknowledgement may be the one that tells the writer that all arrived.
LEMMA AbsAckArrives ==
    ASSUME XInv, XInv', PrefixOK, NEW k \in received, AckArrives(k)
    PROVE  [A!Next]_(A!vars)
<1>1. InOrder' = InOrder /\ read_offset' = read_offset /\ Ended' = Ended
  BY ReaderKept DEF AckArrives
<1>r. UNCHANGED <<read_offset, ranges, r_reset>>
  BY DEF AckArrives, recvVars
<1>2. ASSUME NEW c \in in_flight, PacketAcked(c) PROVE [A!Next]_(A!vars)
  <2>1. /\ UNCHANGED <<write_offset, fin_marked, reset, final_size>>
        /\ state' = AdvancedState(fin_acked', base_offset', reset)
    BY <1>2 DEF PacketAcked
  <2>2. Confirmed => Confirmed'
    BY <2>1 DEF Confirmed, AdvancedState
  <2>3. CASE Confirmed' = Confirmed
    BY <1>1, <2>1, <2>3, Stutter
  <2>4. CASE Confirmed' /\ ~Confirmed
    <3>1. reset = "none" /\ state' = "data_recvd"
      BY <2>1, <2>4 DEF Confirmed
    <3>2. fin_marked /\ base_offset' = write_offset
      BY <2>1, <3>1 DEF XInv, EndInv, TInv, SizeOK
    <3>3. ~r_reset
      BY <3>1 DEF XInv, CrossInv, EndsOK
    <3>4. 0 .. (write_offset - 1) \subseteq Held
      <4>1. AckedOK' /\ Held' = Held /\ ~r_reset'
        BY <1>r, <3>3 DEF XInv, CrossInv, Held
      <4> QED BY <2>1, <3>2, <4>1 DEF AckedOK
    <3>5. InOrder = write_offset
      <4>1. /\ InOrder \in Nat /\ read_offset \in Nat /\ write_offset \in Nat
            /\ InOrder <= write_offset /\ read_offset <= InOrder /\ InOrder \notin ranges
        BY Scalars DEF PrefixOK
      <4>2. InOrder \notin Held
        BY <4>1 DEF Held
      <4>3. CASE InOrder < write_offset
        <5>1. InOrder \in 0 .. (write_offset - 1)
          BY <4>1, <4>3
        <5> QED BY <3>4, <4>2, <5>1
      <4> QED BY <4>1, <4>3
    <3> QED BY <1>1, <2>1, <2>4, <3>1, <3>2, <3>5 DEF A!Confirm, A!Next, Ended, Confirmed
  <2> QED BY <2>2, <2>3, <2>4 DEF Confirmed
<1>3. ASSUME NEW r \in reset_in_flight, ResetAcked(r) PROVE UNCHANGED A!vars
  <2>1. /\ UNCHANGED <<write_offset, fin_marked>> /\ reset' = "acked" /\ reset # "none"
    BY <1>3 DEF ResetAcked, data, finVars, XInv, EndInv
  <2> QED BY <1>1, <2>1, Stutter DEF Confirmed
<1> QED BY <1>2, <1>3 DEF AckArrives

\* Read together, the two halves, the network between them and the timers are
\* the reliable stream of ReliableStream, for every size of stream, window,
\* buffer and packet number and any number of paths and of faults.
THEOREM Implementation == TransferSpec => ImplementsReliableStream
<1>1. TransferSpec => []XInv
  BY InitXInv, NextXInv, PTL DEF TransferSpec
<1>2. TransferInit => A!Init
  <2> SUFFICES ASSUME TransferInit PROVE A!Init
    OBVIOUS
  <2>1. /\ write_offset = 0 /\ fin_marked = FALSE /\ reset = "none" /\ read_offset = 0
        /\ ranges = {} /\ r_reset = FALSE /\ r_state = "recv" /\ state = "ready"
    BY DEF TransferInit, Init, RecvInit
  <2>2. InOrder = 0
    <3>1. PrefixOK
      BY InitXInv, PrefixNow
    <3>2. MaxOffset \in Nat /\ read_offset \in Nat
      BY Constants, <2>1
    <3>3. read_offset <= 0 /\ read_offset .. (0 - 1) \subseteq ranges /\ 0 \notin ranges
      BY <2>1
    <3> QED BY <3>1, <3>2, <3>3, InOrderIs
  <2> QED BY <2>1, <2>2 DEF A!Init
<1>3. XInv /\ XInv' /\ [TransferNext]_transferVars => [A!Next]_(A!vars)
  <2> SUFFICES ASSUME XInv, XInv', [TransferNext]_transferVars PROVE [A!Next]_(A!vars)
    OBVIOUS
  <2>1. PrefixOK /\ PrefixOK'
    BY PrefixNow, PrefixNext
  <2>2. CASE AppWrites
    BY <2>2, AbsWrites
  <2>3. CASE AppReads
    BY <2>1, <2>3, AbsReads
  <2>4. CASE Send \/ (\E m \in net : Drop(m)) \/ (\E k \in 0..MaxKey : DeclareLost(k)) \/ Probe
    BY <2>4, AbsPackets
  <2>5. CASE \E m \in net : Deliver(m)
    BY <2>1, <2>5, AbsDeliver
  <2>6. CASE \E k \in received : AckArrives(k)
    BY <2>1, <2>6, AbsAckArrives
  <2>7. CASE UNCHANGED transferVars
    BY <2>7, AbsSilent DEF transferVars, sendVars, vars, data, finVars
  <2> QED BY <2>2, <2>3, <2>4, <2>5, <2>6, <2>7 DEF TransferNext
<1> QED BY <1>1, <1>2, <1>3, PTL DEF TransferSpec, ImplementsReliableStream, A!Spec
=============================================================================
