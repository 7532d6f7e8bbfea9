--------------------------- MODULE FlowControlProofs ---------------------------
(***************************************************************************)
(* Theorems about FlowControl, for any finite set of streams, any windows, *)
(* any number of bytes and of losses: while no stream is reset no honest   *)
(* sender is closed for flow control, and the two ends' books agree.       *)
(***************************************************************************)
EXTENDS FlowControl, FiniteSetTheorems, FunctionTheorems, WellFoundedInduction, TLAPS

-----------------------------------------------------------------------------
(* The inductive invariant.                                                *)

\* No limit is known, queued or on its way that was not granted, and the sender
\* stays inside the limits it knows.
LimitsOK ==
    /\ \A x \in Scopes : Limit(x) <= Granted(x) /\ queued[x] <= Granted(x)
    /\ \A f \in credit_net \cup credit_sent :
          f.scope \in Scopes /\ f.value \in Nat /\ f.value <= Granted(f.scope)
    /\ \A s \in Streams : send_flow_highest[s] <= send_max_data[s]
    /\ we_sent_stream_data <= peer_max_data

\* The marks of a stream are in order.  What was never sent is pending, so the
\* first pending byte is never beyond the mark up to which bytes were charged.
OffsetsOK ==
    \A s \in Streams :
        /\ read_offset[s] <= end_offset[s] /\ end_offset[s] <= send_flow_highest[s]
        /\ send_flow_highest[s] <= write_offset[s]
        /\ pending[s] \subseteq Span(0, write_offset[s])
        /\ ranges[s] \subseteq Span(0, end_offset[s])
        /\ IF send_reset[s] = "none"
           THEN /\ Span(send_flow_highest[s], write_offset[s]) \subseteq pending[s]
                /\ recv_reset[s] = NoSize
           ELSE pending[s] = {}

\* What is on its way was charged, or is the reset of a stream.
FrameOK(f) ==
    /\ f.kind \in {"stream", "reset"} /\ f.stream \in Streams
    /\ f.offset \in Nat /\ f.end \in Nat
    /\ f.kind = "stream" => f.offset < f.end /\ f.end <= send_flow_highest[f.stream]
    /\ f.kind = "reset"  => send_reset[f.stream] # "none" /\ f.end = write_offset[f.stream]
NetOK == \A f \in net : FrameOK(f)

\* The bytes the sender was charged for and the receiver not yet.
Uncounted(eo, sfh) == {b \in Streams \X (0 .. MaxOffset) : eo[b[1]] <= b[2] /\ b[2] < sfh[b[1]]}

\* The two connection counters differ by no less than those bytes.
CountsOK ==
    NoReset => Cardinality(Uncounted(end_offset, send_flow_highest))
                  <= we_sent_stream_data - peer_sent_stream_data

FInv ==
    /\ TypeOK /\ LimitsOK /\ OffsetsOK /\ NetOK /\ CountsOK
    /\ NoFlowControlError /\ NoCreditForgotten

-----------------------------------------------------------------------------
(* Least elements and counts.                                              *)

\* A set of naturals has a least element: the order is well-founded.
LEMMA LeastExists ==
    ASSUME NEW S, S \subseteq Nat, S # {}
    PROVE  \E x \in S : \A y \in S : x =< y
<1> DEFINE R == {ss \in Nat \X Nat : ss[1] < ss[2]}
<1>1. IsWellFoundedOn(R, Nat)
  BY NatLessThanWellFounded DEF OpToRel
<1>2. \A x, y \in S : <<y, x>> \in R <=> y < x
  OBVIOUS
<1> HIDE DEF R
<1>3. PICK x \in S : \A y \in S : ~(<<y, x>> \in R)
  BY <1>1, WFMin
<1>4. \A y \in S : ~(y < x)
  BY <1>2, <1>3
<1>5. \A y \in S : x =< y
  BY <1>4
<1> QED BY <1>5

\* The first pending byte is one, and none is before it.
LEMMA MinFacts ==
    ASSUME NEW S, S \subseteq Nat, S # {}
    PROVE  Min(S) \in S /\ \A y \in S : Min(S) =< y
BY LeastExists DEF Min

\* The bytes from one mark of stream s to another.
Stretch(s, from, to) == {s} \X Span(from, to)

\* As many as the marks are apart.
LEMMA StretchFacts ==
    ASSUME NEW s \in Streams, NEW from \in Nat, NEW to \in Nat, from <= to
    PROVE  IsFiniteSet(Stretch(s, from, to)) /\ Cardinality(Stretch(s, from, to)) = to - from
<1>1. from \in Int /\ to - 1 \in Int
  OBVIOUS
<1>2. IsFiniteSet(Span(from, to))
  BY <1>1, FS_Interval DEF Span
<1>3. Cardinality(Span(from, to)) = to - from
  <2>1. Cardinality(from .. (to - 1)) = IF from > to - 1 THEN 0 ELSE (to - 1) - from + 1
    BY <1>1, FS_Interval
  <2> QED BY <2>1 DEF Span
<1>4. IsFiniteSet({s}) /\ Cardinality({s}) = 1
  BY FS_Singleton, Zenon
<1>5. /\ IsFiniteSet({s} \X Span(from, to))
      /\ Cardinality({s} \X Span(from, to)) = Cardinality({s}) * Cardinality(Span(from, to))
  BY <1>2, <1>4, FS_Product
<1>6. Cardinality({s}) * Cardinality(Span(from, to)) = to - from
  BY <1>3, <1>4
<1> QED BY <1>5, <1>6 DEF Stretch

\* There are finitely many bytes.
LEMMA UncountedFinite ==
    ASSUME NEW eo, NEW sfh
    PROVE  IsFiniteSet(Uncounted(eo, sfh)) /\ Cardinality(Uncounted(eo, sfh)) \in Nat
<1>1. IsFiniteSet(0 .. MaxOffset)
  BY FlowAssumption, FS_Interval
<1>2. IsFiniteSet(Streams \X (0 .. MaxOffset))
  BY <1>1, FlowAssumption, FS_Product
<1>3. Uncounted(eo, sfh) \subseteq Streams \X (0 .. MaxOffset)
  BY DEF Uncounted
<1> QED BY <1>2, <1>3, FS_Subset, FS_CardinalityType

\* Offsets of a stream.
Marks == [Streams -> 0 .. MaxOffset]

\* The sender is charged for bytes that are new.
LEMMA SentUncounted ==
    ASSUME NEW eo \in Marks, NEW sfh \in Marks, NEW s \in Streams, NEW to \in 0 .. MaxOffset,
           sfh[s] <= to, NEW after, after = [sfh EXCEPT ![s] = to]
    PROVE  Cardinality(Uncounted(eo, after))
             <= Cardinality(Uncounted(eo, sfh)) + (to - sfh[s])
<1> DEFINE U  == Uncounted(eo, sfh)
           U2 == Uncounted(eo, after)
           N  == Stretch(s, sfh[s], to)
<1>0. sfh[s] \in Nat /\ to \in Nat
  BY DEF Marks
<1>1. IsFiniteSet(N) /\ Cardinality(N) = to - sfh[s]
  BY <1>0, StretchFacts
<1>2. IsFiniteSet(U) /\ Cardinality(U) \in Nat /\ IsFiniteSet(U2) /\ Cardinality(U2) \in Nat
  BY UncountedFinite
<1>3. U2 \subseteq U \cup N
  <2> SUFFICES ASSUME NEW b \in Streams \X (0 .. MaxOffset), b \in U2, b \notin U
               PROVE  b \in N
    BY DEF Uncounted
  <2>1. b[1] \in Streams /\ b[2] \in 0 .. MaxOffset /\ b = <<b[1], b[2]>>
    OBVIOUS
  <2>2. b \in N <=> b[1] = s /\ b[2] \in Span(sfh[s], to)
    BY <2>1 DEF Stretch
  <2>3. b[2] \in Span(sfh[s], to) <=> sfh[s] <= b[2] /\ b[2] < to
    BY <1>0, <2>1 DEF Span
  <2>4. eo[b[1]] \in 0 .. MaxOffset /\ sfh[b[1]] \in 0 .. MaxOffset
    BY <2>1 DEF Marks
  <2>5. after[b[1]] = IF b[1] = s THEN to ELSE sfh[b[1]]
    BY <2>1 DEF Marks
  <2> QED BY <1>0, <2>1, <2>2, <2>3, <2>4, <2>5 DEF Uncounted
<1> HIDE DEF U, U2, N
<1>4. IsFiniteSet(U \cup N) /\ Cardinality(U \cup N) <= Cardinality(U) + Cardinality(N)
  <2>1. /\ Cardinality(U \cup N) = Cardinality(U) + Cardinality(N) - Cardinality(U \cap N)
        /\ IsFiniteSet(U \cup N)
    BY <1>1, <1>2, FS_Union
  <2>2. Cardinality(U \cap N) \in Nat
    <3>1. U \cap N \subseteq U
      OBVIOUS
    <3> QED BY <3>1, <1>2, FS_Subset, FS_CardinalityType
  <2>3. Cardinality(N) \in Nat
    BY <1>1, FS_CardinalityType
  <2> QED BY <1>2, <2>1, <2>2, <2>3
<1>5. Cardinality(U2) <= Cardinality(U \cup N) /\ Cardinality(U \cup N) \in Nat
  BY <1>3, <1>4, FS_Subset, FS_CardinalityType
<1>6. Cardinality(U2) <= Cardinality(U) + (to - sfh[s])
  BY <1>0, <1>1, <1>2, <1>4, <1>5
<1> QED BY <1>6 DEF U, U2

\* The receiver counts bytes the sender was charged for.
LEMMA ReceivedUncounted ==
    ASSUME NEW eo \in Marks, NEW sfh \in Marks, NEW s \in Streams, NEW to \in 0 .. MaxOffset,
           eo[s] <= to, to <= sfh[s], NEW after, after = [eo EXCEPT ![s] = to]
    PROVE  Cardinality(Uncounted(after, sfh))
             = Cardinality(Uncounted(eo, sfh)) - (to - eo[s])
<1> DEFINE U  == Uncounted(eo, sfh)
           U2 == Uncounted(after, sfh)
           N  == Stretch(s, eo[s], to)
<1>0. eo[s] \in Nat /\ to \in Nat /\ sfh[s] \in 0 .. MaxOffset
  BY DEF Marks
<1>1. IsFiniteSet(N) /\ Cardinality(N) = to - eo[s]
  BY <1>0, StretchFacts
<1>2. IsFiniteSet(U) /\ Cardinality(U) \in Nat /\ IsFiniteSet(U2) /\ Cardinality(U2) \in Nat
  BY UncountedFinite
<1>3. N \subseteq U
  <2> SUFFICES ASSUME NEW k \in Span(eo[s], to) PROVE <<s, k>> \in U
    BY DEF Stretch
  <2>1. k \in eo[s] .. (to - 1)
    BY DEF Span
  <2>2. k \in 0 .. MaxOffset /\ eo[s] <= k /\ k < sfh[s]
    BY <1>0, <2>1, FlowAssumption
  <2>3. <<s, k>> \in Streams \X (0 .. MaxOffset) /\ <<s, k>>[1] = s /\ <<s, k>>[2] = k
    BY <2>2
  <2> QED BY <2>2, <2>3 DEF Uncounted
<1>4. U2 = U \ N
  <2> SUFFICES ASSUME NEW b \in Streams \X (0 .. MaxOffset)
               PROVE  b \in U2 <=> b \in U /\ b \notin N
    BY DEF Uncounted
  <2>1. b[1] \in Streams /\ b[2] \in 0 .. MaxOffset /\ b = <<b[1], b[2]>>
    OBVIOUS
  <2>2. b \in N <=> b[1] = s /\ b[2] \in Span(eo[s], to)
    BY <2>1 DEF Stretch
  <2>3. b[2] \in Span(eo[s], to) <=> eo[s] <= b[2] /\ b[2] < to
    BY <1>0, <2>1 DEF Span
  <2>4. eo[b[1]] \in 0 .. MaxOffset /\ sfh[b[1]] \in 0 .. MaxOffset
    BY <2>1 DEF Marks
  <2>5. after[b[1]] = IF b[1] = s THEN to ELSE eo[b[1]]
    BY <2>1 DEF Marks
  <2> QED BY <1>0, <2>1, <2>2, <2>3, <2>4, <2>5 DEF Uncounted
<1> HIDE DEF U, U2, N
<1>5. Cardinality(U \ N) = Cardinality(U) - Cardinality(U \cap N)
  BY <1>1, <1>2, FS_Difference
<1>6. U \cap N = N
  BY <1>3
<1>7. Cardinality(U2) = Cardinality(U) - (to - eo[s])
  BY <1>1, <1>4, <1>5, <1>6
<1> QED BY <1>7 DEF U, U2

-----------------------------------------------------------------------------
(* Limits.                                                                 *)

\* The types FInv rests on, one by one.
LEMMA Types ==
    ASSUME TypeOK
    PROVE  /\ \A s \in Streams :
                 /\ write_offset[s] \in 0 .. MaxOffset /\ send_flow_highest[s] \in 0 .. MaxOffset
                 /\ read_offset[s] \in 0 .. MaxOffset /\ end_offset[s] \in 0 .. MaxOffset
                 /\ send_max_data[s] \in Nat /\ recv_max_data[s] \in Nat
                 /\ recv_reset[s] \in {NoSize} \cup 0 .. MaxOffset
                 /\ pending[s] \subseteq Nat /\ ranges[s] \subseteq Nat
           /\ we_sent_stream_data \in Nat /\ peer_max_data \in Nat
           /\ peer_sent_stream_data \in Nat /\ local_max_data \in Nat
           /\ recv_stream_bytes_read \in Nat /\ losses \in Nat
           /\ \A x \in Scopes : Limit(x) \in Nat /\ Granted(x) \in Nat /\ queued[x] \in Nat
           /\ MaxOffset \in Nat /\ Conn \notin Streams
BY FlowAssumption DEF TypeOK, Limit, Granted, Scopes, Conn

\* The part of the invariant that is about credit.
CreditOK == LimitsOK /\ NoCreditForgotten

\* A limit that is announced is a new one, and it is queued.
LEMMA GiveFacts ==
    ASSUME TypeOK, CreditOK, NEW n \in Nat, NEW s \in Scopes, NEW consumed \in Nat,
           GiveCredit(n, s, consumed),
           UNCHANGED <<send_flow_highest, we_sent_stream_data, limitVars, creditVars>>
    PROVE  /\ recv_stream_bytes_read' \in Nat /\ local_max_data' \in Nat
           /\ recv_max_data' \in [Streams -> Nat] /\ queued' \in [Scopes -> Nat]
           /\ CreditOK'
<1> DEFINE read   == recv_stream_bytes_read + n
           max    == NewLimit(read, local_max_data, ConnWindow)
           smax   == NewLimit(consumed, recv_max_data[s], StreamWindow)
           conn   == n > 0 /\ CreditDue(read, local_max_data, ConnWindow)
           stream == s # Conn /\ CreditDue(consumed, recv_max_data[s], StreamWindow)
<1>t. /\ \A r \in Streams : recv_max_data[r] \in Nat /\ send_max_data[r] \in Nat
      /\ recv_stream_bytes_read \in Nat /\ local_max_data \in Nat /\ peer_max_data \in Nat
      /\ \A x \in Scopes : Limit(x) \in Nat /\ Granted(x) \in Nat /\ queued[x] \in Nat
      /\ Conn \notin Streams /\ Conn \in Scopes /\ Streams \subseteq Scopes
  BY Types DEF Scopes
<1>w. ConnWindow \in Nat /\ StreamWindow \in Nat
  BY FlowAssumption
<1>1. read \in Nat /\ max \in Nat /\ smax \in Nat
  BY <1>t, <1>w DEF NewLimit
<1>2. conn => max > local_max_data
  BY <1>t, <1>w DEF CreditDue, NewLimit
<1>3. stream => s \in Streams /\ smax > recv_max_data[s]
  BY <1>t, <1>w DEF CreditDue, NewLimit, Scopes
<1>4. /\ recv_stream_bytes_read' = read
      /\ local_max_data' = IF conn THEN max ELSE local_max_data
      /\ recv_max_data' = IF stream THEN [recv_max_data EXCEPT ![s] = smax] ELSE recv_max_data
      /\ queued' = [x \in Scopes |->
              IF x = Conn /\ conn THEN Greatest(queued[x], max)
              ELSE IF x = s /\ stream THEN Greatest(queued[x], smax)
              ELSE queued[x]]
  BY DEF GiveCredit
<1> HIDE DEF read, max, smax, conn, stream
<1>5. /\ recv_stream_bytes_read' \in Nat /\ local_max_data' \in Nat
      /\ recv_max_data' \in [Streams -> Nat]
  BY <1>1, <1>3, <1>4, <1>t DEF TypeOK
<1>6. \A x \in Scopes :
         /\ Granted(x)' = IF x = Conn /\ conn THEN max
                          ELSE IF x = s /\ stream THEN smax ELSE Granted(x)
         /\ Granted(x) <= Granted(x)' /\ Granted(x)' \in Nat
         /\ queued'[x] \in Nat
         /\ \/ queued'[x] = queued[x] /\ Granted(x)' = Granted(x)
            \/ queued'[x] = Granted(x)'
  <2> SUFFICES ASSUME NEW x \in Scopes
               PROVE  /\ Granted(x)' = IF x = Conn /\ conn THEN max
                                       ELSE IF x = s /\ stream THEN smax ELSE Granted(x)
                      /\ Granted(x) <= Granted(x)' /\ Granted(x)' \in Nat
                      /\ queued'[x] \in Nat
                      /\ \/ queued'[x] = queued[x] /\ Granted(x)' = Granted(x)
                         \/ queued'[x] = Granted(x)'
    OBVIOUS
  <2>1. queued[x] <= Granted(x) /\ queued[x] \in Nat /\ Granted(x) \in Nat
    BY <1>t DEF CreditOK, LimitsOK
  <2>2. CASE x = Conn
    <3>1. Granted(x) = local_max_data /\ Granted(x)' = local_max_data' /\ ~(x = s /\ stream)
      BY <2>2, <1>3, <1>t DEF Granted
    <3>2. /\ Granted(x)' = IF conn THEN max ELSE Granted(x)
          /\ queued'[x] = IF conn THEN Greatest(queued[x], max) ELSE queued[x]
          /\ conn => max > Granted(x)
      BY <2>2, <3>1, <1>2, <1>4
    <3>3. CASE conn
      <4>1. Greatest(queued[x], max) = max
        BY <2>1, <3>2, <3>3, <1>1 DEF Greatest
      <4>2. Granted(x)' = max /\ queued'[x] = max /\ max > Granted(x)
        BY <3>2, <3>3, <4>1
      <4> QED BY <2>1, <2>2, <3>3, <4>2, <1>1
    <3>4. CASE ~conn
      <4>1. Granted(x)' = Granted(x) /\ queued'[x] = queued[x]
        BY <3>2, <3>4
      <4>2. (IF x = Conn /\ conn THEN max
             ELSE IF x = s /\ stream THEN smax ELSE Granted(x)) = Granted(x)
        BY <3>1, <3>4
      <4> QED BY <2>1, <4>1, <4>2
    <3> QED BY <3>3, <3>4
  <2>3. CASE x # Conn
    <3>1. x \in Streams /\ Granted(x) = recv_max_data[x] /\ Granted(x)' = recv_max_data'[x]
      BY <2>3 DEF Granted, Scopes
    <3>2. recv_max_data'[x] = IF x = s /\ stream THEN smax ELSE recv_max_data[x]
      BY <1>3, <1>4, <3>1 DEF TypeOK
    <3> QED BY <2>1, <2>3, <3>1, <3>2, <1>1, <1>3, <1>4 DEF Greatest
  <2> QED BY <2>2, <2>3
<1>7. queued' \in [Scopes -> Nat]
  BY <1>4, <1>6
<1>8. LimitsOK'
  <2>1. \A x \in Scopes : Limit(x)' = Limit(x)
    BY DEF Limit, limitVars
  <2>2. \A x \in Scopes : Limit(x)' <= Granted(x)' /\ queued'[x] <= Granted(x)'
    BY <1>6, <1>t, <2>1 DEF CreditOK, LimitsOK
  <2>3. \A f \in (credit_net \cup credit_sent)' :
           f.scope \in Scopes /\ f.value \in Nat /\ f.value <= Granted(f.scope)'
    <3>1. \A f \in (credit_net \cup credit_sent)' :
             f.scope \in Scopes /\ f.value \in Nat /\ f.value <= Granted(f.scope)
      BY DEF creditVars, CreditOK, LimitsOK
    <3> QED BY <3>1, <1>6, <1>t
  <2> QED BY <2>2, <2>3 DEF CreditOK, LimitsOK, limitVars
<1>9. NoCreditForgotten'
  <2> SUFFICES ASSUME NEW x \in Scopes, queued'[x] = queued[x], Granted(x)' = Granted(x)
               PROVE  \/ Limit(x)' = Granted(x)'
                      \/ queued'[x] = Granted(x)'
                      \/ [scope |-> x, value |-> Granted(x)'] \in credit_sent'
    BY <1>6 DEF NoCreditForgotten
  <2>1. Limit(x)' = Limit(x) /\ credit_sent' = credit_sent
    BY DEF Limit, limitVars, creditVars
  <2> QED BY <2>1 DEF CreditOK, NoCreditForgotten
<1> QED BY <1>5, <1>7, <1>8, <1>9 DEF CreditOK

\* Nothing about credit changes, and the sender sends within what it knows.
LEMMA CreditStays ==
    ASSUME CreditOK,
           UNCHANGED <<limitVars, creditVars, recv_max_data, local_max_data, queued>>,
           \A s \in Streams : send_flow_highest'[s] <= send_max_data[s],
           we_sent_stream_data' <= peer_max_data
    PROVE  CreditOK'
<1>1. \A x \in Scopes : Limit(x)' = Limit(x) /\ Granted(x)' = Granted(x)
  BY DEF Limit, Granted, limitVars
<1>2. UNCHANGED <<send_max_data, peer_max_data, credit_net, credit_sent, queued>>
  BY DEF limitVars, creditVars
<1>3. \A f \in (credit_net \cup credit_sent)' :
         f.scope \in Scopes /\ f.value \in Nat /\ f.value <= Granted(f.scope)'
  BY <1>1, <1>2 DEF CreditOK, LimitsOK
<1>4. LimitsOK'
  BY <1>1, <1>2, <1>3 DEF CreditOK, LimitsOK
<1>5. NoCreditForgotten'
  BY <1>1, <1>2 DEF CreditOK, NoCreditForgotten
<1> QED BY <1>4, <1>5 DEF CreditOK

-----------------------------------------------------------------------------
(* The sender's steps.                                                     *)

\* Frames on their way stay what they are while marks only rise and the size
\* of a stream that was reset is fixed.
LEMMA FramesStay ==
    ASSUME NetOK, net' \subseteq net,
           \A s \in Streams :
              /\ send_flow_highest[s] \in Nat /\ send_flow_highest'[s] \in Nat
              /\ send_flow_highest[s] <= send_flow_highest'[s]
              /\ send_reset[s] # "none" =>
                    send_reset'[s] # "none" /\ write_offset'[s] = write_offset[s]
    PROVE  NetOK'
<1> SUFFICES ASSUME NEW f \in net PROVE FrameOK(f)'
  BY DEF NetOK
<1>1. FrameOK(f)
  BY DEF NetOK
<1> QED BY <1>1 DEF FrameOK

\* streamWrite()
LEMMA StepWrite ==
    ASSUME FInv, NEW s \in Streams, NEW n \in 1 .. MaxOffset, Write(s, n)
    PROVE  FInv'
<1>t. /\ write_offset[s] \in 0 .. MaxOffset /\ n \in Nat /\ n >= 1 /\ MaxOffset \in Nat
      /\ \A r \in Streams : /\ send_flow_highest[r] \in 0 .. MaxOffset
                            /\ write_offset[r] \in 0 .. MaxOffset
                            /\ read_offset[r] \in 0 .. MaxOffset /\ end_offset[r] \in 0 .. MaxOffset
  BY Types DEF FInv
<1>1. /\ send_reset[s] = "none" /\ write_offset[s] + n <= MaxOffset
      /\ write_offset' = [write_offset EXCEPT ![s] = @ + n]
      /\ pending' = [pending EXCEPT ![s] = @ \cup Span(write_offset[s], write_offset[s] + n)]
      /\ UNCHANGED <<send_flow_highest, we_sent_stream_data, send_reset, ranges, read_offset,
                     end_offset, recv_max_data, recv_reset, peer_sent_stream_data,
                     local_max_data, recv_stream_bytes_read, queued, closed, limitVars, net,
                     creditVars, losses>>
  BY DEF Write, recvVars
<1>2. /\ \A r \in Streams : write_offset'[r] = IF r = s THEN write_offset[s] + n ELSE write_offset[r]
      /\ \A r \in Streams : pending'[r] =
            IF r = s THEN pending[s] \cup Span(write_offset[s], write_offset[s] + n) ELSE pending[r]
      /\ write_offset' \in [Streams -> 0 .. MaxOffset]
  BY <1>1, <1>t DEF FInv, TypeOK
<1>3. pending' \in [Streams -> SUBSET (0 .. MaxOffset)]
  <2>1. Span(write_offset[s], write_offset[s] + n) \subseteq 0 .. MaxOffset
    BY <1>1, <1>t DEF Span
  <2> QED BY <1>1, <2>1 DEF FInv, TypeOK
<1>4. TypeOK'
  BY <1>1, <1>2, <1>3 DEF FInv, TypeOK, limitVars
<1>5. OffsetsOK'
  <2> SUFFICES ASSUME NEW r \in Streams
               PROVE  /\ read_offset[r] <= end_offset[r] /\ end_offset[r] <= send_flow_highest[r]
                      /\ send_flow_highest[r] <= write_offset'[r]
                      /\ pending'[r] \subseteq Span(0, write_offset'[r])
                      /\ ranges[r] \subseteq Span(0, end_offset[r])
                      /\ IF send_reset[r] = "none"
                         THEN /\ Span(send_flow_highest[r], write_offset'[r]) \subseteq pending'[r]
                              /\ recv_reset[r] = NoSize
                         ELSE pending'[r] = {}
    BY <1>1 DEF OffsetsOK
  <2>0. /\ read_offset[r] <= end_offset[r] /\ end_offset[r] <= send_flow_highest[r]
        /\ send_flow_highest[r] <= write_offset[r]
        /\ pending[r] \subseteq Span(0, write_offset[r])
        /\ ranges[r] \subseteq Span(0, end_offset[r])
        /\ IF send_reset[r] = "none"
           THEN /\ Span(send_flow_highest[r], write_offset[r]) \subseteq pending[r]
                /\ recv_reset[r] = NoSize
           ELSE pending[r] = {}
    BY DEF FInv, OffsetsOK
  <2>1. CASE r # s
    BY <1>2, <2>0, <2>1
  <2>2. CASE r = s
    <3>1. write_offset'[s] = write_offset[s] + n /\ send_flow_highest[s] <= write_offset[s]
      BY <1>2, <2>0, <2>2
    <3>2. Span(0, write_offset'[s]) = Span(0, write_offset[s]) \cup Span(write_offset[s], write_offset[s] + n)
      BY <3>1, <1>t DEF Span
    <3>3. Span(send_flow_highest[s], write_offset'[s]) =
             Span(send_flow_highest[s], write_offset[s]) \cup Span(write_offset[s], write_offset[s] + n)
      BY <3>1, <1>t DEF Span
    <3>4. send_flow_highest[s] <= write_offset'[s]
      BY <3>1, <1>t
    <3> QED BY <1>1, <1>2, <2>0, <2>2, <3>2, <3>3, <3>4
  <2> QED BY <2>1, <2>2
<1>6. NetOK'
  BY <1>1, <1>2, <1>t, FramesStay DEF FInv
<1>7. CreditOK'
  BY <1>1, CreditStays DEF FInv, CreditOK, LimitsOK
<1>8. CountsOK' /\ NoFlowControlError'
  BY <1>1 DEF FInv, CountsOK, NoFlowControlError, NoReset
<1> QED BY <1>4, <1>5, <1>6, <1>7, <1>8 DEF FInv, CreditOK

\* streamReset()
LEMMA StepResetStream ==
    ASSUME FInv, NEW s \in Streams, ResetStream(s)
    PROVE  FInv'
<1>t. \A r \in Streams : send_flow_highest[r] \in Nat
  BY Types DEF FInv
<1>1. /\ send_reset' = [send_reset EXCEPT ![s] = "owed"]
      /\ pending' = [pending EXCEPT ![s] = {}]
      /\ UNCHANGED <<write_offset, send_flow_highest, we_sent_stream_data, ranges, read_offset,
                     end_offset, recv_max_data, recv_reset, peer_sent_stream_data,
                     local_max_data, recv_stream_bytes_read, queued, closed, limitVars, net,
                     creditVars, losses>>
  BY DEF ResetStream, recvVars
<1>2. \A r \in Streams : /\ send_reset'[r] = IF r = s THEN "owed" ELSE send_reset[r]
                         /\ pending'[r] = IF r = s THEN {} ELSE pending[r]
  BY <1>1 DEF FInv, TypeOK
<1>4. TypeOK'
  BY <1>1 DEF FInv, TypeOK, limitVars
<1>5. OffsetsOK'
  BY <1>1, <1>2 DEF FInv, OffsetsOK
<1>6. NetOK'
  BY <1>1, <1>2, <1>t, FramesStay DEF FInv
<1>7. CreditOK'
  BY <1>1, CreditStays DEF FInv, CreditOK, LimitsOK
<1>8. ~NoReset'
  BY <1>2 DEF NoReset
<1> QED BY <1>4, <1>5, <1>6, <1>7, <1>8 DEF FInv, CreditOK, CountsOK, NoFlowControlError

\* recordStreamFlowSent(): what is charged is new, and inside both limits.
LEMMA StepSendData ==
    ASSUME FInv, NEW s \in Streams, NEW n \in 1 .. MaxOffset, SendData(s, n)
    PROVE  FInv'
<1> DEFINE offset == Min(pending[s])
           end    == offset + n
           high   == send_flow_highest[s]
           new    == Greatest(0, end - high)
           f      == [kind |-> "stream", stream |-> s, offset |-> offset, end |-> end]
<1>t. /\ n \in Nat /\ n >= 1 /\ MaxOffset \in Nat /\ high \in 0 .. MaxOffset
      /\ send_max_data[s] \in Nat /\ peer_max_data \in Nat
      /\ we_sent_stream_data \in Nat /\ peer_sent_stream_data \in Nat
      /\ write_offset[s] \in 0 .. MaxOffset /\ pending[s] \subseteq Nat
      /\ \A r \in Streams : /\ send_flow_highest[r] \in Nat /\ send_max_data[r] \in Nat
                            /\ end_offset[r] \in Nat
  BY Types DEF FInv
<1>0. /\ high <= send_max_data[s] /\ we_sent_stream_data <= peer_max_data
      /\ \A r \in Streams : send_flow_highest[r] <= send_max_data[r]
  BY DEF FInv, LimitsOK
<1>1. /\ pending[s] # {} /\ Span(offset, end) \subseteq pending[s]
      /\ end <= AllowedEnd(s, offset)
      /\ pending' = [pending EXCEPT ![s] = @ \ Span(offset, end)]
      /\ send_flow_highest' = [send_flow_highest EXCEPT ![s] = @ + new]
      /\ we_sent_stream_data' = we_sent_stream_data + new
      /\ net' = net \cup {f}
      /\ UNCHANGED <<write_offset, send_reset, ranges, read_offset, end_offset, recv_max_data,
                     recv_reset, peer_sent_stream_data, local_max_data, recv_stream_bytes_read,
                     queued, closed, limitVars, creditVars, losses>>
  BY DEF SendData, recvVars
<1>2. /\ high <= write_offset[s] /\ pending[s] \subseteq Span(0, write_offset[s])
      /\ send_reset[s] = "none" /\ Span(high, write_offset[s]) \subseteq pending[s]
      /\ end_offset[s] <= high
  BY <1>1 DEF FInv, OffsetsOK
<1>3. offset \in pending[s] /\ offset \in Nat /\ \A y \in pending[s] : offset =< y
  BY <1>1, <1>t, MinFacts
<1> HIDE DEF offset
<1>4. offset <= high
  <2>1. CASE high < write_offset[s]
    <3>1. high \in Span(high, write_offset[s])
      BY <1>t, <2>1 DEF Span
    <3> QED BY <1>2, <1>3, <3>1
  <2>2. CASE high = write_offset[s]
    BY <1>2, <1>3, <1>t, <2>2 DEF Span
  <2> QED BY <1>2, <1>t, <2>1, <2>2
<1>5. end \in Nat /\ end <= write_offset[s] /\ offset < end
  <2>1. end - 1 \in Span(offset, end)
    BY <1>3, <1>t DEF Span
  <2>2. end - 1 \in Span(0, write_offset[s])
    BY <1>1, <1>2, <2>1
  <2> QED BY <1>3, <1>t, <2>2 DEF Span
<1>6. /\ new \in Nat /\ high + new = Greatest(end, high)
      /\ high + new <= send_max_data[s] /\ we_sent_stream_data + new <= peer_max_data
      /\ high + new <= write_offset[s] /\ end <= high + new
  <2>1. Greatest(offset, high) = high
    BY <1>3, <1>4, <1>t DEF Greatest
  <2>2. end <= high + Greatest(0, Least(send_max_data[s] - high, peer_max_data - we_sent_stream_data))
    BY <1>1, <2>1 DEF AllowedEnd
  <2> HIDE DEF end
  <2>3. new \in Nat /\ high + new = Greatest(end, high)
    BY <1>5, <1>t DEF Greatest
  <2>4. /\ high + new <= send_max_data[s] /\ we_sent_stream_data + new <= peer_max_data
    BY <1>0, <1>5, <1>t, <2>2 DEF Greatest, Least
  <2>5. high + new <= write_offset[s] /\ end <= high + new
    BY <1>2, <1>5, <1>t DEF Greatest
  <2> QED BY <2>3, <2>4, <2>5
<1> HIDE DEF new, end, high
<1>7. \A r \in Streams :
         /\ send_flow_highest'[r] = IF r = s THEN high + new ELSE send_flow_highest[r]
         /\ pending'[r] = IF r = s THEN pending[s] \ Span(offset, end) ELSE pending[r]
  BY <1>1 DEF FInv, TypeOK, high
<1>8. send_flow_highest' = [send_flow_highest EXCEPT ![s] = high + new]
  BY <1>1 DEF high
<1>9. high + new \in 0 .. MaxOffset
  BY <1>6, <1>t
<1>10. TypeOK'
  <2>1. send_flow_highest' \in [Streams -> 0 .. MaxOffset]
    BY <1>8, <1>9 DEF FInv, TypeOK
  <2>2. pending' \in [Streams -> SUBSET (0 .. MaxOffset)]
    BY <1>1 DEF FInv, TypeOK
  <2>3. we_sent_stream_data' \in Nat
    BY <1>1, <1>6, <1>t
  <2> QED BY <1>1, <2>1, <2>2, <2>3 DEF FInv, TypeOK, limitVars
<1>11. OffsetsOK'
  <2> SUFFICES ASSUME NEW r \in Streams
               PROVE  /\ read_offset[r] <= end_offset[r] /\ end_offset[r] <= send_flow_highest'[r]
                      /\ send_flow_highest'[r] <= write_offset[r]
                      /\ pending'[r] \subseteq Span(0, write_offset[r])
                      /\ ranges[r] \subseteq Span(0, end_offset[r])
                      /\ IF send_reset[r] = "none"
                         THEN /\ Span(send_flow_highest'[r], write_offset[r]) \subseteq pending'[r]
                              /\ recv_reset[r] = NoSize
                         ELSE pending'[r] = {}
    BY <1>1 DEF OffsetsOK
  <2>0. /\ read_offset[r] <= end_offset[r] /\ end_offset[r] <= send_flow_highest[r]
        /\ send_flow_highest[r] <= write_offset[r]
        /\ pending[r] \subseteq Span(0, write_offset[r])
        /\ ranges[r] \subseteq Span(0, end_offset[r])
        /\ IF send_reset[r] = "none"
           THEN /\ Span(send_flow_highest[r], write_offset[r]) \subseteq pending[r]
                /\ recv_reset[r] = NoSize
           ELSE pending[r] = {}
    BY DEF FInv, OffsetsOK
  <2>1. CASE r # s
    BY <1>7, <2>0, <2>1
  <2>2. CASE r = s
    <3>1. Span(high + new, write_offset[s]) \subseteq Span(high, write_offset[s]) \ Span(offset, end)
      <4> SUFFICES ASSUME NEW k \in Span(high + new, write_offset[s])
                   PROVE  k \in Span(high, write_offset[s]) /\ k \notin Span(offset, end)
        OBVIOUS
      <4>1. k \in Int /\ high + new <= k /\ k <= write_offset[s] - 1
        BY <1>9, <1>t DEF Span
      <4>2. high <= k /\ end <= k
        BY <4>1, <1>5, <1>6, <1>t DEF high
      <4> QED BY <4>1, <4>2, <1>3, <1>5, <1>t DEF Span, high
    <3>2. end_offset[s] <= high + new
      BY <1>2, <1>6, <1>t DEF high
    <3> QED BY <1>2, <1>6, <1>7, <2>0, <2>2, <3>1, <3>2
  <2> QED BY <2>1, <2>2
<1>12. NetOK'
  <2>1. \A r \in Streams : send_flow_highest'[r] \in Nat /\ send_flow_highest[r] <= send_flow_highest'[r]
    BY <1>6, <1>7, <1>9, <1>t DEF high
  <2>2. ASSUME NEW g \in net PROVE FrameOK(g)'
    <3>1. FrameOK(g)
      BY DEF FInv, NetOK
    <3> QED BY <1>1, <1>t, <2>1, <3>1 DEF FrameOK
  <2>3. PICK g : g = f
    OBVIOUS
  <2>4. /\ net' = net \cup {g}
        /\ g.kind = "stream" /\ g.stream = s /\ g.offset = offset /\ g.end = end
    BY <1>1, <2>3
  <2>5. FrameOK(g)'
    BY <1>3, <1>5, <1>6, <1>7, <2>4 DEF FrameOK
  <2> QED BY <2>2, <2>4, <2>5 DEF NetOK
<1>13. CreditOK'
  BY <1>0, <1>1, <1>6, <1>7, CreditStays DEF FInv, CreditOK
<1>14. CountsOK' /\ NoFlowControlError'
  <2>1. NoReset' = NoReset /\ NoFlowControlError'
    BY <1>1 DEF FInv, NoReset, NoFlowControlError
  <2>2. Cardinality(Uncounted(end_offset, send_flow_highest'))
          <= Cardinality(Uncounted(end_offset, send_flow_highest)) + new
    <3>1. /\ Cardinality(Uncounted(end_offset, send_flow_highest'))
               <= Cardinality(Uncounted(end_offset, send_flow_highest)) + ((high + new) - send_flow_highest[s])
      <4>1. end_offset \in Marks /\ send_flow_highest \in Marks /\ send_flow_highest[s] <= high + new
        BY <1>6, <1>t DEF FInv, TypeOK, Marks, high
      <4> DEFINE to == high + new
      <4>2. to \in 0 .. MaxOffset /\ send_flow_highest[s] <= to
        BY <1>9, <4>1
      <4> HIDE DEF to
      <4>3. send_flow_highest' = [send_flow_highest EXCEPT ![s] = to]
        BY <1>8 DEF to
      <4>4. Cardinality(Uncounted(end_offset, send_flow_highest'))
              <= Cardinality(Uncounted(end_offset, send_flow_highest)) + (to - send_flow_highest[s])
        BY <4>1, <4>2, <4>3, SentUncounted
      <4> QED BY <4>4 DEF to
    <3>2. (high + new) - send_flow_highest[s] = new
      BY <1>6, <1>t DEF high
    <3> QED BY <3>1, <3>2
  <2>3. /\ Cardinality(Uncounted(end_offset, send_flow_highest)) \in Nat
        /\ Cardinality(Uncounted(end_offset, send_flow_highest')) \in Nat
    BY UncountedFinite
  <2>4. CountsOK'
    <3> SUFFICES ASSUME NoReset
                 PROVE  Cardinality(Uncounted(end_offset, send_flow_highest'))
                          <= we_sent_stream_data' - peer_sent_stream_data
      BY <1>1, <2>1 DEF CountsOK
    <3>1. Cardinality(Uncounted(end_offset, send_flow_highest))
            <= we_sent_stream_data - peer_sent_stream_data
      BY DEF FInv, CountsOK
    <3> QED BY <1>1, <1>6, <1>t, <2>2, <2>3, <3>1
  <2> QED BY <2>1, <2>4
<1> QED BY <1>10, <1>11, <1>12, <1>13, <1>14 DEF FInv, CreditOK

\* RESET_STREAM goes out with the write offset.
LEMMA StepSendReset ==
    ASSUME FInv, NEW s \in Streams, SendReset(s)
    PROVE  FInv'
<1>t. /\ \A r \in Streams : send_flow_highest[r] \in Nat
      /\ write_offset[s] \in Nat
  BY Types DEF FInv
<1>1. PICK g : g = [kind |-> "reset", stream |-> s,
                    offset |-> write_offset[s], end |-> write_offset[s]]
  OBVIOUS
<1>2. /\ send_reset[s] = "owed" /\ send_reset' = [send_reset EXCEPT ![s] = "sent"]
      /\ net' = net \cup {g}
      /\ UNCHANGED <<write_offset, pending, send_flow_highest, we_sent_stream_data, ranges,
                     read_offset, end_offset, recv_max_data, recv_reset, peer_sent_stream_data,
                     local_max_data, recv_stream_bytes_read, queued, closed, limitVars,
                     creditVars, losses>>
  BY <1>1 DEF SendReset, recvVars
<1>3. \A r \in Streams : send_reset'[r] = IF r = s THEN "sent" ELSE send_reset[r]
  BY <1>2 DEF FInv, TypeOK
<1>4. TypeOK'
  BY <1>2 DEF FInv, TypeOK, limitVars
<1>5. OffsetsOK'
  BY <1>2, <1>3 DEF FInv, OffsetsOK
<1>6. NetOK'
  <2>1. ASSUME NEW f \in net PROVE FrameOK(f)'
    <3>1. FrameOK(f)
      BY DEF FInv, NetOK
    <3> QED BY <1>2, <1>3, <3>1 DEF FrameOK
  <2>2. FrameOK(g)'
    BY <1>1, <1>2, <1>3, <1>t DEF FrameOK
  <2> QED BY <1>2, <2>1, <2>2 DEF NetOK
<1>7. CreditOK'
  BY <1>2, CreditStays DEF FInv, CreditOK, LimitsOK
<1>8. ~NoReset'
  BY <1>3 DEF NoReset
<1> QED BY <1>4, <1>5, <1>6, <1>7, <1>8 DEF FInv, CreditOK, CountsOK, NoFlowControlError

\* A lost packet's bytes are pending again, its RESET_STREAM owed.
LEMMA StepLoseData ==
    ASSUME FInv, NEW f \in net, NEW gone \in BOOLEAN, LoseData(f, gone)
    PROVE  FInv'
<1> DEFINE s == f.stream
<1>f. FrameOK(f) /\ s \in Streams
  BY DEF FInv, NetOK, FrameOK
<1>t. /\ losses \in Nat /\ write_offset[s] \in 0 .. MaxOffset /\ MaxOffset \in Nat
      /\ \A r \in Streams : send_flow_highest[r] \in 0 .. MaxOffset
  BY <1>f, Types DEF FInv
<1>1. /\ losses' = losses + 1 /\ net' \subseteq net
      /\ UNCHANGED <<write_offset, send_flow_highest, we_sent_stream_data, ranges, read_offset,
                     end_offset, recv_max_data, recv_reset, peer_sent_stream_data,
                     local_max_data, recv_stream_bytes_read, queued, closed, limitVars,
                     creditVars>>
  BY DEF LoseData, recvVars
<1>2. /\ send_reset' \in [Streams -> {"none", "owed", "sent"}]
      /\ pending' \in [Streams -> SUBSET (0 .. MaxOffset)]
      /\ \A r \in Streams :
            /\ send_reset'[r] = "none" <=> send_reset[r] = "none"
            /\ pending[r] \subseteq pending'[r]
            /\ pending'[r] \subseteq Span(0, write_offset[r])
            /\ send_reset[r] # "none" => pending'[r] = pending[r]
  <2>0. \A r \in Streams : pending[r] \subseteq Span(0, write_offset[r])
    BY DEF FInv, OffsetsOK
  <2>1. CASE f.kind = "reset"
    <3>1. send_reset' = [send_reset EXCEPT ![s] = "owed"] /\ pending' = pending
      BY <2>1 DEF LoseData
    <3>2. send_reset[s] # "none"
      BY <1>f, <2>1 DEF FrameOK
    <3> QED BY <1>f, <2>0, <3>1, <3>2 DEF FInv, TypeOK
  <2>2. CASE f.kind = "stream"
    <3>1. /\ send_reset' = send_reset
          /\ pending' = [pending EXCEPT ![s] = IF send_reset[s] = "none"
                           THEN @ \cup Span(f.offset, f.end) ELSE @]
      BY <2>2 DEF LoseData
    <3>2. Span(f.offset, f.end) \subseteq Span(0, write_offset[s])
      <4>1. /\ f.offset \in Nat /\ f.end \in Nat /\ f.end <= send_flow_highest[s]
            /\ send_flow_highest[s] <= write_offset[s]
        BY <1>f, <2>2 DEF FrameOK, FInv, OffsetsOK
      <4> QED BY <4>1, <1>f, <1>t DEF Span
    <3>3. Span(0, write_offset[s]) \subseteq 0 .. MaxOffset
      BY <1>t DEF Span
    <3>4. \A r \in Streams : pending'[r] =
             IF r = s /\ send_reset[s] = "none" THEN pending[s] \cup Span(f.offset, f.end)
             ELSE pending[r]
      BY <3>1 DEF FInv, TypeOK
    <3>5. pending' \in [Streams -> SUBSET (0 .. MaxOffset)]
      BY <3>1, <3>2, <3>3 DEF FInv, TypeOK
    <3> QED BY <2>0, <3>1, <3>2, <3>4, <3>5 DEF FInv, TypeOK
  <2> QED BY <1>f, <2>1, <2>2 DEF FrameOK
<1>4. TypeOK'
  BY <1>1, <1>2, <1>t DEF FInv, TypeOK, limitVars
<1>5. OffsetsOK'
  BY <1>1, <1>2 DEF FInv, OffsetsOK
<1>6. NetOK'
  <2>1. \A r \in Streams :
              /\ send_flow_highest[r] \in Nat /\ send_flow_highest'[r] \in Nat
              /\ send_flow_highest[r] <= send_flow_highest'[r]
              /\ send_reset[r] # "none" =>
                    send_reset'[r] # "none" /\ write_offset'[r] = write_offset[r]
    BY <1>1, <1>2, <1>t
  <2> QED BY <1>1, <2>1, FramesStay DEF FInv
<1>7. CreditOK'
  BY <1>1, CreditStays DEF FInv, CreditOK, LimitsOK
<1>8. CountsOK' /\ NoFlowControlError'
  <2>1. NoReset' <=> NoReset
    BY <1>2 DEF NoReset
  <2> QED BY <1>1, <2>1 DEF FInv, CountsOK, NoFlowControlError
<1> QED BY <1>4, <1>5, <1>6, <1>7, <1>8 DEF FInv, CreditOK

-----------------------------------------------------------------------------
(* The receiver's steps.                                                   *)

\* A frame that was charged is inside both of the receiver's limits.
LEMMA ChargedFits ==
    ASSUME FInv, NoReset, NEW f \in net, f.kind = "stream"
    PROVE  WithinCredit(f.stream, f.end)
<1> DEFINE s  == f.stream
           to == Greatest(end_offset[s], f.end)
<1>f. s \in Streams /\ f.end \in Nat /\ f.end <= send_flow_highest[s]
  BY DEF FInv, NetOK, FrameOK
<1>t. /\ end_offset[s] \in 0 .. MaxOffset /\ send_flow_highest[s] \in 0 .. MaxOffset
      /\ send_max_data[s] \in Nat /\ recv_max_data[s] \in Nat
      /\ we_sent_stream_data \in Nat /\ peer_max_data \in Nat
      /\ peer_sent_stream_data \in Nat /\ local_max_data \in Nat /\ MaxOffset \in Nat
      /\ end_offset \in Marks /\ send_flow_highest \in Marks
  BY <1>f, Types DEF FInv, TypeOK, Marks
<1>1. /\ end_offset[s] <= send_flow_highest[s] /\ send_flow_highest[s] <= send_max_data[s]
      /\ send_max_data[s] <= recv_max_data[s] /\ peer_max_data <= local_max_data
      /\ we_sent_stream_data <= peer_max_data
  <2>1. s \in Scopes /\ Conn \in Scopes /\ s # Conn
    BY <1>f, FlowAssumption DEF Scopes, Conn
  <2>2. Limit(s) <= Granted(s) /\ Limit(Conn) <= Granted(Conn)
    BY <2>1 DEF FInv, LimitsOK
  <2> QED BY <1>f, <2>1, <2>2 DEF FInv, LimitsOK, OffsetsOK, Limit, Granted
<1>2. /\ to \in 0 .. MaxOffset /\ end_offset[s] <= to /\ to <= send_flow_highest[s]
      /\ to - end_offset[s] = Charge(s, f.end)
  BY <1>1, <1>f, <1>t DEF Greatest, Charge
<1> HIDE DEF to
<1>3. PICK after : after = [end_offset EXCEPT ![s] = to]
  OBVIOUS
<1>4. Cardinality(Uncounted(after, send_flow_highest))
        = Cardinality(Uncounted(end_offset, send_flow_highest)) - (to - end_offset[s])
  <2>1. s \in Streams /\ end_offset \in Marks /\ send_flow_highest \in Marks
    BY <1>f, <1>t
  <2> HIDE DEF s
  <2> QED BY <1>2, <1>3, <2>1, ReceivedUncounted
<1>5. /\ Cardinality(Uncounted(after, send_flow_highest)) \in Nat
      /\ Cardinality(Uncounted(end_offset, send_flow_highest)) \in Nat
  BY UncountedFinite
<1>6. Cardinality(Uncounted(end_offset, send_flow_highest))
        <= we_sent_stream_data - peer_sent_stream_data
  BY DEF FInv, CountsOK
<1>7. peer_sent_stream_data + Charge(s, f.end) <= local_max_data
  BY <1>1, <1>2, <1>4, <1>5, <1>6, <1>t
<1>8. Greatest(end_offset[s], f.end) <= recv_max_data[s]
  BY <1>1, <1>2, <1>t DEF to
<1> QED BY <1>7, <1>8 DEF WithinCredit

\* handleStream()
LEMMA StepRecvData ==
    ASSUME FInv, NEW f \in net, RecvData(f)
    PROVE  FInv'
<1> DEFINE s  == f.stream
           to == Greatest(end_offset[s], f.end)
<1>f. /\ f.kind = "stream" /\ s \in Streams /\ f.offset \in Nat /\ f.end \in Nat
      /\ f.offset < f.end /\ f.end <= send_flow_highest[s]
  BY DEF FInv, NetOK, FrameOK, RecvData
<1>t. /\ end_offset[s] \in 0 .. MaxOffset /\ send_flow_highest[s] \in 0 .. MaxOffset
      /\ read_offset[s] \in 0 .. MaxOffset
      /\ peer_sent_stream_data \in Nat /\ MaxOffset \in Nat /\ we_sent_stream_data \in Nat
      /\ end_offset \in Marks /\ send_flow_highest \in Marks
      /\ \A r \in Streams : send_flow_highest[r] \in Nat /\ end_offset[r] \in Nat
  BY <1>f, Types DEF FInv, TypeOK, Marks
<1>1. /\ ~closed /\ net' = net \ {f}
      /\ UNCHANGED <<write_offset, pending, send_flow_highest, we_sent_stream_data, send_reset,
                     limitVars, read_offset, recv_max_data, recv_reset, local_max_data,
                     recv_stream_bytes_read, queued, creditVars, losses>>
  BY DEF RecvData, senderVars
<1>2. NetOK'
  BY <1>1, <1>t, FramesStay DEF FInv
<1>3. CreditOK'
  BY <1>1, CreditStays DEF FInv, CreditOK, LimitsOK
<1>4. NoReset' <=> NoReset
  BY <1>1 DEF NoReset
<1>5. CASE ~WithinCredit(s, f.end)
  <2>1. closed' = TRUE /\ UNCHANGED <<ranges, end_offset, peer_sent_stream_data>>
    BY <1>5 DEF RecvData
  <2>2. ~NoReset
    BY <1>5, <1>f, ChargedFits
  <2>3. TypeOK' /\ OffsetsOK'
    BY <1>1, <2>1 DEF FInv, TypeOK, OffsetsOK, limitVars
  <2> QED BY <1>2, <1>3, <1>4, <2>2, <2>3 DEF FInv, CreditOK, CountsOK, NoFlowControlError
<1>6. CASE WithinCredit(s, f.end)
  <2>1. /\ peer_sent_stream_data' = peer_sent_stream_data + Charge(s, f.end) /\ closed' = closed
        /\ IF recv_reset[s] # NoSize
           THEN UNCHANGED <<ranges, end_offset>>
           ELSE /\ ranges' = [ranges EXCEPT ![s] =
                      @ \cup (Span(f.offset, f.end) \ Span(0, read_offset[s]))]
                /\ end_offset' = [end_offset EXCEPT ![s] = Greatest(@, f.end)]
    BY <1>6 DEF RecvData
  <2>2. /\ to \in 0 .. MaxOffset /\ end_offset[s] <= to /\ to <= send_flow_highest[s]
        /\ f.end <= to /\ to - end_offset[s] = Charge(s, f.end) /\ Charge(s, f.end) \in Nat
    <3>1. end_offset[s] <= send_flow_highest[s]
      BY <1>f DEF FInv, OffsetsOK
    <3> QED BY <3>1, <1>f, <1>t DEF Greatest, Charge
  <2>3. peer_sent_stream_data' \in Nat
    BY <2>1, <2>2, <1>t
  <2>4. CASE recv_reset[s] # NoSize
    <3>1. ~NoReset
      BY <1>f, <2>4 DEF FInv, OffsetsOK, NoReset
    <3>2. TypeOK' /\ OffsetsOK'
      BY <1>1, <2>1, <2>3, <2>4 DEF FInv, TypeOK, OffsetsOK, limitVars
    <3> QED BY <1>2, <1>3, <1>4, <3>1, <3>2 DEF FInv, CreditOK, CountsOK, NoFlowControlError
  <2>5. CASE recv_reset[s] = NoSize
    <3>1. /\ ranges' = [ranges EXCEPT ![s] =
                @ \cup (Span(f.offset, f.end) \ Span(0, read_offset[s]))]
          /\ end_offset' = [end_offset EXCEPT ![s] = to]
      BY <2>1, <2>5
    <3> HIDE DEF to
    <3>2. Span(f.offset, f.end) \subseteq Span(0, to) /\ Span(0, end_offset[s]) \subseteq Span(0, to)
          /\ Span(0, to) \subseteq 0 .. MaxOffset
      BY <2>2, <1>f, <1>t DEF Span
    <3>3. /\ end_offset' \in [Streams -> 0 .. MaxOffset]
          /\ \A r \in Streams : end_offset'[r] = IF r = s THEN to ELSE end_offset[r]
      BY <2>2, <3>1 DEF FInv, TypeOK
    <3>4. /\ ranges' \in [Streams -> SUBSET (0 .. MaxOffset)]
          /\ \A r \in Streams : ranges'[r] \subseteq Span(0, end_offset'[r])
      <4>1. \A r \in Streams : ranges[r] \subseteq Span(0, end_offset[r])
        BY DEF FInv, OffsetsOK
      <4>2. \A r \in Streams : ranges'[r] =
               IF r = s THEN ranges[s] \cup (Span(f.offset, f.end) \ Span(0, read_offset[s]))
               ELSE ranges[r]
        BY <3>1 DEF FInv, TypeOK
      <4>3. ranges' \in [Streams -> SUBSET (0 .. MaxOffset)]
        BY <3>1, <3>2 DEF FInv, TypeOK
      <4> QED BY <3>2, <3>3, <4>1, <4>2, <4>3, <1>f
    <3>5. TypeOK'
      BY <1>1, <2>1, <2>3, <3>3, <3>4 DEF FInv, TypeOK, limitVars
    <3>6. OffsetsOK'
      <4> SUFFICES ASSUME NEW r \in Streams
                   PROVE  /\ read_offset[r] <= end_offset'[r] /\ end_offset'[r] <= send_flow_highest[r]
                          /\ send_flow_highest[r] <= write_offset[r]
                          /\ pending[r] \subseteq Span(0, write_offset[r])
                          /\ ranges'[r] \subseteq Span(0, end_offset'[r])
                          /\ IF send_reset[r] = "none"
                             THEN /\ Span(send_flow_highest[r], write_offset[r]) \subseteq pending[r]
                                  /\ recv_reset[r] = NoSize
                             ELSE pending[r] = {}
        BY <1>1 DEF OffsetsOK
      <4>1. read_offset[r] <= end_offset[r] /\ end_offset[r] <= send_flow_highest[r]
        BY DEF FInv, OffsetsOK
      <4>2. read_offset[r] <= end_offset'[r] /\ end_offset'[r] <= send_flow_highest[r]
        BY <2>2, <3>3, <4>1, <1>t
      <4> QED BY <3>4, <4>2 DEF FInv, OffsetsOK
    <3>7. CountsOK'
      <4> SUFFICES ASSUME NoReset
                   PROVE  Cardinality(Uncounted(end_offset', send_flow_highest))
                            <= we_sent_stream_data - peer_sent_stream_data'
        BY <1>1, <1>4 DEF CountsOK
      <4>1. Cardinality(Uncounted(end_offset', send_flow_highest))
              = Cardinality(Uncounted(end_offset, send_flow_highest)) - (to - end_offset[s])
        <5>1. s \in Streams /\ end_offset \in Marks /\ send_flow_highest \in Marks
          BY <1>f, <1>t
        <5> HIDE DEF s
        <5> QED BY <2>2, <3>1, <5>1, ReceivedUncounted
      <4>2. Cardinality(Uncounted(end_offset, send_flow_highest))
              <= we_sent_stream_data - peer_sent_stream_data
        BY DEF FInv, CountsOK
      <4>3. Cardinality(Uncounted(end_offset, send_flow_highest)) \in Nat
        BY UncountedFinite
      <4> QED BY <2>1, <2>2, <4>1, <4>2, <4>3, <1>t
    <3>8. NoFlowControlError'
      BY <1>1, <2>1 DEF NoFlowControlError
    <3> QED BY <1>2, <1>3, <3>5, <3>6, <3>7, <3>8 DEF FInv, CreditOK
  <2> QED BY <2>4, <2>5
<1> QED BY <1>5, <1>6

\* handleResetStream(): only a stream that was reset gets here.
LEMMA StepRecvReset ==
    ASSUME FInv, NEW f \in net, RecvReset(f)
    PROVE  FInv'
<1> DEFINE s == f.stream
           n == Abandoned(s, f.end)
<1>f. /\ f.kind = "reset" /\ s \in Streams /\ f.end \in Nat
      /\ f.end = write_offset[s] /\ send_reset[s] # "none"
  BY DEF FInv, NetOK, FrameOK, RecvReset
<1>t. /\ end_offset[s] \in 0 .. MaxOffset /\ read_offset[s] \in 0 .. MaxOffset
      /\ write_offset[s] \in 0 .. MaxOffset /\ send_flow_highest[s] \in 0 .. MaxOffset
      /\ peer_sent_stream_data \in Nat /\ MaxOffset \in Nat
      /\ \A r \in Streams : send_flow_highest[r] \in Nat
  BY <1>f, Types DEF FInv
<1>1. /\ net' = net \ {f}
      /\ UNCHANGED <<write_offset, pending, send_flow_highest, we_sent_stream_data, send_reset,
                     limitVars, read_offset, end_offset, creditVars, losses>>
  BY DEF RecvReset, senderVars
<1>2. NetOK'
  BY <1>1, <1>t, FramesStay DEF FInv
<1>3. ~NoReset /\ ~NoReset'
  BY <1>f, <1>1 DEF NoReset
<1>4. CASE ~WithinCredit(s, f.end)
  <2>1. /\ closed' = TRUE
        /\ UNCHANGED <<ranges, recv_reset, peer_sent_stream_data, recv_max_data, local_max_data,
                       recv_stream_bytes_read, queued>>
    BY <1>4 DEF RecvReset
  <2>2. CreditOK'
    BY <1>1, <2>1, CreditStays DEF FInv, CreditOK, LimitsOK
  <2>3. TypeOK' /\ OffsetsOK'
    BY <1>1, <2>1 DEF FInv, TypeOK, OffsetsOK, limitVars
  <2> QED BY <1>2, <1>3, <2>2, <2>3 DEF FInv, CreditOK, CountsOK, NoFlowControlError
<1>5. CASE WithinCredit(s, f.end)
  <2>1. /\ peer_sent_stream_data' = peer_sent_stream_data + Charge(s, f.end)
        /\ recv_reset' = [recv_reset EXCEPT ![s] = f.end]
        /\ ranges' = [ranges EXCEPT ![s] = {}]
        /\ GiveCredit(n, Conn, 0) /\ closed' = closed
    BY <1>5 DEF RecvReset
  <2>2. n \in Nat
    <3>1. read_offset[s] <= end_offset[s] /\ end_offset[s] <= send_flow_highest[s]
          /\ send_flow_highest[s] <= write_offset[s]
      BY <1>f DEF FInv, OffsetsOK
    <3> QED BY <3>1, <1>f, <1>t DEF Abandoned
  <2> HIDE DEF n
  <2>3. /\ recv_stream_bytes_read' \in Nat /\ local_max_data' \in Nat
        /\ recv_max_data' \in [Streams -> Nat] /\ queued' \in [Scopes -> Nat] /\ CreditOK'
    <3>1. Conn \in Scopes /\ 0 \in Nat
      BY DEF Scopes
    <3>2. TypeOK /\ CreditOK
      BY DEF FInv, CreditOK
    <3> QED BY <1>1, <2>1, <2>2, <3>1, <3>2, GiveFacts
  <2>4. peer_sent_stream_data' \in Nat
    <3>1. Charge(s, f.end) \in Nat
      BY <1>f, <1>t DEF Charge, Greatest
    <3> QED BY <2>1, <3>1, <1>t
  <2>5. /\ recv_reset' \in [Streams -> {NoSize} \cup 0 .. MaxOffset]
        /\ ranges' \in [Streams -> SUBSET (0 .. MaxOffset)]
        /\ \A r \in Streams : /\ recv_reset'[r] = IF r = s THEN f.end ELSE recv_reset[r]
                              /\ ranges'[r] = IF r = s THEN {} ELSE ranges[r]
    BY <2>1, <1>f, <1>t DEF FInv, TypeOK
  <2>6. TypeOK'
    BY <1>1, <2>1, <2>3, <2>4, <2>5 DEF FInv, TypeOK, limitVars
  <2>7. OffsetsOK'
    BY <1>1, <1>f, <2>5 DEF FInv, OffsetsOK
  <2> QED BY <1>2, <1>3, <2>3, <2>6, <2>7 DEF FInv, CreditOK, CountsOK, NoFlowControlError
<1> QED BY <1>4, <1>5

\* streamRead() and afterStreamConsume()
LEMMA StepRead ==
    ASSUME FInv, NEW s \in Streams, NEW n \in 1 .. MaxOffset, Read(s, n)
    PROVE  FInv'
<1> DEFINE to == read_offset[s] + n
<1>t. /\ read_offset[s] \in 0 .. MaxOffset /\ end_offset[s] \in 0 .. MaxOffset
      /\ MaxOffset \in Nat /\ n \in Nat /\ n >= 1
      /\ \A r \in Streams : send_flow_highest[r] \in Nat
  BY Types DEF FInv
<1>1. /\ ranges' = [ranges EXCEPT ![s] = @ \ Span(0, to)]
      /\ read_offset' = [read_offset EXCEPT ![s] = to]
      /\ Span(read_offset[s], to) \subseteq ranges[s]
      /\ GiveCredit(n, s, to)
      /\ UNCHANGED <<write_offset, pending, send_flow_highest, we_sent_stream_data, send_reset,
                     limitVars, end_offset, recv_reset, peer_sent_stream_data, closed, net,
                     creditVars, losses>>
  BY DEF Read, Readable, senderVars
<1>2. to \in 0 .. MaxOffset /\ to <= end_offset[s] /\ to \in Nat
  <2>1. to - 1 \in Span(read_offset[s], to)
    BY <1>t DEF Span
  <2>2. to - 1 \in Span(0, end_offset[s])
    BY <1>1, <2>1 DEF FInv, OffsetsOK
  <2>3. to - 1 <= end_offset[s] - 1
    BY <2>2, <1>t DEF Span
  <2> QED BY <2>3, <1>t
<1> HIDE DEF to
<1>3. /\ recv_stream_bytes_read' \in Nat /\ local_max_data' \in Nat
      /\ recv_max_data' \in [Streams -> Nat] /\ queued' \in [Scopes -> Nat] /\ CreditOK'
  <2>1. s \in Scopes
    BY DEF Scopes
  <2>2. TypeOK /\ CreditOK
    BY DEF FInv, CreditOK
  <2> QED BY <1>1, <1>2, <1>t, <2>1, <2>2, GiveFacts
<1>4. /\ read_offset' \in [Streams -> 0 .. MaxOffset]
      /\ ranges' \in [Streams -> SUBSET (0 .. MaxOffset)]
      /\ \A r \in Streams : /\ read_offset'[r] = IF r = s THEN to ELSE read_offset[r]
                            /\ ranges'[r] \subseteq ranges[r]
  BY <1>1, <1>2 DEF FInv, TypeOK
<1>5. TypeOK'
  BY <1>1, <1>3, <1>4 DEF FInv, TypeOK, limitVars
<1>6. OffsetsOK'
  BY <1>1, <1>2, <1>4 DEF FInv, OffsetsOK
<1>7. NetOK'
  BY <1>1, <1>t, FramesStay DEF FInv
<1>8. CountsOK' /\ NoFlowControlError'
  BY <1>1 DEF FInv, CountsOK, NoFlowControlError, NoReset
<1> QED BY <1>3, <1>5, <1>6, <1>7, <1>8 DEF FInv, CreditOK

-----------------------------------------------------------------------------
(* Credit on its way.                                                      *)

\* A step that leaves data alone and keeps the types and the credit.
LEMMA DataStays ==
    ASSUME FInv, TypeOK', CreditOK', UNCHANGED <<senderVars, ranges, read_offset, end_offset,
           recv_reset, peer_sent_stream_data, closed, net>>
    PROVE  FInv'
<1>1. UNCHANGED <<write_offset, pending, send_flow_highest, we_sent_stream_data, send_reset,
                  ranges, read_offset, end_offset, recv_reset, peer_sent_stream_data, closed, net>>
  BY DEF senderVars
<1>2. OffsetsOK'
  BY <1>1 DEF FInv, OffsetsOK
<1>3. NetOK'
  <2>1. \A r \in Streams : send_flow_highest[r] \in Nat
    BY Types DEF FInv
  <2> QED BY <1>1, <2>1, FramesStay DEF FInv
<1>4. CountsOK' /\ NoFlowControlError'
  BY <1>1 DEF FInv, CountsOK, NoFlowControlError, NoReset
<1> QED BY <1>2, <1>3, <1>4 DEF FInv, CreditOK

\* A queued limit goes out and is tracked.
LEMMA StepSendCredit ==
    ASSUME FInv, NEW x \in Scopes, SendCredit(x)
    PROVE  FInv'
<1>t. \A y \in Scopes : Limit(y) \in Nat /\ Granted(y) \in Nat /\ queued[y] \in Nat
  BY Types DEF FInv
<1>1. PICK g : g = [scope |-> x, value |-> queued[x]]
  OBVIOUS
<1>2. /\ queued' = [queued EXCEPT ![x] = 0]
      /\ credit_net' = credit_net \cup {g} /\ credit_sent' = credit_sent \cup {g}
      /\ UNCHANGED <<senderVars, limitVars, ranges, read_offset, end_offset, recv_max_data,
                     recv_reset, peer_sent_stream_data, local_max_data, recv_stream_bytes_read,
                     closed, net, losses>>
  BY <1>1 DEF SendCredit
<1>3. \A y \in Scopes : queued'[y] = IF y = x THEN 0 ELSE queued[y]
  BY <1>2 DEF FInv, TypeOK
<1>4. \A y \in Scopes : Limit(y)' = Limit(y) /\ Granted(y)' = Granted(y)
  BY <1>2 DEF Limit, Granted, limitVars
<1>5. TypeOK'
  BY <1>2 DEF FInv, TypeOK, limitVars, senderVars
<1>6. LimitsOK'
  <2>1. \A y \in Scopes : Limit(y)' <= Granted(y)' /\ queued'[y] <= Granted(y)'
    BY <1>3, <1>4, <1>t DEF FInv, LimitsOK
  <2>2. g.scope \in Scopes /\ g.value \in Nat /\ g.value <= Granted(g.scope)
    BY <1>1, <1>t DEF FInv, LimitsOK
  <2>3. \A f \in (credit_net \cup credit_sent)' :
           f.scope \in Scopes /\ f.value \in Nat /\ f.value <= Granted(f.scope)'
    <3>1. \A f \in credit_net \cup credit_sent :
             f.scope \in Scopes /\ f.value \in Nat /\ f.value <= Granted(f.scope)
      BY DEF FInv, LimitsOK
    <3> QED BY <1>2, <1>4, <2>2, <3>1
  <2> QED BY <1>2, <2>1, <2>3 DEF FInv, LimitsOK, senderVars, limitVars
<1>7. NoCreditForgotten'
  <2> SUFFICES ASSUME NEW y \in Scopes
               PROVE  \/ Limit(y)' = Granted(y)' \/ queued'[y] = Granted(y)'
                      \/ [scope |-> y, value |-> Granted(y)'] \in credit_sent'
    BY DEF NoCreditForgotten
  <2>1. \/ Limit(y) = Granted(y) \/ queued[y] = Granted(y)
        \/ [scope |-> y, value |-> Granted(y)] \in credit_sent
    BY DEF FInv, NoCreditForgotten
  <2>2. CASE y = x /\ queued[y] = Granted(y)
    BY <1>1, <1>2, <1>4, <2>2
  <2> QED BY <1>2, <1>3, <1>4, <2>1, <2>2
<1> QED BY <1>2, <1>5, <1>6, <1>7, DataStays DEF CreditOK

\* handleMaxData(), handleMaxStreamData()
LEMMA StepRecvCredit ==
    ASSUME FInv, NEW f \in credit_net, RecvCredit(f)
    PROVE  FInv'
<1>t. /\ \A y \in Scopes : Limit(y) \in Nat /\ Granted(y) \in Nat /\ queued[y] \in Nat
      /\ peer_max_data \in Nat /\ we_sent_stream_data \in Nat /\ Conn \notin Streams
      /\ \A r \in Streams : send_max_data[r] \in Nat /\ send_flow_highest[r] \in Nat
  BY Types DEF FInv
<1>f. f.scope \in Scopes /\ f.value \in Nat /\ f.value <= Granted(f.scope)
  BY DEF FInv, LimitsOK
<1>1. /\ credit_net' = credit_net \ {f}
      /\ UNCHANGED <<senderVars, ranges, read_offset, end_offset, recv_max_data, recv_reset,
                     peer_sent_stream_data, local_max_data, recv_stream_bytes_read, queued,
                     closed, net, credit_sent, losses>>
  BY DEF RecvCredit, recvVars
<1>2. /\ send_max_data' \in [Streams -> Nat] /\ peer_max_data' \in Nat
      /\ \A y \in Scopes : Limit(y)' = IF y = f.scope THEN Greatest(Limit(y), f.value) ELSE Limit(y)
      /\ peer_max_data <= peer_max_data'
      /\ \A r \in Streams : send_max_data[r] <= send_max_data'[r]
  <2>1. CASE f.scope = Conn
    <3>1. peer_max_data' = Greatest(peer_max_data, f.value) /\ send_max_data' = send_max_data
      BY <2>1 DEF RecvCredit
    <3>2. peer_max_data' \in Nat /\ peer_max_data <= peer_max_data'
      BY <3>1, <1>f, <1>t DEF Greatest
    <3>3. \A y \in Scopes : Limit(y)' = IF y = f.scope THEN Greatest(Limit(y), f.value) ELSE Limit(y)
      BY <2>1, <3>1 DEF Limit
    <3> QED BY <3>1, <3>2, <3>3, <1>t DEF FInv, TypeOK
  <2>2. CASE f.scope # Conn
    <3>1. /\ send_max_data' = [send_max_data EXCEPT ![f.scope] = Greatest(@, f.value)]
          /\ peer_max_data' = peer_max_data
      BY <2>2 DEF RecvCredit
    <3>2. f.scope \in Streams
      BY <2>2, <1>f DEF Scopes
    <3>3. Greatest(send_max_data[f.scope], f.value) \in Nat
          /\ send_max_data[f.scope] <= Greatest(send_max_data[f.scope], f.value)
      BY <3>2, <1>f, <1>t DEF Greatest
    <3>4. send_max_data' \in [Streams -> Nat]
      BY <3>1, <3>2, <3>3 DEF FInv, TypeOK
    <3>5. \A r \in Streams : send_max_data'[r] =
             IF r = f.scope THEN Greatest(send_max_data[r], f.value) ELSE send_max_data[r]
      BY <3>1 DEF FInv, TypeOK
    <3>6. \A y \in Scopes : Limit(y)' = IF y = f.scope THEN Greatest(Limit(y), f.value) ELSE Limit(y)
      BY <2>2, <3>1, <3>5 DEF Limit, Scopes
    <3>7. \A r \in Streams : send_max_data[r] <= send_max_data'[r]
      BY <3>3, <3>5, <1>t
    <3> QED BY <3>1, <3>4, <3>6, <3>7, <1>t
  <2> QED BY <2>1, <2>2
<1>3. \A y \in Scopes : Granted(y)' = Granted(y)
  BY <1>1 DEF Granted
<1>4. TypeOK'
  BY <1>1, <1>2 DEF FInv, TypeOK, senderVars
<1>5. \A y \in Scopes : /\ Limit(y) <= Limit(y)' /\ Limit(y)' <= Granted(y)
                        /\ Limit(y)' \in Nat
  BY <1>2, <1>f, <1>t DEF FInv, LimitsOK, Greatest
<1>6. LimitsOK'
  <2>1. \A y \in Scopes : Limit(y)' <= Granted(y)' /\ queued'[y] <= Granted(y)'
    BY <1>1, <1>3, <1>5 DEF FInv, LimitsOK
  <2>2. \A g \in (credit_net \cup credit_sent)' :
           g.scope \in Scopes /\ g.value \in Nat /\ g.value <= Granted(g.scope)'
    <3>1. \A g \in credit_net \cup credit_sent :
             g.scope \in Scopes /\ g.value \in Nat /\ g.value <= Granted(g.scope)
      BY DEF FInv, LimitsOK
    <3> QED BY <1>1, <1>3, <3>1
  <2>3. /\ \A r \in Streams : send_flow_highest'[r] <= send_max_data'[r]
        /\ we_sent_stream_data' <= peer_max_data'
    <3>1. /\ \A r \in Streams : send_flow_highest[r] <= send_max_data[r]
          /\ we_sent_stream_data <= peer_max_data
      BY DEF FInv, LimitsOK
    <3>2. send_flow_highest' = send_flow_highest /\ we_sent_stream_data' = we_sent_stream_data
      BY <1>1 DEF senderVars
    <3>3. \A r \in Streams : send_max_data'[r] \in Nat
      BY <1>2
    <3> QED BY <1>2, <1>t, <3>1, <3>2, <3>3
  <2> QED BY <2>1, <2>2, <2>3 DEF LimitsOK
<1>7. NoCreditForgotten'
  BY <1>1, <1>3, <1>5, <1>t DEF FInv, NoCreditForgotten
<1> QED BY <1>1, <1>4, <1>6, <1>7, DataStays DEF CreditOK

\* A credit frame that arrived is forgotten.
LEMMA StepCreditAcked ==
    ASSUME FInv, NEW f \in credit_sent, CreditAcked(f)
    PROVE  FInv'
<1>t. \A y \in Scopes : Limit(y) \in Nat /\ Granted(y) \in Nat
  BY Types DEF FInv
<1>1. /\ Limit(f.scope) >= f.value /\ credit_sent' = credit_sent \ {f}
      /\ UNCHANGED <<senderVars, send_max_data, peer_max_data, ranges, read_offset, end_offset,
                     recv_max_data, recv_reset, peer_sent_stream_data, local_max_data,
                     recv_stream_bytes_read, queued, closed, net, credit_net, losses>>
  BY DEF CreditAcked, recvVars, limitVars
<1>2. \A y \in Scopes : Limit(y)' = Limit(y) /\ Granted(y)' = Granted(y)
  BY <1>1 DEF Limit, Granted
<1>3. TypeOK'
  BY <1>1 DEF FInv, TypeOK, senderVars
<1>4. LimitsOK'
  <2>1. \A g \in (credit_net \cup credit_sent)' :
           g.scope \in Scopes /\ g.value \in Nat /\ g.value <= Granted(g.scope)'
    BY <1>1, <1>2 DEF FInv, LimitsOK
  <2> QED BY <1>1, <1>2, <2>1 DEF FInv, LimitsOK, senderVars
<1>5. NoCreditForgotten'
  <2> SUFFICES ASSUME NEW y \in Scopes
               PROVE  \/ Limit(y) = Granted(y) \/ queued[y] = Granted(y)
                      \/ [scope |-> y, value |-> Granted(y)] \in credit_sent'
    BY <1>1, <1>2 DEF NoCreditForgotten
  <2>1. CASE f = [scope |-> y, value |-> Granted(y)]
    <3>1. Limit(y) >= Granted(y) /\ Limit(y) <= Granted(y)
      BY <1>1, <2>1 DEF FInv, LimitsOK
    <3> QED BY <3>1, <1>t
  <2>2. CASE f # [scope |-> y, value |-> Granted(y)]
    BY <1>1, <2>2 DEF FInv, NoCreditForgotten
  <2> QED BY <2>1, <2>2
<1> QED BY <1>1, <1>3, <1>4, <1>5, DataStays DEF CreditOK

\* dispatchLostControlFrames(): the lost frame's own value is queued again.
LEMMA StepLoseCredit ==
    ASSUME FInv, NEW f \in credit_sent, NEW gone \in BOOLEAN, LoseCredit(f, gone)
    PROVE  FInv'
<1>t. /\ \A y \in Scopes : Limit(y) \in Nat /\ Granted(y) \in Nat /\ queued[y] \in Nat
      /\ losses \in Nat
  BY Types DEF FInv
<1>f. f.scope \in Scopes /\ f.value \in Nat /\ f.value <= Granted(f.scope)
  BY DEF FInv, LimitsOK
<1>1. /\ losses' = losses + 1 /\ credit_sent' = credit_sent \ {f} /\ credit_net' \subseteq credit_net
      /\ queued' = [queued EXCEPT ![f.scope] = Greatest(@, f.value)]
      /\ UNCHANGED <<senderVars, send_max_data, peer_max_data, ranges, read_offset, end_offset,
                     recv_max_data, recv_reset, peer_sent_stream_data, local_max_data,
                     recv_stream_bytes_read, closed, net>>
  BY DEF LoseCredit, limitVars
<1>2. \A y \in Scopes : Limit(y)' = Limit(y) /\ Granted(y)' = Granted(y)
  BY <1>1 DEF Limit, Granted
<1>3. /\ queued' \in [Scopes -> Nat]
      /\ \A y \in Scopes : /\ queued'[y] <= Granted(y)
                           /\ queued[y] = Granted(y) => queued'[y] = Granted(y)
                           /\ y = f.scope /\ f.value = Granted(y) => queued'[y] = Granted(y)
  <2>1. \A y \in Scopes : queued'[y] = IF y = f.scope THEN Greatest(queued[y], f.value) ELSE queued[y]
    BY <1>1 DEF FInv, TypeOK
  <2>2. \A y \in Scopes : queued[y] <= Granted(y)
    BY DEF FInv, LimitsOK
  <2>3. Greatest(queued[f.scope], f.value) \in Nat
    BY <1>f, <1>t DEF Greatest
  <2> QED BY <1>1, <1>f, <1>t, <2>1, <2>2, <2>3 DEF FInv, TypeOK, Greatest
<1>4. TypeOK'
  BY <1>1, <1>3, <1>t DEF FInv, TypeOK, senderVars
<1>5. LimitsOK'
  <2>1. \A g \in (credit_net \cup credit_sent)' :
           g.scope \in Scopes /\ g.value \in Nat /\ g.value <= Granted(g.scope)'
    BY <1>1, <1>2 DEF FInv, LimitsOK
  <2> QED BY <1>1, <1>2, <1>3, <2>1 DEF FInv, LimitsOK, senderVars
<1>6. NoCreditForgotten'
  <2> SUFFICES ASSUME NEW y \in Scopes
               PROVE  \/ Limit(y) = Granted(y) \/ queued'[y] = Granted(y)
                      \/ [scope |-> y, value |-> Granted(y)] \in credit_sent'
    BY <1>2 DEF NoCreditForgotten
  <2>1. CASE f = [scope |-> y, value |-> Granted(y)]
    BY <1>3, <2>1
  <2>2. CASE f # [scope |-> y, value |-> Granted(y)]
    BY <1>1, <1>3, <2>2 DEF FInv, NoCreditForgotten
  <2> QED BY <2>1, <2>2
<1> QED BY <1>1, <1>4, <1>5, <1>6, DataStays DEF CreditOK

-----------------------------------------------------------------------------
(* The theorems.                                                           *)

\* Both ends start with the same limits and with nothing sent.
LEMMA InitFInv == Init => FInv
<1> SUFFICES ASSUME Init PROVE FInv
  OBVIOUS
<1>c. /\ StreamWindow \in Nat /\ ConnWindow \in Nat /\ MaxOffset \in Nat /\ 0 \in 0 .. MaxOffset
      /\ Conn \in Scopes
  BY FlowAssumption DEF Scopes
<1>1. TypeOK
  <2>1. {} \in SUBSET (0 .. MaxOffset) /\ 0 \in Nat
    OBVIOUS
  <2>2. /\ write_offset \in [Streams -> 0 .. MaxOffset]
        /\ send_flow_highest \in [Streams -> 0 .. MaxOffset]
        /\ read_offset \in [Streams -> 0 .. MaxOffset]
        /\ end_offset \in [Streams -> 0 .. MaxOffset]
    BY <1>c DEF Init
  <2>3. /\ pending \in [Streams -> SUBSET (0 .. MaxOffset)]
        /\ ranges \in [Streams -> SUBSET (0 .. MaxOffset)]
    BY <2>1 DEF Init
  <2>4. /\ send_max_data \in [Streams -> Nat] /\ recv_max_data \in [Streams -> Nat]
        /\ queued \in [Scopes -> Nat]
    BY <1>c, <2>1 DEF Init
  <2>5. /\ send_reset \in [Streams -> {"none", "owed", "sent"}]
        /\ recv_reset \in [Streams -> {NoSize} \cup 0 .. MaxOffset]
    BY DEF Init
  <2> QED BY <1>c, <2>1, <2>2, <2>3, <2>4, <2>5 DEF Init, TypeOK
<1>2. \A x \in Scopes : Limit(x) = Granted(x) /\ Granted(x) \in Nat /\ queued[x] = 0
  BY <1>c DEF Init, Limit, Granted, Scopes
<1>3. LimitsOK /\ NoCreditForgotten
  BY <1>2, <1>c DEF Init, LimitsOK, NoCreditForgotten
<1>4. OffsetsOK /\ NetOK /\ NoFlowControlError
  BY <1>c DEF Init, OffsetsOK, NetOK, NoFlowControlError, Span
<1>5. CountsOK
  <2>1. Uncounted(end_offset, send_flow_highest) = {}
    <3>1. \A b \in Streams \X (0 .. MaxOffset) :
             end_offset[b[1]] = 0 /\ send_flow_highest[b[1]] = 0 /\ b[2] \in Nat
      BY <1>c DEF Init
    <3> QED BY <3>1 DEF Uncounted
  <2>2. Cardinality(Uncounted(end_offset, send_flow_highest)) = 0
    BY <2>1, FS_EmptySet
  <2> QED BY <2>2 DEF Init, CountsOK
<1> QED BY <1>1, <1>3, <1>4, <1>5 DEF FInv

\* Every step keeps the invariant.
LEMMA NextFInv == FInv /\ [Next]_vars => FInv'
<1> SUFFICES ASSUME FInv, [Next]_vars PROVE FInv'
  OBVIOUS
<1>1. CASE UNCHANGED vars
  <2>1. UNCHANGED <<senderVars, limitVars, ranges, read_offset, end_offset, recv_max_data,
                    recv_reset, peer_sent_stream_data, local_max_data, recv_stream_bytes_read,
                    queued, closed, net, creditVars, losses>>
    BY <1>1 DEF vars, recvVars
  <2>2. TypeOK'
    BY <2>1 DEF FInv, TypeOK, senderVars, limitVars
  <2>3. CreditOK'
    BY <2>1, CreditStays DEF FInv, CreditOK, LimitsOK, senderVars
  <2> QED BY <2>1, <2>2, <2>3, DataStays
<1>2. ASSUME NEW s \in Streams, NEW n \in 1 .. MaxOffset, Write(s, n) \/ SendData(s, n) \/ Read(s, n)
      PROVE  FInv'
  BY <1>2, StepWrite, StepSendData, StepRead
<1>3. ASSUME NEW s \in Streams, ResetStream(s) \/ SendReset(s) PROVE FInv'
  BY <1>3, StepResetStream, StepSendReset
<1>4. ASSUME NEW f \in net, NEW gone \in BOOLEAN, LoseData(f, gone) PROVE FInv'
  BY <1>4, StepLoseData
<1>5. ASSUME NEW f \in net, RecvData(f) \/ RecvReset(f) PROVE FInv'
  BY <1>5, StepRecvData, StepRecvReset
<1>6. ASSUME NEW x \in Scopes, SendCredit(x) PROVE FInv'
  BY <1>6, StepSendCredit
<1>7. ASSUME NEW f \in credit_net, RecvCredit(f) PROVE FInv'
  BY <1>7, StepRecvCredit
<1>8. ASSUME NEW f \in credit_sent, CreditAcked(f) PROVE FInv'
  BY <1>8, StepCreditAcked
<1>9. ASSUME NEW f \in credit_sent, NEW gone \in BOOLEAN, LoseCredit(f, gone) PROVE FInv'
  BY <1>9, StepLoseCredit
<1> QED BY <1>1, <1>2, <1>3, <1>4, <1>5, <1>6, <1>7, <1>8, <1>9 DEF Next

\* The inductive invariant: limits, marks, frames and counters of the two ends
\* fit together in every reachable state.
THEOREM Invariant == Spec => []FInv
BY InitFInv, NextFInv, PTL DEF Spec

\* Every field keeps its type: no mark passes what was written, and no counter
\* of the connection goes below zero.
THEOREM TypeCorrect == Spec => []TypeOK
BY Invariant, PTL DEF FInv

\* creditPeerStreamHighWater() against recordStreamFlowSent(): while no stream
\* is reset, every frame an honest sender lets out fits the receiver's limits,
\* however credit, data and retransmissions cross.
THEOREM NeverClosed == Spec => []NoFlowControlError
BY Invariant, PTL DEF FInv

\* The receiver never counts a byte the sender has not counted, and a limit it
\* granted is known to the sender, queued or tracked, whatever frames are lost.
THEOREM BooksAgree == Spec => []AccountsAgree
<1>1. FInv => AccountsAgree
  <2> SUFFICES ASSUME FInv PROVE AccountsAgree
    OBVIOUS
  <2>1. Cardinality(Uncounted(end_offset, send_flow_highest)) \in Nat
    BY UncountedFinite
  <2>2. we_sent_stream_data \in Nat /\ peer_sent_stream_data \in Nat
    BY Types DEF FInv
  <2>3. BytesAgree
    BY <2>1, <2>2 DEF FInv, CountsOK, BytesAgree
  <2> QED BY <2>3 DEF FInv, AccountsAgree
<1> QED BY <1>1, Invariant, PTL
=============================================================================
