---------------------------- MODULE RecoveryProofs ----------------------------
(***************************************************************************)
(* Theorems about Recovery, for any frames, any number of packets, and any *)
(* window, tracker, threshold and ring: no frame is lost, data is queued   *)
(* once however many copies of it are in flight, and a loss episode is     *)
(* taken back only when every packet counted in it has arrived.            *)
(***************************************************************************)
EXTENDS Recovery, FiniteSetTheorems, SequenceTheorems, WellFoundedInduction, TLAPS

-----------------------------------------------------------------------------
(* The inductive invariant.                                                *)

\* A packet that is not in flight has no record.  Data that one packet answers
\* for is not queued, no other answers for it, and no copy left after it.
\* Stream bytes in the queue are not acknowledged, and if no probe put them
\* there they are in no packet, so that no ACK is still to come for them.
OwnersOK ==
    /\ \A p \in Pns : copied[p] \subseteq owned[p] /\ (p \notin sent => owned[p] = {})
    /\ \A f \in Data, p \in sent : f \in Answers(p) =>
          /\ f \notin queued
          /\ \A q \in sent : f \in Answers(q) => q = p
    /\ \A f \in Stream, p \in sent : f \in Answers(p) =>
          \A q \in sent : f \in owned[q] => q <= p
    /\ \A f \in Stream : f \in queued =>
          /\ f \notin acked
          /\ f \notin probe_pending => \A q \in sent : f \notin owned[q]

Records == [pn : Pns \cup {None}, episode : Nat]

RingPns(ring) == {ring[k].pn : k \in Live(ring)}

\* What an episode may still wait for: the packets counted in it that have not
\* arrived, or that have but are not yet known to.
Open(n, ring, cnt, got) ==
    {p \in Pns : cnt[p] = n /\ (p \notin got \/ p \in RingPns(ring))}

\* A packet is remembered once, with the episode it was counted in.
RingOK(ring, cnt) ==
    /\ ring \in Seq(Records) /\ Len(ring) <= RingSlots
    /\ \A k \in Live(ring) : cnt[ring[k].pn] = ring[k].episode
    /\ \A j, k \in Live(ring) : ring[j].pn = ring[k].pn => j = k

EpisodeType ==
    [episode : Nat, pending : Nat, undoable : BOOLEAN, prev_pending : Nat,
     prev_undoable : BOOLEAN, opened_at : Int, undone : SUBSET Nat]

CountsOK(e, cnt) ==
    /\ e \in EpisodeType /\ cnt \in [Pns -> Int]
    /\ \A p \in Pns : cnt[p] <= e.episode
    /\ \A n \in e.undone : 1 <= n /\ n <= e.episode
    /\ e.undoable => e.episode >= 1 /\ e.episode \notin e.undone
    /\ e.prev_undoable => e.episode >= 2

\* The episode counts what it waits for, the one before it too as long as it can
\* be taken back, and nothing more is counted in one that was.
EpisodesOK(e, start, ring, cnt, got) ==
    /\ CountsOK(e, cnt) /\ RingOK(ring, cnt)
    /\ Cardinality(Open(e.episode, ring, cnt, got)) <= e.pending
    /\ e.prev_undoable => Cardinality(Open(e.episode - 1, ring, cnt, got)) <= e.prev_pending
    /\ \A p \in Pns : cnt[p] \in e.undone => p \in got
    /\ e.episode \in e.undone => start = None

\* A packet is counted once, when it leaves the flight.
CountedOnce == \A p \in Pns : counted[p] # None => p < next_pn /\ p \notin sent

VInv ==
    /\ TypeOK /\ OwnersOK /\ NothingForgotten /\ CountedOnce
    /\ EpisodesOK(episodes, recovery_start, lost_ring, counted, received)

-----------------------------------------------------------------------------
(* Least and greatest elements.                                            *)

\* A set of naturals has a least element: the order is well-founded.
LEMMA LeastExists ==
    ASSUME NEW S, S \subseteq Nat, S # {}
    PROVE  \E x \in S : \A y \in S : x =< y
<1> DEFINE R == {ss \in Nat \X Nat : ss[1] < ss[2]}
<1>1. IsWellFoundedOn(R, Nat)
  BY NatLessThanWellFounded DEF OpToRel
<1>2. \A x, y \in S : <<y, x>> \in R <=> y < x
  OBVIOUS
<1> HIDE DEF R
<1>3. PICK x \in S : \A y \in S : ~(<<y, x>> \in R)
  BY <1>1, WFMin
<1>4. \A y \in S : ~(y < x)
  BY <1>2, <1>3
<1>5. \A y \in S : x =< y
  BY <1>4
<1> QED BY <1>5

\* The least of a set of naturals is one of it.
LEMMA MinFacts ==
    ASSUME NEW S, S \subseteq Nat, S # {}
    PROVE  Min(S) \in S /\ \A y \in S : Min(S) =< y
BY LeastExists DEF Min

\* A bounded set of naturals has a greatest one.
LEMMA MaxFacts ==
    ASSUME NEW S, NEW n \in Nat, S \subseteq 0 .. n, S # {}
    PROVE  Max(S) \in S /\ \A y \in S : Max(S) >= y
<1> DEFINE T == {n - x : x \in S}
<1>1. T \subseteq Nat /\ T # {}
  <2>1. \A x \in S : n - x \in Nat
    OBVIOUS
  <2>2. PICK x \in S : TRUE
    OBVIOUS
  <2>3. n - x \in T
    BY <2>2
  <2> QED BY <2>1, <2>3
<1>2. PICK z \in T : \A y \in T : z =< y
  BY <1>1, LeastExists
<1>3. PICK x \in S : z = n - x
  OBVIOUS
<1>4. \A y \in S : n - y \in T
  OBVIOUS
<1> HIDE DEF T
<1>5. \A y \in S : x >= y
  BY <1>2, <1>3, <1>4
<1>6. \E x_1 \in S : \A y \in S : x_1 >= y
  BY <1>5
<1> QED BY <1>6 DEF Max

\* The greater of two numbers.
LEMMA MaxOfTwo ==
    ASSUME NEW x \in Int, NEW y \in Int
    PROVE  Max({x, y}) = IF x >= y THEN x ELSE y
<1>1. \E z \in {x, y} : \A w \in {x, y} : z >= w
  OBVIOUS
<1>2. Max({x, y}) \in {x, y} /\ \A w \in {x, y} : Max({x, y}) >= w
  BY <1>1 DEF Max
<1> QED BY <1>2

\* Sets of packet numbers are finite.
LEMMA Finite ==
    ASSUME NEW S, S \subseteq Pns
    PROVE  IsFiniteSet(S) /\ Cardinality(S) \in Nat
<1>1. IsFiniteSet(Pns)
  BY RecoveryAssumption, FS_Interval DEF Pns
<1>2. IsFiniteSet(S)
  BY <1>1, FS_Subset
<1> QED BY <1>2, FS_CardinalityType

\* A part of a set of packets has no more of them.
LEMMA Fewer ==
    ASSUME NEW S, NEW T, S \subseteq T, T \subseteq Pns
    PROVE  /\ Cardinality(S) \in Nat /\ Cardinality(T) \in Nat
           /\ Cardinality(S) <= Cardinality(T)
           /\ Cardinality(S) = Cardinality(T) => S = T
<1>1. IsFiniteSet(T) /\ Cardinality(T) \in Nat /\ Cardinality(S) \in Nat
  BY Finite
<1> QED BY <1>1, FS_Subset

-----------------------------------------------------------------------------
(* Packets in order: Nth.                                                  *)

\* Every place in the order is taken: no smallest one is free.
LEMMA PlaceTaken ==
    ASSUME NEW ps, ps \subseteq Pns, NEW k \in 1 .. Cardinality(ps)
    PROVE  \E p \in ps : Cardinality({q \in ps : q < p}) = k - 1
<1> DEFINE Below(p) == {q \in ps : q < p}
           free == {j \in 1 .. Cardinality(ps) : ~ \E p \in ps : Cardinality(Below(p)) = j - 1}
<1>a. Cardinality(ps) \in Nat /\ IsFiniteSet(ps) /\ ps \subseteq Nat
  <2>1. Pns \subseteq Nat
    BY RecoveryAssumption DEF Pns
  <2> QED BY <2>1, Finite
<1> SUFFICES ASSUME free # {} PROVE FALSE
  BY <1>a
<1>1. PICK j \in free : \A i \in free : j =< i
  <2>1. free \subseteq Nat
    BY <1>a
  <2> HIDE DEF free
  <2> QED BY <2>1, LeastExists
<1>2. j \in 1 .. Cardinality(ps) /\ j \in Nat /\ ~ \E p \in ps : Cardinality(Below(p)) = j - 1
  BY <1>a
<1>3. CASE j = 1
  <2>1. ps # {}
    BY <1>2, <1>a, FS_EmptySet
  <2>2. PICK p \in ps : \A q \in ps : p =< q
    BY <2>1, <1>a, LeastExists
  <2>3. Below(p) = {}
    <3>1. \A q \in ps : q \in Nat /\ p \in Nat /\ p =< q
      BY <2>2, <1>a
    <3>2. \A q \in ps : ~(q < p)
      BY <3>1
    <3> QED BY <3>2
  <2> QED BY <1>2, <1>3, <2>3, FS_EmptySet
<1>4. CASE j > 1
  <2>1. j - 1 \in 1 .. Cardinality(ps) /\ j - 1 \notin free
    BY <1>1, <1>2, <1>4, <1>a
  <2>2. PICK p \in ps : Cardinality(Below(p)) = (j - 1) - 1
    BY <2>1
  <2> DEFINE upto == Below(p) \cup {p}
             rest == ps \ upto
  <2>3. IsFiniteSet(Below(p)) /\ p \notin Below(p)
    <3>1. Below(p) \subseteq Pns
      OBVIOUS
    <3>2. IsFiniteSet(Below(p))
      BY <3>1, Finite
    <3>3. ~(p < p)
      BY <1>a
    <3> QED BY <3>2, <3>3
  <2>4. Cardinality(upto) = j - 1 /\ upto \subseteq ps /\ IsFiniteSet(upto)
    <3>1. Cardinality(Below(p) \cup {p}) = Cardinality(Below(p)) + 1
      BY <2>3, FS_AddElement
    <3>2. upto \subseteq ps
      OBVIOUS
    <3> QED BY <2>2, <3>1, <3>2, <1>2, Finite
  <2>5. rest # {}
    <3> HIDE DEF upto
    <3>1. Cardinality(upto) # Cardinality(ps)
      BY <2>4, <1>2, <1>a
    <3>2. upto # ps
      BY <3>1
    <3> QED BY <3>2, <2>4
  <2>6. PICK r \in rest : \A q \in rest : r =< q
    BY <2>5, <1>a, LeastExists
  <2>7. Below(r) = upto
    <3>1. \A q \in ps : q \in upto <=> q =< p
      BY <1>a
    <3>2. r > p
      BY <2>6, <3>1, <1>a
    <3>3. \A q \in ps : q < r <=> q =< p
      BY <2>6, <3>1, <3>2, <1>a
    <3> QED BY <3>1, <3>3
  <2> QED BY <2>4, <2>6, <2>7, <1>2
<1> QED BY <1>2, <1>3, <1>4

\* Nth() goes through a set of packets, each at one place.
LEMMA NthFacts ==
    ASSUME NEW ps, ps \subseteq Pns
    PROVE  /\ \A k \in 1 .. Cardinality(ps) : Nth(ps, k) \in ps
           /\ \A j, k \in 1 .. Cardinality(ps) : Nth(ps, j) = Nth(ps, k) => j = k
<1>1. \A k \in 1 .. Cardinality(ps) :
         Nth(ps, k) \in ps /\ Cardinality({q \in ps : q < Nth(ps, k)}) = k - 1
  BY PlaceTaken DEF Nth
<1>2. ASSUME NEW j \in 1 .. Cardinality(ps), NEW k \in 1 .. Cardinality(ps), Nth(ps, j) = Nth(ps, k)
      PROVE  j = k
  <2>1. j - 1 = k - 1
    BY <1>1, <1>2
  <2> QED BY <2>1, Finite
<1> QED BY <1>1, <1>2

-----------------------------------------------------------------------------
(* The ring.                                                               *)

\* The live records of a ring, and the packets they remember.
LEMMA LiveFacts ==
    ASSUME NEW ring, NEW cnt, RingOK(ring, cnt)
    PROVE  /\ Len(ring) \in Nat /\ DOMAIN ring = 1 .. Len(ring)
           /\ Live(ring) \subseteq 1 .. Len(ring) /\ IsFiniteSet(Live(ring))
           /\ \A k \in 1 .. Len(ring) : ring[k] \in Records
           /\ \A k \in Live(ring) : ring[k].pn \in Pns /\ ring[k].episode \in Nat
<1>1. ring \in Seq(Records)
  BY DEF RingOK
<1>2. /\ Len(ring) \in Nat /\ DOMAIN ring = 1 .. Len(ring)
      /\ \A k \in 1 .. Len(ring) : ring[k] \in Records
  BY <1>1
<1>3. Live(ring) \subseteq 1 .. Len(ring)
  BY <1>2 DEF Live
<1>4. IsFiniteSet(Live(ring))
  <2>1. 1 \in Int /\ Len(ring) \in Int
    BY <1>2
  <2>2. IsFiniteSet(1 .. Len(ring))
    BY <2>1, FS_Interval
  <2> QED BY <2>2, <1>3, FS_Subset
<1>5. \A k \in Live(ring) : ring[k].pn \in Pns /\ ring[k].episode \in Nat
  BY <1>2 DEF Live, Records
<1> QED BY <1>2, <1>3, <1>4, <1>5

\* As many records as packets.
LEMMA RecordsCount ==
    ASSUME NEW ring, NEW cnt, RingOK(ring, cnt), NEW K, K \subseteq Live(ring)
    PROVE  Cardinality(K) \in Nat /\ Cardinality(K) = Cardinality({ring[k].pn : k \in K})
<1> DEFINE T == {ring[k].pn : k \in K}
           f == [k \in K |-> ring[k].pn]
<1>1. IsFiniteSet(K)
  BY LiveFacts, FS_Subset
<1>2. f \in [K -> T]
  OBVIOUS
<1>3. \A j, k \in K : f[j] = f[k] => j = k
  BY DEF RingOK
<1>4. \A t \in T : \E k \in K : f[k] = t
  OBVIOUS
<1> HIDE DEF f, T
<1>5. f \in Injection(K, T) /\ f \in Surjection(K, T)
  BY <1>2, <1>3, <1>4 DEF Injection, Surjection, IsInjective
<1>6. Cardinality(T) = Cardinality(K)
  BY <1>1, <1>5, FS_Surjection
<1> QED BY <1>1, <1>6, FS_CardinalityType DEF T

\* takeCovered() forgets what it found, and nothing else.
LEMMA TakeFacts ==
    ASSUME NEW ring, NEW cnt, RingOK(ring, cnt), NEW ks, ks \subseteq Live(ring)
    PROVE  /\ RingOK(TakeCovered(ring, ks), cnt)
           /\ RingPns(TakeCovered(ring, ks)) = RingPns(ring) \ {ring[k].pn : k \in ks}
<1> DEFINE r == [k \in DOMAIN ring |-> IF k \in ks THEN [ring[k] EXCEPT !.pn = None] ELSE ring[k]]
<1> USE DEF None
<1>1. /\ Len(ring) \in Nat /\ DOMAIN ring = 1 .. Len(ring) /\ Live(ring) \subseteq 1 .. Len(ring)
      /\ \A k \in 1 .. Len(ring) : ring[k] \in Records
  BY LiveFacts
<1>2. \A k \in 1 .. Len(ring) : r[k] \in Records /\ (k \notin ks => r[k] = ring[k])
                              /\ (k \in ks => r[k].pn = None)
  BY <1>1 DEF Records
<1>3. r \in [1 .. Len(ring) -> Records]
  <2>1. DOMAIN r = 1 .. Len(ring) /\ r = [k \in 1 .. Len(ring) |-> r[k]]
    BY <1>1
  <2> HIDE DEF r
  <2> QED BY <2>1, <1>2
<1> HIDE DEF r
<1>4. r \in Seq(Records) /\ Len(r) = Len(ring) /\ DOMAIN r = 1 .. Len(ring)
  BY <1>1, <1>3
<1>5. Live(r) = Live(ring) \ ks
  BY <1>1, <1>2, <1>4 DEF Live
<1>6. RingOK(r, cnt)
  <2>1. \A k \in Live(r) : r[k] = ring[k] /\ k \in Live(ring)
    BY <1>1, <1>2, <1>5
  <2> QED BY <1>4, <2>1 DEF RingOK
<1>7. RingPns(r) = RingPns(ring) \ {ring[k].pn : k \in ks}
  <2>1. \A k \in Live(r) : r[k] = ring[k] /\ k \in Live(ring) /\ k \notin ks
    BY <1>1, <1>2, <1>5
  <2>2. \A k \in Live(r), j \in ks : ring[k].pn # ring[j].pn
    BY <2>1 DEF RingOK
  <2>3. RingPns(r) \subseteq RingPns(ring) \ {ring[k].pn : k \in ks}
    BY <2>1, <2>2 DEF RingPns
  <2>4. ASSUME NEW k \in Live(ring), ring[k].pn \notin {ring[j].pn : j \in ks}
        PROVE  ring[k].pn \in RingPns(r)
    <3>1. k \in Live(r)
      BY <2>4, <1>5
    <3> QED BY <3>1, <2>1 DEF RingPns
  <2> QED BY <2>3, <2>4 DEF RingPns
<1>8. CASE Live(r) # {}
  <2>1. TakeCovered(ring, ks) = r
    BY <1>8 DEF TakeCovered, r
  <2> QED BY <2>1, <1>6, <1>7
<1>9. CASE Live(r) = {}
  <2>1. TakeCovered(ring, ks) = <<>>
    BY <1>9 DEF TakeCovered, r
  <2>2. Live(<<>>) = {} /\ <<>> \in Seq(Records) /\ Len(<<>>) = 0
    BY DEF Live
  <2>3. RingOK(<<>>, cnt)
    BY <2>2, RecoveryAssumption DEF RingOK
  <2>4. RingPns(<<>>) = {} /\ RingPns(r) = {}
    BY <2>2, <1>9 DEF RingPns
  <2> QED BY <2>1, <2>3, <2>4, <1>7
<1> QED BY <1>8, <1>9

\* remember() and stampLast() add the packets to what the ring keeps.
LEMMA RememberFacts ==
    ASSUME NEW ring, NEW cnt, RingOK(ring, cnt), NEW ps, ps \subseteq Pns, NEW ep \in Nat,
           \A p \in ps : p \notin RingPns(ring)
    PROVE  /\ RingOK(Remember(ring, ps, ep), [p \in Pns |-> IF p \in ps THEN ep ELSE cnt[p]])
           /\ RingPns(Remember(ring, ps, ep)) \subseteq RingPns(ring) \cup ps
<1> DEFINE m == Len(ring)
           n == Cardinality(ps)
           t == [k \in 1 .. n |-> [pn |-> Nth(ps, k), episode |-> ep]]
           r == ring \o t
           low == Max({1, Len(r) - RingSlots + 1})
           kept == SubSeq(r, low, Len(r))
           cnt2 == [p \in Pns |-> IF p \in ps THEN ep ELSE cnt[p]]
<1>1. m \in Nat /\ n \in Nat /\ RingSlots \in Nat \ {0} /\ ring \in Seq(Records)
  BY LiveFacts, Finite, RecoveryAssumption DEF RingOK
<1>2. \A k \in 1 .. n : t[k] \in Records /\ t[k].pn = Nth(ps, k) /\ t[k].episode = ep
  BY NthFacts DEF Records
<1>3. t \in Seq(Records) /\ Len(t) = n
  <2>1. t \in [1 .. n -> Records]
    BY <1>2
  <2> HIDE DEF t
  <2> QED BY <2>1, <1>1
<1> HIDE DEF t
<1>4. /\ r \in Seq(Records) /\ Len(r) = m + n
      /\ \A i \in 1 .. m + n : r[i] = IF i <= m THEN ring[i] ELSE t[i - m]
  BY <1>1, <1>3, ConcatProperties
<1> HIDE DEF r, m, n
<1>5. /\ low \in Int /\ low >= 1 /\ low >= Len(r) - RingSlots + 1
      /\ \A i \in low .. Len(r) : r[i] \in Records
  <2>1. Len(r) - RingSlots + 1 \in Int
    BY <1>1, <1>4
  <2>2. low = IF 1 >= Len(r) - RingSlots + 1 THEN 1 ELSE Len(r) - RingSlots + 1
    BY <2>1, MaxOfTwo
  <2> HIDE DEF low
  <2>3. low \in Int /\ low >= 1 /\ low >= Len(r) - RingSlots + 1
    BY <2>1, <2>2
  <2> QED BY <2>3, <1>4, <1>1
<1> HIDE DEF low
<1>6. /\ kept \in Seq(Records)
      /\ Len(kept) = (IF low <= Len(r) THEN Len(r) - low + 1 ELSE 0)
      /\ \A i \in 1 .. Len(r) - low + 1 : kept[i] = r[low + i - 1]
  BY <1>4, <1>5, SubSeqProperties
<1>7. Remember(ring, ps, ep) = kept
  BY DEF Remember, kept, low, r, t, n
<1> HIDE DEF kept
<1>8. Len(kept) \in Nat /\ Len(kept) <= RingSlots /\ DOMAIN kept = 1 .. Len(kept)
  BY <1>1, <1>4, <1>5, <1>6
<1>9. \A i \in 1 .. Len(kept) : low + i - 1 \in 1 .. m + n /\ kept[i] = r[low + i - 1]
  BY <1>1, <1>4, <1>5, <1>6, <1>8
\* What r holds.
<1>10. \A i \in 1 .. m : i \in Live(r) => i \in Live(ring) /\ r[i] = ring[i]
  <2>1. \A i \in 1 .. m : r[i] = ring[i] /\ i \in DOMAIN ring
    BY <1>1, <1>4 DEF m
  <2> QED BY <2>1 DEF Live
<1>11. \A i \in 1 .. m + n : i > m => /\ i - m \in 1 .. n /\ r[i].pn = Nth(ps, i - m)
                                      /\ r[i].episode = ep /\ r[i].pn \in ps
  <2>1. \A i \in 1 .. m + n : i > m => i - m \in 1 .. n /\ r[i] = t[i - m]
    BY <1>1, <1>4
  <2> QED BY <2>1, <1>2, NthFacts DEF n
<1>12. DOMAIN r = 1 .. m + n
  BY <1>4
<1>13. \A i \in Live(r) : i \in 1 .. m + n /\ (i \in 1 .. m \/ i > m)
  BY <1>12, <1>1 DEF Live
<1>14. \A i \in Live(r) : cnt2[r[i].pn] = r[i].episode /\ r[i].pn \in RingPns(ring) \cup ps
  <2>1. ASSUME NEW i \in Live(r), i \in 1 .. m
        PROVE  cnt2[r[i].pn] = r[i].episode /\ r[i].pn \in RingPns(ring)
    <3>1. i \in Live(ring) /\ r[i] = ring[i]
      BY <2>1, <1>10
    <3>2. ring[i].pn \in Pns /\ cnt[ring[i].pn] = ring[i].episode /\ ring[i].pn \in RingPns(ring)
      BY <3>1, LiveFacts DEF RingOK, RingPns
    <3> QED BY <3>1, <3>2
  <2>2. ASSUME NEW i \in Live(r), i \in 1 .. m + n, i > m
        PROVE  cnt2[r[i].pn] = r[i].episode /\ r[i].pn \in ps
    BY <2>2, <1>11
  <2> QED BY <2>1, <2>2, <1>13
<1>15. \A i, j \in Live(r) : r[i].pn = r[j].pn => i = j
  <2>1. ASSUME NEW i \in Live(r), NEW j \in Live(r), i \in 1 .. m, j \in 1 .. m, r[i].pn = r[j].pn
        PROVE  i = j
    BY <2>1, <1>10 DEF RingOK
  <2>2. ASSUME NEW i \in Live(r), NEW j \in Live(r), i > m, j > m, r[i].pn = r[j].pn
        PROVE  i = j
    <3>1. i - m \in 1 .. n /\ j - m \in 1 .. n /\ Nth(ps, i - m) = Nth(ps, j - m)
      BY <2>2, <1>11, <1>13
    <3>2. i - m = j - m
      BY <3>1, NthFacts DEF n
    <3> QED BY <3>2, <1>13, <1>1
  <2>3. ASSUME NEW i \in Live(r), NEW j \in Live(r), i \in 1 .. m, j > m
        PROVE  r[i].pn # r[j].pn
    <3>1. r[j].pn \in ps
      BY <2>3, <1>11, <1>13
    <3>2. r[i].pn \in RingPns(ring)
      BY <2>3, <1>10 DEF RingPns
    <3> QED BY <3>1, <3>2
  <2> QED BY <2>1, <2>2, <2>3, <1>13
\* The same of the part that is kept.
<1>16. \A i \in Live(kept) : i \in 1 .. Len(kept) /\ low + i - 1 \in Live(r) /\ kept[i] = r[low + i - 1]
  BY <1>8, <1>9, <1>12 DEF Live
<1>17. \A i, j \in Live(kept) : kept[i].pn = kept[j].pn => i = j
  <2> TAKE i, j \in Live(kept)
  <2> HAVE kept[i].pn = kept[j].pn
  <2>1. low + i - 1 = low + j - 1
    BY <1>15, <1>16
  <2> QED BY <2>1, <1>16, <1>5, <1>8
<1>18. \A i \in Live(kept) :
          cnt2[kept[i].pn] = kept[i].episode /\ kept[i].pn \in RingPns(ring) \cup ps
  <2> HIDE DEF cnt2
  <2> TAKE i \in Live(kept)
  <2>1. low + i - 1 \in Live(r) /\ kept[i] = r[low + i - 1]
    BY <1>16
  <2> QED BY <2>1, <1>14
<1>19. RingOK(kept, cnt2)
  <2> HIDE DEF cnt2
  <2> QED BY <1>6, <1>8, <1>17, <1>18 DEF RingOK
<1>20. RingPns(kept) \subseteq RingPns(ring) \cup ps
  <2> HIDE DEF cnt2
  <2> QED BY <1>18 DEF RingPns
<1> QED BY <1>7, <1>19, <1>20

-----------------------------------------------------------------------------
(* The loss episodes.                                                      *)

\* Two disjoint sets of packets have no more than the set they are in.
LEMMA Disjoint ==
    ASSUME NEW U, U \subseteq Pns, NEW A, A \subseteq U, NEW B, B \subseteq U \ A
    PROVE  Cardinality(A) + Cardinality(B) <= Cardinality(U)
<1>1. IsFiniteSet(A) /\ IsFiniteSet(B) /\ Cardinality(A) \in Nat /\ Cardinality(B) \in Nat
  BY Finite
<1>2. A \cap B = {}
  OBVIOUS
<1>3. Cardinality(A \cup B) = Cardinality(A) + Cardinality(B)
  BY <1>1, <1>2, FS_Union, FS_EmptySet
<1>4. A \cup B \subseteq U
  OBVIOUS
<1> QED BY <1>3, <1>4, Fewer

\* open(): what the current episode waits for is the previous one's now.
LEMMA OpenFields ==
    ASSUME NEW e \in EpisodeType, next_pn \in Nat
    PROVE  /\ OpenEpisode(e) \in EpisodeType
           /\ OpenEpisode(e).episode = e.episode + 1 /\ OpenEpisode(e).pending = 0
           /\ OpenEpisode(e).undoable = TRUE /\ OpenEpisode(e).undone = e.undone
           /\ OpenEpisode(e).prev_pending = e.pending
           /\ OpenEpisode(e).prev_undoable = (e.undoable /\ e.pending # 0)
<1>1. /\ OpenEpisode(e).episode = e.episode + 1 /\ OpenEpisode(e).pending = 0
      /\ OpenEpisode(e).undone = e.undone /\ OpenEpisode(e).prev_pending = e.pending
  BY DEF OpenEpisode, EpisodeType
<1>2. OpenEpisode(e).undoable = TRUE
  BY DEF OpenEpisode, EpisodeType
<1>3. OpenEpisode(e).prev_undoable = (e.undoable /\ e.pending # 0)
  BY DEF OpenEpisode, EpisodeType
<1>4. OpenEpisode(e) \in EpisodeType
  <2> DEFINE b  == e.undoable /\ e.pending # 0
             e1 == [e EXCEPT !.episode = @ + 1]
             e2 == [e1 EXCEPT !.pending = 0]
             e3 == [e2 EXCEPT !.undoable = TRUE]
             e4 == [e3 EXCEPT !.opened_at = next_pn]
             e5 == [e4 EXCEPT !.prev_pending = e.pending]
             e6 == [e5 EXCEPT !.prev_undoable = b]
  <2>1. b \in BOOLEAN /\ e.pending \in Nat
    BY DEF EpisodeType
  <2>2. OpenEpisode(e) = e6
    BY DEF OpenEpisode
  <2> HIDE DEF b
  <2>3. e1 \in EpisodeType
    BY DEF EpisodeType
  <2> HIDE DEF e1
  <2>4. e2 \in EpisodeType
    BY <2>3 DEF EpisodeType
  <2> HIDE DEF e2
  <2>5. e3 \in EpisodeType
    BY <2>4 DEF EpisodeType
  <2> HIDE DEF e3
  <2>6. e4 \in EpisodeType
    BY <2>5 DEF EpisodeType
  <2> HIDE DEF e4
  <2>7. e5 \in EpisodeType
    BY <2>1, <2>6 DEF EpisodeType
  <2> HIDE DEF e5
  <2>8. e6 \in EpisodeType
    BY <2>1, <2>7 DEF EpisodeType
  <2> QED BY <2>2, <2>8
<1> QED BY <1>1, <1>2, <1>3, <1>4

\* open() leaves the counts of both episodes sound.
LEMMA OpenFacts ==
    ASSUME NEW e, NEW start, NEW ring, NEW cnt, NEW got, NEW s, next_pn \in Nat,
           EpisodesOK(e, start, ring, cnt, got)
    PROVE  EpisodesOK(OpenEpisode(e), s, ring, cnt, got) /\ OpenEpisode(e).episode \notin e.undone
<1> DEFINE e2 == OpenEpisode(e)
<1>1. CountsOK(e, cnt) /\ RingOK(ring, cnt) /\ e \in EpisodeType
  BY DEF EpisodesOK, CountsOK
<1>2. /\ e2 \in EpisodeType /\ e2.episode = e.episode + 1 /\ e2.pending = 0
      /\ e2.undoable = TRUE /\ e2.undone = e.undone /\ e2.prev_pending = e.pending
      /\ e2.prev_undoable = (e.undoable /\ e.pending # 0)
  BY <1>1, OpenFields
<1>3. e.episode \in Nat /\ e.pending \in Nat /\ e.undone \subseteq Nat /\ cnt \in [Pns -> Int]
  BY <1>1 DEF EpisodeType, CountsOK
<1> HIDE DEF e2
<1>4. e2.episode \notin e.undone
  BY <1>1, <1>2, <1>3 DEF CountsOK
<1>5. CountsOK(e2, cnt)
  <2>1. \A p \in Pns : cnt[p] <= e2.episode
    BY <1>1, <1>2, <1>3 DEF CountsOK
  <2>2. \A n \in e2.undone : 1 <= n /\ n <= e2.episode
    BY <1>1, <1>2, <1>3 DEF CountsOK
  <2>3. e2.episode >= 1 /\ (e2.prev_undoable => e2.episode >= 2)
    <3>1. e2.prev_undoable => e.undoable
      BY <1>2
    <3>2. e.undoable => e.episode >= 1
      BY <1>1 DEF CountsOK
    <3> QED BY <1>2, <1>3, <3>1, <3>2
  <2> QED BY <1>2, <1>3, <1>4, <2>1, <2>2, <2>3 DEF CountsOK
<1>6. Cardinality(Open(e2.episode, ring, cnt, got)) <= e2.pending
  <2>1. \A p \in Pns : cnt[p] # e2.episode
    BY <1>1, <1>2, <1>3 DEF CountsOK
  <2>2. Open(e2.episode, ring, cnt, got) = {}
    BY <2>1 DEF Open
  <2> QED BY <2>2, <1>2, FS_EmptySet
<1>7. Cardinality(Open(e2.episode - 1, ring, cnt, got)) <= e2.prev_pending
  <2>1. e2.episode - 1 = e.episode
    BY <1>2, <1>3
  <2> QED BY <2>1, <1>2 DEF EpisodesOK
<1> QED BY <1>1, <1>2, <1>4, <1>5, <1>6, <1>7 DEF EpisodesOK, e2

\* The end of a recovery period changes nothing else.
LEMMA EndFacts ==
    ASSUME NEW e, NEW start, NEW ring, NEW cnt, NEW got, EpisodesOK(e, start, ring, cnt, got)
    PROVE  EpisodesOK(e, None, ring, cnt, got)
BY DEF EpisodesOK

\* A packet that arrives is one fewer to wait for.
LEMMA GotFacts ==
    ASSUME NEW e, NEW start, NEW ring, NEW cnt, NEW got, NEW more, got \subseteq more,
           EpisodesOK(e, start, ring, cnt, got)
    PROVE  EpisodesOK(e, start, ring, cnt, more)
<1>1. e \in EpisodeType /\ e.pending \in Nat /\ e.prev_pending \in Nat
  BY DEF EpisodesOK, CountsOK, EpisodeType
<1>2. \A n : /\ Cardinality(Open(n, ring, cnt, more)) <= Cardinality(Open(n, ring, cnt, got))
             /\ Cardinality(Open(n, ring, cnt, more)) \in Nat
             /\ Cardinality(Open(n, ring, cnt, got)) \in Nat
  <2> TAKE n
  <2>1. Open(n, ring, cnt, more) \subseteq Open(n, ring, cnt, got)
    BY DEF Open
  <2>2. Open(n, ring, cnt, got) \subseteq Pns
    BY DEF Open
  <2> QED BY <2>1, <2>2, Fewer
<1>3. Cardinality(Open(e.episode, ring, cnt, more)) <= e.pending
  BY <1>1, <1>2 DEF EpisodesOK
<1>4. e.prev_undoable => Cardinality(Open(e.episode - 1, ring, cnt, more)) <= e.prev_pending
  BY <1>1, <1>2 DEF EpisodesOK
<1> QED BY <1>3, <1>4 DEF EpisodesOK

\* Those of the records `late' that are of episode n.
Found(ring, late, n) == {k \in late : ring[k].episode = n}

\* What a range of an ACK finds in the ring was waited for, and is not any more.
LEMMA FoundFacts ==
    ASSUME NEW ring, NEW cnt, NEW got, NEW a, NEW n, a \subseteq got, RingOK(ring, cnt),
           NEW late, late = {k \in Live(ring) : ring[k].pn \in a}
    PROVE  /\ Cardinality(Found(ring, late, n)) \in Nat
           /\ Cardinality(Open(n, ring, cnt, got)) \in Nat
           /\ Cardinality(Open(n, TakeCovered(ring, late), cnt, got)) \in Nat
           /\ Cardinality(Open(n, TakeCovered(ring, late), cnt, got))
                + Cardinality(Found(ring, late, n))
                <= Cardinality(Open(n, ring, cnt, got))
           /\ Cardinality(Found(ring, late, n)) >= Cardinality(Open(n, ring, cnt, got))
                => \A p \in Pns : cnt[p] = n => p \in got
<1> DEFINE K     == Found(ring, late, n)
           U     == Open(n, ring, cnt, got)
           U2    == Open(n, TakeCovered(ring, late), cnt, got)
           A     == {ring[k].pn : k \in K}
<1>1. late \subseteq Live(ring) /\ K \subseteq Live(ring)
  BY DEF Found
<1>2. Cardinality(K) \in Nat /\ Cardinality(K) = Cardinality(A)
  <2> HIDE DEF K
  <2> QED BY <1>1, RecordsCount
<1>3. RingPns(TakeCovered(ring, late)) = RingPns(ring) \ {ring[k].pn : k \in late}
  BY <1>1, TakeFacts
<1>4. A \subseteq U
  <2>1. \A k \in K : ring[k].pn \in Pns /\ cnt[ring[k].pn] = n /\ ring[k].pn \in RingPns(ring)
    BY LiveFacts DEF RingOK, RingPns, Found
  <2> QED BY <2>1 DEF Open
<1>5. U2 \subseteq U \ A
  <2>1. U2 \subseteq U
    BY <1>3 DEF Open
  <2>2. \A k \in K : ring[k].pn \in got /\ ring[k].pn \notin RingPns(TakeCovered(ring, late))
    BY <1>3 DEF Found
  <2>3. \A k \in K : ring[k].pn \notin U2
    BY <2>2 DEF Open
  <2> QED BY <2>1, <2>3
<1>6. A \subseteq got
  BY DEF Found
<1>7. U \subseteq Pns /\ U2 \subseteq Pns
  BY DEF Open
<1> HIDE DEF A, K, U, U2
<1>8. Cardinality(U) \in Nat /\ Cardinality(U2) \in Nat /\ Cardinality(A) \in Nat
  BY <1>2, <1>7, Finite
<1>9. Cardinality(A) + Cardinality(U2) <= Cardinality(U)
  BY <1>4, <1>5, <1>7, Disjoint
<1>10. Cardinality(A) >= Cardinality(U) => A = U
  BY <1>4, <1>7, <1>8, Fewer
<1>11. A = U => \A p \in Pns : cnt[p] = n => p \in got
  BY <1>6 DEF U, Open
<1>12. Cardinality(K) >= Cardinality(U) => \A p \in Pns : cnt[p] = n => p \in got
  BY <1>2, <1>10, <1>11
<1>13. Cardinality(U2) + Cardinality(K) <= Cardinality(U)
  BY <1>2, <1>8, <1>9
<1> QED BY <1>2, <1>8, <1>12, <1>13 DEF K, U, U2

Undo(e, cur)      == e.undoable /\ e.pending # 0 /\ cur >= e.pending
UndoPrev(e, prev) == e.prev_undoable /\ e.prev_pending # 0 /\ prev >= e.prev_pending

\* arrived(): what each field becomes.
LEMMA ArrivedFields ==
    ASSUME NEW e, NEW cnt, CountsOK(e, cnt), NEW cur \in Nat, NEW prev \in Nat
    PROVE  /\ Arrived(e, cur, prev) \in EpisodeType
           /\ Arrived(e, cur, prev).episode = e.episode
           /\ Arrived(e, cur, prev).pending = (IF cur <= e.pending THEN e.pending - cur ELSE 0)
           /\ Arrived(e, cur, prev).undoable = (e.undoable /\ ~Undo(e, cur))
           /\ Arrived(e, cur, prev).prev_undoable = (e.prev_undoable /\ ~UndoPrev(e, prev))
           /\ e.prev_undoable => Arrived(e, cur, prev).prev_pending =
                 (IF prev <= e.prev_pending THEN e.prev_pending - prev ELSE 0)
           /\ Arrived(e, cur, prev).undone =
                 e.undone \cup (IF Undo(e, cur) THEN {e.episode} ELSE {})
                          \cup (IF UndoPrev(e, prev) THEN {e.episode - 1} ELSE {})
<1> DEFINE pend == Max({0, e.pending - cur})
           und  == e.undoable /\ ~Undo(e, cur)
           pp   == IF e.prev_undoable THEN Max({0, e.prev_pending - prev}) ELSE e.prev_pending
           pu   == e.prev_undoable /\ ~UndoPrev(e, prev)
           done == e.undone \cup (IF Undo(e, cur) THEN {e.episode} ELSE {})
                            \cup (IF UndoPrev(e, prev) THEN {e.episode - 1} ELSE {})
           e1   == [e EXCEPT !.pending = pend]
           e2   == [e1 EXCEPT !.undoable = und]
           e3   == [e2 EXCEPT !.prev_pending = pp]
           e4   == [e3 EXCEPT !.prev_undoable = pu]
           e5   == [e4 EXCEPT !.undone = done]
<1>1. /\ e \in EpisodeType /\ e.episode \in Nat /\ e.pending \in Nat /\ e.prev_pending \in Nat
      /\ e.undone \subseteq Nat /\ e.undoable \in BOOLEAN /\ e.prev_undoable \in BOOLEAN
  BY DEF CountsOK, EpisodeType
<1>2. e.pending - cur \in Int /\ e.prev_pending - prev \in Int /\ 0 \in Int
  BY <1>1
<1>3. pend = (IF cur <= e.pending THEN e.pending - cur ELSE 0)
  BY <1>1, <1>2, MaxOfTwo
<1>4. Max({0, e.prev_pending - prev}) = (IF prev <= e.prev_pending THEN e.prev_pending - prev ELSE 0)
  BY <1>1, <1>2, MaxOfTwo
<1>5. pend \in Nat /\ pp \in Nat
  BY <1>1, <1>3, <1>4
<1>6. und \in BOOLEAN /\ pu \in BOOLEAN
  OBVIOUS
<1>7. done \subseteq Nat
  <2>1. UndoPrev(e, prev) => e.episode - 1 \in Nat
    BY <1>1 DEF UndoPrev, CountsOK
  <2> QED BY <1>1, <2>1
<1>8. Arrived(e, cur, prev) = e5
  BY DEF Arrived, Undo, UndoPrev
<1>9. e.prev_undoable => pp = Max({0, e.prev_pending - prev})
  OBVIOUS
<1> HIDE DEF pend, und, pp, pu, done
<1>10. e1 \in EpisodeType /\ e1.pending = pend /\ e1.episode = e.episode
  BY <1>1, <1>5 DEF EpisodeType
<1> HIDE DEF e1
<1>11. e2 \in EpisodeType /\ e2.pending = pend /\ e2.episode = e.episode /\ e2.undoable = und
  BY <1>6, <1>10 DEF EpisodeType
<1> HIDE DEF e2
<1>12. e3 \in EpisodeType /\ e3.pending = pend /\ e3.episode = e.episode /\ e3.undoable = und
       /\ e3.prev_pending = pp
  BY <1>5, <1>11 DEF EpisodeType
<1> HIDE DEF e3
<1>13. e4 \in EpisodeType /\ e4.pending = pend /\ e4.episode = e.episode /\ e4.undoable = und
       /\ e4.prev_pending = pp /\ e4.prev_undoable = pu
  BY <1>6, <1>12 DEF EpisodeType
<1> HIDE DEF e4
<1>14. e5 \in EpisodeType /\ e5.pending = pend /\ e5.episode = e.episode /\ e5.undoable = und
       /\ e5.prev_pending = pp /\ e5.prev_undoable = pu /\ e5.undone = done
  BY <1>7, <1>13 DEF EpisodeType
<1> HIDE DEF e5
<1>15. e.prev_undoable => pp = (IF prev <= e.prev_pending THEN e.prev_pending - prev ELSE 0)
  BY <1>4, <1>9
<1> QED BY <1>3, <1>8, <1>14, <1>15 DEF und, pu, done

\* An ACK finds remembered losses: an episode is taken back only when nothing of
\* it is missing, and then nothing more is counted in it.
LEMMA ArrivedFacts ==
    ASSUME NEW e, NEW start, NEW ring, NEW cnt, NEW got, NEW a, a \subseteq got,
           EpisodesOK(e, start, ring, cnt, got)
    PROVE  LET late  == {k \in Live(ring) : ring[k].pn \in a}
               In(n) == Cardinality({k \in late : ring[k].episode = n})
               e1    == Arrived(e, In(e.episode), In(e.episode - 1))
           IN  EpisodesOK(e1, RecoveryAfterUndo(e, e1, start), TakeCovered(ring, late), cnt, got)
<1> DEFINE late  == {k \in Live(ring) : ring[k].pn \in a}
           In(n) == Cardinality(Found(ring, late, n))
           cur   == In(e.episode)
           prev  == In(e.episode - 1)
           e1    == Arrived(e, cur, prev)
           s1    == RecoveryAfterUndo(e, e1, start)
           ring2 == TakeCovered(ring, late)
           O(n)  == Cardinality(Open(n, ring, cnt, got))
           O2(n) == Cardinality(Open(n, ring2, cnt, got))
<1>1. CountsOK(e, cnt) /\ RingOK(ring, cnt)
  BY DEF EpisodesOK
<1>2. \A n : /\ In(n) \in Nat /\ O(n) \in Nat /\ O2(n) \in Nat /\ O2(n) + In(n) <= O(n)
             /\ In(n) >= O(n) => \A p \in Pns : cnt[p] = n => p \in got
  <2> SUFFICES ASSUME NEW n
               PROVE  /\ In(n) \in Nat /\ O(n) \in Nat /\ O2(n) \in Nat /\ O2(n) + In(n) <= O(n)
                      /\ In(n) >= O(n) => \A p \in Pns : cnt[p] = n => p \in got
    OBVIOUS
  <2>1. late = {k \in Live(ring) : ring[k].pn \in a}
    OBVIOUS
  <2> HIDE DEF late
  <2> QED BY <1>1, <2>1, FoundFacts
<1>3. RingOK(ring2, cnt)
  BY <1>1, TakeFacts
<1>4. /\ e.episode \in Nat /\ e.pending \in Nat /\ e.prev_pending \in Nat
      /\ e.undone \subseteq Nat /\ e.undoable \in BOOLEAN /\ e.prev_undoable \in BOOLEAN
      /\ cnt \in [Pns -> Int]
  BY <1>1 DEF CountsOK, EpisodeType
<1>5. /\ O(e.episode) <= e.pending
      /\ e.prev_undoable => O(e.episode - 1) <= e.prev_pending
      /\ \A p \in Pns : cnt[p] \in e.undone => p \in got
      /\ e.episode \in e.undone => start = None
  BY DEF EpisodesOK
<1>6. /\ cur \in Nat /\ prev \in Nat
      /\ O(e.episode) \in Nat /\ O2(e.episode) \in Nat /\ O2(e.episode) + cur <= O(e.episode)
      /\ O(e.episode - 1) \in Nat /\ O2(e.episode - 1) \in Nat
      /\ O2(e.episode - 1) + prev <= O(e.episode - 1)
  BY <1>2
<1> HIDE DEF late, In, O, O2, ring2
<1>7. /\ e1 \in EpisodeType /\ e1.episode = e.episode
      /\ e1.pending = (IF cur <= e.pending THEN e.pending - cur ELSE 0)
      /\ e1.undoable = (e.undoable /\ ~Undo(e, cur))
      /\ e1.prev_undoable = (e.prev_undoable /\ ~UndoPrev(e, prev))
      /\ e.prev_undoable => e1.prev_pending =
                 (IF prev <= e.prev_pending THEN e.prev_pending - prev ELSE 0)
      /\ e1.undone = e.undone \cup (IF Undo(e, cur) THEN {e.episode} ELSE {})
                              \cup (IF UndoPrev(e, prev) THEN {e.episode - 1} ELSE {})
  BY <1>1, <1>6, ArrivedFields
<1> HIDE DEF cur, prev, e1
<1>8. /\ Undo(e, cur) => e.undoable /\ cur >= O(e.episode)
      /\ UndoPrev(e, prev) => e.prev_undoable /\ prev >= O(e.episode - 1)
  BY <1>4, <1>5, <1>6 DEF Undo, UndoPrev
<1>9. /\ e1.undoable => e.undoable /\ ~Undo(e, cur)
      /\ e1.prev_undoable => e.prev_undoable
  BY <1>7
<1>10. \A p \in Pns : cnt[p] \in e1.undone => p \in got
  <2>1. Undo(e, cur) => \A p \in Pns : cnt[p] = e.episode => p \in got
    BY <1>2, <1>8 DEF cur
  <2>2. UndoPrev(e, prev) => \A p \in Pns : cnt[p] = e.episode - 1 => p \in got
    BY <1>2, <1>8 DEF prev
  <2> QED BY <1>5, <1>7, <2>1, <2>2
<1>11. e1.episode \in e1.undone => s1 = None
  <2>1. CASE e.episode \in e.undone
    <3>1. start = None
      BY <2>1, <1>5
    <3> QED BY <3>1 DEF RecoveryAfterUndo
  <2>2. CASE e.episode \notin e.undone /\ Undo(e, cur)
    <3>1. e1.undone # e.undone
      BY <2>2, <1>7
    <3>2. ~e1.undoable
      BY <2>2, <1>9
    <3> QED BY <3>1, <3>2 DEF RecoveryAfterUndo
  <2>3. CASE e.episode \notin e.undone /\ ~Undo(e, cur)
    <3>1. e.episode # e.episode - 1
      BY <1>4
    <3>2. e.episode \notin e1.undone
      BY <2>3, <3>1, <1>7
    <3> QED BY <3>2, <1>7
  <2> QED BY <2>1, <2>2, <2>3
<1>12. CountsOK(e1, cnt)
  <2>1. \A p \in Pns : cnt[p] <= e1.episode
    BY <1>1, <1>7 DEF CountsOK
  <2>2. \A n \in e1.undone : 1 <= n /\ n <= e1.episode
    <3>1. UndoPrev(e, prev) => e.episode >= 2
      BY <1>1, <1>8 DEF CountsOK
    <3>2. Undo(e, cur) => e.episode >= 1
      BY <1>1, <1>8 DEF CountsOK
    <3>3. \A n \in e.undone : 1 <= n /\ n <= e.episode
      BY <1>1 DEF CountsOK
    <3>4. \A n \in e1.undone : \/ n \in e.undone
                               \/ n = e.episode /\ Undo(e, cur)
                               \/ n = e.episode - 1 /\ UndoPrev(e, prev)
      BY <1>7
    <3> QED BY <3>1, <3>2, <3>3, <3>4, <1>4, <1>7
  <2>3. e1.undoable => e1.episode >= 1 /\ e1.episode \notin e1.undone
    <3>1. e.undoable => e.episode >= 1 /\ e.episode \notin e.undone
      BY <1>1 DEF CountsOK
    <3>2. e.episode # e.episode - 1
      BY <1>4
    <3>3. e1.undoable => e.episode \notin e1.undone
      BY <1>7, <1>9, <3>1, <3>2
    <3> QED BY <1>7, <1>9, <3>1, <3>3
  <2>4. e1.prev_undoable => e1.episode >= 2
    BY <1>1, <1>7, <1>9 DEF CountsOK
  <2> QED BY <1>4, <1>7, <2>1, <2>2, <2>3, <2>4 DEF CountsOK
<1>13. O2(e1.episode) <= e1.pending
  BY <1>4, <1>5, <1>6, <1>7
<1>14. e1.prev_undoable => O2(e1.episode - 1) <= e1.prev_pending
  <2>1. CASE e.prev_undoable
    <3>1. e1.prev_pending = (IF prev <= e.prev_pending THEN e.prev_pending - prev ELSE 0)
      BY <2>1, <1>7
    <3>2. O(e.episode - 1) <= e.prev_pending
      BY <2>1, <1>5
    <3>3. O2(e.episode - 1) <= e1.prev_pending
      BY <3>1, <3>2, <1>4, <1>6
    <3> QED BY <3>3, <1>7
  <2> QED BY <2>1, <1>9
<1> QED BY <1>3, <1>10, <1>11, <1>12, <1>13, <1>14
    DEF EpisodesOK, O2, e1, cur, prev, In, late, ring2, Found

\* Losses counted in an episode that was not taken back.
LEMMA CountFacts ==
    ASSUME NEW e, NEW start, NEW ring, NEW cnt, NEW got, NEW s, NEW ps, ps \subseteq Pns,
           EpisodesOK(e, start, ring, cnt, got), e.episode \notin e.undone,
           \A p \in ps : cnt[p] = None
    PROVE  EpisodesOK(CountLost(e, Cardinality(ps)), s, Remember(ring, ps, e.episode),
                      [p \in Pns |-> IF p \in ps THEN e.episode ELSE cnt[p]], got)
<1> DEFINE n     == Cardinality(ps)
           e2    == CountLost(e, n)
           ring2 == Remember(ring, ps, e.episode)
           cnt2  == [p \in Pns |-> IF p \in ps THEN e.episode ELSE cnt[p]]
<1>1. /\ CountsOK(e, cnt) /\ RingOK(ring, cnt) /\ e \in EpisodeType
      /\ e.episode \in Nat /\ e.pending \in Nat /\ e.prev_pending \in Nat /\ cnt \in [Pns -> Int]
  BY DEF EpisodesOK, CountsOK, EpisodeType
<1>2. n \in Nat /\ IsFiniteSet(ps)
  BY Finite
<1>3. \A p \in ps : p \notin RingPns(ring)
  <2>1. \A k \in Live(ring) : cnt[ring[k].pn] = ring[k].episode /\ ring[k].episode \in Nat
    BY <1>1, LiveFacts DEF RingOK
  <2>2. \A k \in Live(ring) : cnt[ring[k].pn] # None
    BY <2>1 DEF None
  <2> QED BY <2>2 DEF RingPns
<1>4. RingOK(ring2, cnt2) /\ RingPns(ring2) \subseteq RingPns(ring) \cup ps
  BY <1>1, <1>3, RememberFacts
<1> HIDE DEF n
<1>5. /\ e2 \in EpisodeType /\ e2.episode = e.episode /\ e2.pending = e.pending + n
      /\ e2.undone = e.undone /\ e2.prev_pending = e.prev_pending
  BY <1>1, <1>2 DEF CountLost, EpisodeType
<1>6. e2.undoable = e.undoable /\ e2.prev_undoable = e.prev_undoable
  BY <1>1 DEF CountLost, EpisodeType
<1>7. /\ cnt2 \in [Pns -> Int] /\ (\A p \in ps : cnt2[p] = e.episode)
      /\ \A p \in Pns \ ps : cnt2[p] = cnt[p]
  BY <1>1
<1> HIDE DEF e2, ring2, cnt2
<1>8. CountsOK(e2, cnt2)
  <2>1. \A p \in Pns : cnt2[p] <= e2.episode
    <3> TAKE p \in Pns
    <3>1. CASE p \in ps
      BY <3>1, <1>1, <1>5, <1>7
    <3>2. CASE p \notin ps
      BY <3>2, <1>1, <1>5, <1>7 DEF CountsOK
    <3> QED BY <3>1, <3>2
  <2> QED BY <1>1, <1>5, <1>6, <1>7, <2>1 DEF CountsOK
<1>9. Cardinality(Open(e2.episode, ring2, cnt2, got)) <= e2.pending
  <2> DEFINE U == Open(e.episode, ring, cnt, got)
             U2 == Open(e2.episode, ring2, cnt2, got)
  <2>1. U2 \subseteq U \cup ps /\ U \cup ps \subseteq Pns
    BY <1>4, <1>5, <1>7 DEF Open
  <2>2. IsFiniteSet(U) /\ Cardinality(U) \in Nat /\ Cardinality(U) <= e.pending
    <3>1. U \subseteq Pns
      BY DEF Open
    <3> QED BY <3>1, Finite DEF EpisodesOK
  <2>3. Cardinality(U2) <= Cardinality(U \cup ps) /\ Cardinality(U2) \in Nat
        /\ Cardinality(U \cup ps) \in Nat
    BY <2>1, Fewer
  <2>4. Cardinality(U \cup ps) = Cardinality(U) + n - Cardinality(U \cap ps)
    BY <2>2, <1>2, FS_Union DEF n
  <2>5. Cardinality(U \cap ps) \in Nat
    BY Finite
  <2> HIDE DEF U, U2
  <2>6. Cardinality(U2) <= e2.pending
    BY <2>2, <2>3, <2>4, <2>5, <1>1, <1>2, <1>5
  <2> QED BY <2>6 DEF U2
<1>10. e2.prev_undoable => Cardinality(Open(e2.episode - 1, ring2, cnt2, got)) <= e2.prev_pending
  <2> DEFINE U == Open(e.episode - 1, ring, cnt, got)
             U2 == Open(e2.episode - 1, ring2, cnt2, got)
  <2>1. e.episode # e.episode - 1
    BY <1>1
  <2>2. U2 \subseteq U /\ U \subseteq Pns
    BY <1>4, <1>5, <1>7, <2>1 DEF Open
  <2>3. Cardinality(U2) <= Cardinality(U) /\ Cardinality(U2) \in Nat /\ Cardinality(U) \in Nat
    BY <2>2, Fewer
  <2>4. e.prev_undoable => Cardinality(U) <= e.prev_pending
    BY DEF EpisodesOK
  <2> HIDE DEF U, U2
  <2>5. e2.prev_undoable => Cardinality(U2) <= e2.prev_pending
    BY <2>3, <2>4, <1>1, <1>5, <1>6
  <2> QED BY <2>5 DEF U2
<1>11. \A p \in Pns : cnt2[p] \in e2.undone => p \in got
  BY <1>5, <1>7 DEF EpisodesOK
<1> QED BY <1>4, <1>5, <1>8, <1>9, <1>10, <1>11 DEF EpisodesOK, e2, ring2, cnt2, n

\* The controller hears of losses: they are counted where they belong.
LEMMA DeclareFacts ==
    ASSUME NEW e, NEW start, NEW ring, NEW got, NEW ps, NEW persistent, next_pn \in Nat,
           EpisodesOK(e, start, ring, counted, got), ps \subseteq sent, sent \subseteq Pns,
           CountedOnce, NEW d, d = Declare(ps, persistent, e, start, ring)
    PROVE  /\ EpisodesOK(d.e, d.start, d.ring, d.counted, got)
           /\ \A p \in Pns : d.counted[p] # None => counted[p] # None \/ p \in ps
<1>1. CASE ps = {}
  BY <1>1 DEF Declare
<1>2. CASE ps # {}
  <2> DEFINE opens == ~InRecovery(start, Max(ps))
             e1    == IF opens THEN OpenEpisode(e) ELSE e
             s1    == IF persistent THEN None ELSE IF opens THEN next_pn ELSE start
             cnt2  == [p \in Pns |-> IF p \in ps THEN e1.episode ELSE counted[p]]
  <2>1. /\ d.e = CountLost(e1, Cardinality(ps)) /\ d.start = s1
        /\ d.ring = Remember(ring, ps, e1.episode) /\ d.counted = cnt2
    BY <1>2 DEF Declare
  <2>2. EpisodesOK(e1, start, ring, counted, got) /\ e1.episode \notin e1.undone
    <3>1. CASE opens
      <4>1. e1 = OpenEpisode(e) /\ e1.undone = e.undone
        BY <3>1, OpenFields DEF EpisodesOK, CountsOK
      <4> QED BY <4>1, OpenFacts
    <3>2. CASE ~opens
      <4>1. start # None
        BY <3>2 DEF InRecovery
      <4> QED BY <3>2, <4>1 DEF EpisodesOK
    <3> QED BY <3>1, <3>2
  <2>3. \A p \in ps : counted[p] = None
    BY DEF CountedOnce
  <2>4. ps \subseteq Pns
    OBVIOUS
  <2>5. \A p \in Pns : cnt2[p] # None => counted[p] # None \/ p \in ps
    OBVIOUS
  <2> HIDE DEF opens, e1, s1
  <2>6. EpisodesOK(CountLost(e1, Cardinality(ps)), s1, Remember(ring, ps, e1.episode), cnt2, got)
    BY <2>2, <2>3, <2>4, CountFacts
  <2> HIDE DEF cnt2
  <2> QED BY <2>1, <2>5, <2>6
<1> QED BY <1>1, <1>2

-----------------------------------------------------------------------------
(* The frames.                                                             *)

FramesOK ==
    /\ owned \in [Pns -> SUBSET Frames] /\ copied \in [Pns -> SUBSET Data]
    /\ queued \subseteq Frames /\ acked \subseteq Frames /\ probe_pending \subseteq queued \cap Stream
    /\ OwnersOK /\ NothingForgotten

\* What the invariant says of packet numbers.
LEMMA Numbers ==
    ASSUME VInv
    PROVE  /\ next_pn \in Nat /\ next_pn <= MaxPn /\ MaxPn \in Nat
           /\ sent \subseteq Pns /\ sent \subseteq Nat /\ next_pn \notin sent
           /\ IsFiniteSet(sent) /\ Cardinality(sent) \in Nat
           /\ received \subseteq 0 .. (next_pn - 1) /\ FramesOK
<1>1. next_pn \in Nat /\ next_pn <= MaxPn /\ MaxPn \in Nat /\ sent \subseteq 0 .. (next_pn - 1)
  BY RecoveryAssumption DEF VInv, TypeOK
<1>2. sent \subseteq Pns /\ sent \subseteq Nat /\ next_pn \notin sent
  BY <1>1 DEF Pns
<1>3. received \subseteq 0 .. (next_pn - 1) /\ FramesOK
  BY DEF VInv, TypeOK, FramesOK
<1> QED BY <1>1, <1>2, <1>3, Finite

\* Packets leave the flight: the acknowledged ones' frames are acknowledged, what
\* the lost ones answer for is queued.  Losses take the oldest packets first, so
\* no copy of what they queue stays behind.
LEMMA LeaveFacts ==
    ASSUME FramesOK, sent \subseteq Pns, NEW new, new \subseteq sent, NEW lost, lost \subseteq sent \ new,
           \A p \in lost, q \in sent : q <= p => q \in new \cup lost,
           Leave(new, lost)
    PROVE  FramesOK'
<1> DEFINE gone == new \cup lost
<1>1. /\ owned \in [Pns -> SUBSET Frames] /\ copied \in [Pns -> SUBSET Data]
      /\ queued \subseteq Frames /\ acked \subseteq Frames /\ probe_pending \subseteq queued \cap Stream
  BY DEF FramesOK
<1>2. /\ sent' = sent \ gone
      /\ \A p \in gone : owned'[p] = {} /\ copied'[p] = {}
      /\ \A p \in Pns \ gone : owned'[p] = owned[p] /\ copied'[p] = copied[p]
      /\ owned' \in [Pns -> SUBSET Frames] /\ copied' \in [Pns -> SUBSET Data]
  BY <1>1 DEF Leave
<1>3. \A f : f \in acked' <=> f \in acked \/ \E p \in new : f \in owned[p]
  BY DEF Leave, Acked
<1>4. \A f : f \in queued' <=> \/ f \in queued /\ f \notin TakenBack(new)
                               \/ \E p \in lost : f \in Answers(p) /\ ~(f \in Stream /\ f \in acked')
  BY DEF Leave, Requeued, LostFrames
<1>5. \A f : f \in probe_pending' <=> f \in probe_pending /\ f \notin TakenBack(new)
  BY DEF Leave
<1>6. \A f \in TakenBack(new) : f \in acked'
  <2>1. \A p \in new : copied[p] \subseteq owned[p]
    BY DEF FramesOK, OwnersOK
  <2> QED BY <2>1, <1>3 DEF TakenBack
<1>7. \A f \in Stream, p \in new : f \in owned[p] /\ f \in probe_pending => f \in TakenBack(new)
  BY DEF TakenBack
<1>8. \A p \in sent' : p \in sent /\ p \notin gone /\ owned'[p] = owned[p] /\ Answers(p)' = Answers(p)
  BY <1>2 DEF Answers
<1>9. queued' \subseteq Frames /\ acked' \subseteq Frames /\ probe_pending' \subseteq queued' \cap Stream
  BY <1>1, <1>3, <1>4, <1>5 DEF Answers
<1>10. ASSUME NEW f \in Data, NEW p \in sent', f \in Answers(p)'
       PROVE  f \notin queued' /\ \A q \in sent' : f \in Answers(q)' => q = p
  <2>1. p \in sent \ gone /\ f \in Answers(p)
    BY <1>8, <1>10
  <2>2. f \notin queued /\ \A q \in sent : f \in Answers(q) => q = p
    BY <2>1 DEF FramesOK, OwnersOK
  <2>3. \A q \in lost : f \notin Answers(q)
    BY <2>1, <2>2
  <2> QED BY <2>2, <2>3, <1>4, <1>8
<1>11. ASSUME NEW f \in Stream, NEW p \in sent', f \in Answers(p)', NEW q \in sent', f \in owned'[q]
       PROVE  q <= p
  BY <1>8, <1>11 DEF FramesOK, OwnersOK
<1>12. ASSUME NEW f \in Stream, f \in queued'
       PROVE  f \notin acked' /\ (f \notin probe_pending' => \A q \in sent' : f \notin owned'[q])
  <2>1. CASE f \in queued /\ f \notin TakenBack(new)
    <3>1. f \notin acked /\ (f \notin probe_pending => \A q \in sent : f \notin owned[q])
      BY <2>1 DEF FramesOK, OwnersOK
    <3>2. \A p \in new : f \notin owned[p]
      BY <2>1, <3>1, <1>7
    <3> QED BY <2>1, <3>1, <3>2, <1>3, <1>5, <1>8
  <2>2. ASSUME NEW p \in lost, f \in Answers(p), f \notin acked'
        PROVE  f \notin acked' /\ \A q \in sent' : f \notin owned'[q]
    <3>1. \A q \in sent : f \in owned[q] => q <= p
      BY <2>2 DEF FramesOK, OwnersOK
    <3> QED BY <2>2, <3>1, <1>8
  <2> QED BY <2>1, <2>2, <1>4, <1>12
<1>13. \A p \in Pns : copied'[p] \subseteq owned'[p] /\ (p \notin sent' => owned'[p] = {})
  BY <1>2 DEF FramesOK, OwnersOK
<1>14. OwnersOK'
  BY <1>10, <1>11, <1>12, <1>13 DEF OwnersOK
<1>15. ASSUME NEW f \in Frames
       PROVE  f \in acked' \/ f \in queued' \/ \E p \in sent' : f \in Answers(p)'
  <2>1. CASE f \in acked
    BY <2>1, <1>3
  <2>2. CASE f \in queued
    BY <2>2, <1>4, <1>6
  <2>3. ASSUME NEW p \in sent, f \in Answers(p)
        PROVE  f \in acked' \/ f \in queued' \/ \E q \in sent' : f \in Answers(q)'
    <3>1. CASE p \in new
      BY <3>1, <2>3, <1>3 DEF Answers
    <3>2. CASE p \in lost
      BY <3>2, <2>3, <1>4
    <3>3. CASE p \notin gone
      BY <3>3, <2>3, <1>2, <1>8
    <3> QED BY <3>1, <3>2, <3>3
  <2> QED BY <2>1, <2>2, <2>3 DEF FramesOK, NothingForgotten, Owners
<1>16. NothingForgotten'
  BY <1>15 DEF NothingForgotten, Owners
<1> QED BY <1>2, <1>9, <1>14, <1>16 DEF FramesOK

\* A frame is somewhere, data is answered for by one, acknowledged bytes by none.
LEMMA KeptFacts == ASSUME VInv PROVE FramesKept
<1>1. ASSUME NEW f \in Data
      PROVE  Cardinality(Owners(f)) + (IF f \in queued THEN 1 ELSE 0) <= 1
  <2>1. CASE Owners(f) = {}
    BY <2>1, FS_EmptySet
  <2>2. CASE Owners(f) # {}
    <3>1. PICK p \in sent : f \in Answers(p)
      BY <2>2 DEF Owners
    <3>2. f \notin queued /\ \A q \in sent : f \in Answers(q) => q = p
      BY <3>1 DEF VInv, OwnersOK
    <3>3. Owners(f) = {p}
      BY <3>1, <3>2 DEF Owners
    <3>4. Cardinality(Owners(f)) = 1
      BY <3>3, FS_Singleton
    <3> QED BY <3>2, <3>4
  <2> QED BY <2>1, <2>2
<1>2. AckedNotQueued
  BY DEF VInv, OwnersOK, AckedNotQueued
<1> QED BY <1>1, <1>2 DEF FramesKept, OneOwner, VInv

\* Each episode's count covers what the ring remembers of it.
LEMMA SoundFacts == ASSUME VInv PROVE EpisodesSound
<1>1. UndoneArrived
  BY DEF VInv, EpisodesOK, UndoneArrived
<1>2. PendingCoversRing
  <2> DEFINE K == {k \in Live(lost_ring) : lost_ring[k].episode = episodes.episode}
             A == {lost_ring[k].pn : k \in K}
             U == Open(episodes.episode, lost_ring, counted, received)
  <2>1. RingOK(lost_ring, counted) /\ episodes.pending \in Nat /\ Cardinality(U) <= episodes.pending
    BY DEF VInv, EpisodesOK, CountsOK, EpisodeType
  <2>2. K \subseteq Live(lost_ring)
    OBVIOUS
  <2>3. A \subseteq U
    <3>1. \A k \in K : /\ lost_ring[k].pn \in Pns /\ counted[lost_ring[k].pn] = episodes.episode
                       /\ lost_ring[k].pn \in RingPns(lost_ring)
      BY <2>1, LiveFacts DEF RingOK, RingPns
    <3> QED BY <3>1 DEF Open
  <2>4. U \subseteq Pns
    BY DEF Open
  <2> HIDE DEF K, U
  <2>5. Cardinality(K) \in Nat /\ Cardinality(K) = Cardinality(A)
    BY <2>1, <2>2, RecordsCount
  <2> HIDE DEF A
  <2>6. Cardinality(A) <= Cardinality(U) /\ Cardinality(U) \in Nat
    BY <2>3, <2>4, Fewer
  <2>7. Cardinality(K) <= episodes.pending
    BY <2>1, <2>5, <2>6
  <2> QED BY <2>7 DEF PendingCoversRing, K
<1> QED BY <1>1, <1>2 DEF EpisodesSound

-----------------------------------------------------------------------------
(* The initial state and the steps.                                        *)

\* Nothing is in flight, remembered or counted at the start.
LEMMA InitVInv == Init => VInv
<1> SUFFICES ASSUME Init PROVE VInv
  OBVIOUS
<1> USE RecoveryAssumption DEF Init
<1>1. TypeOK
  <2>1. Len(lost_ring) = 0
    OBVIOUS
  <2>2. Cardinality(sent) = 0
    BY FS_EmptySet
  <2>3. /\ next_pn \in 0 .. MaxPn /\ largest_acked \in None .. (next_pn - 1)
        /\ sent \subseteq 0 .. (next_pn - 1) /\ Cardinality(sent) <= MaxInFlight
    BY <2>2 DEF None
  <2>4. /\ owned \in [Pns -> SUBSET Frames] /\ copied \in [Pns -> SUBSET Data]
        /\ queued \subseteq Frames /\ acked \subseteq Frames /\ probe_pending \subseteq queued \cap Stream
    OBVIOUS
  <2>5. pto_probe_count \in 0 .. 2 /\ Len(lost_ring) <= RingSlots
    <3>1. pto_probe_count = 0 /\ RingSlots \in Nat
      OBVIOUS
    <3> HIDE DEF Init
    <3> QED BY <2>1, <3>1
  <2>5a. pending_ping \in BOOLEAN
    OBVIOUS
  <2>6. received \subseteq 0 .. (next_pn - 1)
    OBVIOUS
  <2> QED BY <2>3, <2>4, <2>5, <2>5a, <2>6 DEF TypeOK
<1>2. OwnersOK /\ NothingForgotten /\ CountedOnce
  BY DEF OwnersOK, Answers, NothingForgotten, CountedOnce
<1>3. CountsOK(episodes, counted)
  BY DEF CountsOK, EpisodeType, None
<1>4. RingOK(lost_ring, counted) /\ RingPns(lost_ring) = {}
  <2>1. Live(lost_ring) = {} /\ lost_ring \in Seq(Records) /\ Len(lost_ring) = 0
    BY DEF Live
  <2> QED BY <2>1 DEF RingOK, RingPns
<1>5. /\ episodes.episode = 0 /\ episodes.pending = 0 /\ episodes.prev_undoable = FALSE
      /\ episodes.undone = {} /\ \A p \in Pns : counted[p] = None
  OBVIOUS
<1>6. Open(episodes.episode, lost_ring, counted, received) = {}
  BY <1>5 DEF Open, None
<1>7. Cardinality(Open(episodes.episode, lost_ring, counted, received)) <= episodes.pending
  <2> HIDE DEF Init
  <2>1. Cardinality(Open(episodes.episode, lost_ring, counted, received)) = 0
    BY <1>6, FS_EmptySet
  <2> QED BY <2>1, <1>5
<1>8. EpisodesOK(episodes, recovery_start, lost_ring, counted, received)
  BY <1>3, <1>4, <1>5, <1>7 DEF EpisodesOK
<1> QED BY <1>1, <1>2, <1>8 DEF VInv

\* The numbers of TypeOK, without the frames and the ring.
FlightOK ==
    /\ next_pn \in 0 .. MaxPn /\ largest_acked \in None .. (next_pn - 1)
    /\ sent \subseteq 0 .. (next_pn - 1) /\ Cardinality(sent) <= MaxInFlight
    /\ pending_ping \in BOOLEAN /\ pto_probe_count \in 0 .. 2
    /\ received \subseteq 0 .. (next_pn - 1)

\* The invariant in the parts that the steps keep one by one.
LEMMA VParts ==
    VInv <=> /\ FlightOK /\ FramesOK /\ CountedOnce
             /\ EpisodesOK(episodes, recovery_start, lost_ring, counted, received)
<1>1. EpisodesOK(episodes, recovery_start, lost_ring, counted, received)
        => Len(lost_ring) <= RingSlots
  BY DEF EpisodesOK, RingOK
<1> QED BY <1>1 DEF VInv, TypeOK, FlightOK, FramesOK

\* Some packets leave the flight.
LEMMA FlightShrinks ==
    ASSUME VInv, NEW ps, ps \subseteq sent, sent' = sent \ ps, received' \subseteq 0 .. (next_pn - 1), next_pn' = next_pn,
           largest_acked' \in None .. (next_pn - 1),
           pending_ping' \in BOOLEAN, pto_probe_count' \in 0 .. 2
    PROVE  FlightOK'
<1>1. Cardinality(sent') <= Cardinality(sent) /\ Cardinality(sent') \in Nat
      /\ Cardinality(sent) \in Nat
  BY Numbers, Fewer
<1>2. Cardinality(sent) <= MaxInFlight /\ MaxInFlight \in Nat
  BY RecoveryAssumption DEF VInv, TypeOK
<1>3. Cardinality(sent') <= MaxInFlight
  BY <1>1, <1>2
<1> QED BY <1>3 DEF FlightOK, VInv, TypeOK

\* Only packets that left the flight are counted.
LEMMA CountedAfter ==
    ASSUME VInv, NEW ps, ps \subseteq sent, sent' \subseteq sent \ ps, next_pn' = next_pn,
           \A p \in Pns : counted'[p] # None => counted[p] # None \/ p \in ps
    PROVE  CountedOnce'
<1>1. \A p \in sent : p < next_pn
  BY Numbers DEF VInv, TypeOK
<1> QED BY <1>1 DEF VInv, CountedOnce

\* sweepLosses()
LEMMA StepSweep ==
    ASSUME VInv, NEW ps, ps \subseteq sent, \A p \in ps, q \in sent : q <= p => q \in ps,
           NEW persistent, Sweep(ps, persistent), UNCHANGED <<next_pn, largest_acked, received>>,
           pending_ping' \in BOOLEAN, pto_probe_count' \in 0 .. 2
    PROVE  VInv'
<1> DEFINE d == Declare(ps, persistent, episodes, recovery_start, lost_ring)
<1>1. /\ Leave({}, ps) /\ sent' = sent \ ps
      /\ episodes' = d.e /\ recovery_start' = d.start
      /\ lost_ring' = d.ring /\ counted' = d.counted
  BY DEF Sweep, Leave
<1>2. /\ EpisodesOK(d.e, d.start, d.ring, d.counted, received)
      /\ \A p \in Pns : d.counted[p] # None => counted[p] # None \/ p \in ps
  <2>1. next_pn \in Nat /\ sent \subseteq Pns /\ CountedOnce
        /\ EpisodesOK(episodes, recovery_start, lost_ring, counted, received)
    BY Numbers DEF VInv
  <2> QED BY <2>1, DeclareFacts
<1> HIDE DEF d
<1>3. EpisodesOK(episodes, recovery_start, lost_ring, counted, received)'
  BY <1>1, <1>2
<1>4. CountedOnce'
  BY <1>1, <1>2, CountedAfter
<1>5. FramesOK'
  <2>1. {} \cup ps = ps /\ {} \subseteq sent /\ ps \subseteq sent \ {}
    OBVIOUS
  <2> QED BY <2>1, <1>1, Numbers, LeaveFacts
<1>6. FlightOK'
  <2>1. largest_acked' \in None .. (next_pn - 1) /\ received' \subseteq 0 .. (next_pn - 1)
    BY DEF VInv, TypeOK
  <2> QED BY <2>1, <1>1, FlightShrinks
<1>7. (/\ FlightOK /\ FramesOK /\ CountedOnce
       /\ EpisodesOK(episodes, recovery_start, lost_ring, counted, received))'
  BY <1>3, <1>4, <1>5, <1>6
<1> QED BY <1>7, VParts, PTL

\* The two timers that declare packets lost.
LEMMA StepTimeLoss == ASSUME VInv, TimeLoss PROVE VInv'
<1>1. PICK cutoff \in 0 .. largest_acked :
        LET ps == {p \in sent : p <= cutoff}
        IN  /\ \E persistent \in MayPersist(ps) : Sweep(ps, persistent)
            /\ UNCHANGED <<next_pn, largest_acked, probeVars, packet_rule, marks, received>>
  BY DEF TimeLoss
<1> DEFINE ps == {p \in sent : p <= cutoff}
<1>2. PICK persistent \in MayPersist(ps) : Sweep(ps, persistent)
  BY <1>1
<1>3. /\ UNCHANGED <<next_pn, largest_acked, received>>
      /\ pending_ping' \in BOOLEAN /\ pto_probe_count' \in 0 .. 2
  BY <1>1 DEF probeVars, VInv, TypeOK
<1>4. ps \subseteq sent /\ \A p \in ps, q \in sent : q <= p => q \in ps
  <2>1. cutoff \in Int /\ sent \subseteq Nat
    BY Numbers DEF VInv, TypeOK, None
  <2> QED BY <2>1
<1> QED BY <1>2, <1>3, <1>4, StepSweep

\* Arming probes keeps their count within its two.
LEMMA ProbeFacts ==
    ASSUME VInv, NEW any \in BOOLEAN, Probe(any)
    PROVE  pending_ping' \in BOOLEAN /\ pto_probe_count' \in 0 .. 2
<1>1. pto_probe_count \in 0 .. 2
  BY DEF VInv, TypeOK
<1>2. pto_probe_count' = (IF any /\ pto_probe_count < 2 THEN pto_probe_count + 1 ELSE pto_probe_count)
      /\ pending_ping' = ~any
  BY DEF Probe
<1>3. pto_probe_count' \in 0 .. 2
  BY <1>1, <1>2
<1>4. pending_ping' \in BOOLEAN
  BY <1>2
<1> QED BY <1>3, <1>4

\* A probe timeout with the tracker full gives up the oldest packets.
LEMMA StepPtoExpire == ASSUME VInv, PtoExpire PROVE VInv'
<1>1. sent # {}
  <2>1. Cardinality(sent) >= MaxInFlight /\ MaxInFlight \in Nat \ {0}
    BY RecoveryAssumption DEF PtoExpire, TrackerFull
  <2> QED BY <2>1, FS_EmptySet
<1>2. {Min(sent)} \subseteq sent /\ \A p \in {Min(sent)}, q \in sent : q <= p => q \in {Min(sent)}
  <2>1. Min(sent) \in sent /\ (\A q \in sent : Min(sent) =< q) /\ sent \subseteq Nat
    BY <1>1, Numbers, MinFacts
  <2>2. ASSUME NEW p \in Nat, NEW q \in Nat, p =< q, q =< p
        PROVE  q = p
    BY <2>2
  <2>3. Min(sent) \in Nat /\ \A q \in sent : q \in Nat
    BY <2>1
  <2> QED BY <2>1, <2>2, <2>3
<1>3. pending_ping' \in BOOLEAN /\ pto_probe_count' \in 0 .. 2
  <2>1. (owned[Min(sent)] \ (Crypto \cap copied[Min(sent)]) # {}) \in BOOLEAN
    OBVIOUS
  <2> QED BY <2>1, ProbeFacts DEF PtoExpire
<1> QED BY <1>2, <1>3, StepSweep DEF PtoExpire

\* A probe timeout with room: the queue answers for the data of one packet, whose
\* record stays.
LEMMA StepPtoProbe == ASSUME VInv, PtoProbe PROVE VInv'
<1>1. /\ UNCHANGED <<next_pn, sent, owned, acked, largest_acked, lost_ring, episodes, recovery_start,
                     counted, received>>
      /\ queued' = queued \cup ProbeFrames /\ copied' = CopiedAfterProbe
      /\ probe_pending' = probe_pending \cup (ProbeData \cap Stream \cap queued')
  BY DEF PtoProbe, reorderVars, ccVars
<1>2. pending_ping' \in BOOLEAN /\ pto_probe_count' \in 0 .. 2
  <2>1. (owned[Min(sent)] \cap Control # {} \/ ProbeSource # {}) \in BOOLEAN
    OBVIOUS
  <2> QED BY <2>1, ProbeFacts DEF PtoProbe
<1>3. /\ owned \in [Pns -> SUBSET Frames] /\ copied \in [Pns -> SUBSET Data]
      /\ queued \subseteq Frames /\ acked \subseteq Frames /\ probe_pending \subseteq queued \cap Stream
      /\ sent \subseteq Pns /\ OwnersOK /\ NothingForgotten
  BY Numbers DEF FramesOK
<1>4. ProbeSource \subseteq sent
  <2> DEFINE owners == {p \in sent : Answers(p) \cap Data # {}}
  <2>1. owners \subseteq Nat
    BY Numbers
  <2>2. owners # {} => Min(owners) \in owners
    BY <2>1, MinFacts
  <2> QED BY <2>2 DEF ProbeSource
<1>5. Min(sent) \in sent
  BY Numbers, MinFacts DEF PtoProbe
<1>6. Data \cap Control = {} /\ Stream \subseteq Data
  BY RecoveryAssumption DEF Data
<1>7. /\ copied' \in [Pns -> SUBSET Data]
      /\ \A p \in ProbeSource : copied'[p] = copied[p] \cup (owned[p] \cap Data)
      /\ \A p \in Pns \ ProbeSource : copied'[p] = copied[p]
  BY <1>1, <1>3, <1>4 DEF CopiedAfterProbe
<1>8. \A f : f \in ProbeData <=> f \in Data /\ \E p \in ProbeSource : f \in Answers(p)
  BY DEF ProbeData
<1>9. /\ \A f \in Data : f \in queued' <=> f \in queued \/ (f \in ProbeData /\ ~(f \in Stream /\ f \in acked))
      /\ queued \subseteq queued' /\ queued' \subseteq Frames
  <2>1. \A f \in ProbeFrames : \/ f \in Control /\ f \in owned[Min(sent)]
                               \/ f \in ProbeData /\ ~(f \in Stream /\ f \in acked)
    BY DEF ProbeFrames
  <2>2. \A f \in ProbeData : f \in ProbeFrames \/ (f \in Stream /\ f \in acked)
    BY DEF ProbeFrames
  <2> QED BY <2>1, <2>2, <1>1, <1>3, <1>6, <1>8 DEF Frames
<1>10. \A p \in sent : /\ Answers(p)' \subseteq Answers(p)
                       /\ \A f \in Answers(p) : f \in Answers(p)' \/ f \in ProbeData
                       /\ \A f \in Data : f \in Answers(p)' => p \notin ProbeSource
  <2> SUFFICES ASSUME NEW p \in sent
               PROVE  /\ Answers(p)' \subseteq Answers(p)
                      /\ \A f \in Answers(p) : f \in Answers(p)' \/ f \in ProbeData
                      /\ \A f \in Data : f \in Answers(p)' => p \notin ProbeSource
    OBVIOUS
  <2>1. CASE p \in ProbeSource
    BY <2>1, <1>1, <1>7, <1>8 DEF Answers
  <2>2. CASE p \notin ProbeSource
    BY <2>2, <1>1, <1>3, <1>7 DEF Answers
  <2> QED BY <2>1, <2>2
<1>11. \A p \in Pns : copied'[p] \subseteq owned'[p] /\ (p \notin sent' => owned'[p] = {})
  <2> SUFFICES ASSUME NEW p \in Pns PROVE copied'[p] \subseteq owned'[p] /\ (p \notin sent' => owned'[p] = {})
    OBVIOUS
  <2>1. copied[p] \subseteq owned[p] /\ (p \notin sent => owned[p] = {})
    BY <1>3 DEF OwnersOK
  <2>2. CASE p \in ProbeSource
    BY <2>1, <2>2, <1>1, <1>7
  <2>3. CASE p \notin ProbeSource
    BY <2>1, <2>3, <1>1, <1>7
  <2> QED BY <2>2, <2>3
<1>12. ASSUME NEW f \in Data, NEW p \in sent', f \in Answers(p)'
       PROVE  f \notin queued' /\ \A q \in sent' : f \in Answers(q)' => q = p
  <2>1. p \in sent /\ f \in Answers(p) /\ p \notin ProbeSource
    BY <1>1, <1>10, <1>12
  <2>2. f \notin queued /\ \A q \in sent : f \in Answers(q) => q = p
    BY <2>1, <1>3 DEF OwnersOK
  <2>3. f \notin ProbeData
    BY <2>1, <2>2, <1>4, <1>8
  <2> QED BY <2>2, <2>3, <1>1, <1>9, <1>10
<1>13. ASSUME NEW f \in Stream, NEW p \in sent', f \in Answers(p)', NEW q \in sent', f \in owned'[q]
       PROVE  q <= p
  BY <1>1, <1>3, <1>10, <1>13 DEF OwnersOK
<1>14. ASSUME NEW f \in Stream, f \in queued'
       PROVE  f \notin acked' /\ (f \notin probe_pending' => \A q \in sent' : f \notin owned'[q])
  <2>1. CASE f \in queued
    <3>1. f \notin acked /\ (f \notin probe_pending => \A q \in sent : f \notin owned[q])
      BY <2>1, <1>3 DEF OwnersOK
    <3> QED BY <3>1, <1>1
  <2>2. CASE f \in ProbeData /\ ~(f \in Stream /\ f \in acked)
    BY <2>2, <1>1, <1>14
  <2> QED BY <2>1, <2>2, <1>6, <1>9, <1>14
<1>15. OwnersOK'
  BY <1>11, <1>12, <1>13, <1>14 DEF OwnersOK
<1>16. ASSUME NEW f \in Frames
       PROVE  f \in acked' \/ f \in queued' \/ \E p \in sent' : f \in Answers(p)'
  <2>1. CASE f \in acked \/ f \in queued
    BY <2>1, <1>1, <1>9
  <2>2. ASSUME NEW p \in sent, f \in Answers(p)
        PROVE  f \in acked' \/ f \in queued' \/ f \in Answers(p)'
    <3>1. CASE f \in ProbeData
      BY <3>1, <1>1, <1>8, <1>9
    <3> QED BY <3>1, <2>2, <1>10
  <2> QED BY <2>1, <2>2, <1>1, <1>3 DEF NothingForgotten, Owners
<1>17. NothingForgotten'
  BY <1>16 DEF NothingForgotten, Owners
<1>18. FramesOK'
  <2>1. probe_pending' \subseteq queued' \cap Stream
    BY <1>1, <1>3, <1>9
  <2> QED BY <2>1, <1>1, <1>3, <1>7, <1>9, <1>15, <1>17 DEF FramesOK
<1>19. FlightOK' /\ CountedOnce'
       /\ EpisodesOK(episodes, recovery_start, lost_ring, counted, received)'
  BY <1>1, <1>2 DEF VInv, TypeOK, FlightOK, CountedOnce
<1>20. (/\ FlightOK /\ FramesOK /\ CountedOnce
        /\ EpisodesOK(episodes, recovery_start, lost_ring, counted, received))'
  BY <1>18, <1>19
<1> QED BY <1>20, VParts, PTL

\* pollLevelOnPath()
LEMMA StepSendPacket == ASSUME VInv, SendPacket PROVE VInv'
<1>1. PICK fs \in SUBSET queued :
        /\ ~TrackerFull /\ next_pn < MaxPn
        /\ next_pn' = next_pn + 1 /\ sent' = sent \cup {next_pn}
        /\ owned' = [owned EXCEPT ![next_pn] = fs] /\ queued' = queued \ fs
        /\ probe_pending' = probe_pending \ fs /\ pending_ping' = FALSE
        /\ pto_probe_count' = Max({0, pto_probe_count - 1})
        /\ UNCHANGED <<copied, acked, largest_acked, lost_ring, episodes, recovery_start, counted, received>>
  BY DEF SendPacket, reorderVars, ccVars
<1>2. /\ next_pn \in Nat /\ MaxPn \in Nat /\ sent \subseteq Pns /\ next_pn \notin sent
      /\ IsFiniteSet(sent) /\ Cardinality(sent) \in Nat /\ next_pn \in Pns
  BY <1>1, Numbers DEF Pns
<1>3. FlightOK'
  <2>1. Cardinality(sent') <= MaxInFlight
    <3>1. Cardinality(sent') = Cardinality(sent) + 1
      BY <1>1, <1>2, FS_AddElement
    <3>2. Cardinality(sent) < MaxInFlight /\ MaxInFlight \in Nat
      BY <1>1, <1>2, RecoveryAssumption DEF TrackerFull
    <3> QED BY <1>2, <3>1, <3>2
  <2>2. pto_probe_count' \in 0 .. 2
    <3>1. pto_probe_count \in 0 .. 2 /\ pto_probe_count - 1 \in Int /\ 0 \in Int
      BY DEF VInv, TypeOK
    <3>2. pto_probe_count' = IF 0 >= pto_probe_count - 1 THEN 0 ELSE pto_probe_count - 1
      BY <1>1, <3>1, MaxOfTwo
    <3> QED BY <3>1, <3>2
  <2>3. /\ next_pn' \in 0 .. MaxPn /\ largest_acked' \in None .. (next_pn' - 1)
        /\ sent' \subseteq 0 .. (next_pn' - 1)
    BY <1>1, <1>2 DEF VInv, TypeOK, None
  <2>4. received' \subseteq 0 .. (next_pn' - 1)
    BY <1>1, <1>2, Numbers
  <2> QED BY <1>1, <2>1, <2>2, <2>3, <2>4 DEF FlightOK
<1>4. /\ owned \in [Pns -> SUBSET Frames] /\ copied \in [Pns -> SUBSET Data]
      /\ queued \subseteq Frames /\ acked \subseteq Frames /\ probe_pending \subseteq queued \cap Stream
      /\ OwnersOK /\ NothingForgotten
  BY Numbers DEF FramesOK
<1>5. /\ owned' \in [Pns -> SUBSET Frames] /\ owned'[next_pn] = fs
      /\ \A p \in Pns : p # next_pn => owned'[p] = owned[p] /\ Answers(p)' = Answers(p)
      /\ copied[next_pn] = {} /\ \A p \in Pns : p = next_pn => Answers(p)' = fs
  <2>1. copied[next_pn] = {}
    BY <1>2, <1>4 DEF OwnersOK
  <2> QED BY <2>1, <1>1, <1>2, <1>4 DEF Answers
<1>6. OwnersOK'
  <2>1. \A p \in Pns : copied'[p] \subseteq owned'[p] /\ (p \notin sent' => owned'[p] = {})
    BY <1>1, <1>4, <1>5 DEF OwnersOK
  <2>2. ASSUME NEW f \in Data, NEW p \in sent', f \in Answers(p)'
        PROVE  f \notin queued' /\ \A q \in sent' : f \in Answers(q)' => q = p
    <3>1. CASE p = next_pn
      <4>1. f \in fs /\ f \in queued
        BY <3>1, <2>2, <1>2, <1>5
      <4>2. \A q \in sent : f \notin Answers(q)' /\ q # next_pn
        BY <4>1, <1>2, <1>4, <1>5 DEF OwnersOK
      <4> QED BY <3>1, <4>1, <4>2, <1>1
    <3>2. CASE p # next_pn
      <4>1. p \in sent /\ f \in Answers(p)
        BY <3>2, <2>2, <1>1, <1>2, <1>5
      <4>2. f \notin queued /\ \A q \in sent : f \in Answers(q) => q = p
        BY <4>1, <1>4 DEF OwnersOK
      <4> QED BY <4>2, <1>1, <1>2, <1>5
    <3> QED BY <3>1, <3>2
  <2>3. ASSUME NEW f \in Stream, NEW p \in sent', f \in Answers(p)', NEW q \in sent', f \in owned'[q]
        PROVE  q <= p
    <3>1. \A x \in sent : x \in Nat /\ x < next_pn /\ x # next_pn /\ x \in Pns
      BY <1>2 DEF VInv, TypeOK
    <3>2. CASE p = next_pn
      <4>1. q \in sent \/ q = next_pn
        BY <1>1
      <4>2. q \in Nat /\ p \in Nat /\ (q < next_pn \/ q = next_pn) /\ p = next_pn
        BY <4>1, <3>1, <3>2, <1>2
      <4> QED BY <4>2
    <3>3. CASE p # next_pn
      <4>1. p \in sent /\ f \in Answers(p)
        BY <3>3, <2>3, <1>1, <1>2, <1>5
      <4>2. f \notin queued
        BY <4>1, <1>4 DEF OwnersOK, Data
      <4>3. q \in sent /\ f \in owned[q]
        BY <4>2, <2>3, <3>1, <1>1, <1>5
      <4> QED BY <4>1, <4>3, <1>4 DEF OwnersOK
    <3> QED BY <3>2, <3>3
  <2>4. ASSUME NEW f \in Stream, f \in queued'
        PROVE  f \notin acked' /\ (f \notin probe_pending' => \A q \in sent' : f \notin owned'[q])
    <3>1. f \in queued /\ f \notin fs
      BY <2>4, <1>1
    <3>2. f \notin acked /\ (f \notin probe_pending => \A q \in sent : f \notin owned[q])
      BY <3>1, <1>4 DEF OwnersOK
    <3> QED BY <3>1, <3>2, <1>1, <1>2, <1>5
  <2> QED BY <2>1, <2>2, <2>3, <2>4 DEF OwnersOK
<1>7. NothingForgotten'
  <2>1. ASSUME NEW f \in Frames
        PROVE  f \in acked' \/ f \in queued' \/ \E p \in sent' : f \in Answers(p)'
    <3>1. CASE f \in acked
      BY <3>1, <1>1
    <3>2. CASE f \in queued
      BY <3>2, <1>1, <1>2, <1>5
    <3>3. ASSUME NEW p \in sent, f \in Answers(p)
          PROVE  p \in sent' /\ f \in Answers(p)'
      BY <3>3, <1>1, <1>2, <1>5
    <3> QED BY <3>1, <3>2, <3>3, <1>4 DEF NothingForgotten, Owners
  <2> QED BY <2>1 DEF NothingForgotten, Owners
<1>8. FramesOK'
  BY <1>1, <1>4, <1>5, <1>6, <1>7 DEF FramesOK
<1>9. CountedOnce' /\ EpisodesOK(episodes, recovery_start, lost_ring, counted, received)'
  BY <1>1, <1>2 DEF VInv, CountedOnce, Pns
<1>10. (/\ FlightOK /\ FramesOK /\ CountedOnce
        /\ EpisodesOK(episodes, recovery_start, lost_ring, counted, received))'
  BY <1>3, <1>8, <1>9
<1> QED BY <1>10, VParts, PTL

\* recv_ack_handlers.apply(): late packets first, then the end of the recovery
\* period, then the marks, then the losses.
LEMMA StepAck ==
    ASSUME VInv, NEW a, a \subseteq 0 .. (next_pn - 1), a # {}, NEW back, NEW widen, NEW ce,
           RecvAck(a, back, widen, ce)
    PROVE  VInv'
<1> DEFINE top   == Max({largest_acked, Max(a)})
           late  == Late(a)
           new   == a \cap sent
           rule  == RuleAfter(late, widen, back)
           In(n) == Cardinality({k \in late : lost_ring[k].episode = n})
           e1    == Arrived(episodes, In(episodes.episode), In(episodes.episode - 1))
           r1    == RecoveryAfterUndo(episodes, e1, recovery_start)
           r2    == IF new # {} /\ ~InRecovery(r1, Max(new)) THEN None ELSE r1
           ceNow == ce /\ ~(Max(a) \in new /\ InRecovery(r2, Max(a)))
           e3    == IF ceNow THEN OpenEpisode(e1) ELSE e1
           r3    == IF ceNow THEN next_pn ELSE r2
           lost  == IF rule THEN LostByCount(sent \ new, top) ELSE {}
           ring1 == TakeCovered(lost_ring, late)
<1>1. PICK persistent \in BOOLEAN :
        LET d == Declare(lost, persistent, e3, r3, ring1)
        IN  /\ largest_acked' = top /\ sent' = sent \ (new \cup lost)
            /\ Leave(new, lost)
            /\ lost_ring' = d.ring /\ episodes' = d.e /\ recovery_start' = d.start
            /\ counted' = d.counted
            /\ received' = received \cup a /\ UNCHANGED <<next_pn, probeVars>>
  BY DEF RecvAck, Leave
<1> DEFINE d == Declare(lost, persistent, e3, r3, ring1)
<1>2. /\ largest_acked' = top /\ sent' = sent \ (new \cup lost)
      /\ Leave(new, lost)
      /\ lost_ring' = d.ring /\ episodes' = d.e /\ recovery_start' = d.start
      /\ counted' = d.counted
      /\ received' = received \cup a
      /\ UNCHANGED <<next_pn, pending_ping, pto_probe_count>>
  BY <1>1 DEF probeVars
<1>3. new \subseteq sent /\ lost \subseteq sent \ new
  BY DEF LostByCount
<1>3a. top \in None .. (next_pn - 1)
  <2>1. next_pn \in Nat /\ a \subseteq 0 .. (next_pn - 1)
    BY Numbers
  <2>2. next_pn - 1 \in Nat
    <3>1. PICK x \in a : TRUE
      OBVIOUS
    <3>2. x \in 0 .. (next_pn - 1)
      BY <2>1
    <3> QED BY <3>2, <2>1
  <2>3. Max(a) \in 0 .. (next_pn - 1)
    BY <2>1, <2>2, MaxFacts
  <2>4. largest_acked \in None .. (next_pn - 1)
    BY DEF VInv, TypeOK
  <2>5. largest_acked \in Int /\ Max(a) \in Int
    BY <2>3, <2>4 DEF None
  <2>6. top = IF largest_acked >= Max(a) THEN largest_acked ELSE Max(a)
    BY <2>5, MaxOfTwo DEF top
  <2>7. 0 .. (next_pn - 1) \subseteq None .. (next_pn - 1)
    BY <2>1 DEF None
  <2> QED BY <2>3, <2>4, <2>6, <2>7
<1>3b. \A p \in lost, q \in sent : q <= p => q \in new \cup lost
  <2>1. top \in Int /\ PacketThreshold \in Nat /\ sent \subseteq Nat
    BY <1>3a, Numbers, RecoveryAssumption DEF None
  <2> HIDE DEF top, new, rule
  <2> QED BY <2>1 DEF LostByCount
<1>4. EpisodesOK(e1, r1, ring1, counted, received')
  <2>1. EpisodesOK(episodes, recovery_start, lost_ring, counted, received')
    <3>1. EpisodesOK(episodes, recovery_start, lost_ring, counted, received)
      BY DEF VInv
    <3>2. received \subseteq received'
      BY <1>2
    <3> QED BY <3>1, <3>2, GotFacts
  <2>2. a \subseteq received'
    BY <1>2
  <2> QED BY <2>1, <2>2, ArrivedFacts DEF Late
<1> HIDE DEF e1, r1, ring1, top, lost, late, rule
<1>5. EpisodesOK(e1, r2, ring1, counted, received')
  BY <1>4, EndFacts
<1>6. EpisodesOK(e3, r3, ring1, counted, received')
  <2>1. CASE ceNow
    BY <2>1, <1>5, Numbers, OpenFacts
  <2>2. CASE ~ceNow
    BY <2>2, <1>5
  <2> QED BY <2>1, <2>2
<1> HIDE DEF e3, r3, new
<1>7. /\ EpisodesOK(d.e, d.start, d.ring, d.counted, received')
      /\ \A p \in Pns : d.counted[p] # None => counted[p] # None \/ p \in lost
  <2>1. next_pn \in Nat /\ sent \subseteq Pns /\ CountedOnce /\ lost \subseteq sent
    BY <1>3, Numbers DEF VInv
  <2> QED BY <2>1, <1>6, DeclareFacts
<1> HIDE DEF d
<1>8. EpisodesOK(episodes, recovery_start, lost_ring, counted, received)'
  BY <1>2, <1>7
<1>9. CountedOnce'
  <2>1. lost \subseteq sent /\ sent' \subseteq sent \ lost
    BY <1>2, <1>3
  <2> QED BY <2>1, <1>2, <1>7, CountedAfter
<1>10. FramesOK'
  BY <1>2, <1>3, <1>3b, Numbers, LeaveFacts
<1>12. FlightOK'
  <2>1. new \cup lost \subseteq sent
    BY <1>3
  <2>2. pending_ping' \in BOOLEAN /\ pto_probe_count' \in 0 .. 2
    BY <1>2 DEF VInv, TypeOK
  <2>3. received' \subseteq 0 .. (next_pn - 1)
    BY <1>2, Numbers
  <2> QED BY <2>1, <2>2, <2>3, <1>2, <1>3a, FlightShrinks
<1>13. (/\ FlightOK /\ FramesOK /\ CountedOnce
        /\ EpisodesOK(episodes, recovery_start, lost_ring, counted, received))'
  BY <1>8, <1>9, <1>10, <1>12
<1> QED BY <1>13, VParts, PTL

\* Nothing changes.
LEMMA StepStutter == ASSUME VInv, UNCHANGED vars PROVE VInv'
<1>1. (/\ FlightOK /\ FramesOK /\ CountedOnce
       /\ EpisodesOK(episodes, recovery_start, lost_ring, counted, received))'
  BY VParts DEF vars, flightVars, frameVars, probeVars, reorderVars, ccVars, FlightOK, FramesOK,
     OwnersOK, NothingForgotten, Owners, Answers, CountedOnce
<1> QED BY <1>1, VParts, PTL

\* The inductive invariant: frames, flight, ring and episodes fit together in
\* every reachable state.
THEOREM Invariant == Spec => []VInv
<1>1. ASSUME VInv, [Next]_vars PROVE VInv'
  <2>1. CASE UNCHANGED vars
    BY <1>1, <2>1, StepStutter
  <2>2. CASE SendPacket
    BY <1>1, <2>2, StepSendPacket
  <2>3. CASE TimeLoss
    BY <1>1, <2>3, StepTimeLoss
  <2>4. CASE PtoProbe
    BY <1>1, <2>4, StepPtoProbe
  <2>5. CASE PtoExpire
    BY <1>1, <2>5, StepPtoExpire
  <2>6. ASSUME NEW a \in (SUBSET (0 .. (next_pn - 1))) \ {{}}, Acknowledge(a) PROVE VInv'
    BY <1>1, <2>6, StepAck DEF Acknowledge
  <2> QED BY <1>1, <2>1, <2>2, <2>3, <2>4, <2>5, <2>6 DEF Next
<1> QED BY <1>1, InitVInv, PTL DEF Spec

-----------------------------------------------------------------------------
(* What follows.                                                           *)

\* SentPacketTracker and ReorderWindow keep within their capacities, probes and
\* marks included, and every field keeps its type.
THEOREM TypeCorrect == Spec => []TypeOK
BY Invariant, PTL DEF VInv

\* requeueLostPacketOnPath(), requeueFramesForProbe() and dispatchAcked(): in
\* every order of ACKs, sweeps, probes and expiries each frame is acknowledged,
\* queued or answered for by a packet in flight; at most one of the queue and the
\* packets answers for data, whatever copies are in flight; and no stream bytes
\* are queued that one of the copies brought over.
THEOREM NoFrameLost == Spec => []FramesKept
<1>1. VInv => FramesKept
  BY KeptFacts
<1> QED BY <1>1, Invariant, PTL

\* LossEpisodes.arrived(): a congestion response is taken back only when every
\* packet it counted has arrived, however the ACK ranges repeat, the ring
\* overflows and a second episode opens.
THEOREM UndoneOnlyIfSpurious == Spec => []EpisodesSound
<1>1. VInv => EpisodesSound
  BY SoundFacts
<1> QED BY <1>1, Invariant, PTL
=============================================================================
