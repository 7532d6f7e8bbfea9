-------------------------- MODULE StreamTableProofs ---------------------------
(***************************************************************************)
(* Theorems about StreamTable, for every window, every size of the         *)
(* candidate list and any number of ids and losses: the table stays inside *)
(* the window, nothing that ended is left uncollected, credit is given     *)
(* when it is due, the end of a reclaimed stream stays on record through   *)
(* the next tick, and no reclaimed id comes back to life.                  *)
(*                                                                         *)
(* TableInv adds to the properties what makes them inductive: the limit    *)
(* runs ahead of the opened ids and never past what was closed plus the    *)
(* window, and the notes of the last tick are the last in the ring.        *)
(***************************************************************************)
EXTENDS StreamTable, FiniteSetTheorems, SequenceTheorems, TLAPS

\* The id space's counters: opened ids lie below the limit, and the limit is
\* never ahead of what the closed streams entitle the opener to.
Counters ==
    /\ opened \in 0 .. MaxStreams /\ closed \in Nat /\ limit \in Nat
    /\ opened <= limit /\ limit <= Target(closed)

Flags == full_scan \in BOOLEAN /\ gc_pending \in BOOLEAN /\ graceful \in BOOLEAN

\* The ring and the position of the latest notes in it: no more than a batch
\* is pushed at once, so the next tick cannot push them out.
Notes ==
    /\ ring \in Seq(Ids)
    /\ \A i \in reaped[1] : \E k \in 1 .. Len(ring) :
          k > Len(ring) - Batch /\ ring[k] = i

TableInv == Counters /\ Flags /\ Notes /\ TypeOK /\ TableSound

-----------------------------------------------------------------------------
(* Credit.                                                                 *)

\* Half a window, rounded down.
LEMMA HalfWindow == Window \div 2 \in Nat /\ 2 * (Window \div 2) <= Window
BY TableAssumption

\* What maybeAdvertiseStreamCredit() leaves behind: a limit that did not go
\* back, is not ahead of the entitlement, and owes no credit.
LEMMA AdvertisedFacts ==
    ASSUME NEW op \in Nat, NEW cl \in Nat, NEW lim \in Nat, NEW blocked, graceful \in BOOLEAN,
           lim <= Target(cl)
    PROVE  LET new == Advertised(op, cl, lim, blocked)
           IN  /\ new \in Nat /\ lim <= new /\ new <= Target(cl)
               /\ (op = new \/ 2 * (Window + cl - new) >= Window)
                     => new >= Window + cl \/ graceful
<1> DEFINE new == Advertised(op, cl, lim, blocked)
<1>1. Target(cl) = Window + cl /\ Target(cl) \in Nat
  BY TableAssumption DEF Target
<1>2. CASE new = Target(cl)
  BY <1>1, <1>2
<1>3. CASE new # Target(cl)
  <2>1. new = lim /\ (graceful \/ lim = Target(cl) \/ ~Due(op, Target(cl), lim, blocked))
    BY <1>3, <1>1 DEF Advertised
  <2>2. CASE ~Due(op, Target(cl), lim, blocked)
    <3>1. Target(cl) - lim < Greatest(1, Window \div 2) /\ op < lim
      BY <2>2, <1>1, HalfWindow DEF Due, Greatest
    <3>2. 2 * (Window + cl - lim) >= Window => lim >= Window + cl
      BY <3>1, <1>1, HalfWindow, TableAssumption DEF Greatest
    <3> QED BY <2>1, <3>1, <3>2, <1>1
  <2> QED BY <2>1, <2>2, <1>1
<1> QED BY <1>2, <1>3

\* A set of natural numbers that is not empty has a least member.
LEMMA LeastNumber ==
    ASSUME NEW T, T \subseteq Nat, T # {}
    PROVE  \E x \in T : \A y \in T : x <= y
<1> DEFINE Less == {ss \in Nat \X Nat : ss[1] < ss[2]}
<1>1. IsWellFoundedOn(Less, Nat)
  BY NatLessThanWellFounded DEF OpToRel
<1>2. \A x, y \in T : <<y, x>> \in Less <=> y < x
  OBVIOUS
<1> HIDE DEF Less
<1>3. PICK x \in T : \A y \in T : ~(<<y, x>> \in Less)
  BY <1>1, WFMin
<1>4. \A y \in T : ~(y < x)
  BY <1>2, <1>3
<1> QED BY <1>4

\* The recursion of LimitAfter defines a function.
LEMMA LimitAfterIs ==
    LimitAfter = [k \in 0 .. MaxStreams |->
        IF k = 0 THEN limit
        ELSE Advertised(opened, closed + k, LimitAfter[k - 1], peer_blocked)]
<1> DEFINE Adv(k, l) == Advertised(opened, closed + k, l, peer_blocked)
           Is(f, m) == f = [k \in 0 .. m |-> IF k = 0 THEN limit ELSE Adv(k, f[k - 1])]
<1> HIDE DEF Adv
<1>1. ASSUME NEW m \in Nat, m # 0, \E f : Is(f, m - 1) PROVE \E f : Is(f, m)
  <2>1. PICK g : Is(g, m - 1)
    BY <1>1
  <2> DEFINE f == [k \in 0 .. m |-> IF k = 0 THEN limit ELSE Adv(k, g[k - 1])]
  <2>2. \A k \in 0 .. (m - 1) : f[k] = g[k]
    BY <2>1
  <2>3. ASSUME NEW k \in 0 .. m
        PROVE  f[k] = IF k = 0 THEN limit ELSE Adv(k, f[k - 1])
    <3>1. f[k] = IF k = 0 THEN limit ELSE Adv(k, g[k - 1])
      OBVIOUS
    <3>2. k # 0 => k - 1 \in 0 .. (m - 1)
      OBVIOUS
    <3> HIDE DEF f
    <3> QED BY <3>1, <3>2, <2>2
  <2>4. Is(f, m)
    BY <2>3
  <2> QED BY <2>4
<1>2. \E f : Is(f, 0)
  <2>1. Is([k \in 0 .. 0 |-> limit], 0)
    OBVIOUS
  <2> QED BY <2>1
<1>3. \A m \in Nat : \E f : Is(f, m)
  <2> DEFINE Bad == {m \in Nat : ~\E f : Is(f, m)}
  <2> HIDE DEF Is
  <2>1. SUFFICES ASSUME Bad # {} PROVE FALSE
    OBVIOUS
  <2>2. PICK x \in Bad : \A y \in Bad : x <= y
    BY <2>1, LeastNumber
  <2>3. x # 0 /\ x \in Nat
    BY <2>2, <1>2
  <2>4. x - 1 \in Nat /\ x - 1 \notin Bad
    BY <2>2, <2>3
  <2> QED BY <2>2, <2>3, <2>4, <1>1
<1>4. \E f : Is(f, MaxStreams)
  BY <1>3, TableAssumption
<1>5. Is(LimitAfter, MaxStreams)
  BY <1>4 DEF LimitAfter, Adv
<1> QED BY <1>5 DEF Adv

\* Reclaiming k streams one after the other: the limit does not go back, is
\* not ahead of the entitlement, and the last advertisement owes no credit.
LEMMA LimitAfterFacts ==
    ASSUME Counters, Flags, NEW n \in 0 .. MaxStreams
    PROVE  /\ LimitAfter[n] \in Nat /\ limit <= LimitAfter[n]
           /\ LimitAfter[n] <= Target(closed + n)
           /\ n # 0 => ((opened = LimitAfter[n]
                            \/ 2 * (Window + (closed + n) - LimitAfter[n]) >= Window)
                          => LimitAfter[n] >= Window + (closed + n) \/ graceful)
<1> DEFINE Good(k) == /\ LimitAfter[k] \in Nat /\ limit <= LimitAfter[k]
                      /\ LimitAfter[k] <= Target(closed + k)
           Owed(k) == (opened = LimitAfter[k]
                            \/ 2 * (Window + (closed + k) - LimitAfter[k]) >= Window)
                          => LimitAfter[k] >= Window + (closed + k) \/ graceful
<1>0. opened \in Nat /\ closed \in Nat /\ limit \in Nat /\ graceful \in BOOLEAN
  BY TableAssumption DEF Counters, Flags
<1>1. Good(0)
  <2>1. LimitAfter[0] = limit
    BY LimitAfterIs, TableAssumption
  <2>2. closed + 0 = closed
    BY <1>0
  <2> QED BY <2>1, <2>2, <1>0, TableAssumption DEF Counters, Target
<1>2. ASSUME NEW k \in 1 .. MaxStreams, Good(k - 1) PROVE Good(k) /\ Owed(k)
  <2>1. LimitAfter[k] = Advertised(opened, closed + k, LimitAfter[k - 1], peer_blocked)
    BY LimitAfterIs, TableAssumption
  <2>2. LimitAfter[k - 1] <= Target(closed + k) /\ closed + k \in Nat
    BY <1>2, <1>0, TableAssumption DEF Target
  <2> QED BY <2>1, <2>2, <1>0, <1>2, AdvertisedFacts, TableAssumption DEF Target
<1>3. \A k \in 0 .. MaxStreams : Good(k)
  <2> DEFINE Bad == {k \in 0 .. MaxStreams : ~Good(k)}
  <2> HIDE DEF Good
  <2>1. SUFFICES ASSUME Bad # {} PROVE FALSE
    OBVIOUS
  <2>a. Bad \subseteq Nat
    BY TableAssumption
  <2>2. PICK x \in Bad : \A y \in Bad : x <= y
    BY <2>1, <2>a, LeastNumber
  <2>3. x # 0 /\ x \in 1 .. MaxStreams
    BY <2>2, <1>1, TableAssumption
  <2>4. Good(x - 1)
    BY <2>2, <2>3, TableAssumption
  <2> QED BY <2>2, <2>3, <2>4, <1>2
<1>4. n # 0 => n \in 1 .. MaxStreams /\ Good(n - 1)
  BY <1>3, TableAssumption
<1> QED BY <1>2, <1>3, <1>4

-----------------------------------------------------------------------------
(* The candidate list, the ids and the ring.                               *)

\* The sets of the table are finite.
LEMMA TableFinite ==
    ASSUME Counters, TypeOK
    PROVE  /\ IsFiniteSet(live) /\ IsFiniteSet(holes) /\ IsFiniteSet(candidates)
           /\ Cardinality(live) \in Nat /\ Cardinality(holes) \in Nat
           /\ Cardinality(candidates) \in Nat
           /\ Cardinality(live) <= MaxStreams
<1>1. opened \in Nat /\ opened <= MaxStreams /\ closed \in Nat
  BY TableAssumption DEF Counters
<1>2. IsFiniteSet(0 .. (opened - 1))
  BY <1>1, FS_Interval
<1>3. IsFiniteSet(live) /\ IsFiniteSet(holes)
  BY <1>2, FS_Subset DEF TypeOK
<1>4. IsFiniteSet(candidates)
  BY <1>3, FS_Subset DEF TypeOK
<1>5. /\ Cardinality(live) \in Nat /\ Cardinality(holes) \in Nat
      /\ Cardinality(candidates) \in Nat
  BY <1>3, <1>4, FS_CardinalityType
<1>6. opened - closed = Cardinality(live) + Cardinality(holes)
  BY DEF TypeOK
<1>7. Cardinality(live) <= MaxStreams
  BY <1>1, <1>5, <1>6, TableAssumption
<1> QED BY <1>3, <1>4, <1>5, <1>7

\* noteStreamGc(): the list grows by at most stream i and stays within its
\* batch, what it named before it still names, and a stream with work for the
\* collector is on the list or asks for the walk.
LEMMA NoteGcFacts ==
    ASSUME Counters, Flags, TypeOK, NothingUncollected,
           NEW i, NEW rs, NEW se, NEW st, NoteGc(i, rs, se, st)
    PROVE  /\ candidates' \subseteq candidates \cup {i} /\ candidates \subseteq candidates'
           /\ Cardinality(candidates') <= Batch
           /\ full_scan' \in BOOLEAN /\ gc_pending' \in BOOLEAN
           /\ full_scan => full_scan'
           /\ (candidates' # {} \/ full_scan') => gc_pending'
           /\ (i \in st \/ Terminated(i, rs, se)) => i \in candidates' \/ full_scan'
<1>1. /\ full_scan \in BOOLEAN /\ gc_pending \in BOOLEAN
      /\ (candidates # {} \/ full_scan) => gc_pending
      /\ IsFiniteSet(candidates) /\ Cardinality(candidates) \in Nat
      /\ Cardinality(candidates) <= Batch
  BY TableFinite DEF Flags, NothingUncollected, TypeOK
<1>2. CASE ~(i \in st \/ Terminated(i, rs, se))
  <2>1. candidates' = candidates /\ full_scan' = full_scan /\ gc_pending' = gc_pending
    BY <1>2 DEF NoteGc
  <2> QED BY <1>1, <1>2, <2>1
<1>3. CASE (i \in st \/ Terminated(i, rs, se)) /\ (i \in candidates \/ full_scan)
  <2>1. candidates' = candidates /\ full_scan' = full_scan /\ gc_pending' = TRUE
    BY <1>3 DEF NoteGc
  <2> QED BY <1>1, <1>3, <2>1
<1>4. CASE /\ i \in st \/ Terminated(i, rs, se)
           /\ ~(i \in candidates \/ full_scan)
           /\ Cardinality(candidates) = Batch
  <2>1. candidates' = candidates /\ full_scan' = TRUE /\ gc_pending' = TRUE
    BY <1>4 DEF NoteGc, ListFull
  <2> QED BY <1>1, <2>1
<1>5. CASE /\ i \in st \/ Terminated(i, rs, se)
           /\ ~(i \in candidates \/ full_scan)
           /\ Cardinality(candidates) # Batch
  <2>1. candidates' = candidates \cup {i} /\ full_scan' = full_scan /\ gc_pending' = TRUE
    BY <1>5 DEF NoteGc
  <2>2. Cardinality(candidates \cup {i}) = Cardinality(candidates) + 1
    BY <1>1, <1>5, FS_AddElement
  <2> QED BY <1>1, <1>5, <2>1, <2>2, TableAssumption
<1> QED BY <1>2, <1>3, <1>4, <1>5

\* materializeStream(): ids are live, skipped or closed before and after, and
\* each is counted once.
LEMMA MaterializeFacts ==
    ASSUME Counters, TypeOK, NEW i \in Ids, i \notin live, i < opened => i \in holes,
           Materialize(i)
    PROVE  /\ live' \subseteq Ids /\ opened' \in 0 .. MaxStreams /\ opened <= opened'
           /\ opened' = Greatest(opened, i + 1)
           /\ holes' \subseteq 0 .. (opened' - 1)
           /\ live' \subseteq (0 .. (opened' - 1)) \ holes'
           /\ opened' - closed = Cardinality(live') + Cardinality(holes')
           /\ live' = live \cup {i}
<1>1. /\ opened \in Nat /\ opened <= MaxStreams /\ closed \in Nat /\ i \in Nat
      /\ i < MaxStreams /\ MaxStreams \in Nat
  BY TableAssumption DEF Counters, Ids
<1>2. /\ IsFiniteSet(live) /\ IsFiniteSet(holes)
      /\ Cardinality(live) \in Nat /\ Cardinality(holes) \in Nat
  BY TableFinite
<1>3. /\ live' = live \cup {i} /\ holes' = (holes \cup (opened .. (i - 1))) \ {i}
      /\ opened' = Greatest(opened, i + 1)
  BY DEF Materialize
<1>4. Cardinality(live') = Cardinality(live) + 1
  BY <1>2, <1>3, FS_AddElement
<1>5. /\ holes \subseteq 0 .. (opened - 1) /\ live \subseteq (0 .. (opened - 1)) \ holes
      /\ opened - closed = Cardinality(live) + Cardinality(holes) /\ live \subseteq Ids
  BY DEF TypeOK
<1>6. CASE i < opened
  <2>1. opened' = opened /\ opened .. (i - 1) = {}
    BY <1>1, <1>3, <1>6 DEF Greatest
  <2>2. holes' = holes \ {i} /\ i \in holes
    BY <1>3, <1>6, <2>1
  <2>3. Cardinality(holes') = Cardinality(holes) - 1
    BY <1>2, <2>2, FS_RemoveElement
  <2> QED BY <1>1, <1>2, <1>3, <1>4, <1>5, <1>6, <2>1, <2>2, <2>3
<1>7. CASE ~(i < opened)
  <2>1. opened' = i + 1
    BY <1>1, <1>3, <1>7 DEF Greatest
  <2> DEFINE New == opened .. (i - 1)
  <2>2. holes' = holes \cup New /\ holes \cap New = {}
    BY <1>1, <1>3, <1>5, <1>7
  <2>3. IsFiniteSet(New) /\ Cardinality(New) = i - opened
    <3>1. opened \in Int /\ i - 1 \in Int
      BY <1>1
    <3>2. IsFiniteSet(New) /\ Cardinality(New) = IF opened > i - 1 THEN 0 ELSE i - 1 - opened + 1
      BY <3>1, FS_Interval
    <3> HIDE DEF New
    <3> QED BY <1>1, <1>7, <3>2
  <2>4. Cardinality(holes') = Cardinality(holes) + (i - opened)
    <3> HIDE DEF New
    <3>1. Cardinality(holes \cup New)
             = Cardinality(holes) + Cardinality(New) - Cardinality(holes \cap New)
      BY <1>2, <2>3, FS_Union
    <3>2. Cardinality(holes \cap New) = 0
      BY <2>2, FS_EmptySet
    <3> QED BY <1>1, <1>2, <2>2, <2>3, <3>1, <3>2
  <2>5. holes' \subseteq 0 .. (opened' - 1) /\ live' \subseteq (0 .. (opened' - 1)) \ holes'
    BY <1>1, <1>3, <1>5, <1>7, <2>1, <2>2
  <2>6. opened' - closed = Cardinality(live') + Cardinality(holes')
    BY <1>1, <1>2, <1>4, <1>5, <1>7, <2>1, <2>4
  <2> QED BY <1>1, <1>3, <1>5, <1>7, <2>1, <2>5, <2>6
<1> QED BY <1>6, <1>7

\* A function from 1..n is a sequence of length n.
LEMMA FunctionIsSeq ==
    ASSUME NEW S, NEW n \in Nat, NEW s \in [1 .. n -> S]
    PROVE  s \in Seq(S) /\ Len(s) = n
<1>1. s \in Seq(S)
  BY SeqDef
<1>2. DOMAIN s = 1 .. n /\ DOMAIN s = 1 .. Len(s) /\ Len(s) \in Nat
  BY <1>1, LenProperties
<1> QED BY <1>1, <1>2

\* RecvEndRing: what a tick pushes is the end of the ring, and whatever lay in
\* the last batch before it is still there.
LEMMA PushFacts ==
    ASSUME NEW s \in Seq(Ids), Len(s) <= Batch, ring \in Seq(Ids)
    PROVE  /\ Push(s) \in Seq(Ids) /\ Len(Push(s)) <= 2 * Batch
           /\ \A k \in 1 .. Len(s) : \E j \in 1 .. Len(Push(s)) :
                 j > Len(Push(s)) - Batch /\ Push(s)[j] = s[k]
           /\ \A k \in 1 .. Len(ring) : k > Len(ring) - Batch =>
                 \E j \in 1 .. Len(Push(s)) : Push(s)[j] = ring[k]
<1> DEFINE all == ring \o s
           a == Greatest(1, Len(all) - Capacity + 1)
           r == SubSeq(all, a, Len(all))
<1>1. PICK n \in Nat : n = Len(s)
  BY LenProperties
<1>2. n \in Nat /\ n <= Batch /\ Batch \in Nat /\ Batch > 0 /\ Capacity = 2 * Batch
  BY <1>1, TableAssumption DEF Capacity
<1>4. Len(ring) \in Nat
  BY LenProperties
<1>5. /\ all \in Seq(Ids) /\ Len(all) = Len(ring) + n
      /\ \A i \in 1 .. (Len(ring) + n) :
            all[i] = IF i <= Len(ring) THEN ring[i] ELSE s[i - Len(ring)]
  BY <1>1, ConcatProperties
<1> HIDE DEF all
<1>a. a = IF 1 > Len(all) - 2 * Batch + 1 THEN 1 ELSE Len(all) - 2 * Batch + 1
  BY <1>2 DEF Greatest
<1> HIDE DEF a
<1>6. /\ a \in Nat /\ a >= 1 /\ a <= Len(all) + 1
      /\ a = 1 \/ a = Len(ring) + n - 2 * Batch + 1
      /\ a >= Len(ring) + n - 2 * Batch + 1
  <2>1. Len(all) = Len(ring) + n /\ Len(all) \in Nat
    BY <1>2, <1>4, <1>5
  <2>2. CASE 1 > Len(all) - 2 * Batch + 1
    BY <1>2, <1>4, <1>a, <2>1, <2>2
  <2>3. CASE ~(1 > Len(all) - 2 * Batch + 1)
    BY <1>2, <1>4, <1>a, <2>1, <2>3
  <2> QED BY <2>2, <2>3
<1>7. \A i \in a .. Len(all) : all[i] \in Ids
  BY <1>5, <1>6, <1>2, <1>4, ElementOfSeq
<1>8. /\ r \in Seq(Ids)
      /\ Len(r) = IF a <= Len(all) THEN Len(all) - a + 1 ELSE 0
      /\ \A i \in 1 .. (Len(all) - a + 1) : r[i] = all[a + i - 1]
  BY <1>7, <1>6, <1>5, <1>4, <1>2, SubSeqProperties
<1>9. Len(r) = Len(all) - a + 1
  BY <1>8, <1>6, <1>5, <1>4, <1>2
<1>10. Push(s) = r
  BY DEF Push, all, a
<1> HIDE DEF r
<1>11. Len(r) <= 2 * Batch /\ Len(r) = Len(ring) + n - a + 1
  BY <1>9, <1>6, <1>5, <1>4, <1>2
<1>12. ASSUME NEW k \in 1 .. n
       PROVE  \E j \in 1 .. Len(r) : j > Len(r) - Batch /\ r[j] = s[k]
  <2> DEFINE j == Len(ring) + k - a + 1
  <2>1. j \in 1 .. Len(r) /\ j > Len(r) - Batch /\ a + j - 1 = Len(ring) + k
    BY <1>2, <1>4, <1>6, <1>11
  <2>2. r[j] = all[Len(ring) + k]
    BY <2>1, <1>8, <1>9
  <2>3. all[Len(ring) + k] = s[k]
    BY <1>5, <1>4, <1>2
  <2> HIDE DEF j
  <2> QED BY <2>1, <2>2, <2>3
<1>13. ASSUME NEW k \in 1 .. Len(ring), k > Len(ring) - Batch
       PROVE  \E j \in 1 .. Len(r) : r[j] = ring[k]
  <2> DEFINE j == k - a + 1
  <2>1. j \in 1 .. Len(r) /\ a + j - 1 = k
    BY <1>2, <1>4, <1>6, <1>11, <1>13
  <2>2. r[j] = all[k]
    BY <2>1, <1>8, <1>9
  <2>3. all[k] = ring[k]
    BY <1>5, <1>4, <1>2
  <2> HIDE DEF j
  <2> QED BY <2>1, <2>2, <2>3
<1> QED BY <1>1, <1>8, <1>10, <1>11, <1>12, <1>13

-----------------------------------------------------------------------------
(* The invariant.                                                          *)

\* Ids opened and not closed are live or skipped, so the counters bound them.
LEMMA HeldInWindow == Counters /\ TypeOK => HeldBounded
<1> SUFFICES ASSUME Counters, TypeOK PROVE HeldBounded
  OBVIOUS
<1>1. /\ opened \in Nat /\ closed \in Nat /\ limit \in Nat /\ Window \in Nat
      /\ opened <= limit /\ limit <= Window + closed
  BY TableAssumption DEF Counters, Target
<1>2. opened - closed = Cardinality(live) + Cardinality(holes)
  BY DEF TypeOK
<1> QED BY <1>1, <1>2, TableFinite DEF HeldBounded

\* A new connection satisfies the invariant.
LEMMA InitTableInv == Init => TableInv
<1> SUFFICES ASSUME Init PROVE TableInv
  OBVIOUS
<1>1. /\ opened = 0 /\ holes = {} /\ closed = 0 /\ limit = Window /\ live = {}
      /\ asked = {} /\ send_ended = {} /\ stopped = {} /\ candidates = {}
      /\ full_scan = FALSE /\ gc_pending = FALSE /\ graceful = FALSE
      /\ ring = <<>> /\ reaped = <<{}, {}>>
      /\ recv_state = [i \in Ids |-> "open"]
  BY DEF Init
<1>2. Counters /\ Flags
  <2>1. Counters
    BY <1>1, TableAssumption DEF Counters, Target
  <2>2. Flags
    BY <1>1 DEF Flags
  <2> QED BY <2>1, <2>2
<1>3. Notes /\ EndNoteSurvives /\ Len(ring) = 0
  BY <1>1, EmptySeq DEF Notes, EndNoteSurvives
<1>4. Cardinality({}) = 0
  BY FS_EmptySet
<1>5. TypeOK
  BY <1>1, <1>3, <1>4, TableAssumption DEF TypeOK
<1>6. NothingUncollected
  BY <1>1 DEF NothingUncollected
<1>7. NoCreditOwed
  BY <1>1, TableAssumption DEF NoCreditOwed
<1> QED BY <1>2, <1>3, <1>5, <1>6, <1>7, HeldInWindow DEF TableInv, TableSound

\* The acceptor's table is left alone; the opener may have opened an id.
LEMMA Untouched ==
    ASSUME TableInv, asked' \subseteq Ids,
           UNCHANGED <<idVars, live, halfVars, gcVars, endVars, graceful>>
    PROVE  TableInv'
BY DEF TableInv, Counters, Flags, Notes, TypeOK, TableSound, HeldBounded,
       NothingUncollected, NoCreditOwed, EndNoteSurvives, Terminated,
       idVars, halfVars, gcVars, endVars

\* What the collector knows of stays true when one stream i changes and
\* noteStreamGc() is called for it.
GcSound == /\ candidates \subseteq live /\ Cardinality(candidates) <= Batch
           /\ full_scan \in BOOLEAN /\ gc_pending \in BOOLEAN
           /\ NothingUncollected

LEMMA GcKept ==
    ASSUME TableInv, NEW i, NoteGc(i, recv_state', send_ended', stopped'),
           live' = live \cup {i},
           \A j \in live : j # i => /\ recv_state'[j] = recv_state[j]
                                    /\ j \in send_ended' => j \in send_ended
                                    /\ j \in stopped' => j \in stopped
    PROVE  GcSound'
<1>1. /\ candidates' \subseteq candidates \cup {i} /\ candidates \subseteq candidates'
      /\ Cardinality(candidates') <= Batch
      /\ full_scan' \in BOOLEAN /\ gc_pending' \in BOOLEAN
      /\ full_scan => full_scan'
      /\ (candidates' # {} \/ full_scan') => gc_pending'
      /\ (i \in stopped' \/ Terminated(i, recv_state', send_ended'))
            => i \in candidates' \/ full_scan'
  BY NoteGcFacts DEF TableInv, TableSound
<1>2. candidates' \subseteq live'
  BY <1>1 DEF TableInv, TypeOK
<1>3. ASSUME NEW j \in live',
             Terminated(j, recv_state', send_ended')
                \/ (j \in stopped' /\ recv_state'[j] = "fin")
      PROVE  j \in candidates' \/ full_scan'
  <2>1. CASE j = i
    BY <1>1, <1>3, <2>1
  <2>2. CASE j # i
    <3>1. j \in live
      BY <2>2
    <3>2. Terminated(j, recv_state, send_ended) \/ (j \in stopped /\ recv_state[j] = "fin")
      BY <1>3, <2>2, <3>1 DEF Terminated
    <3> QED BY <1>1, <3>1, <3>2 DEF TableInv, TableSound, NothingUncollected
  <2> QED BY <2>1, <2>2
<1> QED BY <1>1, <1>2, <1>3 DEF GcSound, NothingUncollected

\* The parts a step shows one by one, and the invariant they add up to.
Parts ==
    /\ Counters /\ graceful \in BOOLEAN /\ GcSound /\ NoCreditOwed
    /\ Notes /\ EndNoteSurvives /\ Len(ring) <= 2 * Batch
    /\ asked \subseteq Ids /\ live \subseteq Ids /\ stopped \subseteq Ids
    /\ holes \subseteq 0 .. (opened - 1) /\ live \subseteq (0 .. (opened - 1)) \ holes
    /\ opened - closed = Cardinality(live) + Cardinality(holes)
    /\ recv_state \in [Ids -> {"open", "fin", "ended"}]

LEMMA Assemble == Parts => TableInv
<1>1. Counters /\ TypeOK => HeldBounded
  BY HeldInWindow
<1> QED BY <1>1 DEF Parts, TableInv, Flags, GcSound, TypeOK, TableSound

\* The notes of reclaimed streams stay when no tick runs.
LEMMA NotesKept ==
    ASSUME TableInv, UNCHANGED endVars
    PROVE  Notes' /\ EndNoteSurvives' /\ (Len(ring) <= 2 * Batch)'
BY DEF TableInv, TableSound, TypeOK, Notes, EndNoteSurvives, endVars

\* A stream that is live changes.
LEMMA LiveChanges ==
    ASSUME TableInv, NEW i \in live, NoteGc(i, recv_state', send_ended', stopped'),
           UNCHANGED <<openerVars, idVars, live, endVars, graceful>>,
           stopped' \subseteq Ids, recv_state' \in [Ids -> {"open", "fin", "ended"}],
           \A j \in live : j # i => /\ recv_state'[j] = recv_state[j]
                                    /\ j \in send_ended' => j \in send_ended
                                    /\ j \in stopped' => j \in stopped
    PROVE  TableInv'
<1>1. GcSound'
  <2>1. live' = live \cup {i}
    OBVIOUS
  <2> QED BY <2>1, GcKept
<1>2. Notes' /\ EndNoteSurvives' /\ (Len(ring) <= 2 * Batch)'
  BY NotesKept
<1>3. Counters' /\ graceful' \in BOOLEAN /\ NoCreditOwed'
  BY DEF TableInv, Counters, Flags, TableSound, NoCreditOwed, idVars
<1>4. /\ asked' \subseteq Ids /\ live' \subseteq Ids
      /\ holes' \subseteq 0 .. (opened' - 1) /\ live' \subseteq (0 .. (opened' - 1)) \ holes'
      /\ opened' - closed' = Cardinality(live') + Cardinality(holes')
  BY DEF TableInv, TypeOK, idVars, openerVars
<1>5. Parts'
  BY <1>1, <1>2, <1>3, <1>4 DEF Parts
<1> QED BY <1>5, Assemble, PTL

-----------------------------------------------------------------------------
(* Each step preserves the invariant.                                      *)

\* A frame of the opener's stream, known or new.
LEMMA StepRecvFrame ==
    ASSUME TableInv, NEW i \in Ids, NEW kind \in Kinds, RecvFrame(i, kind)
    PROVE  TableInv'
<1>1. /\ ~Gone(i)
      /\ UNCHANGED <<openerVars, endVars, graceful, wireVars>>
  BY DEF RecvFrame
<1>2. CASE i \notin live /\ i >= limit
  <2>1. UNCHANGED <<idVars, live, halfVars, gcVars>>
    BY <1>2 DEF RecvFrame
  <2>2. asked' \subseteq Ids
    BY <1>1 DEF TableInv, TypeOK, openerVars
  <2> QED BY <1>1, <2>1, <2>2, Untouched
<1>3. CASE ~(i \notin live /\ i >= limit)
  <2>1. /\ i \in live => UNCHANGED <<idVars, live, creditVars>>
        /\ i \notin live =>
              /\ Materialize(i)
              /\ QueueMax(Advertised(Greatest(opened, i + 1), closed, limit, peer_blocked),
                          peer_blocked)
              /\ UNCHANGED closed
        /\ NoteGc(i, recv_state', send_ended, stopped)
        /\ UNCHANGED <<send_ended, stopped, error>>
    BY <1>3 DEF RecvFrame
  <2>2. PICK to \in IF kind = "data" \/ recv_state[i] = "ended" THEN {recv_state[i]}
                    ELSE IF kind = "reset" \/ i \in stopped THEN {"ended"}
                    ELSE {"fin", "ended"} :
           recv_state' = [recv_state EXCEPT ![i] = to]
    BY <1>3 DEF RecvFrame
  <2>3. recv_state \in [Ids -> {"open", "fin", "ended"}]
    BY DEF TableInv, TypeOK
  <2>4. to \in {"open", "fin", "ended"}
    BY <2>2, <2>3
  <2>5. /\ recv_state' \in [Ids -> {"open", "fin", "ended"}]
        /\ \A j \in Ids : j # i => recv_state'[j] = recv_state[j]
    BY <2>2, <2>3, <2>4
  <2>6. live \subseteq Ids /\ stopped' \subseteq Ids /\ asked' \subseteq Ids
    BY <1>1, <2>1 DEF TableInv, TypeOK, openerVars
  <2>7. NoteGc(i, recv_state', send_ended', stopped')
    BY <2>1
  <2>8. \A j \in live : j # i => /\ recv_state'[j] = recv_state[j]
                                 /\ j \in send_ended' => j \in send_ended
                                 /\ j \in stopped' => j \in stopped
    BY <2>1, <2>5, <2>6
  <2>9. CASE i \in live
    BY <1>1, <2>1, <2>5, <2>6, <2>7, <2>8, <2>9, LiveChanges
  <2>10. CASE i \notin live
    <3> DEFINE new == Advertised(Greatest(opened, i + 1), closed, limit, peer_blocked)
    <3>1. Counters /\ TypeOK /\ graceful \in BOOLEAN
      BY DEF TableInv, Flags
    <3>2. i < opened => i \in holes
      BY <1>1, <2>10 DEF Gone
    <3>3. /\ live' \subseteq Ids /\ opened' \in 0 .. MaxStreams /\ opened <= opened'
          /\ opened' = Greatest(opened, i + 1)
          /\ holes' \subseteq 0 .. (opened' - 1)
          /\ live' \subseteq (0 .. (opened' - 1)) \ holes'
          /\ opened' - closed = Cardinality(live') + Cardinality(holes')
          /\ live' = live \cup {i}
      BY <2>1, <2>10, <3>1, <3>2, MaterializeFacts
    <3>4. /\ opened \in Nat /\ opened' \in Nat /\ closed \in Nat /\ limit \in Nat
          /\ i \in Nat /\ i < limit /\ opened <= limit /\ limit <= Target(closed)
      BY <1>3, <2>10, <3>1, <3>3, TableAssumption DEF Counters, Ids
    <3>5. limit' = new /\ closed' = closed /\ graceful' = graceful
      BY <1>1, <2>1, <2>10 DEF QueueMax
    <3>6. /\ new \in Nat /\ limit <= new /\ new <= Target(closed)
          /\ (opened' = new \/ 2 * (Window + closed - new) >= Window)
                => new >= Window + closed \/ graceful
      BY <3>1, <3>3, <3>4, AdvertisedFacts
    <3>7. Counters'
      BY <3>3, <3>4, <3>5, <3>6 DEF Counters, Target, Greatest
    <3>8. NoCreditOwed'
      BY <3>5, <3>6 DEF NoCreditOwed
    <3>9. GcSound'
      BY <2>7, <2>8, <3>3, GcKept
    <3>10. Notes' /\ EndNoteSurvives' /\ (Len(ring) <= 2 * Batch)'
      BY <1>1, NotesKept
    <3>11. Parts'
      BY <2>5, <2>6, <3>1, <3>3, <3>5, <3>7, <3>8, <3>9, <3>10 DEF Parts
    <3> QED BY <3>11, Assemble, PTL
  <2> QED BY <2>9, <2>10
<1> QED BY <1>2, <1>3

\* The acceptor's own part of a stream ends.
LEMMA StepSendEnds ==
    ASSUME TableInv, NEW i \in Ids, SendEnds(i)
    PROVE  TableInv'
<1>1. /\ i \in live /\ send_ended' = send_ended \cup {i}
      /\ NoteGc(i, recv_state, send_ended', stopped)
      /\ UNCHANGED <<openerVars, idVars, live, recv_state, stopped, endVars, graceful>>
  BY DEF SendEnds
<1>2. NoteGc(i, recv_state', send_ended', stopped')
  BY <1>1
<1>3. stopped' \subseteq Ids /\ recv_state' \in [Ids -> {"open", "fin", "ended"}]
  BY <1>1 DEF TableInv, TypeOK
<1> QED BY <1>1, <1>2, <1>3, LiveChanges

\* The application reads to the end.
LEMMA StepRead ==
    ASSUME TableInv, NEW i \in Ids, Read(i)
    PROVE  TableInv'
<1>1. /\ i \in live /\ recv_state' = [recv_state EXCEPT ![i] = "ended"]
      /\ NoteGc(i, recv_state', send_ended, stopped)
      /\ UNCHANGED <<openerVars, idVars, live, send_ended, stopped, endVars, graceful>>
  BY DEF Read
<1>2. NoteGc(i, recv_state', send_ended', stopped')
  BY <1>1
<1>3. stopped' \subseteq Ids /\ recv_state' \in [Ids -> {"open", "fin", "ended"}]
  BY <1>1 DEF TableInv, TypeOK
<1>4. \A j \in live : j # i => recv_state'[j] = recv_state[j]
  BY <1>1 DEF TableInv, TypeOK
<1> QED BY <1>1, <1>2, <1>3, <1>4, LiveChanges

\* The application stops reading, of a skipped id too, which it opens.
LEMMA StepStopSending ==
    ASSUME TableInv, NEW i, StopSending(i)
    PROVE  TableInv'
<1>1. /\ i \in live \cup holes /\ stopped' = stopped \cup {i}
      /\ i \in live => UNCHANGED <<live, holes, opened>>
      /\ i \notin live => Materialize(i)
      /\ NoteGc(i, recv_state, send_ended, stopped')
      /\ UNCHANGED <<openerVars, closed, limit, recv_state, send_ended, endVars, graceful>>
  BY DEF StopSending
<1>2. NoteGc(i, recv_state', send_ended', stopped')
  BY <1>1
<1>3. /\ Counters /\ TypeOK /\ graceful \in BOOLEAN
      /\ opened \in Nat /\ opened <= MaxStreams
  BY TableAssumption DEF TableInv, Flags, Counters
<1>4. i \in Ids
  BY <1>1, <1>3, TableAssumption DEF TypeOK, Ids
<1>5. /\ asked' \subseteq Ids /\ stopped' \subseteq Ids
      /\ recv_state' \in [Ids -> {"open", "fin", "ended"}]
  BY <1>1, <1>3, <1>4 DEF TypeOK, openerVars
<1>6. \A j \in live : j # i => /\ recv_state'[j] = recv_state[j]
                               /\ j \in send_ended' => j \in send_ended
                               /\ j \in stopped' => j \in stopped
  BY <1>1
<1>7. CASE i \in live
  BY <1>1, <1>2, <1>5, <1>6, <1>7, LiveChanges DEF idVars
<1>8. CASE i \notin live
  <2>1. i \in holes /\ i < opened /\ i \in Nat
    BY <1>1, <1>3, <1>8 DEF TypeOK
  <2>2. /\ live' \subseteq Ids /\ opened' \in 0 .. MaxStreams
        /\ opened' = Greatest(opened, i + 1)
        /\ holes' \subseteq 0 .. (opened' - 1)
        /\ live' \subseteq (0 .. (opened' - 1)) \ holes'
        /\ opened' - closed = Cardinality(live') + Cardinality(holes')
        /\ live' = live \cup {i}
    BY <1>1, <1>3, <1>4, <1>8, <2>1, MaterializeFacts
  <2>3. opened' = opened
    BY <1>3, <2>1, <2>2 DEF Greatest
  <2>4. Counters' /\ NoCreditOwed' /\ graceful' \in BOOLEAN
    BY <1>1, <1>3, <2>3 DEF Counters, NoCreditOwed, TableInv, TableSound
  <2>5. GcSound'
    BY <1>2, <1>6, <2>2, GcKept
  <2>6. Notes' /\ EndNoteSurvives' /\ (Len(ring) <= 2 * Batch)'
    BY <1>1, NotesKept
  <2>7. Parts'
    BY <1>1, <1>5, <2>2, <2>4, <2>5, <2>6 DEF Parts
  <2> QED BY <2>7, Assemble, PTL
<1> QED BY <1>7, <1>8

\* The tick: whatever set of candidates it walks and reclaims.
LEMMA StepTick ==
    ASSUME TableInv, Tick
    PROVE  TableInv'
<1> DEFINE scanned == IF full_scan THEN live ELSE candidates
           Done(walked) == {i \in walked : Terminated(i, Discarded(walked), send_ended)}
<1>1. PICK walked, gone :
        /\ walked \in SUBSET live /\ gone \in SUBSET walked
        /\ gc_pending
        /\ walked \subseteq scanned
        /\ walked = scanned \/ Cardinality(Done(walked)) = Batch + 1
        /\ gone \subseteq Done(walked)
        /\ Cardinality(gone) = (IF Cardinality(Done(walked)) > Batch THEN Batch
                                ELSE Cardinality(Done(walked)))
        /\ live' = live \ gone
        /\ closed' = closed + Cardinality(gone)
        /\ QueueMax(LimitAfter[Cardinality(gone)], peer_blocked)
        /\ recv_state' = Discarded(walked)
        /\ candidates' = {}
        /\ full_scan' = (Cardinality(gone) = Batch)
        /\ gc_pending' = (Cardinality(gone) = Batch)
        /\ \E s \in [1 .. Cardinality(gone) -> gone] :
              {s[k] : k \in 1 .. Cardinality(gone)} = gone /\ ring' = Push(s)
        /\ reaped' = <<gone, reaped[1]>>
        /\ UNCHANGED <<openerVars, opened, holes, send_ended, stopped,
                       graceful, error, wireVars>>
  BY DEF Tick
<1> DEFINE done == Done(walked)
           n == Cardinality(gone)
<1>2. /\ Counters /\ Flags /\ Notes /\ TypeOK /\ NothingUncollected /\ NoCreditOwed
      /\ EndNoteSurvives /\ graceful \in BOOLEAN
      /\ opened \in Nat /\ closed \in Nat /\ limit \in Nat /\ Batch \in Nat /\ Batch > 0
      /\ MaxStreams \in Nat
  BY TableAssumption DEF TableInv, TableSound, Flags, Counters
<1>3. /\ IsFiniteSet(live) /\ Cardinality(live) \in Nat /\ Cardinality(live) <= MaxStreams
      /\ Cardinality(holes) \in Nat
  BY <1>2, TableFinite
<1>4. /\ IsFiniteSet(done) /\ Cardinality(done) \in Nat
      /\ IsFiniteSet(gone) /\ n \in Nat /\ n <= Cardinality(live)
      /\ done \subseteq live /\ gone \subseteq live
  <2>1. done \subseteq live /\ gone \subseteq live
    BY <1>1
  <2>2. IsFiniteSet(done) /\ IsFiniteSet(gone) /\ n <= Cardinality(live)
    BY <1>3, <2>1, FS_Subset
  <2> QED BY <2>1, <2>2, FS_CardinalityType
<1>5. n \in 0 .. MaxStreams /\ n \in 0 .. Batch
  BY <1>1, <1>2, <1>3, <1>4
<1>6. Cardinality(live') = Cardinality(live) - n
  <2>1. gone \cup live' = live /\ gone \cap live' = {} /\ live' \subseteq live
    BY <1>1, <1>4
  <2>2. IsFiniteSet(live')
    BY <1>3, <2>1, FS_Subset
  <2>3. Cardinality(gone \cup live')
           = n + Cardinality(live') - Cardinality(gone \cap live')
    BY <1>4, <2>2, FS_Union
  <2>4. Cardinality(live') \in Nat /\ Cardinality({}) = 0
    BY <2>2, FS_CardinalityType, FS_EmptySet
  <2>5. Cardinality(gone \cup live') = Cardinality(live) /\ Cardinality(gone \cap live') = 0
    BY <2>1, <2>4
  <2> QED BY <2>3, <2>4, <2>5, <1>3, <1>4
<1>7. /\ asked' \subseteq Ids /\ live' \subseteq Ids /\ stopped' \subseteq Ids
      /\ holes' \subseteq 0 .. (opened' - 1) /\ live' \subseteq (0 .. (opened' - 1)) \ holes'
      /\ opened' - closed' = Cardinality(live') + Cardinality(holes')
  <2>1. asked' = asked /\ opened' = opened /\ holes' = holes /\ stopped' = stopped
    BY <1>1 DEF openerVars
  <2>2. opened - closed = Cardinality(live) + Cardinality(holes)
    BY <1>2 DEF TypeOK
  <2>3. opened' - closed' = Cardinality(live') + Cardinality(holes')
    <3>1. closed' = closed + n
      BY <1>1
    <3>2. opened' - closed' = opened - (closed + n) /\ Cardinality(holes') = Cardinality(holes)
      BY <2>1, <3>1
    <3> HIDE DEF n
    <3> QED BY <1>2, <1>3, <1>4, <1>6, <2>2, <3>2
  <2> QED BY <1>1, <1>2, <2>1, <2>3 DEF TypeOK
<1>8. /\ recv_state' \in [Ids -> {"open", "fin", "ended"}]
      /\ \A i \in Ids : recv_state'[i] = IF i \in walked \cap stopped /\ recv_state[i] = "fin"
                                         THEN "ended" ELSE recv_state[i]
  BY <1>1, <1>2 DEF Discarded, TypeOK
<1>9. /\ LimitAfter[n] \in Nat /\ limit <= LimitAfter[n]
      /\ LimitAfter[n] <= Target(closed + n)
      /\ n # 0 => ((opened = LimitAfter[n]
                       \/ 2 * (Window + (closed + n) - LimitAfter[n]) >= Window)
                     => LimitAfter[n] >= Window + (closed + n) \/ graceful)
      /\ LimitAfter[0] = limit
  <2>1. LimitAfter[0] = limit
    BY <1>2, LimitAfterIs
  <2> HIDE DEF n
  <2> QED BY <1>2, <1>5, <2>1, LimitAfterFacts
<1>10. limit' = LimitAfter[n] /\ closed' = closed + n /\ opened' = opened /\ graceful' = graceful
  BY <1>1 DEF QueueMax
<1>11. Counters'
  BY <1>2, <1>4, <1>9, <1>10 DEF Counters
<1>12. NoCreditOwed'
  <2>1. CASE n = 0
    BY <1>2, <1>9, <1>10, <2>1 DEF NoCreditOwed
  <2>2. CASE n # 0
    BY <1>9, <1>10, <2>2 DEF NoCreditOwed
  <2> QED BY <2>1, <2>2
<1>13. GcSound'
  <2>1. candidates' = {} /\ Cardinality(candidates') <= Batch
    BY <1>1, <1>2, FS_EmptySet
  <2>2. full_scan' \in BOOLEAN /\ gc_pending' \in BOOLEAN /\ full_scan' = gc_pending'
    BY <1>1
  <2>3. ASSUME n # Batch, NEW i \in live',
               \/ Terminated(i, recv_state', send_ended')
               \/ i \in stopped' /\ recv_state'[i] = "fin"
        PROVE  FALSE
    <3>1. Cardinality(done) <= Batch /\ n = Cardinality(done)
      BY <1>1, <1>2, <1>4, <2>3
    <3>2. gone = done /\ walked = scanned
      <4>1. gone \in SUBSET done
        BY <1>1
      <4>2. gone = done
        BY <1>4, <3>1, <4>1, FS_Subset
      <4>3. Cardinality(done) # Batch + 1
        BY <1>2, <1>4, <3>1
      <4> QED BY <1>1, <4>2, <4>3
    <3>3. i \in live /\ i \in Ids /\ i \notin gone /\ send_ended' = send_ended /\ stopped' = stopped
      BY <1>1, <1>2 DEF TypeOK
    <3>4. i \notin walked
      <4>1. SUFFICES ASSUME i \in walked PROVE FALSE
        OBVIOUS
      <4>2. ~Terminated(i, recv_state', send_ended)
        BY <1>1, <3>2, <3>3, <4>1
      <4>3. i \in stopped /\ recv_state'[i] = "fin"
        BY <2>3, <3>3, <4>2
      <4> QED BY <1>8, <3>3, <4>1, <4>3
    <3>5. recv_state'[i] = recv_state[i]
      BY <1>8, <3>3, <3>4
    <3>6. i \in candidates \/ full_scan
      BY <1>2, <2>3, <3>3, <3>5 DEF NothingUncollected, Terminated
    <3>7. i \in scanned
      BY <3>3, <3>6
    <3> QED BY <3>2, <3>4, <3>7
  <2> QED BY <1>1, <2>1, <2>2, <2>3 DEF GcSound, NothingUncollected
<1>14. Notes' /\ EndNoteSurvives' /\ (Len(ring) <= 2 * Batch)'
  <2>1. PICK s \in [1 .. n -> gone] : {s[k] : k \in 1 .. n} = gone /\ ring' = Push(s)
    BY <1>1
  <2>2. gone \subseteq Ids /\ ring \in Seq(Ids)
    BY <1>2, <1>4 DEF TypeOK, Notes
  <2>3. /\ ring' \in Seq(Ids) /\ Len(ring') <= 2 * Batch
        /\ \A k \in 1 .. n : \E j \in 1 .. Len(ring') :
              j > Len(ring') - Batch /\ ring'[j] = s[k]
        /\ \A k \in 1 .. Len(ring) : k > Len(ring) - Batch =>
              \E j \in 1 .. Len(ring') : ring'[j] = ring[k]
    <3> HIDE DEF n
    <3>1. /\ Push(s) \in Seq(Ids) /\ Len(Push(s)) <= 2 * Batch
          /\ \A k \in 1 .. n : \E j \in 1 .. Len(Push(s)) :
                j > Len(Push(s)) - Batch /\ Push(s)[j] = s[k]
          /\ \A k \in 1 .. Len(ring) : k > Len(ring) - Batch =>
                \E j \in 1 .. Len(Push(s)) : Push(s)[j] = ring[k]
      <4>1. s \in Seq(Ids) /\ Len(s) = n /\ Len(s) <= Batch
        <5>1. s \in [1 .. n -> Ids] /\ n \in Nat /\ n <= Batch
          BY <1>5, <2>1, <2>2
        <5> QED BY <5>1, FunctionIsSeq
      <4> QED BY <2>2, <4>1, PushFacts
    <3> QED BY <2>1, <3>1
  <2>4. reaped'[1] = gone /\ reaped'[2] = reaped[1]
    BY <1>1
  <2>5. ASSUME NEW i \in reaped'[1]
        PROVE  \E j \in 1 .. Len(ring') : j > Len(ring') - Batch /\ ring'[j] = i
    <3>1. PICK k \in 1 .. n : s[k] = i
      BY <2>1, <2>4
    <3> QED BY <2>3, <3>1
  <2>6. ASSUME NEW i \in reaped'[2]
        PROVE  \E j \in 1 .. Len(ring') : ring'[j] = i
    <3>1. PICK k \in 1 .. Len(ring) : k > Len(ring) - Batch /\ ring[k] = i
      BY <1>2, <2>4 DEF Notes
    <3> QED BY <2>3, <3>1
  <2> QED BY <2>3, <2>5, <2>6 DEF Notes, EndNoteSurvives
<1>15. Parts'
  BY <1>2, <1>7, <1>8, <1>10, <1>11, <1>12, <1>13, <1>14 DEF Parts
<1> QED BY <1>15, Assemble, PTL

\* STREAMS_BLOCKED arrives, possibly an old copy: credit may be given.
LEMMA StepRecvBlocked ==
    ASSUME TableInv, NEW v, RecvBlocked(v)
    PROVE  TableInv'
<1> DEFINE new == Advertised(opened, closed, limit, v)
<1>1. /\ limit' = new
      /\ UNCHANGED <<openerVars, opened, holes, closed, live, halfVars, gcVars, endVars, graceful>>
  BY DEF RecvBlocked, QueueMax
<1>2. /\ opened \in Nat /\ closed \in Nat /\ limit \in Nat /\ limit <= Target(closed)
      /\ opened <= limit /\ opened \in 0 .. MaxStreams /\ graceful \in BOOLEAN
      /\ Target(closed) \in Nat
  BY TableAssumption DEF TableInv, Counters, Flags, Target
<1>3. /\ new \in Nat /\ limit <= new /\ new <= Target(closed)
      /\ (opened = new \/ 2 * (Window + closed - new) >= Window)
            => new >= Window + closed \/ graceful
  BY <1>2, AdvertisedFacts
<1>4. Counters'
  <2>1. opened <= new
    BY <1>2, <1>3
  <2> QED BY <1>1, <1>2, <1>3, <2>1 DEF Counters, Target
<1>5. NoCreditOwed'
  BY <1>1, <1>3 DEF NoCreditOwed
<1>6. Notes' /\ EndNoteSurvives' /\ (Len(ring) <= 2 * Batch)'
  BY <1>1, NotesKept
<1>7. GcSound'
  BY <1>1 DEF TableInv, TypeOK, TableSound, Flags, GcSound, NothingUncollected, Terminated,
              gcVars, halfVars
<1>8. Parts'
  BY <1>1, <1>2, <1>4, <1>5, <1>6, <1>7 DEF Parts, TableInv, TypeOK, openerVars, halfVars
<1> QED BY <1>8, Assemble, PTL

\* The shutdown stops all credit, so none is owed.
LEMMA StepShutDown ==
    ASSUME TableInv, ShutDown
    PROVE  TableInv'
BY DEF ShutDown, TableInv, Counters, Flags, Notes, TypeOK, TableSound, HeldBounded,
       NothingUncollected, NoCreditOwed, EndNoteSurvives, Terminated,
       openerVars, idVars, halfVars, gcVars, endVars

\* Every step preserves the invariant.
LEMMA NextTableInv == TableInv /\ [Next]_vars => TableInv'
<1> SUFFICES ASSUME TableInv, [Next]_vars PROVE TableInv'
  OBVIOUS
<1>0. asked \subseteq Ids
  BY DEF TableInv, TypeOK
<1>1. CASE Tick
  BY <1>1, StepTick
<1>2. ASSUME NEW i \in Ids, NEW kind \in Kinds, RecvFrame(i, kind) PROVE TableInv'
  BY <1>2, StepRecvFrame
<1>3. ASSUME NEW i \in Ids, SendEnds(i) PROVE TableInv'
  BY <1>3, StepSendEnds
<1>4. ASSUME NEW i \in Ids, Read(i) PROVE TableInv'
  BY <1>4, StepRead
<1>5. ASSUME NEW i \in Stoppable, StopSending(i) PROVE TableInv'
  BY <1>5, StepStopSending
<1>6. CASE ShutDown
  BY <1>6, StepShutDown
<1>7. ASSUME NEW i \in Ids, Open(i) PROVE TableInv'
  BY <1>0, <1>7, Untouched DEF Open
<1>8. CASE OpenBlocked
  BY <1>0, <1>8, Untouched DEF OpenBlocked
<1>9. ASSUME NEW v \in blocked_net, RecvBlocked(v) PROVE TableInv'
  BY <1>9, StepRecvBlocked
<1>10. CASE SendMax
  BY <1>0, <1>10, Untouched DEF SendMax, openerVars
<1>11. ASSUME NEW v \in max_net, RecvMax(v) PROVE TableInv'
  BY <1>0, <1>11, Untouched DEF RecvMax
<1>12. ASSUME NEW v \in max_sent, MaxAcked(v) PROVE TableInv'
  BY <1>0, <1>12, Untouched DEF MaxAcked, openerVars
<1>13. ASSUME NEW v \in max_sent, NEW gone \in BOOLEAN, NEW probe \in BOOLEAN,
              LoseMax(v, gone, probe)
       PROVE TableInv'
  BY <1>0, <1>13, Untouched DEF LoseMax, openerVars
<1>14. CASE UNCHANGED vars
  BY <1>0, <1>14, Untouched DEF vars, openerVars
<1> QED
  BY <1>1, <1>2, <1>3, <1>4, <1>5, <1>6, <1>7, <1>8, <1>9, <1>10, <1>11, <1>12, <1>13, <1>14
  DEF Next

-----------------------------------------------------------------------------
(* Theorems.                                                               *)

\* The invariant of the table.
THEOREM InvariantTable == Spec => []TableInv
BY InitTableInv, NextTableInv, PTL DEF Spec

\* Every field keeps its type, and an id is live, skipped or closed, whatever
\* order streams are opened, ended, stopped and reclaimed in.
THEOREM TableTypeCorrect == Spec => []TypeOK
<1>1. TableInv => TypeOK
  BY DEF TableInv
<1> QED BY <1>1, InvariantTable, PTL

\* The table stays inside the window, the collector knows of all there is to
\* collect, no credit is owed after any step, and the end of a reclaimed
\* stream is on record through the next tick (noteStreamGc, gcClosedStreams,
\* maybeAdvertiseStreamCredit, RecvEndRing).
THEOREM TableAlwaysSound == Spec => []TableSound
<1>1. TableInv => TableSound
  BY DEF TableInv
<1> QED BY <1>1, InvariantTable, PTL

\* classify() tells a reclaimed id from one never used: no frame, however
\* late, and no call of the application brings a reclaimed stream back.
THEOREM ReclaimedStaysReclaimed == Spec => NeverReborn
<1>1. [Next]_vars => [\A i \in Ids : i < opened /\ i \notin holes /\ i \notin live
                                       => i \notin live']_vars
  <2> SUFFICES ASSUME [Next]_vars, NEW j \in Ids, j < opened, j \notin holes, j \notin live
               PROVE  j \notin live'
    OBVIOUS
  <2>1. CASE Tick
    BY <2>1 DEF Tick
  <2>2. ASSUME NEW i \in Ids, NEW kind \in Kinds, RecvFrame(i, kind) PROVE j \notin live'
    <3>1. ~Gone(i) /\ (live' = live \/ live' = live \cup {i})
      BY <2>2 DEF RecvFrame, Materialize
    <3>2. Gone(j)
      BY DEF Gone
    <3> QED BY <3>1, <3>2
  <2>3. ASSUME NEW i \in Stoppable, StopSending(i) PROVE j \notin live'
    BY <2>3 DEF StopSending, Materialize
  <2>4. CASE UNCHANGED live
    BY <2>4
  <2>5. [Next]_vars => \/ Tick
                       \/ \E i \in Ids, kind \in Kinds : RecvFrame(i, kind)
                       \/ \E i \in Stoppable : StopSending(i)
                       \/ UNCHANGED live
    BY DEF Next, vars, SendEnds, Read, ShutDown, Open, OpenBlocked, RecvBlocked, SendMax,
           RecvMax, MaxAcked, LoseMax
  <2> QED BY <2>1, <2>2, <2>3, <2>4, <2>5
<1> QED BY <1>1, PTL DEF Spec, NeverReborn
=============================================================================
