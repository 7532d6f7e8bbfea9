---------------------------- MODULE MigrationProofs ----------------------------
(***************************************************************************)
(* Theorems about Migration, for any addresses, any number of challenges   *)
(* and any credit: a path counts as validated only where the peer has      *)
(* answered, and no address that never answered is sent more than three    *)
(* times what it earned; the id in use is dropped only for a listed one.   *)
(*                                                                         *)
(* Which connection id is in use plays no part in the first two, so there  *)
(* are two invariants: MInv of the path, CidInv of the ids.                *)
(***************************************************************************)
EXTENDS Migration, FiniteSetTheorems, FunctionTheorems, SequenceTheorems, WellFoundedInduction, TLAPS

\* The path and what a roll-back would restore of it.
PathOK ==
    /\ addr \in Addrs /\ local \in Locals
    /\ validated \in BOOLEAN /\ reset \in BOOLEAN
    /\ status \in {"idle", "pending", "validated", "failed"} /\ state \in {"active", "failed"}
    /\ received \in 0 .. MaxCredit + 1 /\ sent \in 0 .. 3 * received

RollbackOK ==
    /\ \A r \in rollback :
          /\ r.addr \in Addrs /\ r.local \in Locals /\ r.state \in {"active", "failed"}
          /\ r.received \in 0 .. MaxCredit + 1 /\ r.sent \in 0 .. 3 * r.received
    /\ \A r, q \in rollback : r = q
    /\ rollback # {} => reset /\ status = "pending"

\* The challenge that can still be answered went to the address the path is at,
\* and every token that was used is smaller than the next one.
ChallengesOK ==
    /\ tokens \in 0 .. MaxTokens /\ token \in None .. tokens - 1
    /\ challenge \in {None, token} /\ (challenge # None => status = "pending")
    /\ \A f \in flying :
          /\ f.token \in 0 .. tokens - 1 /\ f.addr \in Addrs
          /\ status = "pending" /\ f.token = token => f.addr = addr

\* Only a path that has something to roll back to is unvalidated, so what the
\* first snapshot saves was validated.
SavedOK == validated \/ rollback # {}

\* The allowance the path counts is never more than the address has earned.
CreditOK ==
    /\ net \in [Addrs -> Int]
    /\ addr \notin proven => net[addr] >= 3 * received - sent

MInv == PathOK /\ RollbackOK /\ ChallengesOK /\ SavedOK /\ ProvenOnly /\ CreditOK /\ WithinBudget

-----------------------------------------------------------------------------
(* The initial state and the pieces that the actions share.                *)

\* The handshake's path is validated and owes nothing.
LEMMA InitMInv == Init => MInv
<1> SUFFICES ASSUME Init PROVE MInv
  OBVIOUS
<1> USE MigrationAssumption DEF Init
<1>0. MaxCredit + 1 \in Nat /\ 0 \in 0 .. MaxCredit + 1 /\ 0 \in 0 .. 3 * 0
  OBVIOUS
<1>1. PathOK
  BY <1>0 DEF PathOK
<1>1a. RollbackOK /\ SavedOK
  BY DEF RollbackOK, SavedOK
<1>2. ChallengesOK
  BY DEF ChallengesOK, None
<1>3. ProvenOnly /\ CreditOK /\ WithinBudget
  BY DEF ProvenOnly, isValidated, CreditOK, WithinBudget
<1> QED BY <1>1, <1>1a, <1>2, <1>3 DEF MInv

\* The snapshot is one record, and it leads back to where the peer was known to be.
LEMMA SnapshotFacts ==
    ASSUME MInv
    PROVE  /\ Snapshot # {} /\ (\A r, q \in Snapshot : r = q)
           /\ \A r \in Snapshot :
                /\ r.addr \in Addrs /\ r.local \in Locals /\ r.state \in {"active", "failed"}
                /\ r.received \in 0 .. MaxCredit + 1 /\ r.sent \in 0 .. 3 * r.received
                /\ r.validated /\ r.addr \in proven
<1>1. CASE rollback # {}
  BY <1>1 DEF MInv, RollbackOK, ProvenOnly, Snapshot
<1>2. CASE rollback = {}
  <2> DEFINE r0 == [addr |-> addr, local |-> local, cid |-> cid, validated |-> isValidated,
                    received |-> received, sent |-> sent, state |-> state]
  <2>1. Snapshot = {r0}
    BY <1>2 DEF Snapshot
  <2>2. isValidated /\ addr \in proven
    BY <1>2 DEF MInv, SavedOK, ProvenOnly, isValidated
  <2>3. /\ r0.addr \in Addrs /\ r0.local \in Locals /\ r0.state \in {"active", "failed"}
        /\ r0.received \in 0 .. MaxCredit + 1 /\ r0.sent \in 0 .. 3 * r0.received
    BY DEF MInv, PathOK
  <2>4. r0.validated /\ r0.addr \in proven
    BY <2>2
  <2> HIDE DEF r0
  <2> QED BY <2>1, <2>3, <2>4
<1> QED BY <1>1, <1>2

\* A new challenge has a token that no challenge in flight has.
LEMMA ChallengeFacts ==
    ASSUME MInv, Challenge, UNCHANGED flying
    PROVE  ChallengesOK'
BY MigrationAssumption DEF MInv, ChallengesOK, Challenge, None

\* More credit is a larger allowance.
LEMMA BudgetGrows == \A s, r, q \in Nat : s <= 3 * r /\ r <= q => s \in 0 .. 3 * q
OBVIOUS

\* A datagram credited to the path.
LEMMA CreditFacts ==
    ASSUME MInv, Credit(addr), UNCHANGED <<addr, local, validated, status, state, sent, reset,
               rollback, token, challenge, tokens, flying, proven>>
    PROVE  MInv'
<1> USE MigrationAssumption
<1>1. received' \in 0 .. MaxCredit + 1 /\ received' >= received /\ received \in Nat /\ sent \in Nat
  BY DEF MInv, PathOK, Credit
<1>2. PathOK' /\ RollbackOK' /\ ChallengesOK' /\ SavedOK' /\ ProvenOnly'
  <2>1. sent' \in 0 .. 3 * received'
    <3>1. sent' = sent /\ sent <= 3 * received /\ received' \in Nat
      BY <1>1 DEF MInv, PathOK
    <3> QED BY <1>1, <3>1, BudgetGrows
  <2>2. PathOK'
    <3>1. /\ addr' \in Addrs /\ local' \in Locals /\ validated' \in BOOLEAN /\ reset' \in BOOLEAN
          /\ status' \in {"idle", "pending", "validated", "failed"}
          /\ state' \in {"active", "failed"}
      BY DEF MInv, PathOK
    <3> QED BY <1>1, <2>1, <3>1 DEF PathOK
  <2>3. RollbackOK' /\ ChallengesOK' /\ SavedOK'
    BY DEF MInv, RollbackOK, ChallengesOK, SavedOK
  <2>4. ProvenOnly'
    BY DEF MInv, ProvenOnly, isValidated
  <2> QED BY <2>2, <2>3, <2>4
<1>3. CreditOK' /\ WithinBudget'
  <2>1. CASE isValidated
    BY <2>1, <1>1 DEF MInv, CreditOK, WithinBudget, Credit, ProvenOnly
  <2>2. CASE ~isValidated
    <3>1. received' = received + 1 /\ net' = [net EXCEPT ![addr] = @ + 3]
      BY <2>2 DEF Credit
    <3>2. /\ net \in [Addrs -> Int] /\ addr \in Addrs
          /\ (addr \notin proven => net[addr] >= 3 * received - sent)
          /\ \A a \in Addrs \ proven : net[a] >= 0
      BY DEF MInv, CreditOK, WithinBudget, PathOK
    <3>3. net' \in [Addrs -> Int] /\ net'[addr] = net[addr] + 3
          /\ \A a \in Addrs : a # addr => net'[a] = net[a]
      BY <3>1, <3>2
    <3>4. net[addr] \in Int
      BY <3>2
    <3>5. CreditOK'
      BY <3>1, <3>2, <3>3, <3>4, <1>1 DEF CreditOK
    <3>6. \A a \in Addrs \ proven : net'[a] >= 0
      BY <3>2, <3>3, <3>4
    <3> QED BY <3>5, <3>6 DEF WithinBudget
  <2> QED BY <2>1, <2>2
<1> QED BY <1>2, <1>3 DEF MInv

-----------------------------------------------------------------------------
(* The steps.                                                              *)

\* handlePeerAddressChange(): the new address starts from what it had before.
LEMMA StepChangeAddress ==
    ASSUME MInv, NEW a \in Addrs, ChangeAddress(a), UNCHANGED <<flying, proven>>
    PROVE  MInv'
<1> USE MigrationAssumption
<1>1. /\ rollback' = Snapshot /\ addr' = a /\ local' = local /\ validated' = FALSE
      /\ received' = 1 /\ sent' = 0 /\ state' = "active" /\ reset' = TRUE
      /\ net' = [net EXCEPT ![a] = @ + 3] /\ Challenge /\ status' = "pending"
  BY DEF ChangeAddress, Counters, Challenge
<1>2. ChallengesOK'
  BY <1>1, ChallengeFacts
<1>3. PathOK'
  <2>1. received' \in 0 .. MaxCredit + 1 /\ sent' \in 0 .. 3 * received'
    BY <1>1
  <2>2. local' \in Locals
    BY <1>1 DEF MInv, PathOK
  <2> QED BY <1>1, <2>1, <2>2 DEF PathOK
<1>3a. RollbackOK' /\ SavedOK'
  BY <1>1, SnapshotFacts DEF RollbackOK, SavedOK
<1>4. ProvenOnly'
  BY <1>1, SnapshotFacts DEF ProvenOnly, isValidated
<1>5. /\ net \in [Addrs -> Int] /\ net[a] \in Int
      /\ \A b \in Addrs \ proven : net[b] >= 0
  BY DEF MInv, CreditOK, WithinBudget
<1>6. /\ net' \in [Addrs -> Int] /\ net'[a] = net[a] + 3
      /\ \A b \in Addrs : b # a => net'[b] = net[b]
  BY <1>1, <1>5
<1>7. CreditOK' /\ WithinBudget'
  BY <1>1, <1>5, <1>6 DEF CreditOK, WithinBudget
<1> QED BY <1>2, <1>3, <1>3a, <1>4, <1>7 DEF MInv

\* A datagram is credited, or moves the path to its address.
LEMMA StepRecvDatagram ==
    ASSUME MInv, NEW a \in Addrs, RecvDatagram(a)
    PROVE  MInv'
BY StepChangeAddress, CreditFacts DEF RecvDatagram

\* The endpoint's own moves.
LEMMA StepMoveTo ==
    ASSUME MInv, NEW l \in Locals, MoveTo(l)
    PROVE  MInv'
<1>1. /\ rollback' = Snapshot /\ local' = l /\ reset' = TRUE /\ Challenge /\ status' = "pending"
      /\ UNCHANGED <<addr, validated, state, received, sent, flying, proven, net>>
  BY DEF MoveTo, Challenge
<1>2. ChallengesOK'
  BY <1>1, ChallengeFacts
<1>3. PathOK' /\ RollbackOK' /\ SavedOK'
  BY <1>1, SnapshotFacts DEF MInv, PathOK, RollbackOK, SavedOK
<1>4. ProvenOnly'
  BY <1>1, SnapshotFacts DEF MInv, ProvenOnly, isValidated
<1>5. CreditOK' /\ WithinBudget'
  BY <1>1 DEF MInv, CreditOK, WithinBudget
<1> QED BY <1>2, <1>3, <1>4, <1>5 DEF MInv

\* probePath()
LEMMA StepProbe == ASSUME MInv, Probe PROVE MInv'
<1>1. /\ Challenge /\ status' = "pending"
      /\ UNCHANGED <<addr, local, validated, state, received, sent, reset, rollback, flying,
                     proven, net>>
  BY DEF Probe, Challenge, ghosts
<1>2. ChallengesOK'
  BY <1>1, ChallengeFacts
<1>3. PathOK' /\ RollbackOK' /\ SavedOK'
  BY <1>1 DEF MInv, PathOK, RollbackOK, SavedOK
<1>4. ProvenOnly' /\ CreditOK' /\ WithinBudget'
  BY <1>1 DEF MInv, ProvenOnly, isValidated, CreditOK, WithinBudget
<1> QED BY <1>2, <1>3, <1>4 DEF MInv

\* A datagram leaves only within the allowance.
LEMMA StepSend == ASSUME MInv, Send PROVE MInv'
<1> USE MigrationAssumption
<1>1. /\ UNCHANGED <<addr, local, validated, status, token, state, received, reset, rollback,
                     tokens, proven>>
      /\ challenge' = None
  BY DEF Send
<1>2. ChallengesOK'
  <2>1. \A f \in flying' : f \in flying \/ (challenge # None /\ f = [token |-> challenge, addr |-> addr])
    BY DEF Send
  <2>2. challenge # None => challenge = token /\ challenge \in 0 .. tokens - 1
    BY DEF MInv, ChallengesOK, None
  <2>3. addr \in Addrs
    BY DEF MInv, PathOK
  <2>4. \A f \in flying' :
          /\ f.token \in 0 .. tokens - 1 /\ f.addr \in Addrs
          /\ status = "pending" /\ f.token = token => f.addr = addr
    BY <2>1, <2>2, <2>3 DEF MInv, ChallengesOK
  <2> QED BY <1>1, <2>4 DEF MInv, ChallengesOK
<1>3. RollbackOK' /\ SavedOK' /\ ProvenOnly'
  BY <1>1 DEF MInv, RollbackOK, SavedOK, ProvenOnly, isValidated
<1>4. received \in Nat /\ sent \in Nat /\ addr \in Addrs /\ net \in [Addrs -> Int] /\ net[addr] \in Int
  BY DEF MInv, PathOK, CreditOK
<1>5. CASE isValidated
  <2>1. sent' = sent /\ net' = net
    BY <1>5 DEF Send
  <2>2. PathOK' /\ CreditOK' /\ WithinBudget'
    BY <1>1, <2>1 DEF MInv, PathOK, CreditOK, WithinBudget
  <2> QED BY <1>2, <1>3, <2>2 DEF MInv
<1>6. CASE ~isValidated
  <2>1. sent < 3 * received /\ sent' = sent + 1 /\ net' = [net EXCEPT ![addr] = @ - 1]
    BY <1>6 DEF Send, Allowed
  <2>2. PathOK'
    BY <1>1, <1>4, <2>1 DEF MInv, PathOK
  <2>3. /\ net' \in [Addrs -> Int] /\ net'[addr] = net[addr] - 1
        /\ \A b \in Addrs : b # addr => net'[b] = net[b]
    BY <1>4, <2>1
  <2>4. CreditOK'
    BY <1>1, <1>4, <2>1, <2>3 DEF MInv, CreditOK
  <2>5. addr \notin proven => net'[addr] >= 0
    BY <1>4, <2>1, <2>3 DEF MInv, CreditOK
  <2>6. WithinBudget'
    BY <1>1, <2>3, <2>5 DEF MInv, WithinBudget
  <2> QED BY <1>2, <1>3, <2>2, <2>4, <2>6 DEF MInv
<1> QED BY <1>5, <1>6

\* The answer to the last challenge proves the address the path is at.
LEMMA StepRecvResponse ==
    ASSUME MInv, NEW f \in flying, RecvResponse(f)
    PROVE  MInv'
<1>1. /\ validated' = TRUE /\ status' = "validated" /\ challenge' = None /\ reset' = FALSE
      /\ rollback' = {} /\ proven' = proven \cup {f.addr}
      /\ UNCHANGED <<addr, local, token, state, received, sent, flying, tokens, net>>
  BY DEF RecvResponse, MInv, RollbackOK
<1>2. f.addr = addr
  BY DEF RecvResponse, Matches, MInv, ChallengesOK
<1>3. PathOK' /\ RollbackOK' /\ SavedOK'
  BY <1>1 DEF MInv, PathOK, RollbackOK, SavedOK
<1>4. ChallengesOK'
  BY <1>1 DEF MInv, ChallengesOK
<1>5. ProvenOnly' /\ CreditOK' /\ WithinBudget'
  BY <1>1, <1>2 DEF MInv, ProvenOnly, CreditOK, WithinBudget
<1> QED BY <1>3, <1>4, <1>5 DEF MInv

\* A validation that times out returns to where the peer was known to be.
LEMMA StepTimeout == ASSUME MInv, Timeout PROVE MInv'
<1>1. /\ challenge' = None /\ reset' = FALSE /\ rollback' = {}
      /\ UNCHANGED <<token, flying, tokens, proven, net>>
  BY DEF Timeout, ghosts
<1>2. /\ PathOK' /\ validated' = TRUE /\ addr' \in proven
      /\ status' \in {"validated", "failed"}
  <2>1. CASE rollback # {}
    <3>1. reset
      BY <2>1 DEF MInv, RollbackOK
    <3>2. PICK r \in rollback :
              /\ addr' = r.addr /\ local' = r.local
              /\ validated' = r.validated /\ state' = r.state
              /\ status' = IF r.validated THEN "validated" ELSE "idle"
              /\ received' = r.received /\ sent' = r.sent
      BY <2>1, <3>1 DEF Timeout
    <3>3. r.validated /\ r.addr \in proven
      BY DEF MInv, ProvenOnly
    <3>4. r.validated = TRUE
      BY <3>3, <3>2
    <3> QED BY <1>1, <3>2, <3>3, <3>4 DEF MInv, RollbackOK, PathOK
  <2>2. CASE rollback = {}
    BY <1>1, <2>2 DEF Timeout, MInv, SavedOK, ProvenOnly, isValidated, PathOK
  <2> QED BY <2>1, <2>2
<1>3. RollbackOK' /\ SavedOK'
  BY <1>1, <1>2 DEF RollbackOK, SavedOK
<1>4. ChallengesOK'
  BY <1>1, <1>2 DEF MInv, ChallengesOK
<1>5. ProvenOnly' /\ CreditOK' /\ WithinBudget'
  BY <1>1, <1>2 DEF MInv, ProvenOnly, CreditOK, WithinBudget
<1> QED BY <1>2, <1>3, <1>4, <1>5 DEF MInv

\* Connection ids come and go without touching anything the invariant speaks of.
LEMMA StepElse ==
    ASSUME MInv,
           UNCHANGED <<addr, local, validated, status, token, state, received, sent, reset,
                       rollback, flying, tokens, proven, net>>,
           challenge' = challenge \/ (status = "pending" /\ challenge' = token)
    PROVE  MInv'
<1>1. PathOK' /\ RollbackOK' /\ SavedOK'
  BY DEF MInv, PathOK, RollbackOK, SavedOK
<1>2. ChallengesOK'
  BY DEF MInv, ChallengesOK
<1>3. ProvenOnly' /\ CreditOK' /\ WithinBudget'
  BY DEF MInv, ProvenOnly, isValidated, CreditOK, WithinBudget
<1> QED BY <1>1, <1>2, <1>3 DEF MInv

\* The inductive invariant: the path, its roll-back, the challenges and the
\* credit of every address fit together in every reachable state.
THEOREM Invariant == Spec => []MInv
<1>1. ASSUME MInv, [Next]_vars PROVE MInv'
  <2>1. CASE UNCHANGED vars
    BY <1>1, <2>1, StepElse DEF vars, pathVars, ghosts
  <2>2. CASE Issue
    BY <1>1, <2>2, StepElse DEF Issue, pathVars, ghosts
  <2>3. ASSUME NEW s \in 1 .. MaxSeq, RecvNewConnectionId(s) PROVE MInv'
    BY <1>1, <2>3, StepElse DEF RecvNewConnectionId, ghosts
  <2>4. ASSUME NEW a \in Addrs, RecvDatagram(a) PROVE MInv'
    BY <1>1, <2>4, StepRecvDatagram
  <2>5. ASSUME NEW l \in Locals, ClientMigrate(l) \/ ServerMoved(l) PROVE MInv'
    BY <1>1, <2>5, StepMoveTo DEF ClientMigrate, ServerMoved
  <2>6. CASE Probe
    BY <1>1, <2>6, StepProbe
  <2>7. CASE RecvChallenge
    BY <1>1, <2>7, StepElse DEF RecvChallenge
  <2>8. CASE Send
    BY <1>1, <2>8, StepSend
  <2>9. CASE LoseChallenge
    BY <1>1, <2>9, StepElse DEF LoseChallenge, pathVars, ghosts
  <2>10. CASE Timeout
    BY <1>1, <2>10, StepTimeout
  <2>11. CASE Cool
    BY <1>1, <2>11, StepElse DEF Cool, pathVars, ghosts
  <2>12. ASSUME NEW f \in flying, RecvResponse(f) PROVE MInv'
    BY <1>1, <2>12, StepRecvResponse
  <2> QED
    BY <1>1, <2>1, <2>2, <2>3, <2>4, <2>5, <2>6, <2>7, <2>8, <2>9, <2>10, <2>11, <2>12 DEF Next
<1> QED BY <1>1, InitMInv, PTL DEF Spec

-----------------------------------------------------------------------------
(* Positions in order: Nth.                                                *)

\* A set of naturals has a least element: the order is well-founded.
LEMMA LeastExists ==
    ASSUME NEW S, S \subseteq Nat, S # {}
    PROVE  \E x \in S : \A y \in S : x =< y
<1> DEFINE R == {ss \in Nat \X Nat : ss[1] < ss[2]}
<1>1. IsWellFoundedOn(R, Nat)
  BY NatLessThanWellFounded DEF OpToRel
<1>2. \A x, y \in S : <<y, x>> \in R <=> y < x
  OBVIOUS
<1> HIDE DEF R
<1>3. PICK x \in S : \A y \in S : ~(<<y, x>> \in R)
  BY <1>1, WFMin
<1>4. \A y \in S : ~(y < x)
  BY <1>2, <1>3
<1>5. \A y \in S : x =< y
  BY <1>4
<1> QED BY <1>5

Below(js, j) == {h \in js : h < j}

\* Those below a position are fewer than those below a later one.
LEMMA BelowFacts ==
    ASSUME NEW js, js \subseteq Nat, IsFiniteSet(js), NEW i \in js
    PROVE  /\ IsFiniteSet(Below(js, i)) /\ Cardinality(Below(js, i)) \in Nat
           /\ Cardinality(Below(js, i)) < Cardinality(js) /\ Cardinality(js) \in Nat
           /\ \A j \in js : i < j => Cardinality(Below(js, i)) < Cardinality(Below(js, j))
<1> DEFINE U == Below(js, i) \cup {i}
<1>1. Below(js, i) \subseteq js /\ i \notin Below(js, i)
  BY DEF Below
<1>2. IsFiniteSet(Below(js, i)) /\ Cardinality(Below(js, i)) \in Nat /\ Cardinality(js) \in Nat
  BY <1>1, FS_Subset, FS_CardinalityType
<1>3. IsFiniteSet(U) /\ Cardinality(U) = Cardinality(Below(js, i)) + 1
  BY <1>1, <1>2, FS_AddElement
<1>4. Cardinality(U) <= Cardinality(js)
  <2>1. U \subseteq js
    BY <1>1
  <2> QED BY <2>1, FS_Subset
<1>5. ASSUME NEW j \in js, i < j PROVE Cardinality(U) <= Cardinality(Below(js, j))
  <2>1. \A h \in U : h \in js /\ h < j
    <3>1. \A h \in Below(js, i) : h \in js /\ h < i /\ h \in Nat /\ i \in Nat /\ j \in Nat
      BY DEF Below
    <3> QED BY <1>5, <3>1
  <2>1a. U \subseteq Below(js, j)
    BY <2>1 DEF Below
  <2>2. IsFiniteSet(Below(js, j))
    <3>1. Below(js, j) \subseteq js
      BY DEF Below
    <3> QED BY <3>1, FS_Subset
  <2> QED BY <2>1a, <2>2, FS_Subset
<1> HIDE DEF U
<1>6. Cardinality(Below(js, i)) < Cardinality(js)
  BY <1>2, <1>3, <1>4
<1>7. ASSUME NEW j \in js, i < j PROVE Cardinality(Below(js, i)) < Cardinality(Below(js, j))
  <2>1. Cardinality(Below(js, j)) \in Nat
    <3>1. Below(js, j) \subseteq js
      BY DEF Below
    <3> QED BY <3>1, FS_Subset, FS_CardinalityType
  <2> QED BY <1>2, <1>3, <1>5, <1>7, <2>1
<1> QED BY <1>2, <1>6, <1>7

\* Every place in the order is taken: no smallest one is free.
LEMMA PlaceTaken ==
    ASSUME NEW js, js \subseteq Nat, IsFiniteSet(js), NEW k \in 1 .. Cardinality(js)
    PROVE  \E j \in js : Cardinality(Below(js, j)) = k - 1
<1> DEFINE free == {n \in 1 .. Cardinality(js) : ~ \E j \in js : Cardinality(Below(js, j)) = n - 1}
<1>a. Cardinality(js) \in Nat
  BY FS_CardinalityType
<1> SUFFICES ASSUME free # {} PROVE FALSE
  BY <1>a
<1>1. PICK n \in free : \A i \in free : n =< i
  <2>1. free \subseteq Nat
    BY <1>a
  <2> HIDE DEF free
  <2> QED BY <2>1, LeastExists
<1>2. n \in 1 .. Cardinality(js) /\ n \in Nat /\ ~ \E j \in js : Cardinality(Below(js, j)) = n - 1
  BY <1>a
<1>3. CASE n = 1
  <2>1. js # {}
    BY <1>2, <1>a, FS_EmptySet
  <2>2. PICK j \in js : \A h \in js : j =< h
    BY <2>1, LeastExists
  <2>3. \A h \in js : ~(h < j)
    BY <2>2
  <2>4. Below(js, j) = {}
    BY <2>3 DEF Below
  <2> QED BY <1>2, <1>3, <2>4, FS_EmptySet
<1>4. CASE n > 1
  <2>1. n - 1 \in 1 .. Cardinality(js) /\ n - 1 \notin free
    BY <1>1, <1>2, <1>4, <1>a
  <2>2. PICK j \in js : Cardinality(Below(js, j)) = (n - 1) - 1
    BY <2>1
  <2> DEFINE upto == Below(js, j) \cup {j}
             rest == js \ upto
  <2>3. \A h \in js : h \in upto <=> h =< j
    BY DEF Below
  <2>4. Cardinality(upto) = n - 1 /\ upto \subseteq js
    <3>1. j \notin Below(js, j) /\ Below(js, j) \subseteq js
      BY DEF Below
    <3>2. Cardinality(upto) = Cardinality(Below(js, j)) + 1
      BY <3>1, BelowFacts, FS_AddElement
    <3> QED BY <2>2, <3>1, <3>2, <1>2
  <2>5. rest # {} /\ rest \subseteq Nat
    <3> HIDE DEF upto
    <3>1. Cardinality(upto) # Cardinality(js)
      BY <2>4, <1>2, <1>a
    <3>2. upto # js
      BY <3>1
    <3> QED BY <3>2, <2>4
  <2>6. PICK r \in rest : \A h \in rest : r =< h
    BY <2>5, LeastExists
  <2> HIDE DEF upto
  <2>7. \A h \in js : h < r <=> h =< j
    <3>1. r > j /\ r \in js
      BY <2>3, <2>6
    <3> QED BY <2>3, <2>6, <3>1
  <2>8. Below(js, r) = upto
    BY <2>3, <2>4, <2>7 DEF Below
  <2> QED BY <2>4, <2>6, <2>8, <1>2
<1> QED BY <1>2, <1>3, <1>4

\* Nth() goes through a set of positions, each at one place and none left out.
LEMMA NthFacts ==
    ASSUME NEW js, js \subseteq Nat, IsFiniteSet(js)
    PROVE  /\ \A k \in 1 .. Cardinality(js) : Nth(js, k) \in js
           /\ \A h, k \in 1 .. Cardinality(js) : Nth(js, h) = Nth(js, k) => h = k
           /\ \A j \in js : \E k \in 1 .. Cardinality(js) : Nth(js, k) = j
<1>0. Cardinality(js) \in Nat
  BY FS_CardinalityType
<1>1. \A k \in 1 .. Cardinality(js) : Nth(js, k) \in js /\ Cardinality(Below(js, Nth(js, k))) = k - 1
  BY PlaceTaken DEF Nth, Below
<1>2. ASSUME NEW h \in 1 .. Cardinality(js), NEW k \in 1 .. Cardinality(js), Nth(js, h) = Nth(js, k)
      PROVE  h = k
  <2>1. h - 1 = k - 1
    BY <1>1, <1>2
  <2> QED BY <2>1, <1>0
<1>3. ASSUME NEW j \in js
      PROVE  \E k \in 1 .. Cardinality(js) : Nth(js, k) = j
  <2> DEFINE k == Cardinality(Below(js, j)) + 1
  <2>0. Cardinality(Below(js, j)) \in Nat /\ Cardinality(Below(js, j)) < Cardinality(js)
    BY BelowFacts
  <2>1. k \in 1 .. Cardinality(js) /\ Cardinality(Below(js, j)) = k - 1
    BY <1>0, <2>0
  <2> HIDE DEF k
  <2>2. Nth(js, k) \in js /\ Cardinality(Below(js, Nth(js, k))) = Cardinality(Below(js, j))
    BY <1>1, <2>1
  <2> DEFINE i == Nth(js, k)
  <2>3. i \in js /\ i \in Nat /\ j \in Nat
    BY <2>2
  <2> HIDE DEF i
  <2>3a. \A x, y \in js : x < y => Cardinality(Below(js, x)) < Cardinality(Below(js, y))
    BY BelowFacts
  <2>3b. Cardinality(Below(js, i)) = Cardinality(Below(js, j))
    BY <2>2 DEF i
  <2>3c. ~(i < j) /\ ~(j < i)
    BY <2>0, <2>3, <2>3a, <2>3b
  <2>4. Nth(js, k) = j
    BY <2>3, <2>3c DEF i
  <2> QED BY <2>1, <2>4
<1> QED BY <1>1, <1>2, <1>3

-----------------------------------------------------------------------------
(* Connection ids.                                                         *)

Ids == 0 .. MaxSeq

OnceEach(list) == list \in Seq(Ids) /\ \A j, k \in DOMAIN list : list[j] = list[k] => j = k

\* The path, and what a roll-back restores, use ids of the peer; none is listed
\* twice.
CidInv ==
    /\ role \in Roles /\ cid \in Ids /\ OnceEach(cids)
    /\ \A r \in rollback : r.cid \in Ids

\* Kept() leaves the entries it is told to and no other, each once.
LEMMA KeptFacts ==
    ASSUME OnceEach(cids), NEW S
    PROVE  OnceEach(Kept(S)) /\ ToSet(Kept(S)) = Entries \cap S
<1> DEFINE at == {j \in DOMAIN cids : cids[j] \in S}
           n == Cardinality(at)
<1>1. Len(cids) \in Nat /\ DOMAIN cids = 1 .. Len(cids) /\ \A j \in DOMAIN cids : cids[j] \in Ids
  BY DEF OnceEach
<1>2. at \subseteq Nat /\ IsFiniteSet(at) /\ n \in Nat
  <2>1. at \subseteq 1 .. Len(cids) /\ IsFiniteSet(1 .. Len(cids))
    BY <1>1, FS_Interval
  <2> QED BY <1>1, <2>1, FS_Subset, FS_CardinalityType
<1>3. /\ \A k \in 1 .. n : Nth(at, k) \in at
      /\ \A h, k \in 1 .. n : Nth(at, h) = Nth(at, k) => h = k
      /\ \A j \in at : \E k \in 1 .. n : Nth(at, k) = j
  <2> HIDE DEF at
  <2> QED BY <1>2, NthFacts
<1>4. Kept(S) = [k \in 1 .. n |-> cids[Nth(at, k)]]
  BY DEF Kept
<1>5. \A j \in at : j \in DOMAIN cids /\ cids[j] \in S
  OBVIOUS
<1>6. \A j \in DOMAIN cids : cids[j] \in S => j \in at
  OBVIOUS
<1> HIDE DEF at, n
<1>7. \A k \in 1 .. n : cids[Nth(at, k)] \in Ids
  BY <1>1, <1>3, <1>5
<1>8. Kept(S) \in Seq(Ids) /\ DOMAIN Kept(S) = 1 .. n
  <2>1. Kept(S) \in [1 .. n -> Ids]
    BY <1>4, <1>7
  <2> QED BY <2>1, <1>2, SeqDef
<1>9. \A h, k \in 1 .. n : Kept(S)[h] = Kept(S)[k] => h = k
  BY <1>3, <1>4, <1>5 DEF OnceEach
<1>10. ToSet(Kept(S)) = Entries \cap S
  <2>1. \A x \in ToSet(Kept(S)) : x \in Entries \cap S
    BY <1>3, <1>4, <1>5, <1>8 DEF ToSet, Entries
  <2>2. ASSUME NEW x \in Entries \cap S PROVE x \in ToSet(Kept(S))
    <3>1. PICK j \in DOMAIN cids : cids[j] = x
      BY DEF Entries, ToSet
    <3>2. PICK k \in 1 .. n : Nth(at, k) = j
      BY <1>3, <1>6, <3>1
    <3>3. Kept(S)[k] = x
      BY <1>4, <3>1, <3>2
    <3> QED BY <1>8, <3>3 DEF ToSet
  <2> QED BY <2>1, <2>2
<1> QED BY <1>8, <1>9, <1>10 DEF OnceEach

\* A migration takes an id that is not the one in use, which stays listed.
LEMMA RotateFacts ==
    ASSUME CidInv, Rotate
    PROVE  /\ cid' \in Ids /\ OnceEach(cids')
           /\ cid \in Entries => cid \in ToSet(cids')
<1>1. CASE Fresh = {}
  BY <1>1 DEF Rotate, CidInv, Entries
<1>2. CASE Fresh # {}
  <2>1. PICK fresh \in Fresh : cid' = fresh /\ cids' = Kept(Entries \ {fresh})
    BY <1>2 DEF Rotate
  <2>2. fresh \in Ids /\ fresh # cid
    BY DEF Fresh, CidInv, OnceEach
  <2>3. OnceEach(cids') /\ ToSet(cids') = Entries \cap (Entries \ {fresh})
    BY <2>1, KeptFacts DEF CidInv
  <2> QED BY <2>1, <2>2, <2>3
<1> QED BY <1>1, <1>2

\* registerPeerCid(): the id in use is swept only for one that is listed.
LEMMA RegisterFacts ==
    ASSUME CidInv, NEW s \in 1 .. MaxSeq, RecvNewConnectionId(s)
    PROVE  /\ cid' \in Ids /\ OnceEach(cids')
           /\ cid \in Entries /\ cid \notin ToSet(cids') => cid' \in ToSet(cids')
<1> DEFINE S == {q \in Entries : q >= issued[s + 1]}
           kept == Kept(S)
<1>1. OnceEach(kept) /\ ToSet(kept) = Entries \cap S
  BY KeptFacts DEF CidInv
<1>2. s \in Ids /\ s \notin Entries /\ cid \in Ids /\ Limit \in Nat /\ Limit >= 2
  BY MigrationAssumption DEF RecvNewConnectionId, CidInv, Ids
<1>3. \/ Len(kept) >= Limit /\ cids' = kept /\ cid' = Adopted(kept, cid)
      \/ cids' = Append(kept, s) /\ cid' = Adopted(kept, s)
  BY DEF RecvNewConnectionId
<1> HIDE DEF kept
<1>4. kept \in Seq(Ids) /\ Len(kept) \in Nat /\ DOMAIN kept = 1 .. Len(kept)
  BY <1>1 DEF OnceEach
<1>5. kept # <<>> => Head(kept) \in Ids /\ Head(kept) \in ToSet(kept)
  BY <1>4 DEF ToSet
<1>6. ASSUME NEW t \in Ids
      PROVE  /\ Adopted(kept, t) \in Ids
             /\ cid \in Entries /\ cid \notin ToSet(kept) =>
                   IF kept = <<>> THEN Adopted(kept, t) = t ELSE Adopted(kept, t) \in ToSet(kept)
  BY <1>2, <1>5, <1>6 DEF Adopted
<1>7. CASE Len(kept) >= Limit /\ cids' = kept /\ cid' = Adopted(kept, cid)
  <2>1. kept # <<>>
    BY <1>2, <1>4, <1>7
  <2> QED BY <1>1, <1>2, <1>6, <1>7, <2>1
<1>8. CASE cids' = Append(kept, s) /\ cid' = Adopted(kept, s)
  <2>1. s \notin ToSet(kept)
    BY <1>1, <1>2
  <2>2. /\ cids' \in Seq(Ids) /\ DOMAIN cids' = 1 .. Len(kept) + 1
        /\ \A j \in 1 .. Len(kept) : cids'[j] = kept[j]
        /\ cids'[Len(kept) + 1] = s
    BY <1>2, <1>4, <1>8
  <2>3. ToSet(cids') = ToSet(kept) \cup {s}
    BY <1>4, <2>2 DEF ToSet
  <2>4. OnceEach(cids')
    <3> SUFFICES ASSUME NEW j \in DOMAIN cids', NEW k \in DOMAIN cids', cids'[j] = cids'[k]
                 PROVE  j = k
      BY <2>2 DEF OnceEach
    <3>1. \A i \in 1 .. Len(kept) : kept[i] # s
      BY <1>4, <2>1 DEF ToSet
    <3>2. \A i \in DOMAIN cids' : i \in 1 .. Len(kept) \/ i = Len(kept) + 1
      BY <1>4, <2>2
    <3> QED BY <1>1, <1>4, <2>2, <3>1, <3>2 DEF OnceEach
  <2> QED BY <1>2, <1>6, <1>8, <2>3, <2>4
<1> QED BY <1>3, <1>7, <1>8

\* What is saved has an id of the peer.
LEMMA SavedCid == ASSUME CidInv PROVE \A r \in Snapshot : r.cid \in Ids
BY DEF Snapshot, CidInv

\* Every step keeps the ids in order, and moves the path off an id only as
\* InUseKept says.
LEMMA StepCids ==
    ASSUME CidInv, [Next]_vars
    PROVE  /\ CidInv'
           /\ (cid \in Entries /\ cid \notin ToSet(cids')) => cid' \in ToSet(cids')
<1> DEFINE Goal == /\ CidInv'
                   /\ (cid \in Entries /\ cid \notin ToSet(cids')) => cid' \in ToSet(cids')
<1>1. ASSUME role' = role, cids' = cids, cid' = cid \/ \E r \in rollback : cid' = r.cid,
             rollback' \subseteq rollback \/ rollback' \subseteq Snapshot
      PROVE  Goal
  BY <1>1, SavedCid DEF CidInv, Entries
<1>2. ASSUME role' = role, Rotate, rollback' = rollback \/ rollback' = Snapshot
      PROVE  Goal
  BY <1>2, SavedCid, RotateFacts DEF CidInv
<1>3. ASSUME UNCHANGED vars PROVE Goal
  BY <1>1, <1>3 DEF vars, pathVars
<1>4. ASSUME Issue PROVE Goal
  BY <1>1, <1>4 DEF Issue, pathVars
<1>5. ASSUME NEW s \in 1 .. MaxSeq, RecvNewConnectionId(s) PROVE Goal
  <2>1. role' = role /\ rollback' = rollback
    BY <1>5 DEF RecvNewConnectionId
  <2> QED BY <1>5, <2>1, RegisterFacts DEF CidInv
<1>6. ASSUME NEW a \in Addrs, RecvDatagram(a) PROVE Goal
  <2>1. CASE ChangeAddress(a)
    BY <1>2, <1>6, <2>1 DEF RecvDatagram, ChangeAddress
  <2>2. CASE UNCHANGED <<cid, cids, rollback>>
    BY <1>1, <1>6, <2>2 DEF RecvDatagram
  <2> QED BY <1>6, <2>1, <2>2 DEF RecvDatagram
<1>7. ASSUME NEW l \in Locals, ClientMigrate(l) PROVE Goal
  BY <1>2, <1>7 DEF ClientMigrate, MoveTo
<1>8. ASSUME NEW l \in Locals, ServerMoved(l) PROVE Goal
  BY <1>1, <1>8 DEF ServerMoved, MoveTo
<1>9. ASSUME Probe PROVE Goal
  BY <1>1, <1>9 DEF Probe
<1>10. ASSUME RecvChallenge PROVE Goal
  BY <1>2, <1>10 DEF RecvChallenge
<1>11. ASSUME Send PROVE Goal
  BY <1>1, <1>11 DEF Send
<1>12. ASSUME LoseChallenge PROVE Goal
  BY <1>1, <1>12 DEF LoseChallenge, pathVars
<1>13. ASSUME Timeout PROVE Goal
  <2>1. role' = role /\ cids' = cids /\ rollback' = {}
    BY <1>13 DEF Timeout
  <2>2. cid' = cid \/ \E r \in rollback : cid' = r.cid
    BY <1>13 DEF Timeout
  <2> QED BY <1>1, <2>1, <2>2
<1>14. ASSUME Cool PROVE Goal
  BY <1>1, <1>14 DEF Cool, pathVars
<1>15. ASSUME NEW f \in flying, RecvResponse(f) PROVE Goal
  BY <1>1, <1>15 DEF RecvResponse
<1> HIDE DEF Goal
<1>16. Goal
  <2>1. Next \/ UNCHANGED vars
    OBVIOUS
  <2> QED BY <2>1, <1>3, <1>4, <1>5, <1>6, <1>7, <1>8, <1>9, <1>10, <1>11, <1>12, <1>13, <1>14, <1>15 DEF Next
<1> QED BY <1>16 DEF Goal

\* A connection starts with its ids in order.
LEMMA InitCidInv == Init => CidInv
<1> SUFFICES ASSUME Init PROVE CidInv
  OBVIOUS
<1>1. role \in Roles /\ cid \in Ids /\ rollback = {}
  BY MigrationAssumption DEF Init, Ids
<1>2. cids = <<>> \/ cids = <<0>>
  BY DEF Init
<1>3. OnceEach(cids)
  <2>1. cids \in Seq(Ids) /\ DOMAIN cids \in SUBSET {1}
    <3>1. 0 \in Ids
      BY MigrationAssumption DEF Ids
    <3>2. CASE cids = <<>>
      BY <3>2
    <3>3. CASE cids = <<0>>
      BY <3>1, <3>3
    <3> QED BY <1>2, <3>2, <3>3
  <2> QED BY <2>1 DEF OnceEach
<1> QED BY <1>1, <1>3 DEF CidInv

\* The ids are in order in every reachable state.
LEMMA CidsInOrder == Spec => []CidInv
BY InitCidInv, StepCids, PTL DEF Spec

\* As many ids as entries.
LEMMA CountOnce ==
    ASSUME OnceEach(cids)
    PROVE  Cardinality(Entries) = Len(cids)
<1>1. Len(cids) \in Nat /\ DOMAIN cids = 1 .. Len(cids)
  BY DEF OnceEach
<1>2. IsFiniteSet(1 .. Len(cids)) /\ Cardinality(1 .. Len(cids)) = Len(cids)
  <2>1. 1 \in Int /\ Len(cids) \in Int
    BY <1>1
  <2>2. Cardinality(1 .. Len(cids)) = IF 1 > Len(cids) THEN 0 ELSE Len(cids) - 1 + 1
    BY <2>1, FS_Interval
  <2> QED BY <1>1, <2>1, <2>2, FS_Interval
<1>3. cids \in Bijection(1 .. Len(cids), Entries)
  <2>1. Entries = {cids[j] : j \in 1 .. Len(cids)}
    BY <1>1 DEF Entries, ToSet
  <2>2. cids \in [1 .. Len(cids) -> Entries]
    BY <1>1, <2>1 DEF OnceEach
  <2> QED BY <1>1, <2>1, <2>2 DEF OnceEach, Bijection, Injection, IsInjective, Surjection
<1> QED BY <1>2, <1>3, FS_Bijection DEF ExistsBijection

\* At most one record is saved.
LEMMA SavedOnce ==
    ASSUME \A r, q \in rollback : r = q
    PROVE  Cardinality(rollback) <= 1
<1>1. CASE rollback = {}
  BY <1>1, FS_EmptySet
<1>2. CASE rollback # {}
  <2>1. PICK r \in rollback : TRUE
    BY <1>2
  <2>2. rollback = {r}
    BY <2>1
  <2>3. Cardinality(rollback) = 1
    BY <2>2, FS_Singleton, Zenon
  <2> QED BY <2>3
<1> QED BY <1>1, <1>2

-----------------------------------------------------------------------------
(* What follows.                                                           *)

\* handlePathValidationFailure() and recordPathResponse(): whatever addresses
\* the peer is seen at and whatever answers arrive late, a path counts as
\* validated, and a roll-back leads, only where the peer answered a challenge
\* that was sent there, or where it was in the handshake.
THEOREM OnlyWhereProven == Spec => []ProvenOnly
BY Invariant, PTL DEF MInv

\* antiAmpAllowance(): over all the comings and goings of an address that never
\* answered, it is sent at most three times what the path was credited there,
\* although beginMigration() starts the path's counters again each time.
THEOREM NeverAmplifies == Spec => []WithinBudget
BY Invariant, PTL DEF MInv

\* Every field keeps its type, something is saved only while its validation is
\* on, and peer_cids lists no id twice, for any number of addresses, ids,
\* challenges and datagrams.
THEOREM TypeCorrect == Spec => []TypeOK
<1>1. MInv /\ CidInv => TypeOK
  <2> SUFFICES ASSUME MInv, CidInv PROVE TypeOK
    OBVIOUS
  <2>1. Cardinality(rollback) <= 1 /\ Cardinality(Entries) = Len(cids)
    BY SavedOnce, CountOnce DEF MInv, RollbackOK, CidInv
  <2>2. token \in None .. MaxTokens - 1 /\ challenge \in None .. MaxTokens - 1
    BY MigrationAssumption DEF MInv, ChallengesOK, None
  <2> QED BY <2>1, <2>2 DEF MInv, PathOK, RollbackOK, CidInv, Ids, TypeOK
<1> QED BY <1>1, Invariant, CidsInOrder, PTL

\* retirePeerCidsPriorTo(): when the id in use is dropped, one that is still
\* listed takes its place, however late the frames come.
THEOREM InUseStaysListed == Spec => InUseKept
<1>1. CidInv /\ [Next]_vars =>
        [(cid \in Entries /\ cid \notin ToSet(cids')) => cid' \in ToSet(cids')]_vars
  BY StepCids
<1> QED BY <1>1, CidsInOrder, PTL DEF Spec, InUseKept
=============================================================================
