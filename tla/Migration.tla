------------------------------- MODULE Migration -------------------------------
(***************************************************************************)
(* One endpoint, after the handshake, on its one path: the peer's address  *)
(* changes or the endpoint moves, the new path is validated or rolled back *)
(* (conn/path.zig, conn/PathValidator.zig, Connection/migration.zig and    *)
(* paths.zig), and the destination connection ids the peer issues are      *)
(* taken into use and retired (Connection/cids.zig).                       *)
(*                                                                         *)
(* The network delays, reorders, loses and repeats: a datagram may arrive  *)
(* from any address at any time, any connection id frame that was issued   *)
(* may arrive (again), and any challenge that was sent may be answered.    *)
(* Datagrams have one size; times are the two intervals that matter, the   *)
(* 100 ms between two challenges and the validation's timeout.             *)
(***************************************************************************)
EXTENDS Integers, Sequences, FiniteSets, SequencesExt

CONSTANTS
    Roles,      \* the endpoint is one of these
    Addrs,      \* addresses of the peer
    Home,       \* its address in the handshake
    Locals,     \* addresses of the endpoint itself
    Base,       \* the one it had in the handshake
    Limit,      \* active_connection_id_limit it advertises
    MaxSeq,     \* bound: the last connection id the peer issues
    MaxTokens,  \* bound: challenges
    MaxCredit   \* bound: datagrams credited to an unvalidated path

ASSUME MigrationAssumption ==
    /\ Roles \subseteq {"client", "server"} /\ Roles # {}
    /\ Home \in Addrs /\ Base \in Locals
    /\ Limit \in Nat /\ Limit >= 2 /\ MaxSeq \in Nat /\ MaxTokens \in Nat
    /\ MaxCredit \in Nat \ {0}

None == -1

VARIABLES
    role,
    addr, local, cid,    \* the path: peer_addr, local_addr, peer_cid
    validated, status, token,        \* path.validated and the validator
    state,               \* path.state: active or failed
    received, sent,      \* bytes_received, bytes_sent, while unvalidated
    reset,               \* pending_migration_reset
    rollback,            \* migration_rollback, a set of at most one
    challenge,           \* the queued PATH_CHALLENGE's token
    recent,              \* last_path_challenge_at_us is less than 100 ms ago
    cids,                \* peer_cids, in order
    closed,              \* close() was called
    issued,              \* the peer: its frames, sequence number to retire_prior_to
    flying,              \* challenges sent: token and address
    tokens,              \* challenges made so far
    proven,              \* addresses that answered a challenge
    net,                 \* per address: three times the datagrams credited to the
                         \* path while it was there, less those sent to it
    picked, again        \* connection ids a migration took; it took one again

pathVars == <<addr, local, cid, validated, status, token, state, received, sent, reset, rollback>>
ghosts   == <<proven, net, picked, again>>
vars == <<role, pathVars, challenge, recent, cids, closed, issued, flying, tokens, ghosts>>

Init ==
    /\ role \in Roles
    /\ addr = Home /\ local = Base /\ cid = 0
    /\ validated = TRUE /\ status = "validated" /\ token = None /\ state = "active"
    /\ received = 0 /\ sent = 0 /\ reset = FALSE /\ rollback = {}
    /\ challenge = None /\ recent = FALSE
    /\ cids \in {<<>>} \cup (IF role = "client" THEN {<<0>>} ELSE {})
    /\ closed = FALSE /\ issued = <<0>> /\ flying = {} /\ tokens = 0
    /\ proven = {Home} /\ net = [a \in Addrs |-> 0] /\ picked = {} /\ again = FALSE

-----------------------------------------------------------------------------
(* Connection ids of the peer.                                             *)

Entries == ToSet(cids)

\* The k-th lowest of a set of positions.
Nth(js, k) == CHOOSE j \in js : Cardinality({h \in js : h < j}) = k - 1

\* The entries that are in set S, in their order: orderedRemove() of the others.
Kept(S) ==
    LET at == {j \in DOMAIN cids : cids[j] \in S}
    IN  [k \in 1 .. Cardinality(at) |-> cids[Nth(at, k)]]

\* The first entry that is not the one in use, if there is one.
Fresh == {cids[j] : j \in {j \in DOMAIN cids :
            /\ cids[j] # cid
            /\ \A h \in 1 .. j - 1 : cids[h] = cid}}

\* consumeFreshPeerCidForMigration() and the path's use of what it found.
Rotate ==
    IF Fresh = {} THEN UNCHANGED <<cid, cids, picked, again>>
    ELSE \E fresh \in Fresh :
            /\ cid' = fresh /\ cids' = Kept(Entries \ {fresh})
            /\ picked' = picked \cup {fresh} /\ again' = (again \/ fresh \in picked)

\* Mutant of Adopted: the id in use was retired and none takes its place.
AdoptedFirstOnly(list, s) == IF s = 0 THEN s ELSE cid

\* promotePeerCidForPath() when the id in use was swept, and registerPeerCid()'s
\* adoption of the new one when nothing was left.
Adopted(list, s) ==
    IF cid \in Entries \ ToSet(list) THEN (IF list = <<>> THEN s ELSE Head(list))
    ELSE IF s = 0 THEN s ELSE cid

\* registerPeerCid().  A frame's copies are the same frame.
RecvNewConnectionId(s) ==
    /\ ~closed /\ s \in 1 .. Len(issued) - 1 /\ s \notin Entries
    /\ LET kept == Kept({q \in Entries : q >= issued[s + 1]})
       IN  /\ IF Len(kept) >= Limit
              THEN /\ closed' = TRUE /\ cids' = kept
                   /\ cid' = Adopted(kept, cid)
              ELSE /\ cids' = Append(kept, s) /\ cid' = Adopted(kept, s)
                   /\ UNCHANGED closed
    /\ UNCHANGED <<role, addr, local, validated, status, token, state, received, sent,
                   reset, rollback, challenge, recent, issued, flying, tokens, ghosts>>

\* The peer issues its next id and may ask for the older ones back.  Those it
\* has not asked back never exceed the limit.
Issue ==
    /\ Len(issued) <= MaxSeq
    /\ \E prior \in issued[Len(issued)] .. Len(issued) :
          /\ Len(issued) + 1 - prior <= Limit
          /\ issued' = Append(issued, prior)
    /\ UNCHANGED <<role, pathVars, challenge, recent, cids, closed, flying, tokens, ghosts>>

-----------------------------------------------------------------------------
(* Migration and validation.                                               *)

isValidated == validated \/ status = "validated"

\* Mutant of Snapshot: a second change overwrites what the first one saved.
SnapshotLatest ==
    {[addr |-> addr, local |-> local, cid |-> cid, validated |-> isValidated,
      received |-> received, sent |-> sent, state |-> state]}

\* snapshotMigrationRollback(): the first one wins.
Snapshot ==
    IF rollback # {} THEN rollback
    ELSE {[addr |-> addr, local |-> local, cid |-> cid, validated |-> isValidated,
           received |-> received, sent |-> sent, state |-> state]}

\* beginChallenge() and the queued frame.
Challenge ==
    /\ tokens < MaxTokens /\ tokens' = tokens + 1
    /\ status' = "pending" /\ token' = tokens /\ challenge' = tokens

\* A datagram credited to the path; a validated one is not counted.
Credit(a) ==
    /\ received < MaxCredit
    /\ received' = IF isValidated THEN received ELSE received + 1
    /\ net' = IF isValidated THEN net ELSE [net EXCEPT ![a] = @ + 3]

\* Mutant of Counters: the new address inherits what the old one had.
CountersKept == received' = received + 1 /\ UNCHANGED sent

\* The triggering datagram is what the new address starts with.
Counters == received' = 1 /\ sent' = 0

\* handlePeerAddressChange() and beginMigration().
ChangeAddress(a) ==
    /\ rollback' = Snapshot /\ Rotate
    /\ addr' = a /\ validated' = FALSE /\ Counters /\ state' = "active" /\ reset' = TRUE
    /\ net' = [net EXCEPT ![a] = @ + 3]
    /\ Challenge /\ recent' = TRUE
    /\ UNCHANGED local

\* An authenticated datagram arrives from a: handle() and
\* recordAuthenticatedDatagramAddress(), the embedder's policy included.
RecvDatagram(a) ==
    /\ ~closed
    /\ \/ /\ a = addr /\ Credit(addr)
          /\ UNCHANGED <<addr, local, cid, validated, status, token, state, sent, reset,
                         rollback, challenge, recent, cids, tokens, picked, again>>
       \/ /\ a # addr /\ (\A r \in rollback : r.addr # a) /\ ~recent
          /\ \/ ChangeAddress(a)
             \/ /\ Credit(addr)   \* denied
                /\ UNCHANGED <<addr, local, cid, validated, status, token, state, sent,
                               reset, rollback, challenge, recent, cids, tokens, picked, again>>
    /\ UNCHANGED <<role, closed, issued, flying, proven>>

\* setLocalAddress() and the rest that the endpoint's own moves share.
MoveTo(l) ==
    /\ rollback' = Snapshot /\ local' = l /\ reset' = TRUE /\ Challenge /\ recent' = TRUE
    /\ UNCHANGED <<role, addr, validated, state, received, sent, closed, issued, flying,
                   proven, net>>

\* beginClientActiveMigration()
ClientMigrate(l) ==
    /\ ~closed /\ role = "client" /\ status # "pending" /\ Fresh # {}
    /\ Rotate /\ MoveTo(l)

\* noteServerLocalAddressChanged()
ServerMoved(l) ==
    /\ ~closed /\ role = "server" /\ l # local /\ ~(status = "pending" /\ reset)
    /\ MoveTo(l) /\ UNCHANGED <<cid, cids, picked, again>>

\* probePath(): the embedder validates the path it has.
Probe ==
    /\ ~closed /\ Challenge
    /\ UNCHANGED <<role, addr, local, cid, validated, state, received, sent, reset, rollback,
                   recent, cids, closed, issued, flying, ghosts>>

\* A PATH_CHALLENGE of the peer: it saw the endpoint move.
RecvChallenge ==
    /\ ~closed /\ Fresh # {} /\ Rotate
    /\ UNCHANGED <<role, addr, local, validated, status, token, state, received, sent, reset,
                   rollback, challenge, recent, closed, issued, flying, tokens, proven, net>>

\* Mutant of Allowed: one datagram past the budget.
AllowedAtCap == isValidated \/ sent <= 3 * received

\* antiAmpAllowance() of an unvalidated path.
Allowed == isValidated \/ sent < 3 * received

\* A datagram leaves, with the queued challenge if there is one; what a
\* validated path sends is not counted.
Send ==
    /\ ~closed /\ state = "active" /\ Allowed
    /\ challenge # None \/ ~isValidated
    /\ flying' = IF challenge = None THEN flying
                 ELSE flying \cup {[token |-> challenge, addr |-> addr]}
    /\ challenge' = None
    /\ sent' = IF isValidated THEN sent ELSE sent + 1
    /\ net' = IF isValidated THEN net ELSE [net EXCEPT ![addr] = @ - 1]
    /\ UNCHANGED <<role, addr, local, cid, validated, status, token, state, received, reset,
                   rollback, recent, cids, closed, issued, tokens, proven, picked, again>>

\* A packet with a challenge is declared lost: shouldRequeuePathChallenge().
LoseChallenge ==
    /\ ~closed /\ state # "failed" /\ status = "pending"
    /\ \E f \in flying : f.token = token
    /\ challenge' = token
    /\ UNCHANGED <<role, pathVars, recent, cids, closed, issued, flying, tokens, ghosts>>

\* recordResponse(): pending, and the token of the last challenge.
Matches(t) == status = "pending" /\ t = token

\* recordPathResponse(), of a challenge that reached the peer at f.addr.
RecvResponse(f) ==
    /\ ~closed /\ Matches(f.token)
    /\ validated' = TRUE /\ status' = "validated" /\ challenge' = None
    /\ reset' = FALSE /\ rollback' = IF reset THEN {} ELSE rollback
    /\ proven' = proven \cup {f.addr}
    /\ UNCHANGED <<role, addr, local, cid, token, state, received, sent, recent, cids, closed,
                   issued, flying, tokens, net, picked, again>>

\* tick() finds the validation overdue: handlePathValidationFailure() rolls a
\* migration back and gives up any other path.
Timeout ==
    /\ ~closed /\ status = "pending" /\ challenge' = None /\ reset' = FALSE /\ rollback' = {}
    /\ IF reset /\ rollback # {}
       THEN \E r \in rollback :
              /\ addr' = r.addr /\ local' = r.local /\ cid' = r.cid
              /\ validated' = r.validated /\ state' = r.state
              /\ status' = IF r.validated THEN "validated" ELSE "idle"
              /\ received' = r.received /\ sent' = r.sent
       ELSE /\ state' = "failed" /\ status' = "failed"
            /\ UNCHANGED <<addr, local, cid, validated, received, sent>>
    /\ UNCHANGED <<role, token, recent, cids, closed, issued, flying, tokens, ghosts>>

\* 100 ms without a challenge.
Cool ==
    /\ recent /\ recent' = FALSE
    /\ UNCHANGED <<role, pathVars, challenge, cids, closed, issued, flying, tokens, ghosts>>

Next ==
    \/ Issue \/ \E s \in 1 .. MaxSeq : RecvNewConnectionId(s)
    \/ \E a \in Addrs : RecvDatagram(a)
    \/ \E l \in Locals : ClientMigrate(l) \/ ServerMoved(l)
    \/ Probe \/ RecvChallenge \/ Send \/ LoseChallenge \/ Timeout \/ Cool
    \/ \E f \in flying : RecvResponse(f)

Spec == Init /\ [][Next]_vars

-----------------------------------------------------------------------------
(* Properties.                                                             *)

\* Every field keeps its type; something is saved only while its validation is
\* on, and no id is listed twice.
TypeOK ==
    /\ role \in Roles /\ addr \in Addrs /\ local \in Locals /\ cid \in 0 .. MaxSeq
    /\ status \in {"idle", "pending", "validated", "failed"} /\ state \in {"active", "failed"}
    /\ token \in None .. MaxTokens - 1 /\ challenge \in None .. MaxTokens - 1
    /\ received \in 0 .. MaxCredit + 1 /\ sent \in 0 .. 3 * received
    /\ Cardinality(rollback) <= 1 /\ (rollback # {} => reset /\ status = "pending")
    /\ Cardinality(Entries) = Len(cids)

\* A path counts as validated, and a roll-back leads, only where the peer is
\* known to be: the handshake's address, or one that answered a challenge sent
\* to it, however often the address changed while an answer was on its way.
ProvenOnly ==
    /\ isValidated => addr \in proven
    /\ \A r \in rollback : r.validated /\ r.addr \in proven

\* An address that never answered is sent no more than three times what was
\* credited to the path while it was there, over all its comings and goings.
WithinBudget == \A a \in Addrs \ proven : net[a] >= 0

\* retirePeerCidsPriorTo() never leaves the path on an id it has just dropped:
\* when the one in use goes, one that is still listed takes its place, whatever
\* ids arrived late and whatever migrations took out of the list before.
InUseKept == [][(cid \in Entries /\ cid \notin ToSet(cids'))
                   => cid' \in ToSet(cids')]_vars

\* consumeFreshPeerCidForMigration(): "Removes the chosen CID from `peer_cids`
\* so a subsequent migration can't pick the same one again".
NeverPickedTwice == ~again
=============================================================================
