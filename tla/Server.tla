-------------------------------- MODULE Server --------------------------------
(***************************************************************************)
(* The server and its loop: slots, the close lifecycle of their            *)
(* connections, the ready list, the timer heap, the routing table and the  *)
(* reaping of closed slots (Server.zig, Server/routing.zig,                *)
(* Server/accept.zig, conn/lifecycle.zig, transport/udp_server.zig).       *)
(*                                                                         *)
(* A slot is an address, used again once its slot is reaped.  Instants are *)
(* not numbers: a slot's timer is set for the deadline its connection has  *)
(* now, which has passed or not, or for one it had before.  An open        *)
(* connection's deadline is work (loss, an ACK) or its end by idleness;    *)
(* one tick of work stands for the several before that end.  Every slot    *)
(* has an initial id of its own; the table holds one more id, which any    *)
(* connection may issue, so that two may hold it at once.                  *)
(***************************************************************************)
EXTENDS Naturals, FiniteSets

CONSTANTS
    Slots,        \* addresses of slots
    TicksFail,    \* a connection's tick may return an error
    ListsFail     \* the ready list and the timer heap may not grow

ASSUME ServerAssumption == Slots # {} /\ TicksFail \in BOOLEAN /\ ListsFail \in BOOLEAN

VARIABLES
    slots,       \* the live ones
    conn,        \* per slot: life, cause (the close event), kind of deadline, due
    timer,       \* per slot: at (timer_at_us), entry (the current one in the
                 \* heap), stale (the heap has entries of older generations)
    ready, readyDegraded, timersDegraded,
    taken,       \* what takeReady() gave and the loop has still to drain
    pc,          \* what the loop is doing
    issued,      \* slots whose connection has the contested id
    tracked,     \* slots that hold it in tracked_cids
    owner,       \* the slot cid_table routes it to, at most one
    failed       \* a tick or a growth of the heap has failed

lists   == <<ready, readyDegraded>>
routing == <<issued, tracked, owner>>
vars == <<slots, conn, timer, lists, timersDegraded, taken, pc, routing, failed>>

Lives == {"open", "queued", "closing", "repeat", "draining", "closed"}
NewConn == [life |-> "open", cause |-> "none", kind |-> "idle", due |-> FALSE]
NoTimer == [at |-> "none", entry |-> "none", stale |-> FALSE]

Init ==
    /\ slots = {} /\ conn = [s \in Slots |-> NewConn] /\ timer = [s \in Slots |-> NoTimer]
    /\ ready = {} /\ readyDegraded = FALSE /\ timersDegraded = FALSE
    /\ taken = {} /\ pc = "feed"
    /\ issued = {} /\ tracked = {} /\ owner = {} /\ failed = FALSE

-----------------------------------------------------------------------------
(* The connection: conn/lifecycle.zig and its callers.                     *)

\* Mutant of Caused: the last cause is told.
CausedLast(c, cause) == [c EXCEPT !.cause = cause]

\* record(): the first cause stays.
Caused(c, cause) == IF c.cause = "none" THEN [c EXCEPT !.cause = cause] ELSE c

\* close()
Closed(c) == IF c.life = "open" THEN [Caused(c, "local") EXCEPT !.life = "queued"] ELSE c

\* From closing on there is one deadline.
Leaves(c, life) == [c EXCEPT !.life = life, !.kind = "idle"]

\* What becomes of a connection, its deadline staying or moving.
Stays(c) == [conn |-> c, moved |-> FALSE]
Moves(c) == [conn |-> [c EXCEPT !.due = FALSE], moved |-> TRUE]
Works(c) == {Moves([c EXCEPT !.kind = k]) : k \in {"work", "idle"}}

\* enterDraining(), for the peer's close, its stateless reset or a timeout.
Drained(c) == Moves(Leaves(Caused(c, "other"), "draining"))

\* What a datagram does to a connection, handle(): nothing before a queued
\* close has left, and nothing at the end.
Handled(c) ==
    CASE c.life = "open" ->
           {Stays(c), Stays(Closed(c)), Drained(c)} \cup Works(c)
      [] c.life = "closing" ->
           {Stays(c), Stays([c EXCEPT !.life = "repeat"]), Drained(c)}
      [] OTHER -> {Stays(c)}

\* pollDatagram(): a queued close leaves unless nothing may be sent; a repeated
\* one does not move the deadline, noteCloseEmit().
Sent(c) ==
    CASE c.life = "queued" -> {Stays(c), Moves(Leaves(c, "closing"))}
      [] c.life = "repeat" -> {Stays(c), Stays([c EXCEPT !.life = "closing"])}
      [] c.life = "open"   -> {Stays(c)} \cup Works(c)
      [] OTHER -> {Stays(c)}

\* tick(): what a deadline that has passed does.
Ticked(c) ==
    IF ~c.due THEN Stays(c)
    ELSE IF c.life \in {"closing", "repeat", "draining"} THEN Moves(Leaves(c, "closed"))
    ELSE IF c.kind = "work" THEN Moves([c EXCEPT !.kind = "idle"])
    ELSE Drained(c)

-----------------------------------------------------------------------------
(* The ready list and the timer heap.                                      *)

\* wakeSlot(), which every touch repeats.
Wake(s) ==
    LET degrades == ListsFail /\ s \notin ready
    IN  \/ ready' = ready \cup {s} /\ readyDegraded' \in {readyDegraded, readyDegraded \/ degrades}
        \/ degrades /\ readyDegraded' = TRUE /\ UNCHANGED ready

\* The timer once what became of the connection is d: one that was set for the
\* deadline it had is set for an earlier one when that moved.
Follow(t, d) ==
    IF ~d.moved THEN t
    ELSE [t EXCEPT !.at    = IF @ = "now" THEN "old" ELSE @,
                   !.entry = IF @ = "now" THEN "old" ELSE @]

\* The generation goes up: the entry in the heap is no longer the current one.
Retired(t) ==
    [at |-> "none", entry |-> "none", stale |-> t.stale \/ t.entry # "none"]

\* Mutant of IsSet: a slot with any timer keeps it.
IsSetToAny(t) == t.at # "none"

IsSet(t) == t.at = "now"

\* armTimerAfter() with the deadline of c: the timers it may leave.
Armed(t, c) ==
    IF c.life = "closed" THEN {Retired(t)}
    ELSE IF IsSet(t) THEN {t}
    ELSE {[Retired(t) EXCEPT !.at = "now", !.entry = "now"]}
           \cup (IF ListsFail THEN {Retired(t)} ELSE {})

\* The heap could not grow.
NotPushed(t, c) == c.life # "closed" /\ t.at = "none"

Degrade(refused) ==
    timersDegraded' = (timersDegraded \/ refused) /\ failed' = (failed \/ refused)

\* The current entry has been taken out of the heap.
Popped(t) == [t EXCEPT !.entry = "none"]

\* An entry for an earlier deadline may be due at any time.
EntryDue(s) == timer[s].entry = "old" \/ (timer[s].entry = "now" /\ conn[s].due)

-----------------------------------------------------------------------------
(* The routing table.                                                      *)

\* Mutant of Claimed: the id of another live slot is taken over.
ClaimedAlways(s) == owner' = {s} /\ tracked' = tracked \cup {s}

\* The table's entry is taken only when it is free.
Claimed(s) ==
    IF owner \subseteq {s} THEN owner' = {s} /\ tracked' = tracked \cup {s}
    ELSE UNCHANGED <<owner, tracked>>

\* resyncSlotCids(), for the contested id.
Resync(s, has) ==
    IF s \in tracked /\ s \notin has THEN owner' = {} /\ tracked' = tracked \ {s}
    ELSE IF s \in has \ tracked THEN Claimed(s)
    ELSE UNCHANGED <<owner, tracked>>

-----------------------------------------------------------------------------
(* The loop.                                                               *)

\* openSlotFromInitial() and the rest of the first feed: the slot is born
\* ready and armed, then its datagram is handled.  One that opens no packet
\* leaves nothing behind.
Accept(s) ==
    /\ pc = "feed" /\ s \notin slots
    /\ slots' = slots \cup {s} /\ Wake(s)
    /\ \E d \in Handled(NewConn) \ {Stays(NewConn)}, t \in Armed(timer[s], NewConn) :
          /\ conn' = [conn EXCEPT ![s] = d.conn]
          /\ timer' = [timer EXCEPT ![s] = Follow(t, d)]
          /\ Degrade(NotPushed(t, NewConn))
    /\ \E has \in {issued, issued \cup {s}} : issued' = has /\ Resync(s, has)
    /\ UNCHANGED <<taken, pc>>

\* A datagram is routed to its slot; an id the peer retires goes and the table
\* follows, ids that maybeReplenishConnectionIds() adds are routed next time.
Feed(s) ==
    /\ pc = "feed" /\ s \in slots /\ Wake(s)
    /\ \E d \in Handled(conn[s]) :
          /\ conn' = [conn EXCEPT ![s] = d.conn]
          /\ timer' = [timer EXCEPT ![s] = Follow(@, d)]
    /\ \E has \in {issued} \cup (IF conn[s].life = "open" THEN {issued \ {s}} ELSE {}) :
          /\ Resync(s, has)
          /\ issued' \in {has} \cup (IF conn'[s].life = "open" THEN {has \cup {s}} ELSE {})
    /\ UNCHANGED <<slots, timersDegraded, taken, pc, failed>>

\* The application closes a connection or gives it an id, or shutdown() does.
App(s) ==
    /\ pc = "feed" /\ s \in slots /\ Wake(s)
    /\ \/ conn' = [conn EXCEPT ![s] = Closed(@)] /\ UNCHANGED issued
       \/ conn[s].life = "open" /\ issued' = issued \cup {s} /\ UNCHANGED conn
    /\ UNCHANGED <<slots, timer, timersDegraded, taken, pc, tracked, owner, failed>>

StartTicks ==
    /\ pc = "feed" /\ pc' = IF timersDegraded THEN "sweep" ELSE "tick"
    /\ UNCHANGED <<slots, conn, timer, lists, timersDegraded, taken, routing, failed>>

\* tickDue() takes an entry whose deadline has passed.
TickDue(s) ==
    /\ pc = "tick" /\ EntryDue(s)
    /\ LET d == Ticked(conn[s])
       IN  /\ conn' = [conn EXCEPT ![s] = d.conn]
           /\ \E t \in Armed(Popped(Follow(timer[s], d)), d.conn) :
                 timer' = [timer EXCEPT ![s] = t] /\ Degrade(NotPushed(t, d.conn))
    /\ Wake(s) /\ UNCHANGED <<slots, taken, pc, routing>>

\* Work that a tick may fail at.
MayFail(s) ==
    TicksFail /\ conn[s].life \in {"open", "queued"} /\ conn[s].kind = "work" /\ conn[s].due

\* The tick returns an error: the entry is gone, the slot is not woken and the
\* rest of the heap waits for the next iteration.
TickFails(s) ==
    /\ pc = "tick" /\ EntryDue(s) /\ MayFail(s)
    /\ timer' = [timer EXCEPT ![s] = Popped(@)] /\ pc' = "take" /\ failed' = TRUE
    /\ UNCHANGED <<slots, conn, lists, timersDegraded, taken, routing>>

\* tickDue() after the heap could not grow: every slot is ticked, the heap is
\* emptied and every slot armed.
Sweep ==
    /\ pc = "sweep" /\ pc' = "take" /\ readyDegraded' = TRUE
    /\ LET d == [s \in slots |-> Ticked(conn[s])]
           left(s) == IF s \notin slots THEN {timer[s]}
                      ELSE Armed([Popped(Follow(timer[s], d[s])) EXCEPT !.stale = FALSE],
                                 d[s].conn)
       IN  /\ conn' = [s \in Slots |-> IF s \in slots THEN d[s].conn ELSE conn[s]]
           /\ timer' \in {f \in [Slots -> UNION {left(s) : s \in Slots}] :
                             \A s \in Slots : f[s] \in left(s)}
    /\ timersDegraded' = (\E s \in slots : NotPushed(timer'[s], conn'[s]))
    /\ UNCHANGED <<slots, ready, taken, routing, failed>>

\* The sweep's ticks stop at an error: the slots before it have been ticked.
SweepFails ==
    /\ pc = "sweep" /\ pc' = "take" /\ (\E s \in slots : MayFail(s)) /\ failed' = TRUE
    /\ \E before \in SUBSET slots :
          /\ \E s \in slots \ before : MayFail(s)
          /\ conn' = [s \in Slots |-> IF s \in before THEN Ticked(conn[s]).conn ELSE conn[s]]
          /\ timer' = [s \in Slots |-> IF s \in before THEN Follow(timer[s], Ticked(conn[s]))
                                       ELSE timer[s]]
          /\ ready' = ready \cup {s \in before : conn'[s] # conn[s]}
    /\ UNCHANGED <<slots, readyDegraded, timersDegraded, taken, routing>>

\* takeReady()
TakeReady ==
    /\ pc = "take" \/ (pc = "tick" /\ \A s \in slots : timer[s].entry = "now" => ~conn[s].due)
    /\ taken' = (IF readyDegraded THEN slots ELSE ready)
    /\ ready' = {} /\ readyDegraded' = FALSE /\ pc' = "drain"
    /\ UNCHANGED <<slots, conn, timer, timersDegraded, routing, failed>>

\* The slot's datagrams go out and slotDrained() arms its timer.
Drain(s) ==
    /\ pc = "drain" /\ s \in taken /\ taken' = taken \ {s}
    /\ IF conn[s].life = "closed" THEN UNCHANGED <<conn, timer, timersDegraded, failed>>
       ELSE \E d \in Sent(conn[s]) : \E t \in Armed(Follow(timer[s], d), d.conn) :
               /\ conn' = [conn EXCEPT ![s] = d.conn]
               /\ timer' = [timer EXCEPT ![s] = t] /\ Degrade(NotPushed(t, d.conn))
    /\ UNCHANGED <<slots, lists, pc, routing>>

\* Mutant of Forgotten: only the slot's current entry leaves the heap.
ForgottenCurrent(t) == [NoTimer EXCEPT !.stale = t.stale]

\* forgetSlot(), the timer heap's part.
Forgotten(t) == NoTimer

\* reap(), of one closed slot.
Reap(s) ==
    /\ pc = "drain" /\ taken = {} /\ s \in slots /\ conn[s].life = "closed"
    /\ slots' = slots \ {s} /\ conn' = [conn EXCEPT ![s] = NewConn]
    /\ timer' = [timer EXCEPT ![s] = Forgotten(@)] /\ ready' = ready \ {s}
    /\ owner' = (IF s \in tracked THEN owner \ {s} ELSE owner)
    /\ tracked' = tracked \ {s} /\ issued' = issued \ {s}
    /\ UNCHANGED <<readyDegraded, timersDegraded, taken, pc, failed>>

NextIteration ==
    /\ pc = "drain" /\ taken = {} /\ pc' = "feed"
    /\ UNCHANGED <<slots, conn, timer, lists, timersDegraded, taken, routing, failed>>

\* Time passes a connection's deadline.
Pass(s) ==
    /\ s \in slots /\ conn[s].life # "closed" /\ ~conn[s].due
    /\ conn' = [conn EXCEPT ![s].due = TRUE]
    /\ UNCHANGED <<slots, timer, lists, timersDegraded, taken, pc, routing, failed>>

Next ==
    \/ \E s \in Slots :
          \/ Accept(s) \/ Feed(s) \/ App(s) \/ TickDue(s) \/ TickFails(s)
          \/ Drain(s) \/ Reap(s) \/ Pass(s)
    \/ StartTicks \/ Sweep \/ SweepFails \/ TakeReady \/ NextIteration

Spec == Init /\ [][Next]_vars

-----------------------------------------------------------------------------
(* Properties.                                                             *)

\* Every field keeps its type, and no list holds the address of a slot that is
\* gone: not the ready list, not what takeReady() gave, not an entry of the
\* heap, however old its generation.
TypeOK ==
    /\ slots \subseteq Slots /\ ready \cup taken \subseteq slots
    /\ conn \in [Slots -> [life : Lives, cause : {"none", "local", "other"},
                           kind : {"work", "idle"}, due : BOOLEAN]]
    /\ timer \in [Slots -> [at : {"none", "old", "now"}, entry : {"none", "old", "now"},
                            stale : BOOLEAN]]
    /\ \A s \in Slots \ slots : timer[s] = NoTimer
    /\ readyDegraded \in BOOLEAN /\ timersDegraded \in BOOLEAN /\ failed \in BOOLEAN
    /\ pc \in {"feed", "tick", "sweep", "take", "drain"}

\* The table routes an id to a live slot that tracks it, and a slot that tracks
\* an id is the one it is routed to: neither a collision nor the reaping of
\* another slot takes it away.
RoutesAgree ==
    owner = tracked /\ tracked \subseteq slots \cap issued /\ Cardinality(owner) <= 1

\* While the heap grows and no tick fails, a connection that is not closed will
\* be looked at: the heap has an entry for the deadline it has now, or the loop
\* drains the slot before it waits again.
Attended ==
    failed \/ \A s \in slots :
        \/ conn[s].life = "closed" \/ timer[s].entry = "now"
        \/ s \in ready \cup taken \/ readyDegraded

Rank == [open |-> 0, queued |-> 1, closing |-> 2, repeat |-> 2, draining |-> 3, closed |-> 4]

\* A slot's connection goes through its lives in order, never back, and the
\* event it tells is the first one's, whatever closes it again meanwhile.
Forward ==
    [][\A s \in slots \cap slots' :
          /\ Rank[conn[s].life] <= Rank[conn'[s].life]
          /\ conn[s].life = "open" <=> conn[s].cause = "none"
          /\ conn[s].cause # "none" => conn'[s].cause = conn[s].cause]_vars

\* "Memory exhaustion on the lists degrades to the sweep (every slot is ready
\* once, every slot is ticked) and recovers by itself."
ListsRecover ==
    timersDegraded \/ \A s \in slots :
        \/ conn[s].life = "closed" \/ timer[s].entry = "now"
        \/ s \in ready \cup taken \/ readyDegraded
=============================================================================
