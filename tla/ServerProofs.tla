----------------------------- MODULE ServerProofs -----------------------------
(***************************************************************************)
(* Theorems about Server, for every set of slots, with ticks and lists that *)
(* fail or not: no list points at a slot that is gone, the routing table   *)
(* agrees with what slots track, no connection is lost sight of, and every *)
(* connection closes once and in order.                                    *)
(***************************************************************************)
EXTENDS Server, FiniteSetTheorems, TLAPS

Causes == {"none", "local", "other"}
Conn   == [life : Lives, cause : Causes, kind : {"work", "idle"}, due : BOOLEAN]
Marks  == {"none", "old", "now"}
Timer  == [at : Marks, entry : Marks, stale : BOOLEAN]

\* A connection that is open has told no cause, any other has; a closed one
\* has no deadline left to pass.
Sound(c) ==
    /\ c.life = "open" <=> c.cause = "none"
    /\ c.life = "closed" => ~c.due

\* What one step may make of connection c: another of its lives, in order,
\* with the cause it had.
Onward(c, d) ==
    /\ d \in Conn
    /\ Sound(c) => /\ Sound(d)
                   /\ Rank[c.life] <= Rank[d.life]
                   /\ c.cause # "none" => d.cause = c.cause

-----------------------------------------------------------------------------
(* Connections.                                                            *)

\* A cause is recorded once.
LEMMA CausedFacts ==
    ASSUME NEW c \in Conn, NEW cause \in Causes
    PROVE  /\ Caused(c, cause) \in Conn
           /\ Caused(c, cause).life = c.life /\ Caused(c, cause).kind = c.kind
           /\ Caused(c, cause).due = c.due
           /\ Caused(c, cause).cause = IF c.cause = "none" THEN cause ELSE c.cause
BY DEF Caused, Conn

\* A connection's fields.
LEMMA FieldFacts ==
    ASSUME NEW c \in Conn
    PROVE  /\ c.life \in Lives /\ c.cause \in Causes /\ c.kind \in {"work", "idle"}
           /\ c.due \in BOOLEAN
BY DEF Conn

\* One field of a connection is set; the others stay.
LEMMA LifeFacts ==
    ASSUME NEW c \in Conn, NEW life \in Lives
    PROVE  /\ [c EXCEPT !.life = life] \in Conn
           /\ [c EXCEPT !.life = life].life = life /\ [c EXCEPT !.life = life].cause = c.cause
           /\ [c EXCEPT !.life = life].kind = c.kind /\ [c EXCEPT !.life = life].due = c.due
BY DEF Conn

\* The kind of a connection's deadline is set; the other fields stay.
LEMMA KindFacts ==
    ASSUME NEW c \in Conn, NEW kind \in {"work", "idle"}
    PROVE  /\ [c EXCEPT !.kind = kind] \in Conn
           /\ [c EXCEPT !.kind = kind].life = c.life /\ [c EXCEPT !.kind = kind].cause = c.cause
           /\ [c EXCEPT !.kind = kind].kind = kind /\ [c EXCEPT !.kind = kind].due = c.due
BY DEF Conn

\* A connection's deadline passes or moves on; the other fields stay.
LEMMA DueFacts ==
    ASSUME NEW c \in Conn, NEW due \in BOOLEAN
    PROVE  /\ [c EXCEPT !.due = due] \in Conn
           /\ [c EXCEPT !.due = due].life = c.life /\ [c EXCEPT !.due = due].cause = c.cause
           /\ [c EXCEPT !.due = due].kind = c.kind /\ [c EXCEPT !.due = due].due = due
BY DEF Conn

\* A connection whose deadline moves, in a life or with a kind of its own.
LEMMA MovesFacts ==
    ASSUME NEW c \in Conn
    PROVE  /\ Moves(c).conn \in Conn /\ Moves(c).moved = TRUE
           /\ Moves(c).conn.life = c.life /\ Moves(c).conn.cause = c.cause
           /\ Moves(c).conn.kind = c.kind /\ Moves(c).conn.due = FALSE
<1> DEFINE e == [c EXCEPT !.due = FALSE]
<1>1. /\ e \in Conn /\ e.life = c.life /\ e.cause = c.cause
      /\ e.kind = c.kind /\ e.due = FALSE
  BY DueFacts
<1>2. Moves(c) = [conn |-> e, moved |-> TRUE]
  BY DEF Moves
<1> HIDE DEF e
<1> QED BY <1>1, <1>2

\* A connection that leaves for a life with one deadline.
LEMMA LeavesFacts ==
    ASSUME NEW c \in Conn, NEW life \in Lives
    PROVE  /\ Leaves(c, life) \in Conn
           /\ Leaves(c, life).life = life /\ Leaves(c, life).cause = c.cause
           /\ Leaves(c, life).due = c.due
<1> DEFINE l == [c EXCEPT !.life = life]
<1>1. l \in Conn /\ l.cause = c.cause /\ l.due = c.due /\ l.life = life
  BY LifeFacts
<1>2. Leaves(c, life) = [l EXCEPT !.kind = "idle"]
  BY DEF Leaves
<1> HIDE DEF l
<1> QED BY <1>1, <1>2, KindFacts

\* The lives in their order.
LEMMA RankFacts ==
    /\ \A l \in Lives : Rank[l] \in Nat /\ Rank[l] <= 4
    /\ Rank["open"] = 0 /\ Rank["queued"] = 1 /\ Rank["closing"] = 2
    /\ "closing" \in Lives /\ "repeat" \in Lives
    /\ Rank["repeat"] = 2 /\ Rank["draining"] = 3 /\ Rank["closed"] = 4
BY DEF Rank, Lives

\* close() goes forward.
LEMMA ClosedFacts ==
    ASSUME NEW c \in Conn
    PROVE  /\ Onward(c, Closed(c))
           /\ Closed(c).life = "closed" <=> c.life = "closed"
<1>1. Caused(c, "local") \in Conn
  BY CausedFacts DEF Causes
<1> QED BY <1>1, CausedFacts DEF Closed, Conn, Onward, Sound, Rank, Lives, Causes

\* A connection drains, from a life before that.
LEMMA DrainedFacts ==
    ASSUME NEW c \in Conn, c.life \in {"open", "queued", "closing", "repeat"}
    PROVE  Onward(c, Drained(c).conn) /\ Drained(c).moved = TRUE
<1> DEFINE e == Caused(c, "other")
           f == Leaves(e, "draining")
<1>1. e \in Conn /\ e.cause = (IF c.cause = "none" THEN "other" ELSE c.cause)
  BY CausedFacts DEF Causes
<1>2. f \in Conn /\ f.life = "draining" /\ f.cause = e.cause
  BY <1>1, LeavesFacts DEF Lives
<1>3. /\ Moves(f).conn \in Conn /\ Moves(f).moved = TRUE
      /\ Moves(f).conn.life = "draining" /\ Moves(f).conn.cause = e.cause
  BY <1>2, MovesFacts
<1>4. Drained(c) = Moves(f)
  BY DEF Drained
<1> HIDE DEF e, f
<1> QED BY <1>1, <1>3, <1>4, RankFacts DEF Onward, Sound

\* A connection whose deadline moves on stays in its life.
LEMMA WorksFacts ==
    ASSUME NEW c \in Conn, NEW d \in Works(c)
    PROVE  Onward(c, d.conn) /\ d.moved \in BOOLEAN
<1>1. PICK k \in {"work", "idle"} : d = Moves([c EXCEPT !.kind = k])
  BY DEF Works
<1> DEFINE e == [c EXCEPT !.kind = k]
<1>2. e \in Conn /\ e.life = c.life /\ e.cause = c.cause
  BY KindFacts
<1>3. Moves(e).conn \in Conn /\ Moves(e).moved = TRUE /\ Moves(e).conn.life = c.life
      /\ Moves(e).conn.cause = c.cause /\ Moves(e).conn.due = FALSE
  BY <1>2, MovesFacts
<1>4. Rank[c.life] <= Rank[c.life]
  BY FieldFacts, RankFacts
<1> HIDE DEF e
<1> QED BY <1>1, <1>3, <1>4 DEF Onward, Sound, e

\* One that stays as it is.
LEMMA StaysFacts ==
    ASSUME NEW c \in Conn
    PROVE  Stays(c).conn = c /\ Stays(c).moved = FALSE /\ Onward(c, c)
BY FieldFacts, RankFacts DEF Stays, Onward

\* One that goes to another life, its deadline staying.
LEMMA TurnsFacts ==
    ASSUME NEW c \in Conn, NEW life \in Lives, c.life # "open", life \notin {"open", "closed"},
           Rank[c.life] <= Rank[life]
    PROVE  /\ Onward(c, Stays([c EXCEPT !.life = life]).conn)
           /\ Stays([c EXCEPT !.life = life]).moved \in BOOLEAN
<1> DEFINE e == [c EXCEPT !.life = life]
<1>1. e \in Conn /\ e.life = life /\ e.cause = c.cause
  BY LifeFacts
<1>2. Stays(e).conn = e /\ Stays(e).moved = FALSE
  BY <1>1, StaysFacts
<1> HIDE DEF e
<1>3. Onward(c, Stays(e).conn) /\ Stays(e).moved \in BOOLEAN
  BY <1>1, <1>2 DEF Onward, Sound
<1> QED BY <1>3 DEF e

\* A datagram takes a connection forward.
LEMMA HandledFacts ==
    ASSUME NEW c \in Conn, NEW d \in Handled(c)
    PROVE  Onward(c, d.conn) /\ d.moved \in BOOLEAN
<1>2. d = Stays(c) => Onward(c, d.conn) /\ d.moved \in BOOLEAN
  BY StaysFacts
<1>3. d = Stays(Closed(c)) => Onward(c, d.conn) /\ d.moved \in BOOLEAN
  <2>1. Closed(c) \in Conn /\ Onward(c, Closed(c))
    BY ClosedFacts DEF Onward
  <2> QED BY <2>1, StaysFacts
<1>4. c.life \in {"open", "closing"} /\ d = Drained(c) => Onward(c, d.conn) /\ d.moved \in BOOLEAN
  BY DrainedFacts
<1>5. d \in Works(c) => Onward(c, d.conn) /\ d.moved \in BOOLEAN
  BY WorksFacts
<1>6. c.life = "closing" /\ d = Stays([c EXCEPT !.life = "repeat"])
         => Onward(c, d.conn) /\ d.moved \in BOOLEAN
  BY TurnsFacts, RankFacts
<1> QED BY <1>2, <1>3, <1>4, <1>5, <1>6 DEF Handled

\* What leaves takes a connection forward.
LEMMA SentFacts ==
    ASSUME NEW c \in Conn, NEW d \in Sent(c)
    PROVE  Onward(c, d.conn) /\ d.moved \in BOOLEAN
<1>1. d = Stays(c) => Onward(c, d.conn) /\ d.moved \in BOOLEAN
  BY StaysFacts
<1>2. d \in Works(c) => Onward(c, d.conn) /\ d.moved \in BOOLEAN
  BY WorksFacts
<1>3. c.life = "queued" /\ d = Moves(Leaves(c, "closing")) => Onward(c, d.conn) /\ d.moved \in BOOLEAN
  <2> DEFINE e == Leaves(c, "closing")
  <2>1. e \in Conn /\ e.life = "closing" /\ e.cause = c.cause
    BY LeavesFacts DEF Lives
  <2>2. /\ Moves(e).conn \in Conn /\ Moves(e).moved = TRUE
        /\ Moves(e).conn.life = "closing" /\ Moves(e).conn.cause = c.cause
    BY <2>1, MovesFacts
  <2> HIDE DEF e
  <2>3. c.life = "queued" => Onward(c, Moves(e).conn)
    BY <2>2, RankFacts DEF Onward, Sound
  <2> QED BY <2>2, <2>3 DEF e
<1>4. c.life = "repeat" /\ d = Stays([c EXCEPT !.life = "closing"])
         => Onward(c, d.conn) /\ d.moved \in BOOLEAN
  BY TurnsFacts, RankFacts
<1> QED BY <1>1, <1>2, <1>3, <1>4 DEF Sent

\* The clock takes a connection forward, and a deadline that passed moves.
LEMMA TickedFacts ==
    ASSUME NEW c \in Conn
    PROVE  /\ Sound(c) => Onward(c, Ticked(c).conn)
           /\ Ticked(c).conn \in Conn
           /\ Ticked(c).moved \in BOOLEAN
           /\ c.due => Ticked(c).moved
<1>0. c.due \in BOOLEAN /\ c.life \in Lives /\ c.kind \in {"work", "idle"}
  BY FieldFacts
<1>1. CASE ~c.due
  <2>1. Ticked(c) = Stays(c)
    BY <1>1 DEF Ticked
  <2> QED BY <1>1, <2>1, StaysFacts
<1>2. CASE c.due /\ c.life \in {"closing", "repeat", "draining"}
  <2> DEFINE e == Leaves(c, "closed")
  <2>1. Ticked(c) = Moves(e)
    BY <1>2 DEF Ticked
  <2>2. e \in Conn /\ e.life = "closed" /\ e.cause = c.cause
    BY LeavesFacts DEF Lives
  <2>3. /\ Moves(e).conn \in Conn /\ Moves(e).moved = TRUE /\ Moves(e).conn.due = FALSE
        /\ Moves(e).conn.life = "closed" /\ Moves(e).conn.cause = c.cause
    BY <2>2, MovesFacts
  <2> HIDE DEF e
  <2>4. Rank[c.life] <= 4
    BY <1>0, RankFacts
  <2> QED BY <1>2, <2>1, <2>3, <2>4, RankFacts DEF Onward, Sound
<1>3. CASE c.due /\ c.life \notin {"closing", "repeat", "draining"} /\ c.kind = "work"
  <2>1. Ticked(c) \in Works(c)
    BY <1>3 DEF Ticked, Works
  <2>2. Ticked(c).moved = TRUE
    BY <1>3 DEF Ticked, Moves
  <2> QED BY <2>1, <2>2, WorksFacts DEF Onward
<1>4. CASE c.due /\ c.life \notin {"closing", "repeat", "draining"} /\ c.kind # "work"
  <2>1. Ticked(c) = Drained(c)
    BY <1>4 DEF Ticked
  <2>2. Drained(c).conn \in Conn /\ Drained(c).moved = TRUE
    BY MovesFacts, LeavesFacts, CausedFacts DEF Drained, Lives, Causes
  <2>3. Sound(c) => c.life \in {"open", "queued", "closing", "repeat"}
    BY <1>0, <1>4 DEF Sound, Lives
  <2> QED BY <2>1, <2>2, <2>3, DrainedFacts
<1> QED BY <1>0, <1>1, <1>2, <1>3, <1>4

-----------------------------------------------------------------------------
(* Timers.                                                                 *)

\* One field of a timer is set; the others stay.
LEMMA MarkFacts ==
    ASSUME NEW t \in Timer, NEW x \in Marks
    PROVE  /\ [t EXCEPT !.at = x] \in Timer /\ [t EXCEPT !.at = x].at = x
           /\ [t EXCEPT !.at = x].entry = t.entry
           /\ [t EXCEPT !.entry = x] \in Timer /\ [t EXCEPT !.entry = x].entry = x
           /\ [t EXCEPT !.entry = x].at = t.at
           /\ t.at \in Marks /\ t.entry \in Marks
BY DEF Timer

\* A deadline that moves leaves the timer behind, entry and belief alike.
LEMMA FollowFacts ==
    ASSUME NEW t \in Timer, NEW d, d.moved \in BOOLEAN
    PROVE  /\ Follow(t, d) \in Timer
           /\ d.moved => Follow(t, d).at # "now"
           /\ ~d.moved => Follow(t, d) = t
           /\ t.at = t.entry => Follow(t, d).at = Follow(t, d).entry
<1>1. CASE ~d.moved
  BY <1>1 DEF Follow
<1>2. CASE d.moved
  <2> DEFINE x == IF t.at = "now" THEN "old" ELSE t.at
             y == IF t.entry = "now" THEN "old" ELSE t.entry
             u == [t EXCEPT !.at = x]
  <2>1. x \in Marks /\ y \in Marks /\ x # "now"
    BY MarkFacts DEF Marks
  <2>2. u \in Timer /\ u.at = x /\ u.entry = t.entry
    BY <2>1, MarkFacts
  <2>3. Follow(t, d) = [u EXCEPT !.entry = y]
    BY <1>2, <2>2 DEF Follow
  <2>4. /\ [u EXCEPT !.entry = y] \in Timer /\ [u EXCEPT !.entry = y].entry = y
        /\ [u EXCEPT !.entry = y].at = x
    <3> HIDE DEF u, x, y
    <3> QED BY <2>1, <2>2, MarkFacts
  <2> QED BY <1>2, <2>1, <2>3, <2>4
<1> QED BY <1>1, <1>2

\* A retired timer has no entry.
LEMMA RetiredFacts ==
    ASSUME NEW t \in Timer
    PROVE  Retired(t) \in Timer /\ Retired(t).at = "none" /\ Retired(t).entry = "none"
BY DEF Retired, Timer, Marks

\* armTimerAfter(): a slot that does not believe in an entry it has not gets
\* one for its deadline, unless the heap is refused.
LEMMA ArmedFacts ==
    ASSUME NEW t \in Timer, NEW c \in Conn, NEW u \in Armed(t, c)
    PROVE  /\ u \in Timer
           /\ (t.at = "now" => t.entry = "now") => u.at = u.entry
           /\ (t.at = "now" => t.entry = "now") /\ c.life # "closed" /\ ~NotPushed(u, c)
                 => u.entry = "now"
<1>1. CASE u = Retired(t)
  BY <1>1, RetiredFacts DEF Armed, NotPushed, IsSet
<1>2. CASE u = t /\ t.at = "now"
  BY <1>2
<1>3. CASE u = [Retired(t) EXCEPT !.at = "now", !.entry = "now"]
  <2> DEFINE r == Retired(t)
             v == [r EXCEPT !.at = "now"]
  <2>1. r \in Timer /\ "now" \in Marks
    BY RetiredFacts DEF Marks
  <2>2. v \in Timer /\ v.at = "now"
    BY <2>1, MarkFacts
  <2>3. u = [v EXCEPT !.entry = "now"]
    BY <1>3
  <2>4. u \in Timer /\ u.entry = "now" /\ u.at = "now"
    <3> HIDE DEF v
    <3> QED BY <2>1, <2>2, <2>3, MarkFacts
  <2> QED BY <2>4
<1> QED BY <1>1, <1>2, <1>3 DEF Armed, IsSet

\* An entry that was taken out is one the slot no longer has.
LEMMA PoppedFacts ==
    ASSUME NEW t \in Timer
    PROVE  Popped(t) \in Timer /\ Popped(t).at = t.at /\ Popped(t).entry = "none"
BY MarkFacts DEF Popped, Marks

-----------------------------------------------------------------------------
(* The inductive invariant.                                                *)

\* RoutesAgree, with "at most one" said without counting.
RouteInv ==
    /\ owner = tracked /\ tracked \subseteq slots \cap issued
    /\ \A x, y \in owner : x = y

\* What a slot believes of its timer is what the heap holds, unless something
\* failed; and only a failure makes the loop sweep.
BeliefInv ==
    /\ timersDegraded \/ pc = "sweep" => failed
    /\ failed \/ \A s \in Slots : timer[s].at = timer[s].entry

SoundInv == \A s \in slots : Sound(conn[s])

\* takeReady() comes when what it gave before has been drained.
LoopInv == pc # "drain" => taken = {}

SInv == TypeOK /\ RouteInv /\ BeliefInv /\ Attended /\ SoundInv /\ LoopInv

\* What Forward says of one step.
ForwardStep ==
    \A s \in slots \cap slots' :
        /\ Rank[conn[s].life] <= Rank[conn'[s].life]
        /\ conn[s].life = "open" <=> conn[s].cause = "none"
        /\ conn[s].cause # "none" => conn'[s].cause = conn[s].cause

\* The types of what the steps touch.
LEMMA Types ==
    ASSUME TypeOK
    PROVE  /\ slots \subseteq Slots /\ ready \subseteq slots /\ taken \subseteq slots
           /\ conn \in [Slots -> Conn] /\ timer \in [Slots -> Timer]
           /\ \A s \in Slots \ slots : timer[s] = NoTimer
           /\ readyDegraded \in BOOLEAN /\ timersDegraded \in BOOLEAN /\ failed \in BOOLEAN
BY DEF TypeOK, Conn, Timer, Causes, Marks

\* Types, from the parts.
LEMMA TypesNext ==
    ASSUME slots' \subseteq Slots, ready' \subseteq slots', taken' \subseteq slots',
           conn' \in [Slots -> Conn], timer' \in [Slots -> Timer],
           \A s \in Slots \ slots' : timer'[s] = NoTimer,
           readyDegraded' \in BOOLEAN, timersDegraded' \in BOOLEAN, failed' \in BOOLEAN,
           pc' \in {"feed", "tick", "sweep", "take", "drain"}
    PROVE  TypeOK'
BY DEF TypeOK, Conn, Timer, Causes, Marks

\* wakeSlot(): the slot is ready, or every slot is.
LEMMA WakeFacts ==
    ASSUME TypeOK, NEW s \in Slots, Wake(s)
    PROVE  /\ ready \subseteq ready' /\ ready' \subseteq ready \cup {s}
           /\ readyDegraded' \in BOOLEAN /\ (readyDegraded => readyDegraded')
           /\ s \in ready' \/ readyDegraded'
<1>1. readyDegraded \in BOOLEAN
  BY DEF TypeOK
<1>2. CASE /\ ready' = ready \cup {s}
           /\ readyDegraded' \in {readyDegraded, readyDegraded \/ (ListsFail /\ s \notin ready)}
  BY <1>1, <1>2
<1>3. CASE readyDegraded' = TRUE /\ ready' = ready
  BY <1>3
<1> QED BY <1>2, <1>3 DEF Wake

\* A step that makes d of the connection of slot s keeps what is known of it.
LEMMA Forwards ==
    ASSUME SInv, NEW s \in Slots, NEW d \in Conn,
           conn' = [conn EXCEPT ![s] = d],
           s \in slots => Onward(conn[s], d),
           s \notin slots => Sound(d) \/ s \notin slots',
           slots' \subseteq slots \cup {s}
    PROVE  conn' \in [Slots -> Conn] /\ SoundInv' /\ ForwardStep
<1>1. conn \in [Slots -> Conn] /\ slots \subseteq Slots
  BY Types DEF SInv
<1>2. /\ conn' \in [Slots -> Conn] /\ conn'[s] = d
      /\ \A r \in Slots : r # s => conn'[r] = conn[r]
  BY <1>1
<1>3. \A r \in slots : Sound(conn[r])
  BY DEF SInv, SoundInv
<1>4. SoundInv'
  BY <1>1, <1>2, <1>3 DEF SoundInv, Onward
<1>5. ForwardStep
  <2> SUFFICES ASSUME NEW r \in slots \cap slots'
               PROVE  /\ Rank[conn[r].life] <= Rank[conn'[r].life]
                      /\ conn[r].life = "open" <=> conn[r].cause = "none"
                      /\ conn[r].cause # "none" => conn'[r].cause = conn[r].cause
    BY DEF ForwardStep
  <2>1. Sound(conn[r]) /\ conn[r] \in Conn
    BY <1>1, <1>3
  <2>2. Onward(conn[r], conn[r])
    BY <2>1, StaysFacts
  <2> QED BY <1>1, <1>2, <2>1, <2>2 DEF Onward, Sound
<1> QED BY <1>2, <1>4, <1>5

\* A step that leaves every connection alone.
LEMMA Unmoved ==
    ASSUME SInv, UNCHANGED conn, slots' \subseteq slots
    PROVE  conn' \in [Slots -> Conn] /\ SoundInv' /\ ForwardStep
<1>1. conn \in [Slots -> Conn] /\ slots \subseteq Slots
  BY Types DEF SInv
<1>2. \A r \in slots : Sound(conn[r]) /\ Onward(conn[r], conn[r])
  BY <1>1, StaysFacts DEF SInv, SoundInv
<1> QED BY <1>1, <1>2 DEF SoundInv, ForwardStep, Onward, Sound

\* A step of slot s that sets its timer to u and may wake it: the two parts
\* about timers, from what is known of u.
LEMMA Timers ==
    ASSUME SInv, NEW s \in Slots, NEW u \in Timer,
           timer' = [timer EXCEPT ![s] = u],
           slots' \subseteq slots \cup {s},
           s \in slots \/ s \in slots',
           failed => failed', failed' \in BOOLEAN,
           failed' \/ u.at = u.entry,
           (timersDegraded' \/ pc' = "sweep") => failed',
           \A r \in slots : r # s => conn'[r] = conn[r],
           ready \subseteq ready', taken \subseteq taken' \cup {s}, readyDegraded => readyDegraded',
           s \in slots' => \/ failed' \/ conn'[s].life = "closed" \/ u.entry = "now"
                           \/ s \in ready' \/ readyDegraded',
           s \notin slots' => u = NoTimer
    PROVE  /\ timer' \in [Slots -> Timer] /\ BeliefInv' /\ Attended'
           /\ \A r \in Slots \ slots' : r \notin slots \/ r = s => timer'[r] = NoTimer
<1>1. /\ timer \in [Slots -> Timer] /\ slots \subseteq Slots
      /\ \A r \in Slots \ slots : timer[r] = NoTimer
  BY Types DEF SInv
<1>2. /\ timer' \in [Slots -> Timer] /\ timer'[s] = u
      /\ \A r \in Slots : r # s => timer'[r] = timer[r]
  BY <1>1
<1>3. BeliefInv'
  BY <1>1, <1>2 DEF SInv, BeliefInv
<1>4. Attended'
  <2> SUFFICES ASSUME ~failed', NEW r \in slots', r # s
               PROVE  \/ conn'[r].life = "closed" \/ timer'[r].entry = "now"
                      \/ r \in ready' \cup taken' \/ readyDegraded'
    BY <1>2 DEF Attended
  <2>1. r \in slots /\ ~failed
    OBVIOUS
  <2>2. \/ conn[r].life = "closed" \/ timer[r].entry = "now"
        \/ r \in ready \cup taken \/ readyDegraded
    BY <2>1 DEF SInv, Attended
  <2> QED BY <1>1, <1>2, <2>1, <2>2
<1> QED BY <1>1, <1>2, <1>3, <1>4

\* What Degrade does to the two flags.
LEMMA DegradeFacts ==
    ASSUME TypeOK, NEW refused \in BOOLEAN, Degrade(refused)
    PROVE  /\ timersDegraded' \in BOOLEAN /\ failed' \in BOOLEAN
           /\ (failed => failed') /\ (refused => failed')
           /\ timersDegraded' => timersDegraded \/ failed'
<1>1. timersDegraded \in BOOLEAN /\ failed \in BOOLEAN
  BY DEF TypeOK
<1> QED BY <1>1 DEF Degrade

\* Routing of the contested id.
LEMMA RoutesStep ==
    ASSUME SInv, NEW s \in slots', NEW has, issued \ {s} \subseteq has,
           has \subseteq issued', slots \subseteq slots', Resync(s, has)
    PROVE  RouteInv'
<1> USE DEF SInv, RouteInv
<1>1. CASE s \in tracked /\ s \notin has
  <2>1. owner' = {} /\ tracked' = tracked \ {s}
    BY <1>1 DEF Resync
  <2> QED BY <1>1, <2>1
<1>2. CASE s \in has \ tracked /\ owner \subseteq {s}
  <2>1. owner' = {s} /\ tracked' = tracked \cup {s}
    BY <1>2 DEF Resync, Claimed
  <2> QED BY <1>2, <2>1
<1>3. CASE UNCHANGED <<owner, tracked>> /\ (s \in tracked => s \in has)
  BY <1>3
<1> QED BY <1>1, <1>2, <1>3 DEF Resync, Claimed

\* A slot is born: openSlotFromInitial().
LEMMA StepAccept ==
    ASSUME SInv, NEW s \in Slots, Accept(s)
    PROVE  SInv' /\ ForwardStep
<1> USE DEF SInv
<1>0. /\ pc = "feed" /\ pc' = pc /\ s \notin slots /\ slots' = slots \cup {s}
      /\ taken' = taken /\ Wake(s) /\ NewConn \in Conn /\ Sound(NewConn)
  BY DEF Accept, NewConn, Conn, Lives, Causes, Sound
<1>1. PICK d \in Handled(NewConn), t \in Armed(timer[s], NewConn) :
          /\ conn' = [conn EXCEPT ![s] = d.conn]
          /\ timer' = [timer EXCEPT ![s] = Follow(t, d)]
          /\ Degrade(NotPushed(t, NewConn))
  BY DEF Accept
<1>2. Onward(NewConn, d.conn) /\ d.moved \in BOOLEAN
  BY <1>0, <1>1, HandledFacts
<1>3. timer[s] = NoTimer /\ timer[s] \in Timer
  BY <1>0, Types
<1>4. t \in Timer /\ t.at = t.entry
  BY <1>0, <1>1, <1>3, ArmedFacts DEF NoTimer
<1>5. Follow(t, d) \in Timer /\ Follow(t, d).at = Follow(t, d).entry
  BY <1>2, <1>4, FollowFacts
<1>6. NotPushed(t, NewConn) \in BOOLEAN
  BY DEF NotPushed
<1>7. /\ timersDegraded' \in BOOLEAN /\ failed' \in BOOLEAN /\ (failed => failed')
      /\ timersDegraded' => timersDegraded \/ failed'
  BY <1>1, <1>6, DegradeFacts
<1>8. /\ ready \subseteq ready' /\ ready' \subseteq ready \cup {s}
      /\ readyDegraded' \in BOOLEAN /\ (readyDegraded => readyDegraded')
      /\ s \in ready' \/ readyDegraded'
  BY <1>0, WakeFacts
<1>9. conn' \in [Slots -> Conn] /\ SoundInv' /\ ForwardStep
  BY <1>0, <1>1, <1>2, Forwards DEF Onward
<1>10. \A r \in slots : r # s => conn'[r] = conn[r]
  BY <1>1, Types
<1>11. /\ timer' \in [Slots -> Timer] /\ BeliefInv' /\ Attended'
       /\ \A r \in Slots \ slots' : r \notin slots \/ r = s => timer'[r] = NoTimer
  BY <1>0, <1>1, <1>5, <1>7, <1>8, <1>10, Timers DEF BeliefInv
<1>12. TypeOK'
  BY <1>0, <1>7, <1>8, <1>9, <1>11, Types, TypesNext
<1>13. RouteInv'
  <2>1. PICK has \in {issued, issued \cup {s}} : issued' = has /\ Resync(s, has)
    BY DEF Accept
  <2> QED BY <1>0, <2>1, RoutesStep
<1> QED BY <1>0, <1>9, <1>11, <1>12, <1>13 DEF LoopInv

\* A datagram for a slot: feed().
LEMMA StepFeed ==
    ASSUME SInv, NEW s \in Slots, Feed(s)
    PROVE  SInv' /\ ForwardStep
<1> USE DEF SInv
<1>0. /\ pc = "feed" /\ pc' = pc /\ s \in slots /\ slots' = slots /\ taken' = taken /\ Wake(s)
      /\ timersDegraded' = timersDegraded /\ failed' = failed
  BY DEF Feed
<1>1. PICK d \in Handled(conn[s]) : /\ conn' = [conn EXCEPT ![s] = d.conn]
                                   /\ timer' = [timer EXCEPT ![s] = Follow(@, d)]
  BY DEF Feed
<1>2. conn[s] \in Conn /\ timer[s] \in Timer /\ conn \in [Slots -> Conn]
  BY <1>0, Types
<1>3. Onward(conn[s], d.conn) /\ d.moved \in BOOLEAN
  BY <1>1, <1>2, HandledFacts
<1>4. Follow(timer[s], d) \in Timer
      /\ (timer[s].at = timer[s].entry => Follow(timer[s], d).at = Follow(timer[s], d).entry)
  BY <1>2, <1>3, FollowFacts
<1>5. /\ ready \subseteq ready' /\ ready' \subseteq ready \cup {s}
      /\ readyDegraded' \in BOOLEAN /\ (readyDegraded => readyDegraded')
      /\ s \in ready' \/ readyDegraded'
  BY <1>0, WakeFacts
<1>6. conn' \in [Slots -> Conn] /\ SoundInv' /\ ForwardStep
  BY <1>0, <1>1, <1>3, Forwards DEF Onward
<1>7. \A r \in slots : r # s => conn'[r] = conn[r]
  BY <1>1, <1>2, Types
<1>8. /\ timer' \in [Slots -> Timer] /\ BeliefInv' /\ Attended'
      /\ \A r \in Slots \ slots' : r \notin slots \/ r = s => timer'[r] = NoTimer
  <2>1. failed' \/ Follow(timer[s], d).at = Follow(timer[s], d).entry
    BY <1>0, <1>4 DEF BeliefInv
  <2>2. failed' \in BOOLEAN /\ (timersDegraded' \/ pc' = "sweep" => failed')
    BY <1>0, Types DEF BeliefInv
  <2> QED BY <1>0, <1>1, <1>4, <1>5, <1>7, <2>1, <2>2, Timers
<1>9. TypeOK'
  BY <1>0, <1>5, <1>6, <1>8, Types, TypesNext
<1>10. RouteInv'
  <2>1. PICK has \in {issued} \cup (IF conn[s].life = "open" THEN {issued \ {s}} ELSE {}) :
           /\ Resync(s, has)
           /\ issued' \in {has} \cup (IF conn'[s].life = "open" THEN {has \cup {s}} ELSE {})
    BY DEF Feed
  <2>2. issued \ {s} \subseteq has /\ has \subseteq issued'
    BY <2>1
  <2> QED BY <1>0, <2>1, <2>2, RoutesStep
<1> QED BY <1>0, <1>6, <1>8, <1>9, <1>10 DEF LoopInv

\* A step that wakes a slot and leaves the timers alone.
LEMMA Woken ==
    ASSUME SInv, NEW s \in slots, Wake(s), slots' = slots, taken' = taken, pc' = pc,
           UNCHANGED <<timer, timersDegraded, failed>>,
           \A r \in slots : r # s => conn'[r] = conn[r]
    PROVE  /\ timer' \in [Slots -> Timer] /\ BeliefInv' /\ Attended' /\ LoopInv'
           /\ ready' \subseteq slots' /\ readyDegraded' \in BOOLEAN
<1> USE DEF SInv
<1>1. /\ ready \subseteq ready' /\ ready' \subseteq ready \cup {s}
      /\ readyDegraded' \in BOOLEAN /\ (readyDegraded => readyDegraded')
      /\ s \in ready' \/ readyDegraded'
  BY Types, WakeFacts
<1>2. Attended'
  BY <1>1 DEF Attended
<1> QED BY <1>1, <1>2, Types DEF BeliefInv, LoopInv

\* The application's step on a slot.
LEMMA StepApp ==
    ASSUME SInv, NEW s \in Slots, App(s)
    PROVE  SInv' /\ ForwardStep
<1> USE DEF SInv
<1>0. /\ pc = "feed" /\ pc' = pc /\ s \in slots /\ slots' = slots /\ taken' = taken /\ Wake(s)
      /\ UNCHANGED <<timer, timersDegraded, tracked, owner, failed>> /\ issued \subseteq issued'
  BY DEF App
<1>1. conn[s] \in Conn /\ conn \in [Slots -> Conn]
  BY <1>0, Types
<1>2. conn' \in [Slots -> Conn] /\ SoundInv' /\ ForwardStep
  <2>1. CASE conn' = [conn EXCEPT ![s] = Closed(conn[s])]
    <3>1. Onward(conn[s], Closed(conn[s]))
      BY <1>1, ClosedFacts
    <3> QED BY <1>0, <2>1, <3>1, Forwards DEF Onward
  <2>2. CASE UNCHANGED conn
    BY <1>0, <2>2, Unmoved
  <2> QED BY <2>1, <2>2 DEF App
<1>3. \A r \in slots : r # s => conn'[r] = conn[r]
  BY <1>1, Types DEF App
<1>4. /\ timer' \in [Slots -> Timer] /\ BeliefInv' /\ Attended' /\ LoopInv'
      /\ ready' \subseteq slots' /\ readyDegraded' \in BOOLEAN
  BY <1>0, <1>3, Woken
<1>5. TypeOK'
  BY <1>0, <1>2, <1>4, Types, TypesNext
<1>6. RouteInv'
  BY <1>0 DEF RouteInv
<1> QED BY <1>2, <1>4, <1>5, <1>6

\* A slot of which the heap has a current entry is live.
LEMMA DueIsLive ==
    ASSUME SInv, NEW s \in Slots, EntryDue(s)
    PROVE  s \in slots
BY Types DEF SInv, EntryDue, NoTimer

\* An entry of the heap is due: tickDue() ticks the slot and arms it again.
LEMMA StepTickDue ==
    ASSUME SInv, NEW s \in Slots, TickDue(s)
    PROVE  SInv' /\ ForwardStep
<1> USE DEF SInv
<1> DEFINE d == Ticked(conn[s])
           f == Follow(timer[s], d)
           p == Popped(f)
<1>0. /\ pc = "tick" /\ pc' = pc /\ s \in slots /\ slots' = slots /\ taken' = taken /\ Wake(s)
      /\ UNCHANGED routing /\ EntryDue(s)
  BY DueIsLive DEF TickDue
<1>1. conn' = [conn EXCEPT ![s] = d.conn]
  BY DEF TickDue
<1>2. PICK t \in Armed(p, d.conn) :
          timer' = [timer EXCEPT ![s] = t] /\ Degrade(NotPushed(t, d.conn))
  BY DEF TickDue
<1>3. conn[s] \in Conn /\ timer[s] \in Timer /\ conn \in [Slots -> Conn] /\ Sound(conn[s])
  BY <1>0, Types DEF SoundInv
<1>4. /\ Onward(conn[s], d.conn) /\ d.conn \in Conn /\ d.moved \in BOOLEAN
      /\ conn[s].due => d.moved
  BY <1>3, TickedFacts
<1> HIDE DEF d
<1>5. /\ f \in Timer /\ (d.moved => f.at # "now") /\ (~d.moved => f = timer[s])
  BY <1>3, <1>4, FollowFacts
<1>6. p \in Timer /\ p.at = f.at /\ p.entry = "none"
  BY <1>5, PoppedFacts
<1>7. failed \/ p.at # "now"
  <2>1. failed \/ timer[s].at = timer[s].entry
    BY DEF BeliefInv
  <2> QED BY <1>0, <1>4, <1>5, <1>6, <2>1 DEF EntryDue
<1> HIDE DEF f, p
<1>8. /\ t \in Timer /\ (failed \/ t.at = t.entry)
      /\ failed \/ d.conn.life = "closed" \/ NotPushed(t, d.conn) \/ t.entry = "now"
  BY <1>2, <1>4, <1>6, <1>7, ArmedFacts
<1>9. NotPushed(t, d.conn) \in BOOLEAN
  BY DEF NotPushed
<1>10. /\ timersDegraded' \in BOOLEAN /\ failed' \in BOOLEAN
       /\ (failed => failed') /\ (NotPushed(t, d.conn) => failed')
       /\ timersDegraded' => timersDegraded \/ failed'
  BY <1>2, <1>9, DegradeFacts
<1>11. /\ ready \subseteq ready' /\ ready' \subseteq ready \cup {s}
       /\ readyDegraded' \in BOOLEAN /\ (readyDegraded => readyDegraded')
       /\ s \in ready' \/ readyDegraded'
  BY <1>0, WakeFacts
<1>12. conn' \in [Slots -> Conn] /\ SoundInv' /\ ForwardStep
  BY <1>0, <1>1, <1>4, Forwards
<1>13. \A r \in slots : r # s => conn'[r] = conn[r]
  BY <1>1, <1>3, Types
<1>14. /\ timer' \in [Slots -> Timer] /\ BeliefInv' /\ Attended'
       /\ \A r \in Slots \ slots' : r \notin slots \/ r = s => timer'[r] = NoTimer
  <2>1. failed' \/ t.at = t.entry
    BY <1>8, <1>10
  <2>2. (timersDegraded' \/ pc' = "sweep") => failed'
    BY <1>0, <1>10 DEF BeliefInv
  <2> QED BY <1>0, <1>2, <1>8, <1>10, <1>11, <1>13, <2>1, <2>2, Timers
<1>15. TypeOK'
  BY <1>0, <1>10, <1>11, <1>12, <1>14, Types, TypesNext
<1>16. RouteInv'
  BY <1>0 DEF RouteInv, routing
<1> QED BY <1>0, <1>12, <1>14, <1>15, <1>16 DEF LoopInv

\* A tick fails: the entry is gone, and the slot with it from every list.
LEMMA StepTickFails ==
    ASSUME SInv, NEW s \in Slots, TickFails(s)
    PROVE  SInv' /\ ForwardStep
<1> USE DEF SInv
<1>0. /\ pc = "tick" /\ pc' = "take" /\ s \in slots /\ failed' = TRUE
      /\ UNCHANGED <<slots, conn, lists, timersDegraded, taken, routing>>
      /\ timer' = [timer EXCEPT ![s] = Popped(timer[s])]
  BY DueIsLive DEF TickFails
<1>1. timer \in [Slots -> Timer] /\ Popped(timer[s]) \in Timer
  BY Types, PoppedFacts
<1>2. timer' \in [Slots -> Timer] /\ (\A r \in Slots : r # s => timer'[r] = timer[r])
  BY <1>0, <1>1
<1>3. conn' \in [Slots -> Conn] /\ SoundInv' /\ ForwardStep
  BY <1>0, Unmoved
<1>4. TypeOK'
  BY <1>0, <1>2, <1>3, Types, TypesNext DEF lists
<1>5. RouteInv' /\ BeliefInv' /\ Attended' /\ LoopInv'
  BY <1>0 DEF RouteInv, routing, BeliefInv, Attended, LoopInv
<1> QED BY <1>3, <1>4, <1>5

\* A slot's datagrams go out: slotDrained() arms its timer.
LEMMA StepDrain ==
    ASSUME SInv, NEW s \in Slots, Drain(s)
    PROVE  SInv' /\ ForwardStep
<1> USE DEF SInv
<1>0. /\ pc = "drain" /\ pc' = pc /\ s \in slots /\ slots' = slots
      /\ taken' = taken \ {s} /\ UNCHANGED <<lists, routing>>
  BY Types DEF Drain
<1>1. CASE conn[s].life = "closed"
  <2>1. UNCHANGED <<conn, timer, timersDegraded, failed>>
    BY <1>1 DEF Drain
  <2>2. conn' \in [Slots -> Conn] /\ SoundInv' /\ ForwardStep
    BY <1>0, <2>1, Unmoved
  <2>3. TypeOK'
    BY <1>0, <2>1, <2>2, Types, TypesNext DEF lists, TypeOK
  <2>4. RouteInv' /\ BeliefInv' /\ LoopInv'
    BY <1>0, <2>1 DEF RouteInv, routing, BeliefInv, LoopInv
  <2>5. Attended'
    BY <1>0, <1>1, <2>1 DEF Attended, lists
  <2> QED BY <2>2, <2>3, <2>4, <2>5
<1>2. CASE conn[s].life # "closed"
  <2>1. PICK d \in Sent(conn[s]) : \E t \in Armed(Follow(timer[s], d), d.conn) :
             /\ conn' = [conn EXCEPT ![s] = d.conn]
             /\ timer' = [timer EXCEPT ![s] = t] /\ Degrade(NotPushed(t, d.conn))
    BY <1>2 DEF Drain
  <2> DEFINE f == Follow(timer[s], d)
  <2>2. PICK t \in Armed(f, d.conn) :
             /\ conn' = [conn EXCEPT ![s] = d.conn]
             /\ timer' = [timer EXCEPT ![s] = t] /\ Degrade(NotPushed(t, d.conn))
    BY <2>1
  <2>3. conn[s] \in Conn /\ timer[s] \in Timer /\ conn \in [Slots -> Conn]
    BY <1>0, Types
  <2>4. Onward(conn[s], d.conn) /\ d.conn \in Conn /\ d.moved \in BOOLEAN
    BY <2>3, SentFacts DEF Onward
  <2>5. f \in Timer /\ (timer[s].at = timer[s].entry => f.at = f.entry)
    BY <2>3, <2>4, FollowFacts
  <2>6. failed \/ timer[s].at = timer[s].entry
    BY DEF BeliefInv
  <2> HIDE DEF f
  <2>7. /\ t \in Timer /\ (failed \/ t.at = t.entry)
        /\ failed \/ d.conn.life = "closed" \/ NotPushed(t, d.conn) \/ t.entry = "now"
    BY <2>2, <2>4, <2>5, <2>6, ArmedFacts
  <2>8. NotPushed(t, d.conn) \in BOOLEAN
    BY DEF NotPushed
  <2>9. /\ timersDegraded' \in BOOLEAN /\ failed' \in BOOLEAN
        /\ (failed => failed') /\ (NotPushed(t, d.conn) => failed')
        /\ timersDegraded' => timersDegraded \/ failed'
    BY <2>2, <2>8, DegradeFacts
  <2>10. conn' \in [Slots -> Conn] /\ SoundInv' /\ ForwardStep
    BY <1>0, <2>2, <2>4, Forwards
  <2>11. /\ \A r \in slots : r # s => conn'[r] = conn[r]
         /\ conn'[s] = d.conn
    BY <2>2, <2>3, Types
  <2>12. /\ timer' \in [Slots -> Timer] /\ BeliefInv' /\ Attended'
         /\ \A r \in Slots \ slots' : r \notin slots \/ r = s => timer'[r] = NoTimer
    <3>1. failed' \/ t.at = t.entry
      BY <2>7, <2>9
    <3>2. (timersDegraded' \/ pc' = "sweep") => failed'
      BY <1>0, <2>9 DEF BeliefInv
    <3>3. /\ ready \subseteq ready' /\ taken \subseteq taken' \cup {s}
          /\ readyDegraded => readyDegraded'
      BY <1>0 DEF lists
    <3>4. failed' \/ conn'[s].life = "closed" \/ t.entry = "now"
      <4>1. failed' \/ d.conn.life = "closed" \/ t.entry = "now"
        BY <2>7, <2>9
      <4> QED BY <2>11, <4>1
    <3> QED BY <1>0, <2>2, <2>7, <2>9, <2>11, <3>1, <3>2, <3>3, <3>4, Timers
  <2>13. TypeOK'
    BY <1>0, <2>9, <2>10, <2>12, Types, TypesNext DEF lists, TypeOK
  <2>14. RouteInv' /\ LoopInv'
    BY <1>0 DEF RouteInv, routing, LoopInv
  <2> QED BY <2>10, <2>12, <2>13, <2>14
<1> QED BY <1>1, <1>2

\* A closed slot is reaped: reap() and forgetSlot().
LEMMA StepReap ==
    ASSUME SInv, NEW s \in Slots, Reap(s)
    PROVE  SInv' /\ ForwardStep
<1> USE DEF SInv
<1>0. /\ pc = "drain" /\ taken = {} /\ s \in slots /\ slots' = slots \ {s}
      /\ conn' = [conn EXCEPT ![s] = NewConn] /\ timer' = [timer EXCEPT ![s] = NoTimer]
      /\ ready' = ready \ {s} /\ UNCHANGED <<readyDegraded, timersDegraded, taken, pc, failed>>
  BY DEF Reap, Forgotten
<1>1. /\ NewConn \in Conn /\ NoTimer \in Timer /\ NoTimer.at = NoTimer.entry
      /\ conn \in [Slots -> Conn] /\ timer \in [Slots -> Timer] /\ slots \subseteq Slots
  BY Types DEF NewConn, Conn, Lives, Causes, NoTimer, Timer, Marks
<1>2. /\ conn' \in [Slots -> Conn] /\ timer' \in [Slots -> Timer] /\ timer'[s] = NoTimer
      /\ \A r \in Slots : r # s => conn'[r] = conn[r] /\ timer'[r] = timer[r]
  BY <1>0, <1>1
<1>3. SoundInv'
  BY <1>0, <1>1, <1>2 DEF SoundInv
<1>4. ForwardStep
  <2>1. \A r \in slots : Sound(conn[r]) /\ Onward(conn[r], conn[r])
    BY <1>1, StaysFacts DEF SoundInv
  <2> QED BY <1>0, <1>1, <1>2, <2>1 DEF ForwardStep, Onward, Sound
<1>5. TypeOK'
  BY <1>0, <1>2, Types, TypesNext DEF TypeOK
<1>6. BeliefInv' /\ LoopInv'
  BY <1>0, <1>1, <1>2 DEF BeliefInv, LoopInv
<1>7. Attended'
  BY <1>0, <1>1, <1>2 DEF Attended
<1>8. RouteInv'
  <2>1. /\ owner' = (IF s \in tracked THEN owner \ {s} ELSE owner)
        /\ tracked' = tracked \ {s} /\ issued' = issued \ {s}
    BY DEF Reap
  <2> QED BY <1>0, <2>1 DEF RouteInv
<1> QED BY <1>3, <1>4, <1>5, <1>6, <1>7, <1>8

\* A deadline passes.
LEMMA StepPass ==
    ASSUME SInv, NEW s \in Slots, Pass(s)
    PROVE  SInv' /\ ForwardStep
<1> USE DEF SInv
<1> DEFINE c == [conn[s] EXCEPT !.due = TRUE]
<1>0. /\ s \in slots /\ conn[s].life # "closed"
      /\ UNCHANGED <<slots, timer, lists, timersDegraded, taken, pc, routing, failed>>
  BY DEF Pass
<1>1. conn[s] \in Conn /\ conn \in [Slots -> Conn] /\ conn' = [conn EXCEPT ![s] = c]
  BY <1>0, Types DEF Pass
<1>2. c \in Conn /\ c.life = conn[s].life /\ c.cause = conn[s].cause
  BY <1>1, DueFacts
<1> HIDE DEF c
<1>3. Onward(conn[s], conn[s])
  BY <1>1, StaysFacts
<1>4. Onward(conn[s], c)
  BY <1>0, <1>2, <1>3 DEF Onward, Sound
<1>5. conn' \in [Slots -> Conn] /\ SoundInv' /\ ForwardStep
  BY <1>0, <1>1, <1>2, <1>4, Forwards
<1>6. \A r \in Slots : conn'[r].life = conn[r].life
  BY <1>1, <1>2
<1>7. TypeOK'
  BY <1>0, <1>5, Types, TypesNext DEF lists, TypeOK
<1>8. Attended'
  BY <1>0, <1>6, Types DEF Attended, lists
<1>9. RouteInv' /\ BeliefInv' /\ LoopInv'
  BY <1>0 DEF RouteInv, routing, BeliefInv, LoopInv
<1> QED BY <1>5, <1>7, <1>8, <1>9

\* The loop turns to its timers.
LEMMA StepStartTicks ==
    ASSUME SInv, StartTicks
    PROVE  SInv' /\ ForwardStep
<1> USE DEF SInv
<1>0. /\ pc = "feed" /\ pc' = (IF timersDegraded THEN "sweep" ELSE "tick")
      /\ UNCHANGED <<slots, conn, timer, lists, timersDegraded, taken, routing, failed>>
  BY DEF StartTicks
<1>1. conn' \in [Slots -> Conn] /\ SoundInv' /\ ForwardStep
  BY <1>0, Unmoved
<1>2. TypeOK'
  BY <1>0 DEF TypeOK, lists
<1>3. RouteInv' /\ BeliefInv' /\ LoopInv' /\ Attended'
  BY <1>0, Types DEF RouteInv, routing, BeliefInv, LoopInv, Attended, lists
<1> QED BY <1>1, <1>2, <1>3

\* The loop takes the ready list: a slot on it is one to drain.
LEMMA StepTakeReady ==
    ASSUME SInv, TakeReady
    PROVE  SInv' /\ ForwardStep
<1> USE DEF SInv
<1>0. /\ pc \in {"take", "tick"} /\ pc' = "drain"
      /\ taken' = (IF readyDegraded THEN slots ELSE ready)
      /\ ready' = {} /\ readyDegraded' = FALSE
      /\ UNCHANGED <<slots, conn, timer, timersDegraded, routing, failed>>
  BY DEF TakeReady
<1>1. conn' \in [Slots -> Conn] /\ SoundInv' /\ ForwardStep
  BY <1>0, Unmoved
<1>2. TypeOK'
  BY <1>0, <1>1, Types, TypesNext
<1>3. RouteInv' /\ BeliefInv' /\ LoopInv'
  BY <1>0 DEF RouteInv, routing, BeliefInv, LoopInv
<1>4. Attended'
  BY <1>0 DEF Attended, LoopInv
<1> QED BY <1>1, <1>2, <1>3, <1>4

\* The loop starts again.
LEMMA StepNextIteration ==
    ASSUME SInv, NextIteration
    PROVE  SInv' /\ ForwardStep
<1> USE DEF SInv
<1>0. /\ pc = "drain" /\ taken = {} /\ pc' = "feed"
      /\ UNCHANGED <<slots, conn, timer, lists, timersDegraded, taken, routing, failed>>
  BY DEF NextIteration
<1>1. conn' \in [Slots -> Conn] /\ SoundInv' /\ ForwardStep
  BY <1>0, Unmoved
<1>2. TypeOK'
  BY <1>0 DEF TypeOK, lists
<1>3. RouteInv' /\ BeliefInv' /\ LoopInv' /\ Attended'
  BY <1>0, Types DEF RouteInv, routing, BeliefInv, LoopInv, Attended, lists
<1> QED BY <1>1, <1>2, <1>3

\* A step that takes each connection where Onward allows.
LEMMA AllForward ==
    ASSUME SInv, slots' = slots, conn' \in [Slots -> Conn],
           \A s \in slots : Onward(conn[s], conn'[s])
    PROVE  SoundInv' /\ ForwardStep
<1>1. \A s \in slots : Sound(conn[s])
  BY DEF SInv, SoundInv
<1> QED BY <1>1 DEF SoundInv, ForwardStep, Onward, Sound

\* The heap could not grow: every slot is ticked and armed.
LEMMA StepSweep ==
    ASSUME SInv, Sweep
    PROVE  SInv' /\ ForwardStep
<1> USE DEF SInv
<1> DEFINE d == [s \in slots |-> Ticked(conn[s])]
           p(s) == [Popped(Follow(timer[s], d[s])) EXCEPT !.stale = FALSE]
           left(s) == IF s \notin slots THEN {timer[s]} ELSE Armed(p(s), d[s].conn)
<1>0. /\ pc = "sweep" /\ pc' = "take" /\ readyDegraded' = TRUE
      /\ UNCHANGED <<slots, ready, taken, routing, failed>>
      /\ timersDegraded' \in BOOLEAN /\ failed = TRUE
  BY Types DEF Sweep, BeliefInv
<1>1. /\ conn' = [s \in Slots |-> IF s \in slots THEN d[s].conn ELSE conn[s]]
      /\ timer' \in [Slots -> UNION {left(s) : s \in Slots}]
      /\ \A s \in Slots : timer'[s] \in left(s)
  BY DEF Sweep
<1>2. /\ conn \in [Slots -> Conn] /\ timer \in [Slots -> Timer] /\ slots \subseteq Slots
      /\ \A s \in slots : Sound(conn[s])
  BY Types DEF SoundInv
<1>3. \A s \in slots : /\ Onward(conn[s], d[s].conn) /\ d[s].conn \in Conn
                        /\ d[s].moved \in BOOLEAN
  BY <1>2, TickedFacts
<1> HIDE DEF d
<1>4. \A s \in slots : p(s) \in Timer
  <2> SUFFICES ASSUME NEW s \in slots PROVE p(s) \in Timer
    OBVIOUS
  <2>1. Follow(timer[s], d[s]) \in Timer
    BY <1>2, <1>3, FollowFacts
  <2>2. Popped(Follow(timer[s], d[s])) \in Timer
    BY <2>1, PoppedFacts
  <2> QED BY <2>2 DEF Timer
<1> HIDE DEF p
<1>5. \A s \in Slots : timer'[s] \in Timer
  <2>1. \A s \in Slots : timer'[s] \in left(s)
    BY <1>1
  <2>2. \A s \in Slots \ slots : timer'[s] = timer[s]
    BY <2>1
  <2>3. \A s \in slots : timer'[s] \in Armed(p(s), d[s].conn)
    BY <1>2, <2>1
  <2>4. \A s \in slots : timer'[s] \in Timer
    BY <1>3, <1>4, <2>3, ArmedFacts
  <2> QED BY <1>2, <2>2, <2>4
<1>6. timer' \in [Slots -> Timer] /\ \A s \in Slots \ slots : timer'[s] = timer[s]
  BY <1>1, <1>5
<1>7. conn' \in [Slots -> Conn] /\ \A s \in slots : Onward(conn[s], conn'[s])
  BY <1>1, <1>2, <1>3
<1>8. SoundInv' /\ ForwardStep
  BY <1>0, <1>7, AllForward
<1>9. TypeOK'
  BY <1>0, <1>6, <1>7, Types, TypesNext
<1>10. RouteInv' /\ BeliefInv' /\ LoopInv' /\ Attended'
  BY <1>0 DEF RouteInv, routing, BeliefInv, LoopInv, Attended
<1> QED BY <1>8, <1>9, <1>10

\* The sweep stops at a tick that fails.
LEMMA StepSweepFails ==
    ASSUME SInv, SweepFails
    PROVE  SInv' /\ ForwardStep
<1> USE DEF SInv
<1>0. /\ pc = "sweep" /\ pc' = "take" /\ failed' = TRUE
      /\ UNCHANGED <<slots, readyDegraded, timersDegraded, taken, routing>>
  BY DEF SweepFails
<1>1. PICK before \in SUBSET slots :
        /\ conn' = [s \in Slots |-> IF s \in before THEN Ticked(conn[s]).conn ELSE conn[s]]
        /\ timer' = [s \in Slots |-> IF s \in before THEN Follow(timer[s], Ticked(conn[s]))
                                     ELSE timer[s]]
        /\ ready' = ready \cup {s \in before : conn'[s] # conn[s]}
  BY DEF SweepFails
<1>2. /\ conn \in [Slots -> Conn] /\ timer \in [Slots -> Timer] /\ slots \subseteq Slots
      /\ \A s \in slots : Sound(conn[s]) /\ Onward(conn[s], conn[s])
  BY Types, StaysFacts DEF SoundInv
<1>3. \A s \in slots : /\ Onward(conn[s], Ticked(conn[s]).conn)
                        /\ Ticked(conn[s]).conn \in Conn
                        /\ Follow(timer[s], Ticked(conn[s])) \in Timer
  BY <1>2, TickedFacts, FollowFacts
<1>4. conn' \in [Slots -> Conn] /\ \A s \in slots : Onward(conn[s], conn'[s])
  BY <1>1, <1>2, <1>3
<1>5. timer' \in [Slots -> Timer] /\ \A s \in Slots \ slots : timer'[s] = timer[s]
  BY <1>1, <1>2, <1>3
<1>6. SoundInv' /\ ForwardStep
  BY <1>0, <1>4, AllForward
<1>7. TypeOK'
  BY <1>0, <1>1, <1>4, <1>5, Types, TypesNext
<1>8. RouteInv' /\ BeliefInv' /\ LoopInv' /\ Attended'
  BY <1>0 DEF RouteInv, routing, BeliefInv, LoopInv, Attended
<1> QED BY <1>6, <1>7, <1>8

-----------------------------------------------------------------------------
(* The theorems.                                                           *)

\* The server starts without slots.
LEMMA InitSInv == Init => SInv
<1> SUFFICES ASSUME Init PROVE SInv
  OBVIOUS
<1>1. TypeOK
  BY DEF Init, TypeOK, NewConn, NoTimer, Lives
<1> QED BY <1>1 DEF Init, SInv, RouteInv, BeliefInv, Attended, SoundInv, LoopInv, NoTimer

\* Every step keeps the invariant and goes forward.
LEMMA NextSInv == SInv /\ [Next]_vars => SInv' /\ [ForwardStep]_vars
<1> SUFFICES ASSUME SInv, [Next]_vars PROVE SInv' /\ [ForwardStep]_vars
  OBVIOUS
<1>1. ASSUME NEW s \in Slots,
             Accept(s) \/ Feed(s) \/ App(s) \/ TickDue(s) \/ TickFails(s)
               \/ Drain(s) \/ Reap(s) \/ Pass(s)
      PROVE  SInv' /\ ForwardStep
  BY <1>1, StepAccept, StepFeed, StepApp, StepTickDue, StepTickFails, StepDrain, StepReap,
     StepPass
<1>2. CASE StartTicks \/ Sweep \/ SweepFails \/ TakeReady \/ NextIteration
  BY <1>2, StepStartTicks, StepSweep, StepSweepFails, StepTakeReady, StepNextIteration
<1>3. CASE UNCHANGED vars
  BY <1>3 DEF vars, lists, routing, SInv, TypeOK, RouteInv, BeliefInv, Attended, SoundInv,
              LoopInv
<1> QED BY <1>1, <1>2, <1>3 DEF Next

\* The invariant is one of the server.
THEOREM Invariant == Spec => []SInv
BY InitSInv, NextSInv, PTL DEF Spec

\* Every field keeps its type, and no list of the server, the heap's entries of
\* old generations included, holds the address of a slot that reap() freed.
THEOREM TypesAndAddresses == Spec => []TypeOK
<1>1. SInv => TypeOK
  BY DEF SInv
<1> QED BY <1>1, Invariant, PTL

\* An id is routed to the live slot that tracks it and to no other, whichever
\* connections issue it and whichever slots are reaped (resyncSlotCids()).
THEOREM RoutesAlwaysAgree == Spec => []RoutesAgree
<1>1. SInv => RoutesAgree
  <2> SUFFICES ASSUME RouteInv PROVE Cardinality(owner) <= 1
    BY DEF SInv, RoutesAgree, RouteInv
  <2>1. CASE owner = {}
    BY <2>1, FS_EmptySet
  <2>2. ASSUME NEW x \in owner PROVE Cardinality(owner) <= 1
    <3>1. owner = {x}
      BY <2>2 DEF RouteInv
    <3> QED BY <3>1, FS_Singleton
  <2> QED BY <2>1, <2>2
<1> QED BY <1>1, Invariant, PTL

\* No connection is lost sight of while the heap grows and ticks succeed: the
\* timer heap or the ready list has every slot that is not closed.
THEOREM NoneForgotten == Spec => []Attended
<1>1. SInv => Attended
  BY DEF SInv
<1> QED BY <1>1, Invariant, PTL

\* Connections go through their lives in order and tell their first cause, with
\* failing ticks and lists as without.
THEOREM ClosesInOrder == Spec => Forward
<1>1. SInv /\ [Next]_vars => [ForwardStep]_vars
  BY NextSInv
<1>2. Spec => [][ForwardStep]_vars
  BY <1>1, Invariant, PTL DEF Spec
<1> QED BY <1>2 DEF Forward, ForwardStep
=============================================================================
