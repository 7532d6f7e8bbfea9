# TLA+ models of quic-zig

quic-zig is a QUIC transport library in Zig: a `Connection` that an embedder
drives from one thread (`handle` a datagram in, `poll` a datagram out, `tick`
the timers), a `Server` and a `Client` wrapped around it, and the wire, frame,
TLS-glue and socket layers below. This directory models the parts whose
correctness depends on the *order* of things: what happens to a stream when its
packets are acknowledged late, lost, probed for and lost again; what happens to
credit when the frames that carry it are; where a connection believes its peer
to be while addresses change; how the server's lists keep hold of connections
that are born, close and make room. The repository also qualifies its releases
with tools that build and measure it beside people who go on editing; two of
them are concurrent programs of their own, and are modelled as such.

## 1. Inventory

Paths are relative to the repository's `src/`, those of the tools to its root.

| Component | Source | State it keeps | Operations | What is hard |
|---|---|---|---|---|
| Send half of a stream | `conn/SendStream.zig` | `base_offset`, `write_offset`, `pending`, `in_flight`, `acked_above`, FIN flags, `reset`, `state` | write, finish, reset, chunk to packet, packet acked / lost / probe-requeued | the same byte in several packets whose outcomes arrive in any order |
| Receive half of a stream | `conn/RecvStream.zig` | `read_offset`, `end_offset`, `ranges`, a sliding buffer, `final_size`, `reset`, `state` | recv, read / consume, compact, reset, markRead | overlap, final size, offsets against a buffer that moves |
| Loss recovery | `Connection/loss.zig`, `conn/loss_recovery.zig`, `conn/SentPacketTracker.zig`, `conn/ReorderWindow.zig`, `conn/RttEstimator.zig` | sent packets, largest acked, loss time, PTO count | ack, declare lost, PTO, requeue frames | false losses, timers racing acks, what a packet carried |
| Congestion and pacing | `conn/congestion.zig`, `conn/congestion/*`, `conn/Pacer.zig`, `conn/hystart.zig`, `conn/delivery_rate.zig` | windows, rates | on sent / acked / lost | mostly arithmetic on rates |
| Flow control | `Connection/flow.zig`, `Connection/streams.zig`, `Connection/recv_flow_handlers.zig` | limits granted and known, bytes charged and read | charge a frame, give credit, apply MAX_* | credit lost, late, repeated; resets |
| Stream ids and reclamation | `conn/StreamIdSpace.zig`, `conn/RecvEndRing.zig`, `Connection/streams.zig` | open / closed ids, limits, GC queue | open, accept, GC, MAX_STREAMS | frames for streams already reclaimed |
| Acknowledgement generation | `conn/AckTracker.zig`, `conn/PnSpace.zig`, `Connection/recv_ack_handlers.zig` | received ranges, ack delay | note a packet, build an ACK, prune on ack-of-ack | bounded ranges, duplicates |
| Paths and migration | `conn/path.zig`, `conn/PathValidator.zig`, `Connection/paths.zig`, `Connection/migration.zig` | per-path state, challenges, 3x budget | validate, migrate, roll back, retire | a peer address that changes again during validation |
| Connection ids | `Connection/cids.zig`, `Connection/recv_cid_token_handlers.zig`, `conn/stateless_reset.zig` | issued and peer CIDs, retire_prior_to | issue, retire, replenish | retire / reissue crossing on the wire |
| Keys | `Connection/keys.zig` | read / write key phases, usage counters | update, commit, discard | reordered packets across an update, AEAD limits |
| Close lifecycle | `conn/lifecycle.zig`, `Connection.zig` | open / closing / draining / closed, deadlines | close, peer close, idle, stateless reset, tick | several causes at once, one close event |
| Receive and send path | `Connection/recv_dispatch.zig`, `recv_packet_handlers.zig`, `Connection/send.zig` | per-level packet spaces | decrypt and dispatch, build a datagram | partially built packets |
| Server | `Server.zig`, `Server/*` | slots, CID routing, token and rate tables | accept, route, reap, drain | a table that must match what connections advertise |
| Address validation tokens | `conn/retry_token.zig`, `conn/new_token.zig`, `conn/token_envelope.zig` | none (stateless) | mint, validate | cryptographic envelopes |
| 0-RTT replay cache | `tls/AntiReplayTracker.zig` | bounded single-use cache | consume | eviction at the limit |
| Embedder queues | `conn/event_queue.zig`, `conn/PendingFrameQueues.zig`, `Connection/datagram.zig` | bounded queues | push, pop, drop | full queues |
| Wire codecs | `wire/*`, `frame/*`, `tls/transport_params.zig` | none | encode, decode | arithmetic on bytes |
| Sockets, app helpers, qlog, LB CIDs | `transport/*`, `app/*`, `qlog/*`, `lb/*`, `alt_addr/*` | OS handles, caches | I/O | outside the protocol core |
| Qualification tools | `tools/profile-composition.py`, `tools/check-fairness.py`, `tools/profile-applications.py` | recorded hashes, children and their watchdogs, the report | snapshot, build, run, compare, report | inputs edited meanwhile, a watchdog against a child that ends, two lanes at once |

How they interact: `handle` decrypts a packet, dispatches its frames to the
stream, flow, path and CID handlers and records the packet number in the
AckTracker; `poll` builds packets from what those components have pending and
records in the SentPacketTracker what each packet carried; an ACK, a loss or a
probe timeout then tells every component what became of what it sent. All of it
runs on one thread: the interleavings are of *events* (application calls,
datagrams, timers), and each event's handler is atomic. That is the grain of the
actions in every module of the library here. The server's loop too is one
thread; it takes several steps per iteration, between which the clock moves on
and the embedder acts. The tools start children and threads and run beside
editors: there a step is what happens between two points at which another
process can be seen.

What makes each part correct, in a line. Streams: every byte arrives once, in order,
with one end, and nothing handed over is forgotten. Flow control: both ends count
the same, an honest sender is never at fault, credit always comes back. Stream
table: memory stays inside the window, ids come back, a reclaimed stream stays
reclaimed. Recovery: every frame is acknowledged or somebody still answers for it; a
window, a tracker or a silent peer never stops the sender. Keys: the ends stay
within one generation and no key outlives its limit. Acknowledgements: what asks for
one gets one, and nothing is dispatched twice. Handshake: no data lost to a
discarded key, no mutual wait. Paths: a roll-back ends on a validated address, an
unvalidated one stays inside its budget. Connection ids: what one end may use the
other still owns. Close: one event, and closed in the end. Server: the routing table
is exactly what live slots own, and no connection is lost sight of. Tools: a passed
report was measured on what it records.

## 2. Modules

| Module | Models | Composes |
|---|---|---|
| `StreamOffsets` | what both halves of a stream name bytes by | |
| `SendStream` | the send half of a stream | extends `StreamOffsets` |
| `RecvStream` | the receive half | extends `StreamOffsets` |
| `ReliableStream` | the abstract promise of a stream: an in-order byte pipe with one end | |
| `StreamTransfer` | both halves, a faulty network, loss detection | extends both halves, an instance of `ReliableStream` |
| `StreamTransferProofs` | the theorems about both halves and about the whole | extends `StreamTransfer` |
| `FlowControl` | credit between the two ends of a connection | |
| `FlowControlProofs` | its theorems | extends `FlowControl` |
| `StreamTable` | stream ids, live streams and their reclamation, MAX_STREAMS | |
| `StreamTableProofs` | its theorems | extends `StreamTable` |
| `Recovery` | packets in flight, ACKs, losses, probes, loss episodes | |
| `RecoveryProofs` | its theorems | extends `Recovery` |
| `KeyUpdate` | 1-RTT key updates between two ends | |
| `KeyUpdateProofs` | its theorems | extends `KeyUpdate` |
| `Migration` | one endpoint's path and the ids of its peer, while either end moves | |
| `MigrationProofs` | its theorems | extends `Migration` |
| `Server` | the server's slots, lists, timers and routing, with the close lifecycle | |
| `ServerProofs` | its theorems | extends `Server` |
| `ProfileComposition` | `tools/profile-composition.py` | |
| `FairnessGate` | `tools/check-fairness.py` | |
| `QualificationProofs` | the theorems about both tools | extends `ProfileComposition` and `FairnessGate` |
| `MC*` | the instance of each module that TLC checks; its `.cfg` has the constants | |

`PROJECT.json` maps every definition to the lines it models.

### SendStream

One variable per field that decides anything; byte ranges are sets of offsets,
the byte values are dropped. `in_flight` holds one record per packet that
carried a chunk (`key`, `path`, `offset`, `length`, `fin`);
`reset_in_flight` holds the packets that carried RESET_STREAM. `reset` folds
`ResetInfo` into `none / unqueued / queued / acked`.
`SendChunk` is `peekChunk` + `recordSent`: it takes any prefix of a pending
range (a packet has room for any length). An outcome action (`PacketAcked`,
`PacketLost`, `PacketProbeRequeued`) is the whole handler, with the trailing
`maybeAdvanceState`. Packets of one path are declared lost oldest first, as
`sweepLosses` visits them.

### RecvStream

`Recv` is the whole of `recv`: the error checks in the code's order, then
reassembly, then `maybeAdvanceState`; an error closes the connection (`closed`).
The buffer is kept as its two lengths, `buf_len` (physical) and `buf_start`
(consumed prefix), because the offsets into it are what can go wrong.

### StreamTransfer

`SendStream` (`Init`, `Next`, `vars`) and `RecvStream` (`RecvInit`, `RecvNext`,
`recvVars`, and fields named `r_..` where the sender has one of the same name) are
the two halves; the network holds packets and delivers, drops or reorders them.
`WithinWindow` stands for flow control with credit that comes at once: a chunk
fits the receiver's buffer. `faults` counts drops, false losses and early timers, at most
`MaxFaults`; without the bound nothing would ever arrive. A packet number is
processed once (`AckTracker.contains`), so duplicates are not steps.
`A == INSTANCE ReliableStream WITH ...` is the refinement mapping.

### FlowControl

Per stream the sender's `pending`, `send_flow_highest`, `send_max_data` and the
receiver's `ranges`, `read_offset`, `end_offset`, `recv_max_data`; per
connection the four counters of `Connection.zig`. MAX_* frames are queued,
sent, acknowledged or lost; a lost one is queued again *with its old value*, as
the code does. The windows do not tune themselves here
(`auto_tune_receive_windows = false`).

### StreamTable

The acceptor's side of one kind of stream (peer-initiated, bidirectional):
`opened`, `closed`, `limit` and `holes` are the `StreamIdSpace`; `live` the
table; `candidates`, `full_scan` and `gc_pending` what the reclaiming tick will
look at; `ring` the notes of how reclaimed streams ended. `RecvFrame` is the
whole of a STREAM or RESET_STREAM's arrival, the creation of the stream and of
the holes below it included; `Tick` reclaims and gives credit. The opener keeps
what it was granted and what it opened. Frames of a stream arrive in any order
and any number of times, after its end too.

### Recovery

One application packet number space. A frame is `Stream` or `Crypto` data or
`Control`. `owned[p]` is what the record of packet `p` has of them; `copied[p]` is
the data of it that a probe queued again (`requeued_for_probe` of a stream's chunk,
`probe_requeued` of a CRYPTO one). The record stays: an ACK of the packet, however
late, completes the data (`Acked`) and takes the copy back while it is still queued
(`TakenBack`), but its loss queues nothing (`Answers`), since the copy answers for
the data now. So several records may hold the same bytes, and at most one of them
requeues them. `RecvAck` is `apply`: the largest acknowledged, the newly
acknowledged packets, remembered losses that turn out to have arrived, then the
loss sweep. `PtoProbe` and `PtoExpire` are the two branches of the probe timeout:
with room in the tracker it requeues and probes, without it gives up the oldest
packet. `lost_ring` is the `ReorderWindow`, `episodes` the `LossEpisodes` of the
controller. A packet number stands for its send time, packets have one size, the
window is a number of packets. An ACK frame may cover any of the packets sent,
which is to lose, delay and reorder packets and ACK frames alike.

Abstracted: a `Stream` frame is all the bytes of a stream of its own and is never
split (`SendStream` splits, merges and trims ranges), and no stream is reclaimed.
A CRYPTO chunk is never cut: in the code a copy that was cut for a packet's room no
longer matches the chunk an ACK takes back, and goes again. Two control frames,
RESET_STREAM and HANDSHAKE_DONE, are taken back by an ACK too; here any control
frame may go again.

### KeyUpdate

Both ends run `Connection/keys.zig`. A generation of keys is its epoch, the
phase bit is the epoch's parity, and a packet opens with its own epoch only.
`net` keeps every packet for ever, so loss, repetition and any order need no
actions of their own. A packet either asks for an ACK or is the ACK of
everything received, for which the highest epoch received (`got`) stands.
`Receive` is `handleShort` on a packet that opens (promotion, the answer, then
the frames); `Reject` is the branch on one that does not. A close for a limit
ends the model.

### Migration

One endpoint, client or server, on its one path after the handshake.
`addr`, `local` and `cid` are the path, `validated`, `status` and `token` the
validator, `rollback` the snapshot that a failed validation restores,
`received` and `sent` the counters of the three-times budget. The network may
deliver a datagram from any address at any time, so `RecvDatagram` is enabled
everywhere; `flying` keeps every challenge ever sent and `issued` every
NEW_CONNECTION_ID, so late and repeated ones need no actions of their own.
`ChangeAddress` is the whole of `handlePeerAddressChange`: snapshot, fresh
connection id, counters, challenge. `ClientMigrate` and `ServerMoved` are the
endpoint's own moves, `Timeout` the failed validation with its roll-back,
`Cool` the end of the 100 ms in which a further change of address is ignored.
`proven`, `net`, `picked` and `again` are history for the properties.

### Server

`pc` follows `runUdpServer`'s loop: feed, tick what is due, drain what is ready,
again; `Pass` is the clock, which may make a deadline pass between any two
steps. A slot is an address that the next connection uses again after `Reap`.
`timer[s]` has what the slot believes (`at`, its `timer_at_us`) beside what the
heap holds (`entry`, `stale`): the two may differ, and that is the hazard. The
instants themselves are only "the deadline of now" and "one it had before".
`Armed` is `armTimerAfter`, which pushes nothing when the deadline did not move;
`SweepFails` and `Wake` are the degradations when a list cannot grow. `conn[s]`
is the close lifecycle: `Caused` the sticky event, `Handled` what a datagram may
do in each life, `Ticked` what the clock does. The routing table is kept for the
slot's initial id (implicitly: a live slot has one) and one contested id that
any connection may issue, so that two hold it at once and `Resync` meets a
collision.

### ProfileComposition

`pc` is `main()`, `at` is `run_child()`; the child, the watchdog's timer thread
(`watch`), and editors are processes of their own. The contents of the inputs
are a version number that every `Edit` raises; `binary` is the version an
installed binary was built from, `recorded` what `main()` hashed. `Expire` is
the timer's function, and may run at any point until `Joined`. `Interrupt` is a
KeyboardInterrupt where `main()` catches it; `Abandon` is an exception that
leaves `run_child()` by its `finally`; `Crash` kills the tool anywhere.
Abstracted: the two binaries of a lane are one; the watchdog that fires between
the return of `wait4` and the lock marks the run as timed out and fails it, and
is modelled as that; a file changed and changed back between two hashes, and a
half-written `report.json`, are beyond the tool and the model.

### FairnessGate

`Hash`, `Copy` and `Rehash` go through the tree file by file with `EditTree` in
between. `hashed`, `copy` and `after` are the three passes; `Same` compares
them. An edit makes contents the file did not have since the snapshot began: a
file that is removed, put back and removed again between its two hashes looks
untouched to the tool, and then the copy can be a tree that never was (where contents
may come back, TLC finds that mixture in six edits), so it is beyond tool and model.
Each lane is a thread (`lane_at[l]`) with a child (`lane_child[l]`), which may write
into the tree it was given (`touched`), end with either status, or hang until
the time-out's two kills. `Compare` is `compare()` in exact rationals: Jain's
index and the utilisation of a cell as fractions, compared by
cross-multiplication, as the tool's `Fraction` does. The baseline's numbers are
constants; the candidate's cells come out as any of `Outcomes`.

`drain` is `main()` on its way out: the pool's exit if it is in the pool, then the
`finally`. `GateInterrupt` is a KeyboardInterrupt before that point, or any other
error. `GateAbandon` is one in the pool's exit, while it joins a lane: nothing
catches it, the `finally` writes the report and `main()` is over (`left`) beside a
lane whose child runs on, in a session of its own, until the lane's own time-out.
Python still joins the lane's thread before the process ends; killed or interrupted
there too (`GateCrash`), it leaves the child to itself. What the tool then still
keeps is that the report it left is a failed one.

## 3. Runs

| Run | Result | What it shows |
|---|---|---|
| `send_stream` | pass, 132 107 states | no byte, FIN or RESET_STREAM is forgotten; nothing acknowledged is pending; terminal means done; ends never move back |
| `recv_stream` | pass, 3 217 states | the buffer covers the ranges and stays bounded (`BufferSound`); the end is told truthfully |
| `transfer` | pass, 255 662 states | the two halves implement `ReliableStream`, never raise an error against each other and agree on the end (`EndsAgree`), and both end |
| `flow` | pass, 525 596 states | no honest sender is closed for flow control; both ends' accounts agree and no credit is forgotten (`AccountsAgree`); everything is read although one stream resets and a frame is lost |
| `flow_reset_twice` | violation of `ChargedOnce` | finding 1 |
| `stream_table` | pass, 223 344 states | what is held stays inside the window, nothing terminated is left uncollected, no credit is owed, end notes last (`TableSound`); late frames revive nothing; every id comes back |
| `recovery` | pass, 86 157 states | no frame is forgotten, at most one of queue and records requeues data although copies of it are in flight, and acknowledged stream bytes are not queued (`FramesKept`); an episode is undone only when all of it arrived (`EpisodesSound`); the sender never stops for good |
| `key_update` | pass, 1 721 531 states | the ends never drift more than one generation apart; what either sends opens at the other; an update cannot get stuck; no key outlives its limit |
| `migration` | pass, 2 806 377 states | validated, and a roll-back's target, mean an address that answered; an unproven address stays inside its budget over all its comings and goings; the sweep of retired ids keeps the path on a listed one |
| `server` | pass, 2 119 573 states | no list points at a slot that is gone; ids are routed to the slot that tracks them; while nothing fails no open connection is lost sight of; every connection closes once, in order, with its first cause |
| `composition` | pass, 564 527 states | a passed sample ended by itself on a binary of the recorded inputs, a passed report has all of them; no watchdog survives its run; the tool ends though children hang |
| `fairness` | pass, 540 687 states | an accepted snapshot is a tree that existed; a passed report means two good lanes and a candidate that is strictly fairer; only an interrupt of the pool's exit leaves a child running, and then the report is a failed one |

Several promises are one property with named parts where they are about the
same state, as the names in parentheses say.

Bounds. `send_stream`: `MaxOffset` 3 with `MaxKey` 5 lets a range be split,
acknowledged in the middle, requeued and merged again. `recv_stream`: `MaxSpan` 5 of
`MaxOffset` 7 lets the buffer fill, slide, compact below half and fill again.
`transfer`: two bytes, a buffer of one, and two faults put a drop, a false loss or
an early probe before and after every step, and a second one after it. `flow`:
windows of one byte, because the edge cases are at the limit: every byte needs a
credit frame. `stream_table`: three ids over a window of two, so that an id must
come back before the last stream opens, and a batch of one, so that the candidate
list overflows into the walk. `recovery`: a window of one packet and a tracker of
three, so that both close; one frame of each kind; four packet numbers for a packet,
the copies of two probes, of which the second finds the first packet copied and
walks on to its copy, and one more after a loss, with late ACKs of each.
`key_update`: two updates on each side, the fewest in which the phase bit returns to
an earlier value; a threshold one below the limit, so that a blocked update meets
the limit; one forgery closes, since nothing else depends on their count.
`migration`: three addresses of the peer, so that a third appears while the second
is being validated; two challenges, so that an answer may be to the wrong one; ids
up to 2 with a list limit of 2, so that the list overflows and the sweep meets ids a
migration took; two datagrams of credit. `server`: two slots, one drained or reaped
while the other runs, both used again, with one id they contest. `composition`: two
workloads and three samples turn the lanes' order, two edits fall before and after a
capture. `fairness`: two files, so that a mixture of two trees is possible, and two
edits; four cells, of each kind one, two of them mixed, with outcomes that gain,
keep, lose and starve.

All runs but `server` say `CHECK_DEADLOCK FALSE`: a stream that has ended, a
frame that has been acknowledged, a connection that was closed and a tool that
has written its report have nothing left to do. The server's loop has no end,
and TLC checks that it never stops.

Fairness. All of it is weak fairness on single actions. `transfer`, `flow`: the
embedder's loop polls, feeds in datagrams that arrive and ticks timers, and the
reader reads; nothing makes an application write, finish or reset; drops are bounded
by `MaxFaults` / `MaxLosses`. `stream_table`: the tick, the poll, frames that
arrive, a reader that reads, and an opener that wants every stream. `recovery`: the
poll and the probe timer, nothing of the network, the peer or the time threshold; a
probe is sent as long as nothing is acknowledged, so `Settled` says "or the bound on
packet numbers is reached". `composition`: the tool's main thread and its timer
thread run on; a child need never end, and nobody need edit. The other modules have
no liveness property, so no fairness: `AckConfirms` of `KeyUpdate` says as an
invariant that the ACK which would confirm is always on offer, and `Attended` of
`Server` that the entry, the list or the flag which will bring the loop back to a
slot is there.

## 4. Findings

1. **A reset can be charged twice** (run `flow_reset_twice`). The receiver does
   not raise the high-water mark for a RESET_STREAM, so a STREAM frame reordered
   behind it, or a second copy of it, is charged to the connection window again,
   for good.

The others are reproduced by a configuration kept beside the modules, which is
no run of its own (`tlc -config X.cfg M` ends in the counterexample):

2. **Multipath: bytes below the floor stay pending** (`PendingInWindow`,
   `MCSendStreamMultipath.cfg`). `markAcked` strips acked bytes from `pending`
   only while `probe_requeued_pending` is set. Requeue a chunk of path A for a
   probe, send the copy on path B (the flag clears), lose the copy (the bytes
   are pending, the flag is clear), then acknowledge the original: `base_offset`
   passes bytes that are still pending.
3. **A reset can exceed the peer's limit** (`ResetKeepsLimits`,
   `MCFlowControlResetSize.cfg`). `resetStream` records `write_offset` as the
   final size, which counts bytes flow control never let out; the peer charges a
   final size like data and closes the connection.
4. **One congestion event, two reductions** (`OneReduction`,
   `MCRecoveryReductions.cfg`). The recovery period ends at the first ACK of a
   packet sent inside it, before that ACK's loss sweep; packets of the first
   flight found lost from then on open a second episode.
5. **A reaction to ECN-CE is undone** (`MarkStands`, `MCRecoveryMarks.cfg`).
   Losses declared inside a recovery period that a CE report opened are counted
   in its episode; when they arrive late the window goes back to what it was
   before the report.
6. **A migration picks the same id twice** (`NeverPickedTwice`,
   `MCMigrationCids.cfg`). `consumeFreshPeerCidForMigration` (`migration.zig:178`)
   takes an id out of `peer_cids` "so a subsequent migration can't pick the same
   one again". A repeated NEW_CONNECTION_ID registers it anew; after a roll-back
   the next migration takes it on another path.
7. **The timer heap does not recover by itself** (`ListsRecover`,
   `MCServerLists.cfg`, against `Server.zig:1943`). The sweep empties the heap
   but leaves `slot.timer_at_us`, and `armTimerAfter` pushes nothing for a
   deadline that did not move: such a slot has no entry until its next datagram
   or wake-up moves it. A tick that fails leaves a slot the same way.
   `Attended` therefore speaks of executions in which neither has failed.

Met on the way, outside what the runs check:

- `Connection/loss.zig:1370` says that a chunk a probe sends again gets a new key "so
  the old packet's ACK or loss later finds nothing for it", that CRYPTO data "moves
  to the retransmit queue", and at 1421 that "the key goes with the copy". Both
  records stay (`SendStream.onPacketProbeRequeued`, `requeueSentCryptoForProbe`), and
  a late ACK counts for the data, as the test at `SendStream.zig:1302` expects.
- `AckTracker` at its capacity forgets its lowest range, so a late copy of a
  packet in it is dispatched again although `recv_packet_handlers.zig` says that
  frames must not be processed twice. The same comment says a duplicate is still
  acknowledged; `addPacketDelayed` returns before it arms anything.
- `clearRecovery` leaves `pmtu_probe_pn` of the packets it forgets.
- The CONNECTION_CLOSE for the confidentiality limit is itself sealed with the
  key that reached it (`Connection/send.zig`).
- An end that sends nothing but ACKs cannot confirm its own key update, since
  nothing it sends is acknowledged: the limit then closes the connection.
- Ids that a migration took are no longer in `peer_cids`, so a later
  `retire_prior_to` does not move the path off them, and no RETIRE_CONNECTION_ID
  is sent for them. An id that arrives late, below the greatest
  `retire_prior_to`, is still added (`cids.zig:718`) and counts against the
  limit. A client with a stateless reset token for id 0 keeps it listed, so a
  migration may pick it.
- A migration that the embedder's policy denies credits its datagram to the
  current address.
- An error of a connection's tick drops the slot's popped entry and leaves
  `timer_at_us`; the comment at `udp_server.zig:733` expects otherwise. Ids that
  `maybeReplenish` adds after a resync become routable with the slot's next
  feed, which may be the peer's first use of them.
- `check-fairness.py` reads the candidate's `runtime_build_tree_sha256` from the
  source after the comparison, not from the snapshot; and when printing the
  summary fails, `report["passed"]` stays true beside the recorded error.
- An interrupt of `profile-composition.py` between `Popen` and its `try`, or
  inside the handler or the `finally`, leaves the child or the timer thread
  behind (`Abandon`); a watchdog that fires just after `wait4` returned signals
  a process group that is already reaped. Both only fail the report.
- A Ctrl-C while the pool of `check-fairness.py` joins a lane, for up to the lane's
  time-out after the other has failed, ends `main()` beside that lane's child
  (`GateAbandon`). The report it writes is a failed one.

## 5. Proofs

`StreamTransferProofs` proves, for every set of paths and every bound, of the send
half:

- `SendTypeCorrect`, and `ByteNeverForgotten`, `FinNeverForgotten`,
  `ResetNeverForgotten`, together `NothingEverForgotten`: with any number of
  paths, everything the application handed over is acknowledged, owed or in
  flight;
- with a single path (`SinglePath`, one packet number space), also
  `PendingStaysInWindow`, `AckedStaysAcked`, `TerminalOwesNothing`; finding 2
  is why the assumption is needed;
- `EndsAreMonotone`: offsets and end marks never go back.

The argument. `TInv` is the type invariant strengthened with what packets in
flight look like (`ChunksOK`: a chunk lies below `write_offset`, only a FIN
chunk may be empty) and with `SizeOK` (the final size is the write offset once
the FIN is marked). `NoByteForgotten` and its two companions are inductive
relative to it. `PathInv` adds, for one path, what makes a late acknowledgement
harmless: keys are unique; two packets overlap only where the older was
requeued; a pending byte that an in-flight packet also covers is known to be
requeued (`probe_requeued_pending`), so `markAcked` strips it.

Of the receive half it proves `RecvTypeCorrect`, `BufferAlwaysSound`
(`BufferSound`) and `EndsTruthfully` (`EndIsTruthful`) for every stream length and
every `MaxSpan`. The two bounds on the buffer are not inductive by themselves,
since `recv` grows it by what arrives and `consume` shrinks it by what is read.
`RecvWindow` ties it to the stream: the live part of the buffer is no longer than
the stretch from the read offset to the end of the received bytes, which `MaxSpan`
bounds.

Of the whole, with any number of packets lost, reordered, falsely declared lost or
probed for too early, it proves `EndsAlwaysAgree` (`EndsAgree`) and
`Implementation` (`ImplementsReliableStream`): every step of the two halves, the
network and the timers is a step of the abstract byte pipe or a stutter. The
invariants of the halves carry over, since every step of the whole is a step or a
stutter of each (`HalvesMove`). `CrossInv` relates them: a packet on its way
carries written bytes and the size the sender has settled on, and a chunk still
tracked under its number is what it carries (`NetOK`); what the receiver takes for
the end is the sender's (`EndsOK`); what a packet that arrived carried, and all
that was ever acknowledged, is at the receiver (`ArrivedOK`, `AckedOK`). So each
frame that arrives agrees with those before it, although chunks are split and
merged between transmissions, and the last acknowledgement finds everything
held. The mapping's `arrived` is a CHOOSE of the in-order prefix: `PrefixOK`
says that it exists and is the least offset not held, from which each step's change of
it follows.

`KeyUpdateProofs` proves, for every number of updates and every limit
(`KeyUpdateAssumption`: naturals, a positive integrity limit),
`KeysTypeCorrect`, `NeverDrift` (`InStep`) and `NoUpdateStuck` (`AckConfirms`).
`InStep` is not inductive: that an end may update again depends on what its peer
has seen. `DriftInv` says what an open gate means (`~pending_ack`: the last
update went around, so both ends read the epoch this end writes) and bounds each
end's read keys by the other's write keys; `PacketInv` says a packet
acknowledges only what its sender could read, so the ACK that opens the gate
carries that meaning even when it is late or repeated; `BoundInv` and `OpenInv`
carry the bounds of the model. In `StepReceive` the two cases that matter are an
update answered and an update confirmed by one and the same packet.

`FlowControlProofs` proves, for any finite set of streams, any windows and any
number of bytes and losses (`FlowAssumption`; a stream id is a number, so no stream
is the scope `"connection"`), `TypeCorrect`, `NeverClosed` (`NoFlowControlError`)
and `BooksAgree` (`AccountsAgree`). `LimitsOK` says that no limit is known, queued
or on its way that was not granted, so the sender's two limits never exceed the
receiver's. `OffsetsOK` orders the marks of a stream; that every byte never sent is
pending makes the first pending byte lie at or below `send_flow_highest`, so a
chunk never charges for a byte it skips. A connection's counters are sums over
its streams, which cannot be reasoned about here: `CountsOK` takes the set
`Uncounted` of the bytes, over all streams, that the sender was charged for and the
receiver not yet, and bounds its cardinality by the difference of the two counters. A
frame that arrives takes from that set what the receiver adds to its counter, so
the counter stays at or below the sender's, which is inside the connection limit.
What is said of the counters and of closing holds only while no stream is reset:
findings 1 and 3 of section 4 are why.

`ServerProofs` proves, for any slots and causes, `TypesAndAddresses` (`TypeOK`),
`RoutesAlwaysAgree` (`RoutesAgree`), `NoneForgotten` (`Attended`) and
`ClosesInOrder` (the action property `Forward`). `Attended` speaks of heap
entries, and the code decides whether to push one by what the slot believes
(`timer_at_us`): `BeliefInv` says that the belief is what the heap holds while
nothing has failed, and that only a failure leads to a sweep. `LoopInv` (what
`takeReady` gave is drained before it gives more) keeps a slot from being lost
between the two lists. `SoundInv` (open means no cause, closed means no deadline)
is what `Forward` needs of the state before a step. Lemmas about `Caused`,
`Handled`, `Sent`, `Ticked` and `Armed` say what each makes of one connection or
timer; the steps cite them.

`StreamTableProofs` proves, for any number of streams, any window and any batch,
`TableTypeCorrect` (`TypeOK`), `TableAlwaysSound` (`TableSound`) and
`ReclaimedStaysReclaimed` (the action property `NeverReborn`). `Counters` orders
the counters: opened ids lie below the limit, and the limit is never ahead of the
closed streams plus the window. `LimitAfter` is the limit after one
reclamation after the other of a tick; that it never goes back, never runs ahead
and owes nothing at the end is shown for the whole recursion by its least
counterexample (`LimitAfterFacts`). A tick looks at a full batch of candidates or
walks everything, so nothing that ended stays uncollected; `Notes` says that the
notes of the last tick are the last of the ring, so those of one more do not
push them out.

`QualificationProofs` proves `NoWatchdogOutlives` (`TypeOK`) and
`ReportIsHonest` (`Honest`) for any number of workloads, samples and edits.
`ControlInv` says where `main()` and `run_child()` can be together and how many
rows there are then; `RowsInv` that `main()` goes on only past rows that passed,
in slot order; `FilesInv` that a recorded binary is of the recorded inputs or was
overwritten, and what a build in progress may have read. `Honest` follows at the
one step that writes a report that passed.

Of `FairnessGate` it proves, for every tree, grid and number of edits,
`OnlyAbandonedLanesOutlive` (`GateTypeOK`), `SnapshotIsATree` (the action property
`SnapshotConsistent`) and `PassIsFairer` (`PassMeansFairer`). `SnapInv` keeps,
through the second pass of hashes, one tree of those there were that agrees with the
first hashes wherever the source still does or did when it was hashed again: an edit
breaks the agreement of its file for good, since it makes contents that never were.
When all second hashes equal the first, that tree is what was copied. `LaneInv` says
where a lane is when its child runs; `ReportInv` keeps what was true when
`compare()` passed until the report is written, and that nothing has passed while a
lane still runs, so what an abandoned pool leaves on disk is a failure. That the
mean over the mixed cells has grown means that one of them has (`MeansCompare`), and
that the worst is no worse means that none is below all of the baseline's
(`WorstIsLeast`); both are about fractions compared by cross-multiplication
(`LessOrder`, `PlusOrder`) and sums over any finite set of cells.

`MigrationProofs` proves, for any addresses, ids, challenges and credit,
`OnlyWhereProven` (`ProvenOnly`) and `NeverAmplifies` (`WithinBudget`) from `MInv`,
`InUseStaysListed` (the action property `InUseKept`) from `CidInv`, and
`TypeCorrect` from both. In `MInv`, `ChallengesOK` says that the one challenge that
can still be answered went to the address the path is at, so a late answer to an
earlier one proves nothing it should not; `SavedOK` says that only a path with
something to roll back to is unvalidated, so the first snapshot is of a proven
address; `CreditOK` relates the path's counters, which every change of address
starts again, to what the address has earned over all its stays. `CidInv` says
that no id is listed twice; `KeptFacts` that a sweep leaves exactly the entries it
is told to.

`RecoveryProofs` proves, for any frames, windows, tracker and ring sizes and numbers
of packets, `TypeCorrect`, `NoFrameLost` (`FramesKept`) and `UndoneOnlyIfSpurious`
(`EpisodesSound`). For frames, `OwnersOK` says that data a record answers for is not
queued and answered for by no other record, and that of the records which have the
bytes of a stream it is the newest; that stream bytes in the queue are not
acknowledged, and, unless a probe put them there, on no record any more, so that no
ACK of them is still to come. A late ACK of a packet whose data was copied then
finds the copy in the queue or in flight, and takes it back or leaves it to be
dropped. For episodes the key is the set `Open` of packets an episode still waits
for: counted in it, and not arrived, or arrived while the ring still remembers them.
Its size never exceeds the episode's counter (`EpisodesOK`), for the current episode
and, while it can be undone, the one before; `RingOK` says that a packet is
remembered once, with the episode it was counted in, and `CountedOnce` that it is
counted when it leaves the flight. An episode is undone when as many losses arrive
as it has pending, which is then all of `Open`. Nothing is counted in an undone
episode afterwards, because undoing it ended the recovery period.

Induction. The library's induction theorems have an operator as a parameter and
cannot be used, but well-foundedness of `<` is a first-order fact: `LeastExists`
(every nonempty set of naturals has a least element) follows from it, and
`PlaceTaken`, which says that the elements of a finite set can be listed in
order, argues on the smallest place that is free. `Nth`, with which the ring
(`Remember`) and the sweep (`Kept`) are written, rests on it. Folds over finite
sets are reached the same way: `FoldInduction` takes a set of subsets in place of a
predicate and argues on a smallest subset outside it, and `FoldExists` builds the
function behind a fold size by size, for an operation that is itself a function.
`SumFold` and `FractionFold` are what `FairnessGate` needs of them.

The invariants were checked by TLC before they were proved. Every safety invariant,
every action property and the refinement that a passing run checks is proved;
the assumptions are the named ones on the constants of each module, and `SinglePath`
for three theorems about the send half. Model-checked only: liveness
(`BothEnd`, `AllRead`, `AllOpened`, `Settled`, `Ends`), since the prover handles
neither fairness nor `ENABLED`.

## 6. Plan

1. Done: all modules of section 2, and the theorems of section 5.
2. Modules that would follow: acknowledgement generation (bounded ranges,
   duplicates, delayed ACKs), handshake packet spaces (CRYPTO data across losses,
   held packets, keys discarded only when nothing needs them, no deadlock under
   the three-times budget), the replay cache.

Not modelled, and why. Acknowledgement generation, the handshake's packet spaces
and the replay cache: worth a module each, not yet written; `Recovery` covers
the sender's half of the first, with a peer free to acknowledge or not. Of the
server: TLS context generations, Retry and rate limits, version negotiation, out
of memory inside a feed, the pacer's floor under a deadline, a close for a key
limit inside `poll`, and stale heap entries that `nextDeadline` drops early. Of
paths: several at once, PATH_RESPONSE frames the endpoint itself sends, what a
migration does to congestion and round-trip state. `tools/profile-applications.py`
is the sequential predecessor of the two tools that are modelled: the same
snapshot as `FairnessGate`, then builds and samples in a row. The wire and frame
codecs, transport parameters and token envelopes (stateless byte work, better
served by the repository's fuzz and conformance tests), TLS itself (BoringSSL,
outside the repository), sockets and socket options (I/O), qlog and metrics (no
effect on the protocol), congestion control rates (arithmetic whose properties
are quantitative).
