----------------------------- MODULE FairnessGate -----------------------------
(***************************************************************************)
(* tools/check-fairness.py: a candidate source tree is copied while people *)
(* go on editing it, a frozen baseline gets the candidate's benchmark      *)
(* sources, both are built and run by two threads at once, and compare()   *)
(* decides with exact fractions whether the candidate passes.              *)
(*                                                                         *)
(* A file's contents are a version number.  An edit makes a new one, and   *)
(* what was left does not come back while the snapshot is taken: a file    *)
(* changed and changed back, or removed, put back and removed again,       *)
(* between two hashes is beyond the tool.                                  *)
(* A cell is the bytes of its flows, in units of which Capacity fill the   *)
(* link for the measured window.  Names that ProfileComposition has for    *)
(* its own state are lane_.. and gate_.. here.                             *)
(***************************************************************************)
EXTENDS Integers, Sequences, FiniteSets, FiniteSetsExt

CONSTANTS
    Files,        \* files of the tree, in the order of inventory()
    MaxTreeEdits, \* bound: edits of the tree
    Cells, Mixed, Homogeneous, Cubic,   \* the grid; which cells are mixed,
                                        \* which all-BBR, which the reference
    BaselineBytes,                      \* per cell: the recorded bytes
    Capacity,
    Outcomes      \* bound: the bytes a candidate's cell may come out with

ASSUME GateAssumption ==
    /\ Files \in Seq(STRING) /\ Len(Files) > 0
    /\ MaxTreeEdits \in Nat /\ Capacity \in Nat \ {0}
    /\ Mixed \subseteq Cells /\ Homogeneous \subseteq Cells /\ Cubic \in Cells
    /\ IsFiniteSet(Mixed) /\ Mixed # {}
    /\ BaselineBytes \in [Cells -> Seq(Nat)] /\ Outcomes \subseteq Seq(Nat)

GateLanes  == {"baseline", "candidate"}
Absent == 0
Tree   == {Files[k] : k \in 1 .. Len(Files)}

VARIABLES
    gate_pc, index,          \* main(): what it does, at which file
    source,                  \* per file: its version, or Absent
    edits,
    past,                    \* the trees that source has been since snapshot() began
    hashed, copy, after,     \* snapshot(): first hashes, copies, second hashes
    accepted,                \* a snapshot was accepted
    lane_at,                 \* per lane: what run_lane() does
    lane_child, exit,        \* per lane: its process and how it ended
    touched,                 \* per lane: the build wrote into its own source tree
    binaries,                \* per lane: benchmark binaries in its cache
    bench,                   \* the candidate's cells that compare() read
    passed, gate_error,      \* report["passed"], an exception on its way
    report                   \* report.json

snapVars == <<hashed, copy, after, accepted>>
laneVars == <<lane_at, lane_child, exit, touched, binaries>>
reportVars == <<bench, passed, gate_error, report>>
editVars == <<source, edits, past>>
gateVars == <<gate_pc, index, snapVars, laneVars, reportVars, editVars>>

NotYet == -1
Unhashed == [f \in Tree |-> NotYet]

GateInit ==
    /\ gate_pc = "verify" /\ index = 1 /\ edits = 0
    /\ source \in [Tree -> {Absent, 1}] /\ past = {source}
    /\ hashed = Unhashed /\ copy = Unhashed /\ after = Unhashed
    /\ accepted = FALSE
    /\ lane_at = [l \in GateLanes |-> "idle"]
    /\ lane_child = [l \in GateLanes |-> "none"]
    /\ exit = [l \in GateLanes |-> NotYet]
    /\ touched = [l \in GateLanes |-> FALSE]
    /\ binaries = [l \in GateLanes |-> 0]
    /\ bench = BaselineBytes /\ passed = FALSE /\ gate_error = FALSE
    /\ report = "none"

-----------------------------------------------------------------------------
(* Exact arithmetic of compare(): Fraction, as numerator and denominator.  *)

Less(a, b)  == a[1] * b[2] < b[1] * a[2]
Plus(a, b)  == <<a[1] * b[2] + b[1] * a[2], a[2] * b[2]>>

SumBytes(bytes)   == FoldSet(LAMBDA j, s : bytes[j] + s, 0, DOMAIN bytes)
SumSquares(bytes) == FoldSet(LAMBDA j, s : bytes[j] * bytes[j] + s, 0, DOMAIN bytes)

\* measure(): Jain's index of a cell, and the share of the link it used.
Jain(bytes) ==
    IF SumSquares(bytes) = 0 THEN <<0, 1>>
    ELSE <<SumBytes(bytes) * SumBytes(bytes), Len(bytes) * SumSquares(bytes)>>
Utilization(bytes) == <<SumBytes(bytes), Capacity>>

\* Both lanes have the same number of mixed cells: their means compare as the sums.
MixedSum(cells) == FoldSet(LAMBDA c, s : Plus(Jain(cells[c]), s), <<0, 1>>, Mixed)
MixedWorst(cells) ==
    Jain(cells[CHOOSE c \in Mixed : \A d \in Mixed : ~Less(Jain(cells[d]), Jain(cells[c]))])

\* Mutant of Improved: the mean may stay as it was.
NotWorse(cells) == ~Less(MixedSum(cells), MixedSum(BaselineBytes))

Improved(cells) == Less(MixedSum(BaselineBytes), MixedSum(cells))

\* The controls of compare().
Controls(cells) ==
    /\ Improved(cells)
    /\ ~Less(MixedWorst(cells), MixedWorst(BaselineBytes))
    /\ \A c \in Cells : ~Less(Utilization(cells[c]), <<95, 100>>)
    /\ \A c \in Cells : \A j \in DOMAIN cells[c] : cells[c][j] > 0
    /\ \A c \in Homogeneous : ~Less(Jain(cells[c]), <<98, 100>>)
    /\ cells[Cubic] = BaselineBytes[Cubic]

-----------------------------------------------------------------------------
(* main(): snapshot() and the preparation of the two trees.                *)

Fail == gate_error' = TRUE /\ gate_pc' = "drain"

\* The baseline's revision, the compiler and its version are the pinned ones.
Verify ==
    /\ gate_pc = "verify"
    /\ \/ gate_pc' = "hash" /\ UNCHANGED gate_error
       \/ Fail
    /\ UNCHANGED <<index, snapVars, laneVars, bench, passed, report, editVars>>

\* The next file, or the next pass from the first file on.
Step(pass, next) ==
    IF index < Len(Files) THEN index' = index + 1 /\ gate_pc' = pass
                          ELSE index' = 1 /\ gate_pc' = next

\* inventory(source): files are hashed one after the other.
Hash ==
    /\ gate_pc = "hash"
    /\ hashed' = [hashed EXCEPT ![Files[index]] = source[Files[index]]]
    /\ Step("hash", "copy")
    /\ UNCHANGED <<copy, after, accepted, laneVars, reportVars, editVars>>

\* copyfile() of the files that were there; one that is gone raises.
Copy ==
    /\ gate_pc = "copy"
    /\ IF hashed[Files[index]] = Absent
       THEN Step("copy", "rehash") /\ UNCHANGED <<copy, gate_error>>
       ELSE IF source[Files[index]] = Absent
       THEN Fail /\ UNCHANGED <<index, copy>>
       ELSE /\ copy' = [copy EXCEPT ![Files[index]] = source[Files[index]]]
            /\ Step("copy", "rehash") /\ UNCHANGED gate_error
    /\ UNCHANGED <<hashed, after, accepted, laneVars, bench, passed, report, editVars>>

Rehash ==
    /\ gate_pc = "rehash"
    /\ after' = [after EXCEPT ![Files[index]] = source[Files[index]]]
    /\ Step("rehash", "accept")
    /\ UNCHANGED <<hashed, copy, accepted, laneVars, reportVars, editVars>>

\* Mutant of Same: the source is not hashed again after the copy.
CopyOnly == \A f \in Tree : hashed[f] # Absent => copy[f] = hashed[f]

\* inventory(source) and inventory(destination), compared with the first.
Same ==
    /\ after = hashed
    /\ \A f \in Tree : hashed[f] # Absent => copy[f] = hashed[f]

\* The end of snapshot(), and of what it kept in its locals.
Accept ==
    /\ gate_pc = "accept"
    /\ IF Same
       THEN accepted' = TRUE /\ gate_pc' = "prepare" /\ UNCHANGED gate_error
       ELSE Fail /\ UNCHANGED accepted
    /\ hashed' = Unhashed /\ copy' = Unhashed /\ after' = Unhashed /\ past' = {}
    /\ UNCHANGED <<index, laneVars, bench, passed, report, source, edits>>

\* The archive of the baseline is unpacked, the common files copied into it,
\* append_grid() extends both; then the report is written for the first time.
PrepareTrees ==
    /\ gate_pc = "prepare"
    /\ \/ gate_pc' = "lanes" /\ report' = "failed" /\ UNCHANGED gate_error
       \/ Fail /\ UNCHANGED report
    /\ UNCHANGED <<index, snapVars, laneVars, bench, passed, editVars>>

-----------------------------------------------------------------------------
(* run_lane(l), in a thread of its own, and its child.                     *)

laneUnchanged == UNCHANGED <<gate_pc, index, snapVars, reportVars, editVars>>

\* The first inventory of the lane's tree, and Popen.
LaneStart(l) ==
    /\ lane_at[l] = "queued" /\ lane_at' = [lane_at EXCEPT ![l] = "wait"]
    /\ lane_child' = [lane_child EXCEPT ![l] = "running"]
    /\ UNCHANGED <<exit, touched, binaries>> /\ laneUnchanged

\* The build and the benchmark: may write into its tree, ends or never does.
LaneChildWrites(l) ==
    /\ lane_child[l] = "running" /\ ~touched[l]
    /\ touched' = [touched EXCEPT ![l] = TRUE]
    /\ UNCHANGED <<lane_at, lane_child, exit, binaries>> /\ laneUnchanged

LaneChildEnds(l) ==
    /\ lane_child[l] = "running"
    /\ lane_child' = [lane_child EXCEPT ![l] = "ended"]
    /\ \E code \in {0, 1} : exit' = [exit EXCEPT ![l] = code]
    /\ \E b \in 0 .. 2 : binaries' = [binaries EXCEPT ![l] = b]
    /\ UNCHANGED <<lane_at, touched>> /\ laneUnchanged

LaneWaited(l) ==
    /\ lane_at[l] = "wait" /\ lane_child[l] = "ended"
    /\ lane_at' = [lane_at EXCEPT ![l] = "check"]
    /\ UNCHANGED <<lane_child, exit, touched, binaries>> /\ laneUnchanged

\* wait(timeout) gives up, perhaps just as the child ends; SIGTERM, which the
\* child may heed or not.  Any other exception takes the same way out.
LaneTimeout(l) ==
    /\ lane_at[l] = "wait"
    /\ \E way \in {"grace", "raise"} : lane_at' = [lane_at EXCEPT ![l] = way]
    /\ UNCHANGED <<lane_child, exit, touched, binaries>> /\ laneUnchanged

\* Ten seconds later, or sooner: SIGKILL and the last wait.
LaneKill(l) ==
    /\ lane_at[l] \in {"grace", "raise"}
    /\ lane_child' = [lane_child EXCEPT ![l] = "ended"]
    /\ lane_at' = [lane_at EXCEPT ![l] = IF lane_at[l] = "grace" THEN "check" ELSE "failed"]
    /\ exit' = [exit EXCEPT ![l] = 124]
    /\ UNCHANGED <<touched, binaries>> /\ laneUnchanged

\* Exit status, the tree hashed again, one binary.
LaneGood(l) == exit[l] = 0 /\ ~touched[l] /\ binaries[l] = 1

LaneCheck(l) ==
    /\ lane_at[l] = "check"
    /\ lane_at' = [lane_at EXCEPT ![l] = IF LaneGood(l) THEN "good" ELSE "failed"]
    /\ UNCHANGED <<lane_child, exit, touched, binaries>> /\ laneUnchanged

-----------------------------------------------------------------------------
(* main(): the pool, compare(), and the report.                            *)

Submit ==
    /\ gate_pc = "lanes" /\ gate_pc' = "collect"
    /\ lane_at' = [l \in GateLanes |-> "queued"]
    /\ UNCHANGED <<index, snapVars, lane_child, exit, touched, binaries, reportVars, editVars>>

\* Mutant of LanesOver: the pool is left without waiting.
LanesLeft == TRUE

\* What the pool's exit waits for.
LanesOver == \A l \in GateLanes : lane_at[l] \in {"idle", "good", "failed"}

\* The results in order; an exception of the first waits in the pool's exit
\* for the second.
Collect ==
    /\ gate_pc = "collect"
    /\ \/ /\ LanesOver
          /\ \A l \in GateLanes : lane_at[l] = "good"
          /\ gate_pc' = "compare" /\ UNCHANGED gate_error
       \/ lane_at["baseline"] = "failed" /\ Fail
       \/ /\ lane_at["baseline"] = "good" /\ lane_at["candidate"] = "failed"
          /\ Fail
    /\ UNCHANGED <<index, snapVars, laneVars, bench, passed, report, editVars>>

\* compare(): either report may be missing or malformed, and the baseline's may
\* differ from the recorded bytes; all of these raise.
Compare ==
    /\ gate_pc = "compare"
    /\ \/ /\ bench' \in [Cells -> Outcomes]
          /\ passed' = Controls(bench')
          /\ gate_pc' = "print" /\ UNCHANGED gate_error
       \/ Fail /\ UNCHANGED <<bench, passed>>
    /\ UNCHANGED <<index, snapVars, laneVars, report, editVars>>

\* After the last print, or an exception in one.
Printed ==
    /\ gate_pc = "print" /\ gate_pc' = "drain" /\ gate_error' \in {gate_error, TRUE}
    /\ UNCHANGED <<index, snapVars, laneVars, bench, passed, report, editVars>>

\* KeyboardInterrupt or an error elsewhere in the try; one in the pool's exit is
\* GateAbandon, and one in the finally leaves what GateCrash leaves.
GateInterrupt ==
    /\ gate_pc \notin {"verify", "drain", "left", "done", "dead"} /\ Fail
    /\ UNCHANGED <<index, snapVars, laneVars, bench, passed, report, editVars>>

\* A pool that is left undisturbed is left when both lanes are over; then the
\* finally.
GateFinish ==
    /\ gate_pc = "drain" /\ LanesOver /\ gate_pc' = "done"
    /\ report' = IF passed THEN "passed" ELSE "failed"
    /\ UNCHANGED <<index, snapVars, laneVars, bench, passed, gate_error, editVars>>

\* Ctrl-C while the pool's exit still joins a lane: no except takes it, the finally
\* runs at once and main() is over.  The lane's thread goes on, and its child,
\* which has a session of its own.
GateAbandon ==
    /\ gate_pc = "drain" /\ ~LanesOver
    /\ gate_pc' = "left" /\ gate_error' = TRUE
    /\ report' = IF passed THEN "passed" ELSE "failed"
    /\ UNCHANGED <<index, snapVars, laneVars, bench, passed, editVars>>

\* The tool is killed, or interrupted again while Python waits for its threads.
GateCrash ==
    /\ gate_pc \notin {"done", "dead"} /\ gate_pc' = "dead"
    /\ lane_at' = [l \in GateLanes |-> "idle"]
    /\ UNCHANGED <<index, snapVars, lane_child, exit, touched, binaries, reportVars, editVars>>

-----------------------------------------------------------------------------
\* Somebody saves, creates or deletes a file of the tree; after snapshot() it
\* is read no more.
EditTree(f) ==
    /\ gate_pc \in {"hash", "copy", "rehash", "accept"}
    /\ edits < MaxTreeEdits /\ edits' = edits + 1
    /\ \E v \in {Absent, edits + 2} \ {tree[f] : tree \in past} :
          source' = [source EXCEPT ![f] = v]
    /\ past' = past \cup {source'}
    /\ UNCHANGED <<gate_pc, index, snapVars, laneVars, reportVars>>

GateMain ==
    \/ Verify \/ Hash \/ Copy \/ Rehash \/ Accept \/ PrepareTrees
    \/ Submit \/ Collect \/ Compare \/ Printed \/ GateFinish

Lane(l) == LaneStart(l) \/ LaneWaited(l) \/ LaneKill(l) \/ LaneCheck(l)

GateNext ==
    \/ GateMain \/ GateInterrupt \/ GateAbandon \/ GateCrash
    \/ \E l \in GateLanes : \/ Lane(l) \/ LaneTimeout(l)
                          \/ LaneChildWrites(l) \/ LaneChildEnds(l)
    \/ \E f \in Tree : EditTree(f)

GateSpec == GateInit /\ [][GateNext]_gateVars

-----------------------------------------------------------------------------
(* Properties.                                                             *)

\* Every field keeps its type.  When main() is over no child still runs, whichever
\* lane failed or timed out and wherever main() was interrupted before the pool's
\* exit.  Only an interrupt of that exit ends main() beside a running child, and
\* then the report it writes is a failed one.
GateTypeOK ==
    /\ gate_pc \in {"verify", "hash", "copy", "rehash", "accept", "prepare", "lanes",
               "collect", "compare", "print", "drain", "left", "done", "dead"}
    /\ index \in 1 .. Len(Files) /\ edits \in 0 .. MaxTreeEdits
    /\ \A t \in {source, hashed, copy, after} : t \in [Tree -> NotYet .. MaxTreeEdits + 1]
    /\ lane_at \in [GateLanes -> {"idle", "queued", "wait", "grace", "raise",
                                 "check", "good", "failed"}]
    /\ lane_child \in [GateLanes -> {"none", "running", "ended"}]
    /\ report \in {"none", "failed", "passed"}
    /\ gate_pc = "done" => \A l \in GateLanes : lane_child[l] # "running"
    /\ gate_pc = "left" => report = "failed"

\* A snapshot that is accepted is a tree the source really was at one moment,
\* although it is hashed and copied file by file while it is being edited.
SnapshotConsistent ==
    [][accepted' /\ ~accepted =>
         \E tree \in past : \A f \in Tree :
            IF tree[f] = Absent THEN hashed[f] = Absent ELSE copy[f] = tree[f]]_gateVars

\* What a passed report on disk means: the snapshot was accepted, both lanes
\* exited well on it and left it alone with one binary each, every flow of the
\* candidate moved, the CUBIC reference is as recorded, and some mixed cell is
\* strictly fairer than it was while the worst is no worse than the worst was.
PassMeansFairer ==
    report = "passed" =>
        /\ accepted
        /\ \A l \in GateLanes : exit[l] = 0 /\ ~touched[l] /\ binaries[l] = 1
        /\ bench[Cubic] = BaselineBytes[Cubic]
        /\ \A c \in Cells : \A j \in DOMAIN bench[c] : bench[c][j] > 0
        /\ \E c \in Mixed : Less(Jain(BaselineBytes[c]), Jain(bench[c]))
        /\ \A c \in Mixed : \E d \in Mixed : ~Less(Jain(bench[c]), Jain(BaselineBytes[d]))
=============================================================================
