-------------------------- MODULE ProfileComposition --------------------------
(***************************************************************************)
(* tools/profile-composition.py: two lanes (the released QUIC and the      *)
(* selected one) are built from recorded inputs and measured in turn, and  *)
(* report.json says whether the measurement may be used as evidence.       *)
(*                                                                         *)
(* Modelled: the threads of run_child() (main in wait4, the watchdog's     *)
(* timer, the child), the hashes taken before and after each use, errors,  *)
(* interrupts and a crash of the tool at any point, and an editor who      *)
(* changes the inputs or an installed binary meanwhile.  What the inputs   *)
(* hold is a version, and an edit makes a new one: contents that are       *)
(* changed and changed back between two hashes are beyond the tool.        *)
(***************************************************************************)
EXTENDS Integers, Sequences

CONSTANTS
    Workloads,  \* WORKLOADS, in order
    Samples,    \* samples per lane
    MaxEdits    \* bound: edits of the inputs

ASSUME CompositionAssumption ==
    /\ Workloads \in Seq(STRING) /\ Len(Workloads) > 0
    /\ Samples \in Nat \ {0} /\ MaxEdits \in Nat

Lanes   == <<"native", "selected">>
LaneSet == {"native", "selected"}
None    == -1
Foreign == -2   \* a binary overwritten after it was recorded
Killed  == 9

VARIABLES
    pc,        \* main(): what it does next
    n, k,      \* the lane being built, the sample being taken
    inputs,    \* version of the sources, the workspace and the compiler
    before,    \* capture_state() at the start
    binary,    \* per lane: the version its installed files (one per workload,
               \* one here) were built from
    recorded,  \* per lane: the same, as hashed into report["builds"]
    rows,      \* report["samples"]
    measured, error,   \* measurements_passed, error
    disk,      \* report.json: passed, and the samples in it
    at,        \* run_child(): what main does in it
    child, code,       \* the child process and how it ended
    first,     \* version of the inputs when the child started
    ran,       \* what the child was started from
    record,    \* the workload record in its log
    running, timed_out, watch, raising

mainVars  == <<pc, n, k>>
fileVars  == <<inputs, binary>>
factVars  == <<before, recorded, rows, measured, error, disk>>
childVars == <<at, child, code, first, ran, record, running, timed_out, watch, raising>>
vars == <<mainVars, fileVars, factVars, childVars>>

Slots == Samples * Len(Workloads) * 2

\* The sample loop: every workload on both lanes, the lanes in turned order
\* in every other round.
Slot(i) ==
    LET round == ((i - 1) \div (2 * Len(Workloads))) + 1
        lane  == ((i - 1) % 2) + 1
    IN  [sample   |-> round,
         workload |-> Workloads[(((i - 1) \div 2) % Len(Workloads)) + 1],
         lane     |-> IF round % 2 = 1 THEN Lanes[lane] ELSE Lanes[3 - lane]]

Init ==
    /\ pc = "prepare" /\ n = 1 /\ k = 1
    /\ inputs = 0 /\ before = None
    /\ binary = [l \in LaneSet |-> None] /\ recorded = [l \in LaneSet |-> None]
    /\ rows = <<>> /\ measured = FALSE /\ error = FALSE
    /\ disk = [passed |-> FALSE, samples |-> 0]
    /\ at = "idle" /\ child = "none" /\ code = None /\ first = None /\ ran = None
    /\ record = "none" /\ running = FALSE /\ timed_out = FALSE /\ watch = "off"
    /\ raising = FALSE

-----------------------------------------------------------------------------
(* run_child(): the child, the watchdog's thread, and main waiting.        *)

\* Popen: the child runs, and nothing watches it yet.
Spawn(image) ==
    /\ at' = "started" /\ child' = "running" /\ code' = None /\ first' = inputs
    /\ ran' = image /\ record' = "none"
    /\ running' = TRUE /\ timed_out' = FALSE /\ watch' = "off" /\ raising' = FALSE

StartWatchdog ==
    /\ at = "started" /\ at' = "wait" /\ watch' = "armed"
    /\ UNCHANGED <<mainVars, fileVars, factVars, child, code, first, ran, record,
                   running, timed_out, raising>>

\* What the log says of a workload: not one record, one that validate() raises
\* on, one with a check that fails, or one that passes them all.
Verdicts == {"none", "malformed", "wrong", "right"}

\* The child ends by itself, or never does.  A build installs a binary of what
\* it read, at any time since it started; a workload leaves its record.
ChildEnds ==
    /\ child = "running" /\ child' = "zombie"
    /\ \E c \in {0, 1} :
          /\ code' = c
          /\ IF pc = "build" /\ c = 0
             THEN \E v \in first .. inputs : binary' = [binary EXCEPT ![Lanes[n]] = v]
             ELSE UNCHANGED binary
    /\ record' \in IF pc = "sample" THEN Verdicts ELSE {"none"}
    /\ UNCHANGED <<mainVars, inputs, factVars, at, first, ran, running, timed_out,
                   watch, raising>>

\* killpg(SIGKILL): only a running child is changed by it.
Kill ==
    IF child = "running" THEN child' = "zombie" /\ code' = Killed
                         ELSE UNCHANGED <<child, code>>

Fire ==
    /\ watch = "armed" /\ watch' = "fired"
    /\ UNCHANGED <<mainVars, fileVars, factVars, at, child, code, first, ran, record,
                   running, timed_out, raising>>

\* Mutant of Expire: the watchdog marks the run and leaves the child alone.
ExpireMarksOnly ==
    /\ watch = "fired" /\ watch' = "off" /\ timed_out' = (timed_out \/ running)
    /\ UNCHANGED <<mainVars, fileVars, factVars, at, child, code, first, ran, record,
                   running, raising>>

\* expire(), under the lock.
Expire ==
    /\ watch = "fired" /\ watch' = "off"
    /\ IF running THEN timed_out' = TRUE /\ Kill
                  ELSE UNCHANGED <<timed_out, child, code>>
    /\ UNCHANGED <<mainVars, fileVars, factVars, at, first, ran, record, running, raising>>

\* wait4() returns, in the try or, after an interrupt, in its except.
WaitReturns ==
    /\ at \in {"wait", "reap"} /\ child = "zombie"
    /\ at' = "release" /\ child' = "reaped"
    /\ UNCHANGED <<mainVars, fileVars, factVars, code, first, ran, record, running,
                   timed_out, watch, raising>>

\* An exception in the try, such as KeyboardInterrupt: kill, and wait again.
\* After wait4() there is nobody left to kill or to wait for, and that raises.
WaitInterrupted ==
    /\ at \in {"wait", "release"} /\ ~raising /\ raising' = TRUE
    /\ at' = IF at = "wait" THEN "reap" ELSE at
    /\ Kill
    /\ UNCHANGED <<mainVars, fileVars, factVars, first, ran, record, running, timed_out, watch>>

\* The finally: running is cleared under the lock ...
Release ==
    /\ at = "release" /\ at' = "join" /\ running' = FALSE
    /\ UNCHANGED <<mainVars, fileVars, factVars, child, code, first, ran, record,
                   timed_out, watch, raising>>

\* Mutant of Joined: the timer is cancelled but not joined.
CancelledOnly == TRUE

\* ... then the timer is cancelled, or its thread waited for.
Joined == watch # "fired"

Join ==
    /\ at = "join" /\ Joined
    /\ watch' = IF watch = "armed" THEN "off" ELSE watch
    /\ at' = IF raising THEN "idle" ELSE "returned"
    /\ error' = (error \/ raising)
    /\ pc' = IF raising THEN "finish" ELSE pc
    /\ UNCHANGED <<n, k, fileVars, before, recorded, rows, measured, disk, child, code,
                   first, ran, record, running, timed_out, raising>>

\* An exception before the try, in its except or in its finally leaves at once:
\* the child, or the timer's thread, may still be there.
Abandon ==
    /\ at \in {"started", "reap", "release", "join"}
    /\ at' = "idle" /\ error' = TRUE /\ pc' = "finish"
    /\ UNCHANGED <<n, k, fileVars, before, recorded, rows, measured, disk, child, code,
                   first, ran, record, running, timed_out, watch, raising>>

-----------------------------------------------------------------------------
(* main()                                                                  *)

\* save()
Saved(passed) == disk' = [passed |-> passed, samples |-> Len(rows')]

\* An exception in the try of main().
Raise ==
    /\ error' = TRUE /\ pc' = "finish" /\ at' = "idle"

\* capture_state(): what the hashes of the four trees and the compiler tell of them.
Captured == inputs

\* Paths, pins and the compiler are checked and the inputs recorded; a check
\* may refuse them before or after that.
Prepare ==
    /\ pc = "prepare"
    /\ \/ before' = Captured /\ pc' = "build" /\ UNCHANGED <<at, error>>
       \/ before' \in {None, Captured} /\ Raise
    /\ rows' = rows /\ Saved(FALSE)
    /\ UNCHANGED <<n, k, fileVars, recorded, measured, child, code, first, ran, record,
                   running, timed_out, watch, raising>>

StartBuild ==
    /\ pc = "build" /\ at = "idle"
    /\ Spawn(None)
    /\ rows' = rows /\ Saved(FALSE)
    /\ UNCHANGED <<mainVars, fileVars, before, recorded, measured, error>>

\* Mutant of Fresh: the inputs are not captured again after a build.
FreshAtStart == TRUE

\* unchanged(capture_state())
Fresh == Captured = before

\* The build's end: its exit status, the hash of its binary, the inputs again.
EndBuild ==
    /\ pc = "build" /\ at = "returned"
    /\ IF timed_out \/ code # 0
       THEN Raise /\ UNCHANGED <<n, recorded>>
       ELSE /\ recorded' = [recorded EXCEPT ![Lanes[n]] = binary[Lanes[n]]]
            /\ IF ~Fresh
               THEN Raise /\ UNCHANGED n
               ELSE /\ n' = n + 1 /\ at' = "idle" /\ UNCHANGED error
                    /\ pc' = IF n < Len(Lanes) THEN "build" ELSE "check"
    /\ rows' = rows /\ Saved(FALSE)
    /\ UNCHANGED <<k, fileVars, before, measured, child, code, first, ran, record,
                   running, timed_out, watch, raising>>

\* The binary is hashed before it is started.
CheckBinary ==
    /\ pc = "check"
    /\ IF binary[Slot(k).lane] = recorded[Slot(k).lane]
       THEN pc' = "launch" /\ UNCHANGED <<error, at>>
       ELSE Raise
    /\ UNCHANGED <<n, k, fileVars, before, recorded, rows, measured, disk, child, code,
                   first, ran, record, running, timed_out, watch, raising>>

\* The row is in the report before the child runs.
Launch ==
    /\ pc = "launch" /\ pc' = "sample"
    /\ rows' = Append(rows, [slot |-> Slot(k), ran |-> None, killed |-> FALSE, passed |-> FALSE])
    /\ Spawn(binary[Slot(k).lane])
    /\ UNCHANGED <<n, k, fileVars, before, recorded, measured, error, disk>>

\* row["passed"]: exit status, watchdog, the same binary still, one record and
\* every check of validate() on it.
Passed ==
    /\ code = 0 /\ ~timed_out /\ record = "right"
    /\ binary[Slot(k).lane] = recorded[Slot(k).lane]

EndSample ==
    /\ pc = "sample" /\ at = "returned"
    /\ rows' = [rows EXCEPT ![k] = [@ EXCEPT !.ran = ran, !.killed = (code = Killed),
                                             !.passed = Passed]]
    /\ Saved(FALSE)
    /\ IF Passed
       THEN /\ k' = k + 1 /\ at' = "idle" /\ UNCHANGED error
            /\ pc' = IF k < Slots THEN "check" ELSE "summary"
       ELSE Raise /\ UNCHANGED k
    /\ UNCHANGED <<n, fileVars, before, recorded, measured, child, code, first, ran,
                   record, running, timed_out, watch, raising>>

Summary ==
    /\ pc = "summary" /\ pc' = "finish" /\ measured' = TRUE
    /\ UNCHANGED <<n, k, fileVars, before, recorded, rows, error, disk, childVars>>

\* An exception in main() outside run_child(), an interrupt included.
Interrupt ==
    /\ pc \in {"build", "check", "launch", "sample", "summary"} /\ at \in {"idle", "returned"}
    /\ Raise
    /\ UNCHANGED <<n, k, fileVars, before, recorded, rows, measured, disk, child, code,
                   first, ran, record, running, timed_out, watch, raising>>

\* The finally of main(): the inputs are captured once more, which may fail.
\* A build row that found them changed has raised already.
Finish ==
    /\ pc = "finish" /\ pc' = "done"
    /\ rows' = rows
    /\ \E captured \in BOOLEAN :
          Saved(measured /\ ~error /\ before # None /\ captured /\ Fresh)
    /\ UNCHANGED <<n, k, fileVars, before, recorded, measured, error, childVars>>

\* The tool itself is killed; report.json stays as it was last saved.
Crash ==
    /\ pc \notin {"done", "dead"} /\ pc' = "dead" /\ at' = "idle" /\ watch' = "off"
    /\ UNCHANGED <<n, k, fileVars, factVars, child, code, first, ran, record, running,
                   timed_out, raising>>

-----------------------------------------------------------------------------
(* The environment.                                                        *)

Edit ==
    /\ pc \notin {"done", "dead"} /\ inputs < MaxEdits /\ inputs' = inputs + 1
    /\ UNCHANGED <<mainVars, binary, factVars, childVars>>

Overwrite(l) ==
    /\ pc \notin {"done", "dead"} /\ recorded[l] # None
    /\ binary' = [binary EXCEPT ![l] = Foreign]
    /\ UNCHANGED <<mainVars, inputs, factVars, childVars>>

Main == \/ StartWatchdog \/ WaitReturns \/ Release \/ Join \/ Prepare \/ StartBuild \/ EndBuild
        \/ CheckBinary \/ Launch \/ EndSample \/ Summary \/ Finish

Next ==
    \/ Main \/ ChildEnds \/ Fire \/ Expire \/ WaitInterrupted \/ Abandon \/ Interrupt
    \/ Crash
    \/ Edit \/ \E l \in LaneSet : Overwrite(l)

Spec == Init /\ [][Next]_vars

\* main() runs, and the timer's thread; nobody makes a child end.
FairSpec == Spec /\ WF_vars(Main) /\ WF_vars(Fire) /\ WF_vars(Expire)

-----------------------------------------------------------------------------
(* Properties.                                                             *)

\* Every field keeps its type, and where main() goes on no thread of an earlier
\* run_child() is left that could still kill or mark the next run.
TypeOK ==
    /\ pc \in {"prepare", "build", "check", "launch", "sample", "summary", "finish",
               "done", "dead"}
    /\ n \in 1 .. Len(Lanes) + 1 /\ k \in 1 .. Slots + 1
    /\ inputs \in 0 .. MaxEdits /\ before \in None .. MaxEdits
    /\ binary \in [LaneSet -> Foreign .. MaxEdits]
    /\ recorded \in [LaneSet -> None .. MaxEdits]
    /\ Len(rows) <= Slots /\ disk.samples <= Len(rows)
    /\ child \in {"none", "running", "zombie", "reaped"}
    /\ at \in {"idle", "started", "wait", "reap", "release", "join", "returned"}
    /\ at \in {"idle", "returned"} /\ pc \notin {"finish", "done", "dead"} => watch = "off"

\* The evidence is what it says: a report that passed holds every sample of
\* both lanes in its turned order, and a sample that passed ended by itself and
\* ran a binary built from the inputs recorded at the start, whoever edited
\* inputs or binaries in between and wherever the tool was interrupted.
Honest ==
    /\ \A i \in 1 .. Len(rows) :
          rows[i].passed => rows[i].ran = before /\ ~rows[i].killed
    /\ disk.passed => /\ disk.samples = Slots
                      /\ \A i \in 1 .. Slots : rows[i].passed /\ rows[i].slot = Slot(i)

\* A child that hangs does not hang the tool: it always ends.
Ends == <>(pc \in {"done", "dead"})
=============================================================================
