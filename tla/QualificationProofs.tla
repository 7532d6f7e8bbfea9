------------------------- MODULE QualificationProofs -------------------------
(***************************************************************************)
(* Theorems about the two qualification tools.  ProfileComposition, for    *)
(* every list of workloads and any number of samples and edits: no thread  *)
(* of one run_child() reaches into the next, and a report that passed is   *)
(* the evidence it claims to be.  FairnessGate, for every grid, every tree *)
(* and any number of edits: only an interrupted exit of its pool leaves a  *)
(* child running, an accepted snapshot is a tree that was, and a passed    *)
(* report means a fairer one.                                              *)
(***************************************************************************)
EXTENDS ProfileComposition, FairnessGate, SequenceTheorems, FiniteSetTheorems,
        NaturalsInduction, WellFoundedInduction, TLAPS

Row == [slot : {Slot(i) : i \in 1 .. Slots}, ran : Foreign .. MaxEdits,
        killed : BOOLEAN, passed : BOOLEAN]

Over == {"finish", "done", "dead"}
Lit  == {"check", "launch", "sample", "summary"}   \* both lanes are built

\* The types TypeOK leaves open.
FieldsOK ==
    /\ rows \in Seq(Row) /\ first \in None .. MaxEdits /\ ran \in Foreign .. MaxEdits
    /\ watch \in {"off", "armed", "fired"} /\ disk \in [passed : BOOLEAN, samples : Nat]
    /\ measured \in BOOLEAN /\ error \in BOOLEAN /\ raising \in BOOLEAN

\* Where main() is when run_child() is where it is, and how far the report got.
ControlInv ==
    /\ pc = "prepare" => at = "idle" /\ n = 1
    /\ pc \in {"prepare", "build"} => k = 1 /\ rows = <<>>
    /\ pc = "build" => n \in {1, 2}
    /\ pc \in {"check", "launch", "summary"} \cup Over => at = "idle"
    /\ pc = "sample" => at # "idle"
    /\ pc \in {"check", "launch"} => k <= Slots /\ Len(rows) = k - 1
    /\ pc = "sample" => k <= Slots /\ Len(rows) = k
    /\ pc = "summary" \/ measured => Len(rows) = Slots
    /\ measured => pc \in Over
    /\ disk.passed => pc = "done" /\ measured /\ disk.samples = Slots

\* Every row is of its slot, and main() goes on only after one that passed.
RowsInv ==
    /\ \A i \in 1 .. Len(rows) : rows[i].slot = Slot(i)
    /\ pc \in {"check", "launch", "sample"} => \A i \in 1 .. k - 1 : rows[i].passed
    /\ pc = "summary" \/ measured => \A i \in 1 .. Slots : rows[i].passed

\* What the versions of inputs and binaries are while main() goes on: a binary
\* that was recorded is of the inputs recorded before it, or overwritten.
FilesInv ==
    /\ pc \notin Over \cup {"prepare"} => before \in 0 .. inputs
    /\ pc = "prepare" => before = None /\ \A l \in LaneSet : recorded[l] = None
    /\ pc = "build" => \A j \in {1, 2} :
          IF j < n THEN recorded[Lanes[j]] = before /\ binary[Lanes[j]] \in {before, Foreign}
                   ELSE recorded[Lanes[j]] = None
    /\ pc = "build" /\ at # "idle" =>
          before <= first /\ (code = 0 => binary[Lanes[n]] \in first .. inputs)
    /\ pc \in Lit => \A l \in LaneSet :
          recorded[l] = before /\ binary[l] \in {before, Foreign}
    /\ pc = "sample" => /\ ran \in {before, Foreign}
                        /\ ran = Foreign => binary[Slot(k).lane] = Foreign

RowsHonest ==
    \A i \in 1 .. Len(rows) : rows[i].passed => rows[i].ran = before /\ ~rows[i].killed

PInv == TypeOK /\ FieldsOK /\ ControlInv /\ RowsInv /\ FilesInv /\ RowsHonest

-----------------------------------------------------------------------------
(* The constants.                                                          *)

\* There is a sample to take.
LEMMA SlotsFacts == Slots \in Nat /\ Slots >= 1
<1>1. Len(Workloads) \in Nat /\ Len(Workloads) >= 1 /\ Samples \in Nat /\ Samples >= 1
  BY CompositionAssumption
<1>2. \A x, y \in Nat : x >= 1 /\ y >= 1 => x * y \in Nat /\ x * y >= 1
  OBVIOUS
<1>3. Samples * Len(Workloads) \in Nat /\ Samples * Len(Workloads) >= 1
  BY <1>1, <1>2
<1> QED BY <1>2, <1>3 DEF Slots

\* The lanes, by number and by name.
LEMMA LaneFacts ==
    /\ Lanes[1] = "native" /\ Lanes[2] = "selected" /\ Len(Lanes) = 2
    /\ \A j \in {1, 2} : Lanes[j] \in LaneSet
BY DEF Lanes, LaneSet

\* A slot is one of a lane.
LEMMA SlotLane ==
    ASSUME NEW i \in Nat, i >= 1
    PROVE  Slot(i).lane \in LaneSet
<1> DEFINE lane  == ((i - 1) % 2) + 1
           round == ((i - 1) \div (2 * Len(Workloads))) + 1
<1>1. lane \in {1, 2} /\ 3 - lane \in {1, 2}
  OBVIOUS
<1>2. Slot(i).lane = IF round % 2 = 1 THEN Lanes[lane] ELSE Lanes[3 - lane]
  BY DEF Slot
<1> HIDE DEF lane, round
<1> QED BY <1>1, <1>2, LaneFacts

-----------------------------------------------------------------------------
(* Steps of run_child().                                                   *)

Ats == {"idle", "started", "wait", "reap", "release", "join", "returned"}

\* A step inside run_child(), or of the watchdog: main() stays where it is, no
\* child ends well, and where main() goes on the timer is off.
LEMMA Inside ==
    ASSUME PInv, UNCHANGED <<mainVars, fileVars, factVars, first, ran>>,
           at' \in Ats, at' = "idle" <=> at = "idle",
           at' \in {"idle", "returned"} /\ pc \notin Over => watch' = "off",
           code' = code \/ code' # 0,
           child' \in {"none", "running", "zombie", "reaped"},
           watch' \in {"off", "armed", "fired"}, raising' \in BOOLEAN
    PROVE  PInv'
<1> USE DEF PInv, mainVars, fileVars, factVars
<1>1. TypeOK' /\ FieldsOK'
  BY DEF TypeOK, FieldsOK, Ats, Over
<1>2. ControlInv' /\ RowsInv' /\ RowsHonest'
  BY DEF ControlInv, RowsInv, RowsHonest
<1>3. FilesInv'
  BY DEF FilesInv
<1> QED BY <1>1, <1>2, <1>3

\* killpg() ends no child well.
LEMMA KillFacts ==
    ASSUME PInv, Kill
    PROVE  /\ child' \in {"none", "running", "zombie", "reaped"}
           /\ code' = code \/ code' # 0
BY DEF PInv, TypeOK, Kill, Killed

\* The watchdog is set.
LEMMA StepStartWatchdog == PInv /\ StartWatchdog => PInv'
BY Inside DEF PInv, TypeOK, FieldsOK, StartWatchdog, Ats

\* Its time is over.
LEMMA StepFire == PInv /\ Fire => PInv'
BY Inside DEF PInv, TypeOK, FieldsOK, Fire, Ats, Over

\* It kills, unless the child is gone.
LEMMA StepExpire == PInv /\ Expire => PInv'
<1> SUFFICES ASSUME PInv, Expire PROVE PInv'
  OBVIOUS
<1>1. /\ child' \in {"none", "running", "zombie", "reaped"}
      /\ code' = code \/ code' # 0
  BY KillFacts DEF Expire, PInv, TypeOK
<1> QED BY <1>1, Inside DEF PInv, TypeOK, FieldsOK, Expire, Ats

\* The child is waited for.
LEMMA StepWaitReturns == PInv /\ WaitReturns => PInv'
BY Inside DEF PInv, FieldsOK, WaitReturns, Ats

\* The wait is interrupted.
LEMMA StepWaitInterrupted == PInv /\ WaitInterrupted => PInv'
BY KillFacts, Inside DEF PInv, FieldsOK, WaitInterrupted, Ats

\* The run is over for the watchdog.
LEMMA StepRelease == PInv /\ Release => PInv'
BY Inside DEF PInv, TypeOK, FieldsOK, Release, Ats

-----------------------------------------------------------------------------
(* main() gives up, or is killed.                                          *)

\* From there on only the rows and the report count.
LEMMA Stops ==
    ASSUME PInv, pc \notin {"done", "dead"}, pc' \in {"finish", "dead"}, at' = "idle",
           TypeOK', FieldsOK', ~disk'.passed, measured' = measured,
           \A i \in 1 .. Len(rows') : rows'[i].slot = Slot(i), RowsHonest',
           measured => rows' = rows
    PROVE  PInv'
<1> USE DEF PInv
<1>1. ControlInv'
  BY DEF ControlInv, Over
<1>2. RowsInv'
  BY DEF RowsInv
<1>3. FilesInv'
  BY DEF FilesInv, Over, Lit
<1> QED BY <1>1, <1>2, <1>3

\* It gives up where it is, with the report as it is.
LEMMA GivesUp ==
    ASSUME PInv, pc \notin {"done", "dead"}, pc' \in {"finish", "dead"}, at' = "idle",
           UNCHANGED <<n, k, fileVars, before, recorded, rows, measured, disk, child, first, ran>>,
           error' \in BOOLEAN, watch' \in {"off", "armed", "fired"}, raising' \in BOOLEAN
    PROVE  PInv'
<1> USE DEF PInv
<1>1. TypeOK' /\ FieldsOK'
  BY DEF TypeOK, FieldsOK, fileVars
<1>2. ~disk'.passed
  BY DEF ControlInv
<1>3. (\A i \in 1 .. Len(rows') : rows'[i].slot = Slot(i)) /\ RowsHonest'
  BY DEF RowsInv, RowsHonest
<1> QED BY <1>1, <1>2, <1>3, Stops

\* The end of run_child().
LEMMA StepJoin == PInv /\ Join => PInv'
<1> SUFFICES ASSUME PInv, Join PROVE PInv'
  OBVIOUS
<1>1. CASE raising
  BY <1>1, GivesUp DEF PInv, FieldsOK, Join, ControlInv, Over
<1>2. CASE ~raising
  <2>1. /\ at = "join" /\ at' = "returned" /\ pc' = pc /\ watch' = "off"
        /\ error' = error
    BY <1>2 DEF PInv, FieldsOK, Join, Joined
  <2> QED BY <2>1, Inside DEF PInv, TypeOK, FieldsOK, Join, mainVars, factVars, Ats
<1> QED BY <1>1, <1>2

\* run_child() is left by an exception.
LEMMA StepAbandon == PInv /\ Abandon => PInv'
BY GivesUp DEF PInv, FieldsOK, Abandon, ControlInv, Over

\* main() is interrupted.
LEMMA StepInterrupt == PInv /\ Interrupt => PInv'
BY GivesUp DEF PInv, FieldsOK, Interrupt, Raise

\* The tool is killed.
LEMMA StepCrash == PInv /\ Crash => PInv'
BY GivesUp DEF PInv, FieldsOK, Crash, factVars

-----------------------------------------------------------------------------
(* The environment.                                                        *)

\* The inputs are edited.
LEMMA StepEdit == PInv /\ Edit => PInv'
<1> SUFFICES ASSUME PInv, Edit PROVE PInv'
  OBVIOUS
<1> USE CompositionAssumption DEF PInv, mainVars, factVars, childVars
<1>1. /\ inputs' = inputs + 1 /\ inputs < MaxEdits /\ UNCHANGED <<mainVars, binary, factVars, childVars>>
  BY DEF Edit
<1>2. inputs \in Int /\ inputs' \in 0 .. MaxEdits /\ inputs <= inputs'
  BY <1>1 DEF TypeOK
<1>3. TypeOK' /\ FieldsOK'
  BY <1>1, <1>2 DEF TypeOK, FieldsOK
<1>4. ControlInv' /\ RowsInv' /\ RowsHonest'
  BY <1>1 DEF ControlInv, RowsInv, RowsHonest
<1>5. /\ before \in Int /\ first \in Int
      /\ \A x \in Int : (x \in 0 .. inputs => x \in 0 .. inputs')
                      /\ (x \in first .. inputs => x \in first .. inputs')
  BY <1>2 DEF TypeOK, FieldsOK, None
<1>6. \A x : x \in first .. inputs => x \in first .. inputs'
  BY <1>5
<1>7. FilesInv'
  BY <1>1, <1>5, <1>6 DEF FilesInv
<1> QED BY <1>3, <1>4, <1>7

\* An installed binary is overwritten.
LEMMA StepOverwrite ==
    ASSUME PInv, NEW l \in LaneSet, Overwrite(l)
    PROVE  PInv'
<1> USE DEF PInv, mainVars, factVars, childVars
<1>1. /\ recorded[l] # None /\ binary' = [binary EXCEPT ![l] = Foreign]
      /\ UNCHANGED <<mainVars, inputs, factVars, childVars>>
  BY DEF Overwrite
<1>2. /\ binary' \in [LaneSet -> Foreign .. MaxEdits] /\ binary'[l] = Foreign
      /\ \A m \in LaneSet : m # l => binary'[m] = binary[m]
  BY <1>1, CompositionAssumption DEF TypeOK, Foreign
<1>3. TypeOK' /\ FieldsOK' /\ ControlInv' /\ RowsInv' /\ RowsHonest'
  BY <1>1, <1>2 DEF TypeOK, FieldsOK, ControlInv, RowsInv, RowsHonest
<1>4. pc = "build" => n \in {1, 2} /\ Lanes[n] # l
  BY <1>1 DEF ControlInv, FilesInv
<1>5. pc = "sample" => Slot(k).lane \in LaneSet
  BY SlotLane DEF TypeOK
<1>6. FilesInv'
  <2>1. (pc = "build" => \A j \in {1, 2} :
           IF j < n THEN recorded[Lanes[j]] = before /\ binary[Lanes[j]] \in {before, Foreign}
                    ELSE recorded[Lanes[j]] = None)'
    BY <1>1, <1>2, LaneFacts DEF FilesInv
  <2>2. (pc = "build" /\ at # "idle" =>
           before <= first /\ (code = 0 => binary[Lanes[n]] \in first .. inputs))'
    BY <1>1, <1>2, <1>4, LaneFacts DEF FilesInv
  <2>3. (pc \in Lit => \A m \in LaneSet :
           recorded[m] = before /\ binary[m] \in {before, Foreign})'
    BY <1>1, <1>2 DEF FilesInv
  <2>4. (pc = "sample" => /\ ran \in {before, Foreign}
                          /\ ran = Foreign => binary[Slot(k).lane] = Foreign)'
    BY <1>1, <1>2, <1>5 DEF FilesInv
  <2> QED BY <1>1, <2>1, <2>2, <2>3, <2>4 DEF FilesInv
<1> QED BY <1>3, <1>6

\* The child ends: a build that ends well has read versions since it started.
LEMMA StepChildEnds == PInv /\ ChildEnds => PInv'
<1> SUFFICES ASSUME PInv, ChildEnds PROVE PInv'
  OBVIOUS
<1> USE DEF PInv, mainVars, factVars
<1>1. /\ child' = "zombie"
      /\ UNCHANGED <<mainVars, inputs, factVars, at, first, ran, running, timed_out,
                     watch, raising>>
  BY DEF ChildEnds
<1>2. PICK c \in {0, 1} :
          /\ code' = c
          /\ IF pc = "build" /\ c = 0
             THEN \E v \in first .. inputs : binary' = [binary EXCEPT ![Lanes[n]] = v]
             ELSE UNCHANGED binary
  BY DEF ChildEnds
<1>3. CASE pc = "build" /\ c = 0
  <2>1. PICK v \in first .. inputs : binary' = [binary EXCEPT ![Lanes[n]] = v]
    BY <1>2, <1>3
  <2>2. n \in {1, 2} /\ Lanes[n] \in LaneSet
    BY <1>3, LaneFacts DEF ControlInv
  <2>3. v \in Foreign .. MaxEdits
    BY CompositionAssumption DEF TypeOK, FieldsOK, Foreign, None
  <2>4. /\ binary' \in [LaneSet -> Foreign .. MaxEdits] /\ binary'[Lanes[n]] = v
        /\ \A m \in LaneSet : m # Lanes[n] => binary'[m] = binary[m]
    BY <2>1, <2>2, <2>3 DEF TypeOK
  <2>5. TypeOK' /\ FieldsOK' /\ ControlInv' /\ RowsInv' /\ RowsHonest'
    BY <1>1, <2>4 DEF TypeOK, FieldsOK, ControlInv, RowsInv, RowsHonest
  <2>6. \A j \in {1, 2} : j < n => Lanes[j] # Lanes[n] /\ Lanes[j] \in LaneSet
    BY <2>2, LaneFacts
  <2>7. FilesInv'
    BY <1>1, <1>3, <2>1, <2>4, <2>6 DEF FilesInv, Lit
  <2> QED BY <2>5, <2>7
<1>4. CASE ~(pc = "build" /\ c = 0)
  <2>1. UNCHANGED binary
    BY <1>2, <1>4
  <2>2. TypeOK' /\ FieldsOK' /\ ControlInv' /\ RowsInv' /\ RowsHonest'
    BY <1>1, <2>1 DEF TypeOK, FieldsOK, ControlInv, RowsInv, RowsHonest
  <2>3. FilesInv'
    BY <1>1, <1>2, <1>4, <2>1 DEF FilesInv
  <2> QED BY <2>2, <2>3
<1> QED BY <1>3, <1>4

-----------------------------------------------------------------------------
(* Steps of main().                                                        *)

\* A step that saves a report that has not passed, of the rows there are.
LEMMA SavedFacts ==
    ASSUME PInv, rows' = rows, Saved(FALSE)
    PROVE  /\ disk' \in [passed : BOOLEAN, samples : Nat] /\ ~disk'.passed
           /\ disk'.samples <= Len(rows')
<1>1. rows \in Seq(Row)
  BY DEF PInv, FieldsOK
<1>2. Len(rows) \in Nat /\ Len(rows) <= Len(rows)
  BY <1>1
<1> QED BY <1>2 DEF Saved

\* The inputs are recorded, or refused.
LEMMA StepPrepare == PInv /\ Prepare => PInv'
<1> SUFFICES ASSUME PInv, Prepare PROVE PInv'
  OBVIOUS
<1> USE CompositionAssumption DEF PInv
<1>1. /\ pc = "prepare" /\ rows' = rows /\ rows = <<>> /\ at = "idle" /\ n = 1
      /\ UNCHANGED <<n, k, inputs, binary, recorded, measured, child, code, first, ran, record,
                     running, timed_out, watch, raising>>
      /\ before' \in {None, inputs} /\ error' \in BOOLEAN /\ at' = at
      /\ (pc' = "build" /\ before' = inputs) \/ pc' = "finish"
  BY DEF Prepare, Raise, Captured, ControlInv, fileVars, FieldsOK
<1>2. /\ disk' \in [passed : BOOLEAN, samples : Nat] /\ ~disk'.passed
      /\ disk'.samples <= Len(rows')
  BY <1>1, SavedFacts DEF Prepare
<1>3. inputs \in 0 .. inputs /\ before' \in None .. MaxEdits
  BY <1>1 DEF TypeOK, None
<1>4. TypeOK' /\ FieldsOK'
  BY <1>1, <1>2, <1>3 DEF TypeOK, FieldsOK, Over
<1>5. RowsHonest' /\ (\A i \in 1 .. Len(rows') : rows'[i].slot = Slot(i))
  BY <1>1 DEF RowsHonest
<1>6. CASE pc' = "finish"
  BY <1>1, <1>2, <1>4, <1>5, <1>6, Stops
<1>7. CASE pc' = "build" /\ before' = inputs
  <2>1. ControlInv'
    BY <1>1, <1>2, <1>7 DEF ControlInv, Over
  <2>2. RowsInv'
    BY <1>1, <1>5, <1>7 DEF RowsInv, ControlInv, Over
  <2>3. FilesInv'
    BY <1>1, <1>3, <1>7, LaneFacts DEF FilesInv, Lit
  <2> QED BY <1>4, <1>5, <2>1, <2>2, <2>3
<1> QED BY <1>1, <1>6, <1>7

\* A build is started.
LEMMA StepStartBuild == PInv /\ StartBuild => PInv'
<1> SUFFICES ASSUME PInv, StartBuild PROVE PInv'
  OBVIOUS
<1> USE DEF PInv
<1>1. /\ pc = "build" /\ pc' = pc /\ rows' = rows /\ Saved(FALSE)
      /\ UNCHANGED <<n, k, inputs, binary, before, recorded, measured, error>>
      /\ at' = "started" /\ child' = "running" /\ code' = None /\ first' = inputs
      /\ ran' = None /\ watch' = "off" /\ raising' = FALSE
  BY DEF StartBuild, Spawn, mainVars, fileVars
<1>2. /\ disk' \in [passed : BOOLEAN, samples : Nat] /\ ~disk'.passed
      /\ disk'.samples <= Len(rows')
  BY <1>1, SavedFacts
<1>3. inputs \in None .. MaxEdits /\ None \in Foreign .. MaxEdits /\ None # 0
  BY CompositionAssumption DEF TypeOK, None, Foreign
<1>4. TypeOK' /\ FieldsOK'
  BY <1>1, <1>2, <1>3 DEF TypeOK, FieldsOK, Over
<1>5. ControlInv'
  BY <1>1, <1>2 DEF ControlInv, Over
<1>6. RowsInv' /\ RowsHonest'
  BY <1>1 DEF RowsInv, RowsHonest
<1>7. FilesInv'
  BY <1>1, <1>3 DEF FilesInv, Over, Lit, TypeOK
<1> QED BY <1>4, <1>5, <1>6, <1>7

\* A build's end: what is recorded was built from the inputs of the start, when
\* they are still the same.
LEMMA StepEndBuild == PInv /\ EndBuild => PInv'
<1> SUFFICES ASSUME PInv, EndBuild PROVE PInv'
  OBVIOUS
<1> USE DEF PInv
<1>1. /\ pc = "build" /\ at = "returned" /\ rows' = rows /\ Saved(FALSE)
      /\ UNCHANGED <<k, inputs, binary, before, measured, child, code, first, ran, record,
                     running, timed_out, watch, raising>>
  BY DEF EndBuild, fileVars
<1>2. /\ disk' \in [passed : BOOLEAN, samples : Nat] /\ ~disk'.passed
      /\ disk'.samples <= Len(rows')
  BY <1>1, SavedFacts
<1>3. n \in {1, 2} /\ Lanes[n] \in LaneSet /\ k = 1 /\ rows = <<>> /\ watch = "off"
  BY <1>1, LaneFacts DEF ControlInv, TypeOK, Over
<1>4. RowsHonest' /\ (\A i \in 1 .. Len(rows') : rows'[i].slot = Slot(i))
  BY <1>1, <1>3 DEF RowsHonest
<1>5. CASE timed_out \/ code # 0
  <2>1. /\ error' = TRUE /\ pc' = "finish" /\ at' = "idle" /\ UNCHANGED <<n, recorded>>
    BY <1>5 DEF EndBuild, Raise
  <2>2. TypeOK' /\ FieldsOK'
    BY <1>1, <1>2, <2>1 DEF TypeOK, FieldsOK, Over
  <2> QED BY <1>1, <1>2, <1>4, <2>1, <2>2, Stops
<1>6. CASE ~timed_out /\ code = 0
  <2> DEFINE v == binary[Lanes[n]]
  <2>1. recorded' = [recorded EXCEPT ![Lanes[n]] = v] /\ v \in first .. inputs
    BY <1>1, <1>6 DEF EndBuild, FilesInv
  <2>2. v \in None .. MaxEdits
    BY <2>1, CompositionAssumption DEF FieldsOK, TypeOK, None
  <2>3. /\ recorded' \in [LaneSet -> None .. MaxEdits] /\ recorded'[Lanes[n]] = v
        /\ \A m \in LaneSet : m # Lanes[n] => recorded'[m] = recorded[m]
    BY <1>3, <2>1, <2>2 DEF TypeOK
  <2>4. CASE ~Fresh
    <3>1. /\ error' = TRUE /\ pc' = "finish" /\ at' = "idle" /\ n' = n
      BY <1>6, <2>4 DEF EndBuild, Raise
    <3>2. TypeOK' /\ FieldsOK'
      BY <1>1, <1>2, <2>3, <3>1 DEF TypeOK, FieldsOK, Over
    <3> QED BY <1>1, <1>2, <1>4, <3>1, <3>2, Stops
  <2>5. CASE Fresh
    <3>1. /\ n' = n + 1 /\ at' = "idle" /\ error' = error
          /\ pc' = IF n < 2 THEN "build" ELSE "check"
      BY <1>6, <2>5, LaneFacts DEF EndBuild
    <3>2. v = before
      <4>1. inputs = before /\ before <= first
        BY <1>1, <2>5 DEF Fresh, Captured, FilesInv
      <4> QED BY <2>1, <4>1 DEF FieldsOK, TypeOK, None
    <3>3. TypeOK' /\ FieldsOK'
      BY <1>1, <1>2, <1>3, <2>3, <3>1, LaneFacts DEF TypeOK, FieldsOK, Over
    <3>4. ControlInv'
      <4>1. Len(rows) = 0 /\ k = 1 /\ k <= Slots /\ Len(rows) = k - 1
        BY <1>3, SlotsFacts
      <4> QED BY <1>1, <1>2, <1>3, <3>1, <4>1 DEF ControlInv, Over
    <3>5. RowsInv'
      BY <1>1, <1>3, <1>4, <3>1 DEF RowsInv, ControlInv, Over
    <3>6. before' \in 0 .. inputs'
      BY <1>1 DEF FilesInv, Over
    <3> HIDE DEF v
    <3>7. FilesInv'
      <4>1. CASE n = 1
        BY <1>1, <2>3, <3>1, <3>2, <3>6, <4>1, LaneFacts DEF FilesInv, Lit, Over, v, LaneSet
      <4>2. CASE n = 2
        BY <1>1, <2>3, <3>1, <3>2, <3>6, <4>2, LaneFacts DEF FilesInv, Lit, Over, v, LaneSet
      <4> QED BY <1>3, <4>1, <4>2
    <3> QED BY <1>4, <3>3, <3>4, <3>5, <3>7
  <2> QED BY <2>4, <2>5
<1> QED BY <1>5, <1>6

\* The binary is hashed before a sample.
LEMMA StepCheckBinary == PInv /\ CheckBinary => PInv'
<1> SUFFICES ASSUME PInv, CheckBinary PROVE PInv'
  OBVIOUS
<1> USE DEF PInv
<1>1. /\ pc = "check"
      /\ UNCHANGED <<n, k, inputs, binary, before, recorded, rows, measured, disk, child, code,
                     first, ran, record, running, timed_out, watch, raising>>
  BY DEF CheckBinary, fileVars
<1>2. CASE pc' = "launch" /\ UNCHANGED <<error, at>>
  <2>1. TypeOK' /\ FieldsOK'
    BY <1>1, <1>2 DEF TypeOK, FieldsOK, Over
  <2>2. ControlInv'
    BY <1>1, <1>2 DEF ControlInv, Over
  <2>3. RowsInv' /\ RowsHonest'
    BY <1>1, <1>2 DEF RowsInv, RowsHonest
  <2>4. FilesInv'
    BY <1>1, <1>2 DEF FilesInv, Over, Lit
  <2> QED BY <2>1, <2>2, <2>3, <2>4
<1>3. CASE Raise
  BY <1>1, <1>3, GivesUp DEF Raise, FieldsOK, fileVars
<1> QED BY <1>2, <1>3 DEF CheckBinary

\* A row goes into the report and its child is started.
LEMMA StepLaunch == PInv /\ Launch => PInv'
<1> SUFFICES ASSUME PInv, Launch PROVE PInv'
  OBVIOUS
<1> USE DEF PInv
<1> DEFINE row == [slot |-> Slot(k), ran |-> None, killed |-> FALSE, passed |-> FALSE]
           image == binary[Slot(k).lane]
<1>1. /\ pc = "launch" /\ pc' = "sample" /\ rows' = Append(rows, row)
      /\ UNCHANGED <<n, k, inputs, binary, before, recorded, measured, error, disk>>
      /\ at' = "started" /\ child' = "running" /\ code' = None /\ first' = inputs
      /\ ran' = image /\ watch' = "off" /\ raising' = FALSE
  BY DEF Launch, Spawn, fileVars
<1>2. k \in Nat /\ k >= 1 /\ k <= Slots /\ Len(rows) = k - 1 /\ rows \in Seq(Row) /\ Slots \in Nat
  BY <1>1, SlotsFacts DEF ControlInv, TypeOK, FieldsOK
<1>3. Slot(k).lane \in LaneSet
  BY <1>2, SlotLane
<1>4. row \in Row
  BY <1>2, CompositionAssumption DEF Row, None, Foreign
<1>5. row.slot = Slot(k) /\ ~row.passed
  OBVIOUS
<1> HIDE DEF row
<1>6. /\ rows' \in Seq(Row) /\ Len(rows') = k /\ rows'[k] = row
      /\ \A i \in 1 .. k - 1 : rows'[i] = rows[i]
  BY <1>1, <1>2, <1>4
<1>7. inputs \in None .. MaxEdits /\ image \in Foreign .. MaxEdits
  BY <1>3, CompositionAssumption DEF TypeOK, None
<1> HIDE DEF image
<1>8. TypeOK' /\ FieldsOK'
  <2>1. Len(rows') <= Slots /\ disk'.samples <= Len(rows')
    BY <1>1, <1>2, <1>6 DEF TypeOK, FieldsOK
  <2>2. TypeOK'
    BY <1>1, <2>1 DEF TypeOK, Over
  <2>3. FieldsOK'
    BY <1>1, <1>6, <1>7 DEF FieldsOK
  <2> QED BY <2>2, <2>3
<1>9. ControlInv'
  BY <1>1, <1>2, <1>6 DEF ControlInv, Over
<1>10. RowsInv'
  BY <1>1, <1>2, <1>5, <1>6 DEF RowsInv, ControlInv, Over
<1>11. RowsHonest'
  BY <1>1, <1>2, <1>5, <1>6 DEF RowsHonest
<1>12. image \in {before, Foreign}
  BY <1>1, <1>3 DEF FilesInv, Lit, image
<1>13. FilesInv'
  BY <1>1, <1>12 DEF FilesInv, Over, Lit, image
<1> QED BY <1>8, <1>9, <1>10, <1>11, <1>13

\* A sample's end: it passed only on the binary that was built at the start.
LEMMA StepEndSample == PInv /\ EndSample => PInv'
<1> SUFFICES ASSUME PInv, EndSample PROVE PInv'
  OBVIOUS
<1> USE DEF PInv
<1> DEFINE row == [rows[k] EXCEPT !.ran = ran, !.killed = (code = Killed), !.passed = Passed]
<1>1. /\ pc = "sample" /\ at = "returned" /\ rows' = [rows EXCEPT ![k] = row] /\ Saved(FALSE)
      /\ UNCHANGED <<n, inputs, binary, before, recorded, measured, child, code, first, ran,
                     record, running, timed_out, watch, raising>>
  BY DEF EndSample, fileVars
<1>2. k \in Nat /\ k >= 1 /\ k <= Slots /\ Len(rows) = k /\ rows \in Seq(Row) /\ Slots \in Nat
  BY <1>1, SlotsFacts DEF ControlInv, TypeOK, FieldsOK
<1>3. Slot(k).lane \in LaneSet
  BY <1>2, SlotLane
<1>4. rows[k] \in Row /\ rows[k].slot = Slot(k)
  BY <1>2 DEF RowsInv
<1>5. ran \in Foreign .. MaxEdits /\ Passed \in BOOLEAN
  BY DEF FieldsOK, Passed
<1>6. /\ row \in Row /\ row.slot = Slot(k) /\ row.ran = ran /\ row.killed = (code = Killed)
      /\ row.passed = Passed
  <2> DEFINE r1 == [rows[k] EXCEPT !.ran = ran]
             r2 == [r1 EXCEPT !.killed = (code = Killed)]
  <2>1. r1 \in Row /\ r1.slot = Slot(k) /\ r1.ran = ran
    BY <1>4, <1>5 DEF Row
  <2>2. row = [r2 EXCEPT !.passed = Passed]
    OBVIOUS
  <2> HIDE DEF r1, row
  <2>3. r2 \in Row /\ r2.slot = Slot(k) /\ r2.ran = ran /\ r2.killed = (code = Killed)
    BY <2>1 DEF Row
  <2> HIDE DEF r2
  <2> QED BY <1>5, <2>2, <2>3 DEF Row
<1> HIDE DEF row
<1>7. /\ rows' \in Seq(Row) /\ Len(rows') = k /\ rows'[k] = row
      /\ \A i \in 1 .. k - 1 : rows'[i] = rows[i]
  BY <1>1, <1>2, <1>6
<1>s. \A i \in 1 .. k : i = k \/ i \in 1 .. k - 1
  BY <1>2
<1>8. /\ disk' \in [passed : BOOLEAN, samples : Nat] /\ ~disk'.passed
      /\ disk'.samples <= Len(rows')
  <2>1. disk' = [passed |-> FALSE, samples |-> k]
    BY <1>1, <1>7 DEF Saved
  <2> QED BY <1>2, <1>7, <2>1
<1>9. Passed => ran = before /\ ~(code = Killed)
  <2> SUFFICES ASSUME Passed PROVE ran = before /\ code # Killed
    OBVIOUS
  <2>1. code = 0 /\ binary[Slot(k).lane] = recorded[Slot(k).lane]
    BY DEF Passed
  <2>2. recorded[Slot(k).lane] = before /\ before # Foreign
    BY <1>1, <1>3 DEF FilesInv, Lit, Over, TypeOK, Foreign
  <2> QED BY <1>1, <2>1, <2>2 DEF FilesInv, Killed
<1>10. RowsHonest'
  <2>1. row.passed => row.ran = before /\ ~row.killed
    BY <1>6, <1>9
  <2>2. \A i \in 1 .. k - 1 : rows[i].passed => rows[i].ran = before /\ ~rows[i].killed
    BY <1>2 DEF RowsHonest
  <2> QED BY <1>1, <1>7, <1>s, <2>1, <2>2 DEF RowsHonest
<1>11. \A i \in 1 .. Len(rows') : rows'[i].slot = Slot(i)
  BY <1>1, <1>2, <1>6, <1>7 DEF RowsInv
<1>12. CASE ~Passed
  <2>1. error' = TRUE /\ pc' = "finish" /\ at' = "idle" /\ k' = k
    BY <1>12 DEF EndSample, Raise
  <2>2. TypeOK' /\ FieldsOK'
    BY <1>1, <1>2, <1>7, <1>8, <2>1 DEF TypeOK, FieldsOK, Over
  <2>3. ~measured
    BY <1>1 DEF ControlInv, Over
  <2> QED BY <1>1, <1>8, <1>10, <1>11, <2>1, <2>2, <2>3, Stops
<1>13. CASE Passed
  <2>1. /\ k' = k + 1 /\ at' = "idle" /\ error' = error
        /\ pc' = IF k < Slots THEN "check" ELSE "summary"
    BY <1>13 DEF EndSample
  <2>2. watch = "off"
    BY <1>1 DEF TypeOK, Over
  <2>3. TypeOK' /\ FieldsOK'
    BY <1>1, <1>2, <1>7, <1>8, <2>1, <2>2 DEF TypeOK, FieldsOK, Over
  <2>4. ControlInv'
    BY <1>1, <1>2, <1>7, <1>8, <2>1 DEF ControlInv, Over
  <2>5. \A i \in 1 .. k : rows'[i].passed
    <3>1. row.passed /\ \A i \in 1 .. k - 1 : rows[i].passed
      BY <1>1, <1>6, <1>13 DEF RowsInv
    <3> QED BY <1>7, <1>s, <3>1
  <2>6. RowsInv'
    BY <1>1, <1>2, <1>11, <2>1, <2>5 DEF RowsInv, ControlInv, Over
  <2>7. FilesInv'
    BY <1>1, <2>1 DEF FilesInv, Over, Lit
  <2> QED BY <1>10, <2>3, <2>4, <2>6, <2>7
<1> QED BY <1>12, <1>13

\* The summary.
LEMMA StepSummary == PInv /\ Summary => PInv'
<1> SUFFICES ASSUME PInv, Summary PROVE PInv'
  OBVIOUS
<1> USE DEF PInv
<1>1. /\ pc = "summary" /\ pc' = "finish" /\ measured' = TRUE
      /\ UNCHANGED <<n, k, inputs, binary, before, recorded, rows, error, disk, childVars>>
  BY DEF Summary, fileVars
<1>2. TypeOK' /\ FieldsOK'
  BY <1>1 DEF TypeOK, FieldsOK, childVars
<1>3. ControlInv'
  BY <1>1 DEF ControlInv, Over, childVars
<1>4. RowsInv' /\ RowsHonest'
  BY <1>1 DEF RowsInv, RowsHonest
<1>5. FilesInv'
  BY <1>1 DEF FilesInv, Over, Lit
<1> QED BY <1>2, <1>3, <1>4, <1>5

\* The last report.
LEMMA StepFinish == PInv /\ Finish => PInv'
<1> SUFFICES ASSUME PInv, Finish PROVE PInv'
  OBVIOUS
<1> USE DEF PInv
<1>1. /\ pc = "finish" /\ pc' = "done" /\ rows' = rows
      /\ UNCHANGED <<n, k, inputs, binary, before, recorded, measured, error, childVars>>
  BY DEF Finish, fileVars
<1>2. Len(rows) \in Nat /\ measured \in BOOLEAN
  BY DEF FieldsOK
<1>3. PICK captured \in BOOLEAN :
         disk' = [passed |-> measured /\ ~error /\ before # None /\ captured /\ Fresh,
                  samples |-> Len(rows')]
  BY DEF Finish, Saved
<1>4. /\ disk' \in [passed : BOOLEAN, samples : Nat] /\ (disk'.passed => measured)
      /\ disk'.samples = Len(rows)
  BY <1>1, <1>2, <1>3
<1>5. TypeOK' /\ FieldsOK'
  BY <1>1, <1>2, <1>4 DEF TypeOK, FieldsOK, childVars
<1>6. ControlInv'
  BY <1>1, <1>4 DEF ControlInv, Over, childVars
<1>7. RowsInv' /\ RowsHonest'
  BY <1>1 DEF RowsInv, RowsHonest
<1>8. FilesInv'
  BY <1>1 DEF FilesInv, Over, Lit
<1> QED BY <1>5, <1>6, <1>7, <1>8

-----------------------------------------------------------------------------
(* The theorems.                                                           *)

\* The tool starts with nothing.
LEMMA InitPInv == Init => PInv
<1> SUFFICES ASSUME Init PROVE PInv
  OBVIOUS
<1>0. MaxEdits \in Nat /\ Len(Lanes) = 2 /\ Slots \in Nat /\ Slots >= 1
  BY CompositionAssumption, LaneFacts, SlotsFacts
<1>1. TypeOK
  BY <1>0 DEF Init, TypeOK, None, Foreign
<1>2. FieldsOK
  <2>1. rows = <<>> /\ rows \in Seq(Row)
    BY DEF Init
  <2>2. first \in None .. MaxEdits /\ ran \in Foreign .. MaxEdits
    BY <1>0 DEF Init, None, Foreign
  <2>3. disk \in [passed : BOOLEAN, samples : Nat]
    BY DEF Init
  <2> QED BY <2>1, <2>2, <2>3 DEF Init, FieldsOK
<1>3. ControlInv /\ RowsInv /\ RowsHonest
  BY DEF Init, ControlInv, RowsInv, RowsHonest, Over
<1>4. FilesInv
  BY DEF Init, FilesInv, Over, Lit
<1> QED BY <1>1, <1>2, <1>3, <1>4 DEF PInv

\* Every step keeps the invariant.
LEMMA NextPInv == PInv /\ [Next]_vars => PInv'
<1> SUFFICES ASSUME PInv, [Next]_vars PROVE PInv'
  OBVIOUS
<1>1. CASE Main
  BY <1>1, StepStartWatchdog, StepWaitReturns, StepRelease, StepJoin, StepPrepare,
     StepStartBuild, StepEndBuild, StepCheckBinary, StepLaunch, StepEndSample, StepSummary,
     StepFinish DEF Main
<1>2. CASE ChildEnds \/ Fire \/ Expire \/ WaitInterrupted \/ Abandon \/ Interrupt \/ Crash
  BY <1>2, StepChildEnds, StepFire, StepExpire, StepWaitInterrupted, StepAbandon,
     StepInterrupt, StepCrash
<1>3. CASE Edit \/ \E l \in LaneSet : Overwrite(l)
  BY <1>3, StepEdit, StepOverwrite
<1>4. CASE UNCHANGED vars
  <2>1. /\ UNCHANGED <<mainVars, fileVars, factVars, first, ran>>
        /\ UNCHANGED <<at, watch, code, child, raising>>
    BY <1>4 DEF vars, childVars
  <2> QED BY <2>1, Inside DEF PInv, TypeOK, FieldsOK, Ats, Over
<1> QED BY <1>1, <1>2, <1>3, <1>4 DEF Next

\* The invariant is one of the tool.
THEOREM Invariant == Spec => []PInv
BY InitPInv, NextPInv, PTL DEF Spec

\* Where main() goes on, the watchdog of an earlier run_child() is gone: it can
\* neither kill the next child nor mark its run.
THEOREM NoWatchdogOutlives == Spec => []TypeOK
<1>1. PInv => TypeOK
  BY DEF PInv
<1> QED BY <1>1, Invariant, PTL

\* A report that passed holds every sample in its order, and each ran a binary
\* of the inputs recorded at the start and ended by itself, for any number of
\* samples, workloads, edits, overwrites, interrupts and time-outs.
THEOREM ReportIsHonest == Spec => []Honest
<1>1. PInv => Honest
  <2> SUFFICES ASSUME PInv PROVE Honest
    OBVIOUS
  <2>1. disk.passed => /\ disk.samples = Slots /\ Len(rows) = Slots
                       /\ \A i \in 1 .. Slots : rows[i].passed
    BY DEF PInv, ControlInv, RowsInv
  <2> QED BY <2>1 DEF PInv, RowsInv, RowsHonest, Honest
<1> QED BY <1>1, Invariant, PTL

-----------------------------------------------------------------------------
(* FairnessGate: fractions, and the folds that compare() adds up with.     *)

\* What measure() returns: a fraction with a positive denominator.
Frac == Nat \X (Nat \ {0})

\* Products of naturals: the four facts that comparing fractions needs.
LEMMA Products ==
    /\ \A x, y \in Nat : x * y \in Nat
    /\ \A x, y \in Nat : x # 0 /\ y # 0 => x * y # 0
    /\ \A x, y, z \in Nat : x <= y => x * z <= y * z
    /\ \A x, y, z \in Nat : z # 0 /\ x * z <= y * z => x <= y
OBVIOUS

\* Less is a strict order whose negation can be chained.
LEMMA LessOrder ==
    ASSUME NEW a \in Frac, NEW b \in Frac, NEW c \in Frac,
           ~Less(a, b), ~Less(b, c)
    PROVE  ~Less(a, c)
<1> DEFINE an == a[1]  ad == a[2]  bn == b[1]  bd == b[2]  cn == c[1]  cd == c[2]
<1>1. /\ an \in Nat /\ ad \in Nat /\ ad # 0 /\ bn \in Nat /\ bd \in Nat /\ bd # 0
      /\ cn \in Nat /\ cd \in Nat /\ cd # 0
  BY DEF Frac
<1>2. bn * ad <= an * bd /\ cn * bd <= bn * cd
  <2>1. an * bd \in Nat /\ bn * ad \in Nat /\ bn * cd \in Nat /\ cn * bd \in Nat
    BY <1>1, Products
  <2> QED BY <2>1 DEF Less
<1> HIDE DEF an, ad, bn, bd, cn, cd
<1>3. (bn * ad) * cd <= (an * bd) * cd /\ (cn * bd) * ad <= (bn * cd) * ad
  BY <1>1, <1>2, Products
<1>4. /\ (bn * ad) * cd = (bn * cd) * ad /\ (cn * bd) * ad = (cn * ad) * bd
      /\ (an * bd) * cd = (an * cd) * bd
  BY <1>1
<1>5. cn * ad \in Nat /\ an * cd \in Nat /\ (cn * ad) * bd \in Nat /\ (an * cd) * bd \in Nat
      /\ (bn * cd) * ad \in Nat
  BY <1>1, Products
<1>6. (cn * ad) * bd <= (an * cd) * bd
  BY <1>3, <1>4, <1>5
<1>7. cn * ad <= an * cd
  BY <1>5, <1>6, <1>1, Products
<1> QED BY <1>7, <1>5 DEF Less, an, ad, cn, cd

\* Of two fractions one is not less, and a sum is not less than a sum of less.
LEMMA PlusOrder ==
    ASSUME NEW a \in Frac, NEW b \in Frac, NEW c \in Frac, NEW d \in Frac
    PROVE  /\ Plus(a, c) \in Frac
           /\ ~Less(a, b) /\ ~Less(c, d) => ~Less(Plus(a, c), Plus(b, d))
<1> DEFINE an == a[1]  ad == a[2]  bn == b[1]  bd == b[2]
           cn == c[1]  cd == c[2]  dn == d[1]  dd == d[2]
<1>1. /\ an \in Nat /\ ad \in Nat /\ ad # 0 /\ bn \in Nat /\ bd \in Nat /\ bd # 0
      /\ cn \in Nat /\ cd \in Nat /\ cd # 0 /\ dn \in Nat /\ dd \in Nat /\ dd # 0
  BY DEF Frac
<1>2. /\ Plus(a, c) = <<an * cd + cn * ad, ad * cd>>
      /\ Plus(b, d) = <<bn * dd + dn * bd, bd * dd>>
  BY DEF Plus
<1>3. /\ Less(a, b) <=> an * bd < bn * ad
      /\ Less(c, d) <=> cn * dd < dn * cd
      /\ Less(Plus(a, c), Plus(b, d)) <=>
            (an * cd + cn * ad) * (bd * dd) < (bn * dd + dn * bd) * (ad * cd)
  BY <1>2 DEF Less
<1> HIDE DEF an, ad, bn, bd, cn, cd, dn, dd
<1>4. an * cd + cn * ad \in Nat /\ ad * cd \in Nat /\ ad * cd # 0
  BY <1>1, Products
<1>5. Plus(a, c) \in Frac
  BY <1>2, <1>4 DEF Frac
<1>6. ASSUME ~Less(a, b), ~Less(c, d) PROVE ~Less(Plus(a, c), Plus(b, d))
  <2>1. /\ an * bd \in Nat /\ bn * ad \in Nat /\ cn * dd \in Nat /\ dn * cd \in Nat
        /\ cd * dd \in Nat /\ ad * bd \in Nat
    BY <1>1, Products
  <2>2. bn * ad <= an * bd /\ dn * cd <= cn * dd
    BY <1>3, <1>6, <2>1
  <2>3. /\ (bn * ad) * (cd * dd) <= (an * bd) * (cd * dd)
        /\ (dn * cd) * (ad * bd) <= (cn * dd) * (ad * bd)
    BY <2>1, <2>2, Products
  <2>4. (bn * dd + dn * bd) * (ad * cd) = (bn * ad) * (cd * dd) + (dn * cd) * (ad * bd)
    BY <1>1
  <2>5. (an * cd + cn * ad) * (bd * dd) = (an * bd) * (cd * dd) + (cn * dd) * (ad * bd)
    BY <1>1
  <2>6. /\ (bn * ad) * (cd * dd) \in Nat /\ (an * bd) * (cd * dd) \in Nat
        /\ (dn * cd) * (ad * bd) \in Nat /\ (cn * dd) * (ad * bd) \in Nat
    BY <2>1, Products
  <2>7. (bn * dd + dn * bd) * (ad * cd) <= (an * cd + cn * ad) * (bd * dd)
    BY <2>3, <2>4, <2>5, <2>6
  <2> QED BY <2>7, <2>4, <2>5, <2>6, <1>3
<1> QED BY <1>5, <1>6

\* A set of naturals that is not empty has a least element.
LEMMA LeastOf ==
    ASSUME NEW N, N \subseteq Nat, N # {}
    PROVE  \E x \in N : \A y \in N : x <= y
<1> DEFINE Smaller == {ss \in Nat \X Nat : ss[1] < ss[2]}
<1>1. IsWellFoundedOn(Smaller, Nat)
  BY NatLessThanWellFounded DEF OpToRel
<1>2. \A x, y \in N : <<y, x>> \in Smaller <=> y < x
  OBVIOUS
<1> HIDE DEF Smaller
<1>3. PICK x \in N : \A y \in N : ~(<<y, x>> \in Smaller)
  BY <1>1, WFMin
<1>4. \A y \in N : ~(y < x)
  BY <1>2, <1>3
<1> QED BY <1>4

\* The element that a fold takes from a set.
Pick(S) == CHOOSE x \in S : TRUE

\* What holds of the empty set, and of a set once it holds of the set without
\* the element that a fold takes from it, holds of every subset.
LEMMA FoldInduction ==
    ASSUME NEW S, IsFiniteSet(S), NEW Good, {} \in Good,
           \A T \in SUBSET S : T # {} /\ T \ {Pick(T)} \in Good => T \in Good
    PROVE  SUBSET S \subseteq Good
<1> DEFINE Bad  == {T \in SUBSET S : T \notin Good}
           Size == {Cardinality(T) : T \in Bad}
<1>1. SUFFICES ASSUME Bad # {} PROVE FALSE
  OBVIOUS
<1>2. \A T \in SUBSET S : IsFiniteSet(T) /\ Cardinality(T) \in Nat
  BY FS_Subset, FS_CardinalityType
<1>3. Size \subseteq Nat /\ Size # {}
  BY <1>1, <1>2
<1>4. PICK m \in Size : \A j \in Size : m <= j
  BY <1>3, LeastOf
<1>5. PICK T \in Bad : m = Cardinality(T)
  BY <1>4
<1>6. \A U \in Bad : Cardinality(T) <= Cardinality(U)
  BY <1>4, <1>5
<1>7. T \in SUBSET S /\ T # {}
  BY <1>5
<1>8. Pick(T) \in T
  BY <1>7 DEF Pick
<1>9. T \ {Pick(T)} \in Bad
  BY <1>5, <1>7
<1>10. Cardinality(T \ {Pick(T)}) = Cardinality(T) - 1
  BY <1>2, <1>7, <1>8, FS_RemoveElement
<1>11. Cardinality(T) \in Nat
  BY <1>2, <1>7
<1> QED BY <1>6, <1>9, <1>10, <1>11

\* g is the recursion of a fold with the operation op over the subsets of S.
FoldsTo(g, S, base, op) ==
    /\ g = [T \in SUBSET S |-> g[T]]
    /\ \A T \in SUBSET S :
          g[T] = IF T = {} THEN base ELSE op[<<Pick(T), g[T \ {Pick(T)}]>>]

\* The recursion of a fold over the subsets of a finite set defines a function.
LEMMA FoldExists ==
    ASSUME NEW S, IsFiniteSet(S), NEW base, NEW op
    PROVE  \E g : FoldsTo(g, S, base, op)
<1> DEFINE Body(g, T) == IF T = {} THEN base ELSE op[<<Pick(T), g[T \ {Pick(T)}]>>]
           Upto(g, m) == \A T \in SUBSET S : Cardinality(T) <= m => g[T] = Body(g, T)
           Bad == {m \in Nat : ~ \E g : Upto(g, m)}
<1>1. \A T \in SUBSET S : IsFiniteSet(T) /\ Cardinality(T) \in Nat
                          /\ Cardinality(T) <= Cardinality(S)
  BY FS_Subset, FS_CardinalityType
<1>2. \A T \in SUBSET S : T # {} => /\ T \ {Pick(T)} \in SUBSET S
                                    /\ Cardinality(T \ {Pick(T)}) = Cardinality(T) - 1
  <2> TAKE T \in SUBSET S
  <2> HAVE T # {}
  <2>1. Pick(T) \in T
    BY DEF Pick
  <2> QED BY <1>1, <2>1, FS_RemoveElement
<1>3. \A T \in SUBSET S : Cardinality(T) = 0 => T = {}
  BY <1>1, FS_EmptySet
<1> HIDE DEF Body
<1>4. \E g : Upto(g, 0)
  <2>1. \A T \in SUBSET S : Cardinality(T) <= 0 => T = {}
    BY <1>1, <1>3
  <2>2. Upto([T \in SUBSET S |-> base], 0)
    BY <2>1 DEF Body
  <2> QED BY <2>2
<1>5. ASSUME NEW m \in Nat, \E g : Upto(g, m) PROVE \E g : Upto(g, m + 1)
  <2>1. PICK g : Upto(g, m)
    BY <1>5
  <2> DEFINE h == [T \in SUBSET S |-> IF Cardinality(T) <= m THEN g[T] ELSE Body(g, T)]
  <2>2. \A T \in SUBSET S : Cardinality(T) <= m => h[T] = g[T]
    OBVIOUS
  <2>3. \A T \in SUBSET S : h[T] = Body(g, T)
    BY <2>1
  <2> HIDE DEF h
  <2>4. ASSUME NEW T \in SUBSET S, Cardinality(T) <= m + 1 PROVE h[T] = Body(h, T)
    <3>1. CASE T = {}
      BY <3>1, <2>3 DEF Body
    <3>2. CASE T # {}
      <4>1. Cardinality(T \ {Pick(T)}) <= m /\ T \ {Pick(T)} \in SUBSET S
        BY <3>2, <1>1, <1>2, <2>4
      <4>2. h[T \ {Pick(T)}] = g[T \ {Pick(T)}]
        BY <4>1, <2>2
      <4> QED BY <4>2, <2>3 DEF Body
    <3> QED BY <3>1, <3>2
  <2> QED BY <2>4
<1> HIDE DEF Upto
<1>6. Bad = {}
  <2>1. SUFFICES ASSUME Bad # {} PROVE FALSE
    OBVIOUS
  <2>2. PICK m \in Bad : \A j \in Bad : m <= j
    BY <2>1, LeastOf
  <2>3. m \in Nat /\ m # 0
    BY <2>2, <1>4
  <2>4. m - 1 \in Nat /\ m - 1 \notin Bad /\ (m - 1) + 1 = m
    BY <2>2, <2>3
  <2>5. \E g : Upto(g, m - 1)
    BY <2>4
  <2>6. \E g : Upto(g, m)
    BY <2>4, <2>5, <1>5
  <2> QED BY <2>6, <2>2
<1>7. Cardinality(S) \in Nat
  BY <1>1
<1>8. PICK g : Upto(g, Cardinality(S))
  BY <1>6, <1>7
<1>9. \A T \in SUBSET S : g[T] = Body(g, T)
  BY <1>1, <1>8 DEF Upto
<1> DEFINE f == [T \in SUBSET S |-> g[T]]
<1>10. \A T \in SUBSET S : f[T] = Body(f, T)
  BY <1>9, <1>2 DEF Body
<1>11. f = [T \in SUBSET S |-> f[T]]
  OBVIOUS
<1> QED BY <1>10, <1>11 DEF Body, FoldsTo

\* ... and one with values in V when the operation stays in V.
LEMMA FoldTyped ==
    ASSUME NEW S, IsFiniteSet(S), NEW V, NEW base \in V, NEW op \in [S \X V -> V]
    PROVE  \E g \in [SUBSET S -> V] : FoldsTo(g, S, base, op)
<1>0. PICK g : FoldsTo(g, S, base, op)
  BY FoldExists
<1>1. /\ g = [T \in SUBSET S |-> g[T]]
      /\ \A T \in SUBSET S :
            g[T] = IF T = {} THEN base ELSE op[<<Pick(T), g[T \ {Pick(T)}]>>]
  BY <1>0 DEF FoldsTo
<1> DEFINE Good == {T \in SUBSET S : g[T] \in V}
<1>3. {} \in Good
  BY <1>1
<1>4. ASSUME NEW T \in SUBSET S, T # {}, T \ {Pick(T)} \in Good PROVE T \in Good
  <2>1. Pick(T) \in S
    BY <1>4 DEF Pick
  <2>2. g[T \ {Pick(T)}] \in V
    BY <1>4
  <2>3. op[<<Pick(T), g[T \ {Pick(T)}]>>] \in V
    BY <2>1, <2>2
  <2> QED BY <1>1, <1>4, <2>3
<1>5. SUBSET S \subseteq Good
  <2> HIDE DEF Good
  <2> QED BY <1>3, <1>4, FoldInduction
<1>6. g \in [SUBSET S -> V]
  BY <1>1, <1>5
<1> QED BY <1>0, <1>6

\* g adds up w over the subsets of D.
AddsUp(g, D, w) ==
    g = [T \in SUBSET D |-> IF T = {} THEN 0 ELSE w[Pick(T)] + g[T \ {Pick(T)}]]

\* The recursion that adds up w has a solution, and every solution is natural.
LEMMA SumFold ==
    ASSUME NEW D, IsFiniteSet(D), NEW w \in [D -> Nat]
    PROVE  /\ \E g : AddsUp(g, D, w)
           /\ \A g : AddsUp(g, D, w) => g[D] \in Nat /\ g[{}] = 0
<1> DEFINE op == [p \in D \X Nat |-> w[p[1]] + p[2]]
           Adds(g) == \A T \in SUBSET D :
                         g[T] = IF T = {} THEN 0 ELSE w[Pick(T)] + g[T \ {Pick(T)}]
<1>0. \A T \in SUBSET D : T # {} => Pick(T) \in D
  BY DEF Pick
<1>1. \E g \in [SUBSET D -> Nat] : Adds(g)
  <2>1. op \in [D \X Nat -> Nat]
    OBVIOUS
  <2>2. \A x \in D, y \in Nat : op[<<x, y>>] = w[x] + y
    OBVIOUS
  <2>3. 0 \in Nat
    OBVIOUS
  <2> HIDE DEF op
  <2>a. PICK g \in [SUBSET D -> Nat] : FoldsTo(g, D, 0, op)
    BY <2>1, <2>3, FoldTyped
  <2>4. \A T \in SUBSET D :
           g[T] = IF T = {} THEN 0 ELSE op[<<Pick(T), g[T \ {Pick(T)}]>>]
    BY <2>a DEF FoldsTo
  <2>5. \A T \in SUBSET D : T # {} => g[T \ {Pick(T)}] \in Nat
    OBVIOUS
  <2>6. Adds(g)
    BY <2>2, <2>4, <2>5, <1>0
  <2> QED BY <2>6
<1>2. ASSUME NEW g, Adds(g) PROVE g[D] \in Nat /\ g[{}] = 0
  <2> DEFINE Good == {T \in SUBSET D : g[T] \in Nat}
  <2>1. {} \in SUBSET D /\ 0 \in Nat
    OBVIOUS
  <2>2. g[{}] = 0
    BY <1>2, <2>1
  <2>3. {} \in Good
    BY <2>1, <2>2
  <2>4. ASSUME NEW T \in SUBSET D, T # {}, T \ {Pick(T)} \in Good PROVE T \in Good
    <3>1. g[T] = w[Pick(T)] + g[T \ {Pick(T)}]
      BY <1>2, <2>4
    <3>2. w[Pick(T)] \in Nat
      BY <1>0, <2>4
    <3>3. g[T \ {Pick(T)}] \in Nat
      BY <2>4
    <3> QED BY <3>1, <3>2, <3>3
  <2>5. SUBSET D \subseteq Good
    <3> HIDE DEF Good
    <3> QED BY <2>3, <2>4, FoldInduction
  <2> QED BY <2>2, <2>5
<1>3. \A g : AddsUp(g, D, w) => Adds(g)
  BY DEF AddsUp
<1>4. \A g \in [SUBSET D -> Nat] : Adds(g) => AddsUp(g, D, w)
  BY DEF AddsUp
<1> HIDE DEF Adds
<1> QED BY <1>1, <1>2, <1>3, <1>4

\* The bytes of a cell, and their squares, add up to naturals; to 0 if there are none.
LEMMA SumsAreNat ==
    ASSUME NEW bytes \in Seq(Nat)
    PROVE  /\ SumBytes(bytes) \in Nat /\ SumSquares(bytes) \in Nat
           /\ DOMAIN bytes = {} => SumSquares(bytes) = 0
<1> DEFINE D == DOMAIN bytes
           Bytes(g) == g = [T \in SUBSET D |->
                             IF T = {} THEN 0 ELSE bytes[Pick(T)] + g[T \ {Pick(T)}]]
           Squares(g) == g = [T \in SUBSET D |->
                 IF T = {} THEN 0 ELSE bytes[Pick(T)] * bytes[Pick(T)] + g[T \ {Pick(T)}]]
           square == [j \in D |-> bytes[j] * bytes[j]]
<1>1. D = 1 .. Len(bytes) /\ Len(bytes) \in Nat /\ \A j \in D : bytes[j] \in Nat
  OBVIOUS
<1>2. IsFiniteSet(D)
  BY <1>1, FS_Interval
<1>3. bytes \in [D -> Nat] /\ square \in [D -> Nat]
  BY <1>1, Products
<1>4. \A T \in SUBSET D : T # {} => Pick(T) \in D
  BY DEF Pick
<1>5. \A g : AddsUp(g, D, square) <=> Squares(g)
  BY <1>4 DEF AddsUp
<1>6. SumBytes(bytes) \in Nat
  <2>1. (\E g : AddsUp(g, D, bytes)) /\ \A g : AddsUp(g, D, bytes) => g[D] \in Nat
    BY <1>2, <1>3, SumFold
  <2>2. Bytes(CHOOSE g : Bytes(g))
    BY <2>1 DEF AddsUp
  <2>3. SumBytes(bytes) = (CHOOSE g : Bytes(g))[D]
    BY DEF SumBytes, FoldSet, MapThenFoldSet, Pick
  <2> QED BY <2>1, <2>2, <2>3 DEF AddsUp
<1>7. SumSquares(bytes) \in Nat /\ (D = {} => SumSquares(bytes) = 0)
  <2>1. (\E g : AddsUp(g, D, square)) /\ \A g : AddsUp(g, D, square) => g[D] \in Nat /\ g[{}] = 0
    BY <1>2, <1>3, SumFold
  <2>2. Squares(CHOOSE g : Squares(g))
    BY <2>1, <1>5
  <2>3. SumSquares(bytes) = (CHOOSE g : Squares(g))[D]
    BY DEF SumSquares, FoldSet, MapThenFoldSet, Pick
  <2> HIDE DEF D, Squares, square
  <2> QED BY <2>1, <2>2, <2>3, <1>5
<1> QED BY <1>6, <1>7

\* Jain's index of a cell is a fraction.
LEMMA JainIsFrac ==
    ASSUME NEW bytes \in Seq(Nat)
    PROVE  Jain(bytes) \in Frac
<1>1. /\ SumBytes(bytes) \in Nat /\ SumSquares(bytes) \in Nat /\ Len(bytes) \in Nat
      /\ DOMAIN bytes = {} => SumSquares(bytes) = 0
  BY SumsAreNat
<1>2. CASE SumSquares(bytes) = 0
  BY <1>2 DEF Jain, Frac
<1>3. CASE SumSquares(bytes) # 0
  <2>1. DOMAIN bytes = 1 .. Len(bytes)
    OBVIOUS
  <2>2. Len(bytes) # 0
    BY <1>1, <1>3, <2>1
  <2>3. /\ SumBytes(bytes) * SumBytes(bytes) \in Nat
        /\ Len(bytes) * SumSquares(bytes) \in Nat
        /\ Len(bytes) * SumSquares(bytes) # 0
    BY <1>1, <1>3, <2>2, Products
  <2> QED BY <1>3, <2>3 DEF Jain, Frac
<1> QED BY <1>2, <1>3

\* g adds up the fractions w over the subsets of D.
AddsFractions(g, D, w) ==
    g = [T \in SUBSET D |->
           IF T = {} THEN <<0, 1>> ELSE Plus(w[Pick(T)], g[T \ {Pick(T)}])]

\* The recursion that adds up fractions has a solution.  Where every fraction
\* of v is at least that of w, so is the sum.
LEMMA FractionFold ==
    ASSUME NEW D, IsFiniteSet(D), NEW v \in [D -> Frac]
    PROVE  /\ \E g : AddsFractions(g, D, v)
           /\ \A w \in [D -> Frac] : \A g, h :
                 (\A c \in D : ~Less(v[c], w[c]))
                    /\ AddsFractions(g, D, v) /\ AddsFractions(h, D, w)
                  => ~Less(g[D], h[D])
<1>0. \A T \in SUBSET D : T # {} => Pick(T) \in D
  BY DEF Pick
<1>a. <<0, 1>> \in Frac /\ ~Less(<<0, 1>>, <<0, 1>>)
  BY DEF Frac, Less
<1>1. \E g : AddsFractions(g, D, v)
  <2> DEFINE op == [p \in D \X Frac |-> Plus(v[p[1]], p[2])]
  <2>1. \A x \in D, y \in Frac : Plus(v[x], y) \in Frac
    BY PlusOrder
  <2>2. op \in [D \X Frac -> Frac]
    BY <2>1
  <2>3. \A x \in D, y \in Frac : op[<<x, y>>] = Plus(v[x], y)
    OBVIOUS
  <2> HIDE DEF op
  <2>4. PICK g \in [SUBSET D -> Frac] : FoldsTo(g, D, <<0, 1>>, op)
    BY <1>a, <2>2, FoldTyped
  <2>5. \A T \in SUBSET D :
           g[T] = IF T = {} THEN <<0, 1>> ELSE op[<<Pick(T), g[T \ {Pick(T)}]>>]
    BY <2>4 DEF FoldsTo
  <2>6. \A T \in SUBSET D : T # {} => g[T \ {Pick(T)}] \in Frac
    OBVIOUS
  <2>7. \A T \in SUBSET D :
           g[T] = IF T = {} THEN <<0, 1>> ELSE Plus(v[Pick(T)], g[T \ {Pick(T)}])
    BY <1>0, <2>3, <2>5, <2>6
  <2> QED BY <2>7 DEF AddsFractions
<1>2. ASSUME NEW w \in [D -> Frac], \A c \in D : ~Less(v[c], w[c]),
             NEW g, AddsFractions(g, D, v), NEW h, AddsFractions(h, D, w)
      PROVE  ~Less(g[D], h[D])
  <2> DEFINE Good == {T \in SUBSET D : g[T] \in Frac /\ h[T] \in Frac /\ ~Less(g[T], h[T])}
  <2>1. \A T \in SUBSET D :
           /\ g[T] = IF T = {} THEN <<0, 1>> ELSE Plus(v[Pick(T)], g[T \ {Pick(T)}])
           /\ h[T] = IF T = {} THEN <<0, 1>> ELSE Plus(w[Pick(T)], h[T \ {Pick(T)}])
    BY <1>2 DEF AddsFractions
  <2>2. {} \in SUBSET D
    OBVIOUS
  <2>3. {} \in Good
    BY <1>a, <2>1, <2>2
  <2>4. ASSUME NEW T \in SUBSET D, T # {}, T \ {Pick(T)} \in Good PROVE T \in Good
    <3> DEFINE a == g[T \ {Pick(T)}]  b == h[T \ {Pick(T)}]
    <3>1. a \in Frac /\ b \in Frac /\ ~Less(a, b)
      BY <2>4
    <3>2. v[Pick(T)] \in Frac /\ w[Pick(T)] \in Frac /\ ~Less(v[Pick(T)], w[Pick(T)])
      BY <1>0, <1>2, <2>4
    <3>3. g[T] = Plus(v[Pick(T)], a) /\ h[T] = Plus(w[Pick(T)], b)
      BY <2>1, <2>4
    <3> HIDE DEF a, b
    <3>4. /\ Plus(v[Pick(T)], a) \in Frac /\ Plus(w[Pick(T)], b) \in Frac
          /\ ~Less(Plus(v[Pick(T)], a), Plus(w[Pick(T)], b))
      BY <3>1, <3>2, PlusOrder
    <3> QED BY <3>3, <3>4
  <2>5. SUBSET D \subseteq Good
    <3> HIDE DEF Good
    <3> QED BY <2>3, <2>4, FoldInduction
  <2> QED BY <2>5
<1> QED BY <1>1, <1>2

\* If every mixed cell of new is no fairer than that of old, their mean is not above.
LEMMA MeansCompare ==
    ASSUME NEW old \in [Cells -> Seq(Nat)], NEW new \in [Cells -> Seq(Nat)],
           \A c \in Mixed : ~Less(Jain(old[c]), Jain(new[c]))
    PROVE  ~Less(MixedSum(old), MixedSum(new))
<1> DEFINE J(cells) == [c \in Mixed |-> Jain(cells[c])]
           Is(cells, g) == g = [T \in SUBSET Mixed |->
               IF T = {} THEN <<0, 1>> ELSE Plus(Jain(cells[Pick(T)]), g[T \ {Pick(T)}])]
<1>1. IsFiniteSet(Mixed) /\ Mixed \subseteq Cells
  BY GateAssumption
<1>2. \A T \in SUBSET Mixed : T # {} => Pick(T) \in Mixed
  BY DEF Pick
<1>3. J(old) \in [Mixed -> Frac] /\ J(new) \in [Mixed -> Frac]
  BY <1>1, JainIsFrac
<1>4. \A g : (AddsFractions(g, Mixed, J(old)) <=> Is(old, g))
             /\ (AddsFractions(g, Mixed, J(new)) <=> Is(new, g))
  BY <1>2 DEF AddsFractions
<1>5. \A c \in Mixed : ~Less(J(old)[c], J(new)[c])
  OBVIOUS
<1>6. /\ MixedSum(old) = (CHOOSE g : Is(old, g))[Mixed]
      /\ MixedSum(new) = (CHOOSE g : Is(new, g))[Mixed]
  BY DEF MixedSum, FoldSet, MapThenFoldSet, Pick
<1> HIDE DEF J, Is
<1>7. (\E g : Is(old, g)) /\ \E g : Is(new, g)
  BY <1>1, <1>3, <1>4, FractionFold
<1>8. PICK g, h : /\ g = CHOOSE x : Is(old, x)
                  /\ h = CHOOSE x : Is(new, x)
  OBVIOUS
<1>9. Is(old, g) /\ Is(new, h)
  BY <1>7, <1>8
<1>10. AddsFractions(g, Mixed, J(old)) /\ AddsFractions(h, Mixed, J(new))
  BY <1>4, <1>9
<1>11. ~Less(g[Mixed], h[Mixed])
  BY <1>1, <1>3, <1>5, <1>10, FractionFold
<1> QED BY <1>6, <1>8, <1>11

\* The worst mixed cell is one, and no other is below it.
LEMMA WorstIsLeast ==
    ASSUME NEW cells \in [Cells -> Seq(Nat)]
    PROVE  \E c \in Mixed : /\ MixedWorst(cells) = Jain(cells[c])
                            /\ \A d \in Mixed : ~Less(Jain(cells[d]), Jain(cells[c]))
<1> DEFINE Least(T, c) == \A d \in T : ~Less(Jain(cells[d]), Jain(cells[c]))
           Good == {T \in SUBSET Mixed : T = {} \/ \E c \in T : Least(T, c)}
<1>1. IsFiniteSet(Mixed) /\ Mixed # {} /\ Mixed \subseteq Cells
  BY GateAssumption
<1>2. \A c \in Mixed : Jain(cells[c]) \in Frac
  BY <1>1, JainIsFrac
<1>3. \A a, b \in Frac : ~Less(a, a) /\ (~Less(a, b) \/ ~Less(b, a))
  <2> TAKE a, b \in Frac
  <2>1. /\ a[1] \in Nat /\ a[2] \in Nat /\ b[1] \in Nat /\ b[2] \in Nat
    BY DEF Frac
  <2>2. a[1] * b[2] \in Nat /\ b[1] * a[2] \in Nat /\ a[1] * a[2] \in Nat
    BY <2>1, Products
  <2> QED BY <2>2 DEF Less
<1>4. ASSUME NEW T \in SUBSET Mixed, T # {}, T \ {Pick(T)} \in Good PROVE T \in Good
  <2> DEFINE p == Pick(T)
  <2>1. p \in T
    BY <1>4 DEF Pick
  <2> HIDE DEF p
  <2>2. CASE T \ {p} = {}
    <3>1. Least(T, p)
      BY <1>2, <1>3, <2>1, <2>2
    <3> QED BY <2>1, <3>1
  <2>3. CASE T \ {p} # {}
    <3>1. PICK c \in T \ {p} : Least(T \ {p}, c)
      BY <1>4, <2>3 DEF p
    <3>2. CASE ~Less(Jain(cells[p]), Jain(cells[c]))
      <4>1. Least(T, c)
        BY <3>1, <3>2
      <4> QED BY <3>1, <4>1
    <3>3. CASE Less(Jain(cells[p]), Jain(cells[c]))
      <4>1. ~Less(Jain(cells[c]), Jain(cells[p])) /\ ~Less(Jain(cells[p]), Jain(cells[p]))
        BY <1>2, <1>3, <2>1, <3>1, <3>3
      <4>2. \A d \in T \ {p} : ~Less(Jain(cells[d]), Jain(cells[p]))
        BY <1>2, <2>1, <3>1, <4>1, LessOrder
      <4>3. Least(T, p)
        BY <4>1, <4>2
      <4> QED BY <2>1, <4>3
    <3> QED BY <3>2, <3>3
  <2> QED BY <2>2, <2>3
<1>5. {} \in Good
  OBVIOUS
<1>6. SUBSET Mixed \subseteq Good
  <2> HIDE DEF Good
  <2> QED BY <1>1, <1>4, <1>5, FoldInduction
<1>7. \E c \in Mixed : Least(Mixed, c)
  <2>1. Mixed \in Good
    BY <1>6
  <2> QED BY <2>1, <1>1
<1> QED BY <1>7 DEF MixedWorst

\* What the controls of compare() say of single cells.
LEMMA ControlsMeanFairer ==
    ASSUME NEW cells \in [Cells -> Seq(Nat)], Controls(cells)
    PROVE  /\ \E c \in Mixed : Less(Jain(BaselineBytes[c]), Jain(cells[c]))
           /\ \A c \in Mixed : \E d \in Mixed : ~Less(Jain(cells[c]), Jain(BaselineBytes[d]))
<1>1. BaselineBytes \in [Cells -> Seq(Nat)] /\ Mixed \subseteq Cells
  BY GateAssumption
<1>2. \E c \in Mixed : Less(Jain(BaselineBytes[c]), Jain(cells[c]))
  BY <1>1, MeansCompare DEF Controls, Improved
<1>3. PICK c \in Mixed : /\ MixedWorst(cells) = Jain(cells[c])
                         /\ \A d \in Mixed : ~Less(Jain(cells[d]), Jain(cells[c]))
  BY WorstIsLeast
<1>4. PICK b \in Mixed : MixedWorst(BaselineBytes) = Jain(BaselineBytes[b])
  BY <1>1, WorstIsLeast
<1>5. ~Less(Jain(cells[c]), Jain(BaselineBytes[b]))
  BY <1>3, <1>4 DEF Controls
<1>6. \A d \in Mixed : Jain(cells[d]) \in Frac /\ Jain(BaselineBytes[d]) \in Frac
  BY <1>1, JainIsFrac
<1>7. \A d \in Mixed : ~Less(Jain(cells[d]), Jain(BaselineBytes[b]))
  BY <1>3, <1>5, <1>6, LessOrder
<1> QED BY <1>2, <1>7

-----------------------------------------------------------------------------
(* FairnessGate: the inductive invariant.                                  *)

\* What a file has been since snapshot() began.
Values(f) == {tree[f] : tree \in past}

Taking == {"hash", "copy", "rehash", "accept"}

GateFields ==
    /\ gate_pc \in {"verify", "hash", "copy", "rehash", "accept", "prepare", "lanes",
                    "collect", "compare", "print", "drain", "left", "done", "dead"}
    /\ index \in 1 .. Len(Files) /\ edits \in 0 .. MaxTreeEdits
    /\ source \in [Tree -> 0 .. MaxTreeEdits + 1]
    /\ hashed \in [Tree -> NotYet .. MaxTreeEdits + 1]
    /\ copy \in [Tree -> NotYet .. MaxTreeEdits + 1]
    /\ after \in [Tree -> NotYet .. MaxTreeEdits + 1]
    /\ lane_at \in [GateLanes -> {"idle", "queued", "wait", "grace", "raise",
                                  "check", "good", "failed"}]
    /\ lane_child \in [GateLanes -> {"none", "running", "ended"}]
    /\ exit \in [GateLanes -> {NotYet, 0, 1, 124}] /\ touched \in [GateLanes -> BOOLEAN]
    /\ binaries \in [GateLanes -> 0 .. 2]
    /\ accepted \in BOOLEAN /\ passed \in BOOLEAN
    /\ report \in {"none", "failed", "passed"}
    /\ bench \in [Cells -> Seq(Nat)]

\* What the hashes know of the trees there were.  In the second pass one tree
\* of them agrees with the first hashes wherever the source still does, or did
\* when it was hashed again: an edit makes a version that never was.
SnapInv ==
    /\ past \subseteq [Tree -> Nat]
    /\ gate_pc = "verify" => past = {source} /\ index = 1
    /\ gate_pc \in {"verify", "hash", "copy"} => after = Unhashed
    /\ gate_pc \in Taking => source \in past
    /\ gate_pc = "hash" => \A i \in 1 .. (index - 1) : hashed[Files[i]] \in Values(Files[i])
    /\ gate_pc \in {"copy", "rehash", "accept"} => \A f \in Tree : hashed[f] \in Values(f)
    /\ gate_pc \in {"rehash", "accept"} =>
          \E tree \in past : \A f \in Tree :
             hashed[f] = source[f] \/ after[f] = hashed[f] => tree[f] = hashed[f]

\* Where a lane is when its child runs, and what a good lane has seen.
LaneInv ==
    /\ gate_pc \in {"verify", "prepare", "lanes"} \cup Taking =>
          \A l \in GateLanes : lane_at[l] = "idle" /\ lane_child[l] # "running"
    /\ gate_pc = "dead" => \A l \in GateLanes : lane_at[l] = "idle"
    /\ \A l \in GateLanes :
          gate_pc # "dead" /\ lane_child[l] = "running" => lane_at[l] \in {"wait", "grace", "raise"}
    /\ \A l \in GateLanes : lane_at[l] = "good" => LaneGood(l)
    /\ gate_pc = "done" => LanesOver

\* What was true when compare() passed, and stays true until the report is written.
ReportInv ==
    /\ gate_pc \in {"prepare", "lanes", "collect", "compare", "print"} => accepted
    /\ gate_pc \in {"compare", "print"} => \A l \in GateLanes : lane_at[l] = "good"
    /\ passed => /\ Controls(bench) /\ accepted
                 /\ gate_pc \in {"print", "drain", "done", "dead"}
                 /\ \A l \in GateLanes : /\ LaneGood(l) /\ lane_child[l] # "running"
                                         /\ lane_at[l] \in {"idle", "good"}
    /\ report = "passed" => passed
    /\ gate_pc = "left" => report = "failed"

GateInv == GateFields /\ SnapInv /\ LaneInv /\ ReportInv

\* The constants, and the files by their place.
LEMMA GateFacts ==
    /\ MaxTreeEdits \in Nat /\ Len(Files) \in Nat /\ Len(Files) >= 1
    /\ \A i \in 1 .. Len(Files) : Files[i] \in Tree
    /\ \A f \in Tree : \E i \in 1 .. Len(Files) : f = Files[i]
    /\ BaselineBytes \in [Cells -> Seq(Nat)] /\ Outcomes \subseteq Seq(Nat)
<1>1. MaxTreeEdits \in Nat /\ Len(Files) \in Nat /\ Len(Files) >= 1
  BY GateAssumption
<1>2. /\ \A i \in 1 .. Len(Files) : Files[i] \in Tree
      /\ \A f \in Tree : \E i \in 1 .. Len(Files) : f = Files[i]
  BY DEF Tree
<1> QED BY <1>1, <1>2, GateAssumption

\* The program starts in a state of the invariant.
LEMMA GateInitInv ==
    ASSUME GateInit
    PROVE  GateInv
<1> USE DEF GateInit
<1>1. \A f \in Tree : source[f] \in {0, 1}
  BY DEF Absent
<1>2. GateFields
  <2>1. /\ gate_pc = "verify" /\ index \in 1 .. Len(Files) /\ edits \in 0 .. MaxTreeEdits
    BY GateFacts
  <2>2. source \in [Tree -> 0 .. MaxTreeEdits + 1]
    BY <1>1, GateFacts
  <2>3. Unhashed \in [Tree -> NotYet .. MaxTreeEdits + 1]
    BY GateFacts DEF Unhashed, NotYet
  <2>4. /\ lane_at \in [GateLanes -> {"idle"}] /\ lane_child \in [GateLanes -> {"none"}]
        /\ exit \in [GateLanes -> {NotYet}] /\ touched \in [GateLanes -> BOOLEAN]
        /\ binaries \in [GateLanes -> 0 .. 2]
    OBVIOUS
  <2> QED BY <2>1, <2>2, <2>3, <2>4, GateFacts DEF GateFields
<1>3. SnapInv
  BY <1>1, GateFacts DEF SnapInv, Taking, Absent
<1>4. LaneInv
  BY DEF LaneInv, Taking, GateLanes
<1>5. ReportInv
  BY DEF ReportInv
<1> QED BY <1>2, <1>3, <1>4, <1>5 DEF GateInv

\* Unfold what a step of a lane leaves alone.
LEMMA LaneFrame ==
    laneUnchanged => UNCHANGED <<gate_pc, index, hashed, copy, after, accepted, bench,
                                 passed, gate_error, report, source, edits, past>>
BY DEF laneUnchanged, snapVars, reportVars, editVars

\* Every step keeps the types.
LEMMA GateFieldsStep ==
    ASSUME GateFields, [GateNext]_gateVars
    PROVE  GateFields'
<1> USE GateFacts DEF GateFields
<1>0. \A f \in Tree : source[f] \in 0 .. MaxTreeEdits + 1
                      /\ source[f] \in NotYet .. MaxTreeEdits + 1
  BY DEF NotYet
<1>1. index < Len(Files) => index + 1 \in 1 .. Len(Files)
  OBVIOUS
<1>2. Files[index] \in Tree /\ 1 \in 1 .. Len(Files)
  OBVIOUS
<1>3. CASE Verify
  BY <1>3 DEF Verify, Fail, snapVars, laneVars, editVars
<1>4. CASE Hash
  BY <1>4, <1>0, <1>1, <1>2 DEF Hash, Step, laneVars, reportVars, editVars
<1>5. CASE Copy
  BY <1>5, <1>0, <1>1, <1>2 DEF Copy, Step, Fail, laneVars, editVars
<1>6. CASE Rehash
  BY <1>6, <1>0, <1>1, <1>2 DEF Rehash, Step, laneVars, reportVars, editVars
<1>7. CASE Accept
  <2>1. Unhashed \in [Tree -> NotYet .. MaxTreeEdits + 1]
    BY DEF Unhashed, NotYet
  <2> QED BY <1>7, <2>1 DEF Accept, Fail, laneVars
<1>8. CASE PrepareTrees
  BY <1>8 DEF PrepareTrees, Fail, snapVars, laneVars, editVars
<1>9. CASE Submit
  BY <1>9 DEF Submit, snapVars, reportVars, editVars
<1>10. CASE Collect
  BY <1>10 DEF Collect, Fail, snapVars, laneVars, editVars
<1>11. CASE Compare
  <2>1. Controls(bench') \in BOOLEAN
    BY DEF Controls
  <2>2. (bench' \in [Cells -> Outcomes] /\ passed' = Controls(bench'))
        \/ UNCHANGED <<bench, passed>>
    BY <1>11 DEF Compare
  <2>3. bench' \in [Cells -> Seq(Nat)] /\ passed' \in BOOLEAN
    BY <2>1, <2>2
  <2> QED BY <1>11, <2>3 DEF Compare, Fail, snapVars, laneVars, editVars
<1>12. CASE Printed
  BY <1>12 DEF Printed, snapVars, laneVars, editVars
<1>13. CASE GateFinish
  BY <1>13 DEF GateFinish, snapVars, laneVars, editVars
<1>14. CASE GateInterrupt
  BY <1>14 DEF GateInterrupt, Fail, snapVars, laneVars, editVars
<1>15. CASE GateAbandon \/ GateCrash
  BY <1>15 DEF GateAbandon, GateCrash, snapVars, laneVars, reportVars, editVars
<1>16. ASSUME NEW l \in GateLanes,
              Lane(l) \/ LaneTimeout(l) \/ LaneChildWrites(l) \/ LaneChildEnds(l)
       PROVE  GateFields'
  <2>1. CASE LaneStart(l)
    BY <2>1, LaneFrame DEF LaneStart
  <2>2. CASE LaneWaited(l)
    BY <2>2, LaneFrame DEF LaneWaited
  <2>3. CASE LaneKill(l)
    BY <2>3, LaneFrame DEF LaneKill
  <2>4. CASE LaneCheck(l)
    BY <2>4, LaneFrame DEF LaneCheck
  <2>5. CASE LaneTimeout(l)
    BY <2>5, LaneFrame DEF LaneTimeout
  <2>6. CASE LaneChildWrites(l)
    BY <2>6, LaneFrame DEF LaneChildWrites
  <2>7. CASE LaneChildEnds(l)
    BY <2>7, LaneFrame DEF LaneChildEnds
  <2> QED BY <1>16, <2>1, <2>2, <2>3, <2>4, <2>5, <2>6, <2>7 DEF Lane
<1>17. ASSUME NEW f \in Tree, EditTree(f) PROVE GateFields'
  <2>1. edits' \in 0 .. MaxTreeEdits /\ edits + 2 \in 0 .. MaxTreeEdits + 1
    BY <1>17 DEF EditTree
  <2>2. source' \in [Tree -> 0 .. MaxTreeEdits + 1]
    BY <1>17, <2>1 DEF EditTree, Absent
  <2> QED BY <1>17, <2>1, <2>2 DEF EditTree, snapVars, laneVars, reportVars
<1>18. CASE UNCHANGED gateVars
  BY <1>18 DEF gateVars, snapVars, laneVars, reportVars, editVars
<1> QED
  BY <1>3, <1>4, <1>5, <1>6, <1>7, <1>8, <1>9, <1>10, <1>11, <1>12, <1>13, <1>14, <1>15,
     <1>16, <1>17, <1>18 DEF GateNext, GateMain

\* After snapshot() the trees and hashes are of no account.
LEMMA SnapOver ==
    ASSUME past \subseteq [Tree -> Nat], past' \in {past, {}},
           gate_pc' \notin {"verify", "hash", "copy", "rehash", "accept"}
    PROVE  SnapInv'
BY DEF SnapInv, Taking

\* Every step keeps what the hashes know.
LEMMA SnapStep ==
    ASSUME GateFields, SnapInv, [GateNext]_gateVars
    PROVE  SnapInv'
<1> USE DEF SnapInv
<1>0. source \in [Tree -> Nat] /\ past \subseteq [Tree -> Nat] /\ index \in 1 .. Len(Files)
      /\ Files[index] \in Tree
  BY GateFacts DEF GateFields
<1>1. CASE Verify
  <2>1. CASE gate_pc' = "hash" /\ UNCHANGED gate_error
    BY <1>1, <2>1 DEF Verify, Taking, snapVars, editVars, Values
  <2>2. CASE Fail
    BY <1>1, <2>2, SnapOver DEF Verify, Fail, editVars
  <2> QED BY <1>1, <2>1, <2>2 DEF Verify
<1>2. CASE Hash
  <2>1. /\ gate_pc = "hash" /\ gate_pc' \in {"hash", "copy"}
        /\ after = Unhashed /\ source \in past /\ UNCHANGED <<after, source, past>>
        /\ hashed' = [hashed EXCEPT ![Files[index]] = source[Files[index]]]
    BY <1>2 DEF Hash, Step, Taking, editVars
  <2>2. hashed'[Files[index]] = source[Files[index]]
    BY <2>1, <1>0 DEF GateFields
  <2>3. source[Files[index]] \in Values(Files[index])
    BY <2>1 DEF Values
  <2>4. \A i \in 1 .. index : hashed'[Files[i]] \in Values(Files[i])
    <3> TAKE i \in 1 .. index
    <3>1. CASE Files[i] = Files[index]
      BY <3>1, <2>2, <2>3
    <3>2. CASE Files[i] # Files[index]
      <4>1. i \in 1 .. (index - 1) /\ Files[i] \in Tree
        BY <3>2, <1>0, GateFacts
      <4>2. hashed'[Files[i]] = hashed[Files[i]]
        BY <2>1, <3>2, <4>1 DEF GateFields
      <4> QED BY <2>1, <4>1, <4>2
    <3> QED BY <3>1, <3>2
  <2>5. \A f : Values(f)' = Values(f)
    BY <2>1 DEF Values
  <2>6. CASE index < Len(Files)
    <3>1. index' = index + 1 /\ gate_pc' = "hash"
      BY <1>2, <2>6 DEF Hash, Step
    <3>2. \A i \in 1 .. (index' - 1) : hashed'[Files[i]] \in Values(Files[i])'
      BY <2>4, <2>5, <3>1, <1>0
    <3>3. Unhashed' = Unhashed
      BY DEF Unhashed
    <3> QED BY <2>1, <3>1, <3>2, <3>3 DEF Taking
  <2>7. CASE index = Len(Files)
    <3>1. gate_pc' = "copy"
      BY <1>2, <2>7 DEF Hash, Step
    <3>2. \A f \in Tree : hashed'[f] \in Values(f)'
      BY <2>4, <2>5, <2>7, GateFacts
    <3>3. Unhashed' = Unhashed
      BY DEF Unhashed
    <3> QED BY <2>1, <3>1, <3>2, <3>3 DEF Taking
  <2> QED BY <2>6, <2>7, <1>0
<1>3. CASE Copy
  <2>1. /\ gate_pc = "copy" /\ after = Unhashed /\ source \in past
        /\ UNCHANGED <<after, source, past, hashed>>
        /\ \A f \in Tree : hashed[f] \in Values(f)
    BY <1>3 DEF Copy, Taking, editVars
  <2>2. \A f \in Tree : Values(f)' = Values(f)
    BY <2>1 DEF Values
  <2>3. Unhashed' = Unhashed
    BY DEF Unhashed
  <2>4. \A f \in Tree : hashed[f] \in Nat
    BY <1>0, <2>1 DEF Values
  <2>5. \A f \in Tree : after[f] # hashed[f]
    BY <2>1, <2>4 DEF Unhashed, NotYet
  <2>6. CASE gate_pc' = "copy"
    BY <2>1, <2>2, <2>3, <2>6 DEF Taking
  <2>7. CASE gate_pc' = "rehash"
    <3>1. \E tree \in past : \A f \in Tree :
             hashed[f] = source[f] \/ after[f] = hashed[f] => tree[f] = hashed[f]
      BY <2>1, <2>5
    <3> QED BY <2>1, <2>2, <2>7, <3>1 DEF Taking
  <2>8. CASE gate_pc' = "drain"
    BY <2>1, <2>8, SnapOver
  <2>9. gate_pc' \in {"copy", "rehash", "drain"}
    BY <1>3 DEF Copy, Step, Fail
  <2> QED BY <2>6, <2>7, <2>8, <2>9
<1>4. CASE Rehash
  <2>1. /\ gate_pc = "rehash" /\ gate_pc' \in {"rehash", "accept"} /\ source \in past
        /\ UNCHANGED <<source, past, hashed>>
        /\ after' = [after EXCEPT ![Files[index]] = source[Files[index]]]
        /\ \A f \in Tree : hashed[f] \in Values(f)
    BY <1>4 DEF Rehash, Step, Taking, editVars
  <2>2. PICK tree \in past : \A f \in Tree :
           hashed[f] = source[f] \/ after[f] = hashed[f] => tree[f] = hashed[f]
    BY <2>1
  <2>3. \A f \in Tree : after'[f] = IF f = Files[index] THEN source[f] ELSE after[f]
    BY <2>1 DEF GateFields
  <2>4. \A f \in Tree :
           hashed'[f] = source'[f] \/ after'[f] = hashed'[f] => tree[f] = hashed'[f]
    BY <2>1, <2>2, <2>3
  <2>5. \A f \in Tree : Values(f)' = Values(f)
    BY <2>1 DEF Values
  <2> QED BY <2>1, <2>4, <2>5 DEF Taking
<1>5. CASE Accept
  BY <1>5, SnapOver DEF Accept, Fail
<1>6. ASSUME NEW g \in Tree, EditTree(g) PROVE SnapInv'
  <2>1. /\ gate_pc \in Taking /\ past' = past \cup {source'}
        /\ UNCHANGED <<gate_pc, index, hashed, copy, after>>
    BY <1>6 DEF EditTree, Taking, snapVars
  <2>2. PICK v \in {Absent, edits + 2} \ Values(g) : source' = [source EXCEPT ![g] = v]
    BY <1>6 DEF EditTree, Values
  <2>3. v \in Nat
    BY <2>2 DEF Absent, GateFields
  <2>4. source' \in [Tree -> Nat] /\ past' \subseteq [Tree -> Nat] /\ source' \in past'
    BY <1>0, <2>1, <2>2, <2>3
  <2>5. \A f \in Tree : Values(f) \subseteq Values(f)'
    BY <2>1 DEF Values
  <2>6. Unhashed' = Unhashed
    BY DEF Unhashed
  <2>7. gate_pc = "hash" => \A i \in 1 .. (index' - 1) : hashed'[Files[i]] \in Values(Files[i])'
    BY <2>1, <2>5, <1>0, GateFacts
  <2>8. ASSUME gate_pc \in {"rehash", "accept"}
        PROVE  \E tree \in past' : \A f \in Tree :
                  hashed'[f] = source'[f] \/ after'[f] = hashed'[f] => tree[f] = hashed'[f]
    <3>1. PICK tree \in past : \A f \in Tree :
             hashed[f] = source[f] \/ after[f] = hashed[f] => tree[f] = hashed[f]
      BY <2>8
    <3>2. \A f \in Tree : source'[f] = IF f = g THEN v ELSE source[f]
      BY <2>2, <1>0
    <3>3. hashed[g] # v
      BY <2>2, <2>8
    <3>4. \A f \in Tree :
             hashed'[f] = source'[f] \/ after'[f] = hashed'[f] => tree[f] = hashed'[f]
      BY <2>1, <3>1, <3>2, <3>3
    <3> QED BY <2>1, <3>4
  <2> QED BY <2>1, <2>4, <2>5, <2>6, <2>7, <2>8 DEF Taking
<1>7. CASE PrepareTrees \/ Submit \/ Collect \/ Compare \/ Printed \/ GateFinish
           \/ GateInterrupt \/ GateAbandon \/ GateCrash
  <2>1. past' = past
        /\ gate_pc' \in {"lanes", "collect", "compare", "print", "drain", "left", "done", "dead"}
    BY <1>7 DEF PrepareTrees, Submit, Collect, Compare, Printed, GateFinish, GateInterrupt,
                GateAbandon, GateCrash, Fail, editVars
  <2> QED BY <2>1, <1>0, SnapOver
<1>8. CASE (\E l \in GateLanes : \/ Lane(l) \/ LaneTimeout(l)
                                 \/ LaneChildWrites(l) \/ LaneChildEnds(l))
           \/ UNCHANGED gateVars
  <2>1. UNCHANGED <<gate_pc, index, hashed, copy, after, source, past>>
    BY <1>8, LaneFrame DEF Lane, LaneStart, LaneWaited, LaneKill, LaneCheck, LaneTimeout,
       LaneChildWrites, LaneChildEnds, gateVars, snapVars, editVars
  <2> QED BY <2>1 DEF Values, Unhashed, Taking
<1> QED
  BY <1>1, <1>2, <1>3, <1>4, <1>5, <1>6, <1>7, <1>8 DEF GateNext, GateMain

\* Every step keeps where the lanes are.
LEMMA LaneStep ==
    ASSUME GateFields, LaneInv, [GateNext]_gateVars
    PROVE  LaneInv'
<1> USE DEF LaneInv, Taking
<1>0. /\ lane_at \in [GateLanes -> {"idle", "queued", "wait", "grace", "raise",
                                    "check", "good", "failed"}]
      /\ lane_child \in [GateLanes -> {"none", "running", "ended"}]
      /\ exit \in [GateLanes -> {NotYet, 0, 1, 124}] /\ touched \in [GateLanes -> BOOLEAN]
      /\ binaries \in [GateLanes -> 0 .. 2]
  BY DEF GateFields
<1>1. CASE Verify \/ Hash \/ Copy \/ Rehash \/ Accept \/ PrepareTrees
  <2>1. /\ UNCHANGED <<lane_at, lane_child, exit, touched, binaries>>
        /\ gate_pc \in {"verify", "prepare", "hash", "copy", "rehash", "accept"}
        /\ gate_pc' \in {"hash", "copy", "rehash", "accept", "prepare", "lanes", "drain"}
    BY <1>1 DEF Verify, Hash, Copy, Rehash, Accept, PrepareTrees, Step, Fail, laneVars
  <2> QED BY <2>1 DEF LaneGood
<1>2. CASE Submit
  <2>1. /\ gate_pc = "lanes" /\ gate_pc' = "collect"
        /\ UNCHANGED <<lane_child, exit, touched, binaries>>
        /\ lane_at' = [l \in GateLanes |-> "queued"]
    BY <1>2 DEF Submit
  <2> QED BY <2>1
<1>3. CASE Collect \/ Compare \/ Printed \/ GateFinish \/ GateInterrupt \/ GateAbandon
  <2>1. /\ UNCHANGED <<lane_at, lane_child, exit, touched, binaries>>
        /\ gate_pc # "dead" /\ gate_pc' \in {"compare", "print", "drain", "left", "done"}
    BY <1>3 DEF Collect, Compare, Printed, GateFinish, GateInterrupt, GateAbandon, Fail, laneVars
  <2>2. gate_pc' = "done" => LanesOver
    BY <1>3 DEF Collect, Compare, Printed, GateFinish, GateInterrupt, GateAbandon, Fail
  <2>3. LanesOver => LanesOver'
    BY <2>1 DEF LanesOver
  <2> QED BY <2>1, <2>2, <2>3 DEF LaneGood
<1>4. CASE GateCrash
  <2>1. gate_pc' = "dead" /\ lane_at' = [l \in GateLanes |-> "idle"]
        /\ UNCHANGED <<lane_child, exit, touched, binaries>>
    BY <1>4 DEF GateCrash
  <2> QED BY <2>1
<1>5. ASSUME NEW l \in GateLanes,
             Lane(l) \/ LaneTimeout(l) \/ LaneChildWrites(l) \/ LaneChildEnds(l)
      PROVE  LaneInv'
  <2>1. gate_pc' = gate_pc
    BY <1>5, LaneFrame DEF Lane, LaneStart, LaneWaited, LaneKill, LaneCheck, LaneTimeout,
       LaneChildWrites, LaneChildEnds
  <2>2. CASE LaneStart(l)
    <3>1. /\ lane_at[l] = "queued" /\ lane_at' = [lane_at EXCEPT ![l] = "wait"]
          /\ lane_child' = [lane_child EXCEPT ![l] = "running"]
          /\ UNCHANGED <<exit, touched, binaries>>
      BY <2>2 DEF LaneStart
    <3> QED BY <2>1, <3>1, <1>0 DEF LaneGood, LanesOver
  <2>3. CASE LaneWaited(l)
    <3>1. /\ lane_at[l] = "wait" /\ lane_at' = [lane_at EXCEPT ![l] = "check"]
          /\ lane_child[l] = "ended" /\ UNCHANGED <<lane_child, exit, touched, binaries>>
      BY <2>3 DEF LaneWaited
    <3> QED BY <2>1, <3>1, <1>0 DEF LaneGood, LanesOver
  <2>4. CASE LaneKill(l)
    <3>1. /\ lane_at[l] \in {"grace", "raise"}
          /\ lane_child' = [lane_child EXCEPT ![l] = "ended"]
          /\ exit' = [exit EXCEPT ![l] = 124] /\ UNCHANGED <<touched, binaries>>
      BY <2>4 DEF LaneKill
    <3>2. \E way \in {"check", "failed"} : lane_at' = [lane_at EXCEPT ![l] = way]
      BY <2>4 DEF LaneKill
    <3> QED BY <2>1, <3>1, <3>2, <1>0 DEF LaneGood, LanesOver
  <2>5. CASE LaneCheck(l)
    <3>1. /\ lane_at[l] = "check" /\ UNCHANGED <<lane_child, exit, touched, binaries>>
          /\ lane_at' = [lane_at EXCEPT ![l] = IF LaneGood(l) THEN "good" ELSE "failed"]
      BY <2>5 DEF LaneCheck
    <3>2. \A m \in GateLanes : LaneGood(m)' <=> LaneGood(m)
      BY <3>1 DEF LaneGood
    <3>3. \A m \in GateLanes : m # l => lane_at'[m] = lane_at[m]
      BY <3>1, <1>0
    <3>4. lane_at'[l] \in {"good", "failed"} /\ (lane_at'[l] = "good" => LaneGood(l))
      BY <3>1, <1>0
    <3>5. \A m \in GateLanes : lane_at'[m] = "good" => LaneGood(m)'
      BY <3>2, <3>3, <3>4
    <3>6. gate_pc # "dead" => lane_child[l] # "running"
      BY <3>1
    <3>7. gate_pc # "done" /\ gate_pc # "dead"
          /\ gate_pc \notin {"verify", "prepare", "lanes"} \cup Taking
      BY <3>1 DEF LanesOver
    <3> QED BY <2>1, <3>1, <3>3, <3>5, <3>6, <3>7
  <2>6. CASE LaneTimeout(l)
    <3>1. lane_at[l] = "wait" /\ UNCHANGED <<lane_child, exit, touched, binaries>>
      BY <2>6 DEF LaneTimeout
    <3>2. \E way \in {"grace", "raise"} : lane_at' = [lane_at EXCEPT ![l] = way]
      BY <2>6 DEF LaneTimeout
    <3> QED BY <2>1, <3>1, <3>2, <1>0 DEF LaneGood, LanesOver
  <2>7. CASE LaneChildWrites(l)
    <3>1. /\ lane_child[l] = "running" /\ UNCHANGED <<lane_at, lane_child, exit, binaries>>
          /\ touched' = [touched EXCEPT ![l] = TRUE]
      BY <2>7 DEF LaneChildWrites
    <3>2. lane_at[l] # "good"
      BY <3>1
    <3> QED BY <2>1, <3>1, <3>2, <1>0 DEF LaneGood, LanesOver
  <2>8. CASE LaneChildEnds(l)
    <3>1. /\ lane_child[l] = "running" /\ UNCHANGED <<lane_at, touched>>
          /\ lane_child' = [lane_child EXCEPT ![l] = "ended"]
          /\ \E c \in {0, 1} : exit' = [exit EXCEPT ![l] = c]
          /\ \E b \in 0 .. 2 : binaries' = [binaries EXCEPT ![l] = b]
      BY <2>8 DEF LaneChildEnds
    <3>2. lane_at[l] # "good"
      BY <3>1
    <3> QED BY <2>1, <3>1, <3>2, <1>0 DEF LaneGood, LanesOver
  <2> QED BY <1>5, <2>2, <2>3, <2>4, <2>5, <2>6, <2>7, <2>8 DEF Lane
<1>6. CASE (\E f \in Tree : EditTree(f)) \/ UNCHANGED gateVars
  <2>1. UNCHANGED <<gate_pc, lane_at, lane_child, exit, touched, binaries>>
    BY <1>6 DEF EditTree, gateVars, laneVars
  <2> QED BY <2>1 DEF LaneGood, LanesOver
<1> QED BY <1>1, <1>2, <1>3, <1>4, <1>5, <1>6 DEF GateNext, GateMain

\* Every step keeps what a verdict rests on.
LEMMA ReportStep ==
    ASSUME GateFields, LaneInv, ReportInv, [GateNext]_gateVars
    PROVE  ReportInv'
<1> USE DEF ReportInv
<1>0. /\ lane_at \in [GateLanes -> {"idle", "queued", "wait", "grace", "raise",
                                    "check", "good", "failed"}]
      /\ lane_child \in [GateLanes -> {"none", "running", "ended"}]
  BY DEF GateFields
<1>1. CASE Verify \/ Hash \/ Copy \/ Rehash \/ Accept
  <2>1. /\ UNCHANGED <<bench, passed, report>>
        /\ gate_pc \in {"verify", "hash", "copy", "rehash", "accept"}
        /\ gate_pc' \in {"hash", "copy", "rehash", "accept", "prepare", "drain"}
        /\ gate_pc' = "prepare" => accepted'
    BY <1>1 DEF Verify, Hash, Copy, Rehash, Accept, Step, Fail, laneVars, reportVars
  <2> QED BY <2>1
<1>2. CASE PrepareTrees \/ Submit \/ Collect
  <2>1. /\ UNCHANGED <<bench, passed, accepted>> /\ report' \in {report, "failed"}
        /\ gate_pc \in {"prepare", "lanes", "collect"}
        /\ gate_pc' \in {"lanes", "collect", "compare", "drain"}
        /\ gate_pc' = "compare" => \A l \in GateLanes : lane_at'[l] = "good"
    BY <1>2 DEF PrepareTrees, Submit, Collect, Fail, laneVars, snapVars, reportVars
  <2> QED BY <2>1
<1>3. CASE Compare
  <2>1. /\ UNCHANGED <<accepted, lane_at, lane_child, exit, touched, binaries, report>>
        /\ gate_pc = "compare" /\ gate_pc' \in {"print", "drain"}
    BY <1>3 DEF Compare, Fail, laneVars, snapVars
  <2>2. passed' => Controls(bench') /\ gate_pc' = "print"
    BY <1>3, <2>1 DEF Compare, Fail
  <2>3. Controls(bench') <=> Controls(bench)'
    OBVIOUS
  <2>4. \A l \in GateLanes : /\ lane_at[l] = "good" /\ lane_child[l] # "running"
                             /\ LaneGood(l) /\ LaneGood(l)'
    BY <2>1 DEF LaneInv, LaneGood
  <2>5. report' # "passed" /\ accepted'
    BY <2>1
  <2>6. passed' => Controls(bench)'
    BY <2>2, <2>3
  <2>7. passed' => gate_pc' = "print"
    BY <2>2
  <2> HIDE DEF Controls
  <2> QED BY <2>1, <2>4, <2>5, <2>6, <2>7
<1>4. CASE Printed \/ GateFinish \/ GateInterrupt
  <2>1. /\ UNCHANGED <<accepted, lane_at, lane_child, exit, touched, binaries, bench, passed>>
        /\ gate_pc' \in {"drain", "done"}
        /\ report' = "passed" => passed \/ report = "passed"
    BY <1>4 DEF Printed, GateFinish, GateInterrupt, Fail, laneVars, snapVars
  <2> QED BY <2>1 DEF LaneGood
<1>5. CASE GateAbandon
  <2>1. /\ UNCHANGED <<accepted, lane_at, lane_child, exit, touched, binaries, bench, passed>>
        /\ gate_pc' = "left" /\ ~LanesOver
        /\ report' = IF passed THEN "passed" ELSE "failed"
    BY <1>5 DEF GateAbandon, laneVars, snapVars
  <2>2. ~passed
    BY <2>1 DEF LanesOver
  <2> QED BY <2>1, <2>2
<1>6. CASE GateCrash
  <2>1. /\ UNCHANGED <<accepted, lane_child, exit, touched, binaries, bench, passed, report>>
        /\ gate_pc' = "dead" /\ lane_at' = [l \in GateLanes |-> "idle"]
    BY <1>6 DEF GateCrash, snapVars, reportVars
  <2> QED BY <2>1 DEF LaneGood
<1>7. ASSUME NEW l \in GateLanes,
             Lane(l) \/ LaneTimeout(l) \/ LaneChildWrites(l) \/ LaneChildEnds(l)
      PROVE  ReportInv'
  <2>1. UNCHANGED <<gate_pc, accepted, bench, passed, report>>
    BY <1>7, LaneFrame DEF Lane, LaneStart, LaneWaited, LaneKill, LaneCheck, LaneTimeout,
       LaneChildWrites, LaneChildEnds
  <2>2. lane_at[l] \notin {"idle", "good"} \/ lane_child[l] = "running"
    BY <1>7 DEF Lane, LaneStart, LaneWaited, LaneKill, LaneCheck, LaneTimeout,
       LaneChildWrites, LaneChildEnds
  <2>3. ~passed
    BY <2>2
  <2>4. gate_pc \notin {"compare", "print"}
    BY <2>2 DEF LaneInv
  <2> QED BY <2>1, <2>3, <2>4
<1>8. CASE (\E f \in Tree : EditTree(f)) \/ UNCHANGED gateVars
  <2>1. UNCHANGED <<gate_pc, accepted, lane_at, lane_child, exit, touched, binaries,
                    bench, passed, report>>
    BY <1>8 DEF EditTree, gateVars, laneVars, snapVars, reportVars
  <2> QED BY <2>1 DEF LaneGood
<1> QED BY <1>1, <1>2, <1>3, <1>4, <1>5, <1>6, <1>7, <1>8 DEF GateNext, GateMain

\* The invariant holds in every state the tool reaches.
LEMMA GateInvariant == GateSpec => []GateInv
<1>1. GateInit => GateInv
  BY GateInitInv
<1>2. GateInv /\ [GateNext]_gateVars => GateInv'
  BY GateFieldsStep, SnapStep, LaneStep, ReportStep DEF GateInv
<1> QED BY <1>1, <1>2, PTL DEF GateSpec

\* tools/check-fairness.py, main(): every field keeps its type; main() leaves no
\* child of a lane running unless its pool's exit is interrupted, and then the
\* report it leaves is a failed one.
THEOREM OnlyAbandonedLanesOutlive == GateSpec => []GateTypeOK
<1>1. GateInv => GateTypeOK
  <2> SUFFICES ASSUME GateInv PROVE GateTypeOK
    OBVIOUS
  <2>1. \A v \in 0 .. MaxTreeEdits + 1 : v \in NotYet .. MaxTreeEdits + 1
    BY GateFacts DEF NotYet
  <2>2. source \in [Tree -> NotYet .. MaxTreeEdits + 1]
    BY <2>1 DEF GateInv, GateFields
  <2>3. gate_pc = "done" => \A l \in GateLanes : lane_child[l] # "running"
    BY DEF GateInv, LaneInv, LanesOver
  <2>4. gate_pc = "left" => report = "failed"
    BY DEF GateInv, ReportInv
  <2> QED BY <2>2, <2>3, <2>4 DEF GateInv, GateFields, GateTypeOK
<1> QED BY <1>1, GateInvariant, PTL

\* tools/check-fairness.py, snapshot(): what is accepted is a tree the source
\* was at one moment, for any number of files and edits.
THEOREM SnapshotIsATree == GateSpec => SnapshotConsistent
<1> DEFINE Consistent == accepted' /\ ~accepted =>
                            \E tree \in past : \A f \in Tree :
                               IF tree[f] = Absent THEN hashed[f] = Absent
                                                   ELSE copy[f] = tree[f]
<1>1. GateInv /\ [GateNext]_gateVars => [Consistent]_gateVars
  <2> SUFFICES ASSUME GateInv, [GateNext]_gateVars, accepted', ~accepted PROVE Consistent
    OBVIOUS
  <2>1. gate_pc = "accept" /\ Same
    <3>1. Accept
      BY LaneFrame DEF GateNext, GateMain, Verify, Hash, Copy, Rehash, PrepareTrees, Submit,
         Collect, Compare, Printed, GateFinish, GateInterrupt, GateAbandon, GateCrash, Lane, LaneStart,
         LaneWaited, LaneKill, LaneCheck, LaneTimeout, LaneChildWrites, LaneChildEnds,
         EditTree, gateVars, snapVars, reportVars
    <3> QED BY <3>1 DEF Accept, Fail
  <2>2. PICK tree \in past : \A f \in Tree :
           hashed[f] = source[f] \/ after[f] = hashed[f] => tree[f] = hashed[f]
    BY <2>1 DEF GateInv, SnapInv
  <2>3. \A f \in Tree : tree[f] = hashed[f]
    BY <2>1, <2>2 DEF Same
  <2> QED BY <2>1, <2>3 DEF Same
<1>2. GateInv /\ [GateNext]_gateVars =>
        [accepted' /\ ~accepted =>
           \E tree \in past : \A f \in Tree :
              IF tree[f] = Absent THEN hashed[f] = Absent ELSE copy[f] = tree[f]]_gateVars
  BY <1>1
<1> QED BY <1>2, GateInvariant, PTL DEF GateSpec, SnapshotConsistent

\* tools/check-fairness.py, compare() and main(): what a passed report means,
\* for any grid, any recorded bytes and whatever the candidate's cells come to.
THEOREM PassIsFairer == GateSpec => []PassMeansFairer
<1>1. GateInv => PassMeansFairer
  <2> SUFFICES ASSUME GateInv, report = "passed" PROVE PassMeansFairer
    BY DEF PassMeansFairer
  <2>1. /\ Controls(bench) /\ accepted /\ \A l \in GateLanes : LaneGood(l)
        /\ bench \in [Cells -> Seq(Nat)]
    BY DEF GateInv, ReportInv, GateFields
  <2>2. /\ \E c \in Mixed : Less(Jain(BaselineBytes[c]), Jain(bench[c]))
        /\ \A c \in Mixed : \E d \in Mixed : ~Less(Jain(bench[c]), Jain(BaselineBytes[d]))
    BY <2>1, ControlsMeanFairer
  <2>3. bench[Cubic] = BaselineBytes[Cubic]
        /\ \A c \in Cells : \A j \in DOMAIN bench[c] : bench[c][j] > 0
    BY <2>1 DEF Controls
  <2> QED BY <2>1, <2>2, <2>3 DEF PassMeansFairer, LaneGood
<1> QED BY <1>1, GateInvariant, PTL
===============================================================================
