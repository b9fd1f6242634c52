------------------------ MODULE ContainerWatchProofs ------------------------
(***************************************************************************)
(* Proofs about ContainerWatch, for any containers the CLI asks for, any   *)
(* number of them and any number of mishaps: the types, NoLineLost,        *)
(* PassIsWatched and GapIsReal.  All four follow from one inductive        *)
(* invariant, WatchInv, which says where every line and record comes from, *)
(* that a good record tells the truth, that the lines keep their order,    *)
(* and what the gate still knows when it has decided.  One lemma per       *)
(* conjunct shows that every step preserves it.                            *)
(***************************************************************************)
EXTENDS ContainerWatch, SequenceTheorems, FiniteSetTheorems, TLAPS

Statuses == {"created", "running", "exited", "removed"}
WatchSteps == {"off", "network", "spawn", "ready", "top", "select", "inspect",
               "audit", "violation", "act", "exited"}
WorkSteps == {"inspect", "audit", "violation", "act"}
ShellSteps == {"start", "wait_ready", "freeze", "db_start", "alive", "stopping", "files",
               "network", "query", "trap", "trapping", "done"}

ShapeTyped == shape \in Seq(Shapes) /\ Len(shape) <= MaxContainers
StatusTyped == status \in Seq(Statuses) /\ Len(status) = Len(shape)
HistoryTyped == history \in Seq(Events) /\ since \in 0..Len(history)
LinesTyped ==
    /\ pipe \in Seq(Events) /\ buffer \in Seq(Events)
    /\ stream \in {"off", "spawned", "subscribed", "ended"}
FilesTyped == audit \in Seq(Records) /\ violations \in Seq(Records)
WatchTyped ==
    /\ watch.pc \in WatchSteps /\ watch.rec \in Records
    /\ watch.rec # NoRecord <=> watch.pc \in WorkSteps
ControlTyped ==
    /\ frozenNet \in BOOLEAN /\ running \in BOOLEAN /\ ready \in BOOLEAN
    /\ alive \in BOOLEAN /\ killed \in BOOLEAN
    /\ shell \in ShellSteps /\ verdict \in Verdicts
FaultsTyped == faults \in 0..MaxFaults

Typed == /\ ShapeTyped /\ StatusTyped /\ HistoryTyped /\ LinesTyped
         /\ FilesTyped /\ WatchTyped /\ ControlTyped /\ FaultsTyped

(* The parts make up the type invariant. *)
LEMMA TypesOfParts == Typed => TypeOK
<1> SUFFICES ASSUME Typed PROVE TypeOK
  OBVIOUS
<1>1. shape \in Seq(Shapes) /\ Len(shape) <= MaxContainers
  BY DEF Typed, ShapeTyped
<1>2. status \in [DOMAIN shape -> Statuses]
  BY <1>1 DEF Typed, StatusTyped
<1> QED
  BY <1>1, <1>2 DEF Typed, HistoryTyped, LinesTyped, FilesTyped, WatchTyped, ControlTyped,
     FaultsTyped, TypeOK,
     Statuses, WatchSteps, WorkSteps, ShellSteps

(* A mishap is charged within its bound. *)
LEMMA Charged ==
  ASSUME FaultsTyped, NEW ok \in BOOLEAN, Charge(ok)
  PROVE  FaultsTyped'
BY BoundsAssumption DEF FaultsTyped, Charge

(* And a step that charges nothing keeps to the bound as well. *)
LEMMA FaultsStand ==
  ASSUME FaultsTyped, UNCHANGED faults
  PROVE  FaultsTyped'
BY DEF FaultsTyped

(* A look at the network is charged, and may find it good or not. *)
LEMMA NetworkCharged ==
  ASSUME FaultsTyped, NEW good, NetworkSeen(good)
  PROVE  FaultsTyped' /\ good \in BOOLEAN \cup {frozenNet}
BY Charged DEF NetworkSeen

(* The steps of Docker and the CLI keep the types. *)
LEMMA TypedDocker ==
  ASSUME Typed, Docker
  PROVE  Typed'
<1> USE DEF Typed, daemon, lines, files, gate
<1>1. ASSUME NEW s \in Shapes, Create(s)
      PROVE  Typed'
  <2> USE <1>1 DEF Create, CliRuns, Emit
  <2>1. ShapeTyped' /\ StatusTyped'
    BY BoundsAssumption DEF ShapeTyped, StatusTyped, Statuses
  <2>2. Event("create", Len(shape) + 1) \in Events
    BY BoundsAssumption DEF ShapeTyped, Event, Events, Containers
  <2>3. HistoryTyped' /\ LinesTyped'
    BY <2>2 DEF HistoryTyped, LinesTyped
  <2>4. FilesTyped' /\ WatchTyped' /\ ControlTyped' /\ FaultsTyped'
    BY DEF FilesTyped, WatchTyped, ControlTyped, FaultsTyped
  <2> QED
    BY <2>1, <2>3, <2>4
<1>2. ASSUME NEW c \in DOMAIN shape, Start(c) \/ Restart(c)
      PROVE  Typed'
  <2>1. /\ status' = [status EXCEPT ![c] = "running"] /\ Emit(Event("start", c))
        /\ UNCHANGED <<shape, frozenNet, stream, since, buffer, watch, running, files, gate>>
    BY <1>2 DEF Start, Restart
  <2>2. FaultsTyped'
    BY <1>2, Charged, FaultsStand DEF Start, Restart
  <2>3. ShapeTyped' /\ StatusTyped'
    BY <2>1 DEF ShapeTyped, StatusTyped, Statuses
  <2>4. Event("start", c) \in Events
    BY BoundsAssumption DEF ShapeTyped, Event, Events, Containers
  <2>5. HistoryTyped' /\ LinesTyped'
    BY <2>1, <2>4 DEF HistoryTyped, LinesTyped, Emit
  <2>6. FilesTyped' /\ WatchTyped' /\ ControlTyped'
    BY <2>1 DEF FilesTyped, WatchTyped, ControlTyped
  <2> QED
    BY <2>2, <2>3, <2>5, <2>6
<1>3. ASSUME NEW c \in DOMAIN shape, Die(c) \/ CliRemove(c)
      PROVE  Typed'
  <2>1. /\ \E now \in Statuses: status' = [status EXCEPT ![c] = now]
        /\ UNCHANGED <<shape, history, frozenNet, lines, watch, running, files, gate, faults>>
    <3>1. CASE Die(c)
      <4>1. status' = [status EXCEPT ![c] = "exited"] /\ "exited" \in Statuses
        BY <3>1 DEF Die, Statuses
      <4> QED
        BY <3>1, <4>1 DEF Die
    <3>2. CASE CliRemove(c)
      <4>1. status' = [status EXCEPT ![c] = "removed"] /\ "removed" \in Statuses
        BY <3>2 DEF CliRemove, Statuses
      <4> QED
        BY <3>2, <4>1 DEF CliRemove
    <3> QED
      BY <1>3, <3>1, <3>2
  <2>2. ShapeTyped' /\ StatusTyped'
    BY <2>1 DEF ShapeTyped, StatusTyped
  <2>3. HistoryTyped' /\ LinesTyped' /\ FilesTyped' /\ WatchTyped'
    BY <2>1 DEF HistoryTyped, LinesTyped, FilesTyped, WatchTyped
  <2>4. ControlTyped' /\ FaultsTyped'
    BY <2>1 DEF ControlTyped, FaultsTyped
  <2> QED
    BY <2>2, <2>3, <2>4
<1>4. CASE NetworkChanges \/ Subscribe \/ StreamEnds
  <2>1. FaultsTyped'
    BY <1>4, Charged, FaultsStand DEF NetworkChanges, Subscribe, StreamEnds
  <2>2. /\ stream' \in {stream, "subscribed", "ended"} /\ since' \in {since, Len(history)}
        /\ frozenNet' \in {frozenNet, FALSE}
        /\ UNCHANGED <<shape, status, history, pipe, buffer, watch, running, files, gate>>
    BY <1>4 DEF NetworkChanges, Subscribe, StreamEnds
  <2>3. ShapeTyped' /\ StatusTyped' /\ FilesTyped' /\ WatchTyped'
    BY <2>2 DEF ShapeTyped, StatusTyped, FilesTyped, WatchTyped
  <2>4. HistoryTyped'
    BY <2>2 DEF HistoryTyped
  <2>5. LinesTyped'
    BY <2>2 DEF LinesTyped
  <2>6. ControlTyped'
    BY <2>2 DEF ControlTyped
  <2> QED
    BY <2>1, <2>3, <2>4, <2>5, <2>6
<1> QED
  BY <1>1, <1>2, <1>3, <1>4 DEF Docker

(* What the watcher holds once it leaves *)
LEMMA NothingHeld ==
  /\ NoRecord \in Records
  /\ NetworkFailure \in Records /\ NetworkFailure # NoRecord
BY BoundsAssumption DEF NoRecord, NetworkFailure, Records, Record, Roles

(* The watcher goes to a step with a record that fits it. *)
LEMMA TypedGoto ==
  ASSUME NEW p \in WatchSteps, NEW r \in Records, Goto(p, r), r # NoRecord <=> p \in WorkSteps
  PROVE  WatchTyped'
BY DEF Goto, WatchTyped

(* Leaving, it holds nothing, and nothing is on its way to it. *)
LEMMA TypedLeave ==
  ASSUME Typed, Leave, UNCHANGED history
  PROVE  WatchTyped' /\ LinesTyped' /\ HistoryTyped'
<1>1. WatchTyped'
  BY NothingHeld, TypedGoto DEF Leave, WatchSteps, WorkSteps
<1>2. LinesTyped'
  BY DEF Typed, Leave, LinesTyped
<1>3. HistoryTyped'
  BY DEF Typed, Leave, HistoryTyped
<1> QED
  BY <1>1, <1>2, <1>3

(* The steps of the watcher keep the types. *)
LEMMA TypedWatcher ==
  ASSUME Typed, Watcher
  PROVE  Typed'
<1> USE DEF Typed, daemon, lines, files, gate
<1>1. CASE InitialCheck \/ PeriodicCheck
  <2>1. FaultsTyped'
    BY <1>1, NetworkCharged DEF InitialCheck, PeriodicCheck
  <2>2. WatchTyped'
    <3>1. Goto("spawn", NoRecord) \/ Goto("select", NoRecord) \/ Goto("audit", NetworkFailure)
      BY <1>1 DEF InitialCheck, PeriodicCheck
    <3> QED
      BY <3>1, NothingHeld, TypedGoto DEF WatchSteps, WorkSteps
  <2>3. UNCHANGED <<daemon, lines, running, files, gate>>
    BY <1>1 DEF InitialCheck, PeriodicCheck
  <2>4. ShapeTyped' /\ StatusTyped' /\ HistoryTyped' /\ LinesTyped' /\ FilesTyped' /\ ControlTyped'
    BY <2>3 DEF ShapeTyped, StatusTyped, HistoryTyped, LinesTyped, FilesTyped, ControlTyped
  <2> QED
    BY <2>1, <2>2, <2>4
<1>2. CASE Spawn \/ MarkReady \/ SelectTimesOut
  <2>1. WatchTyped'
    <3>1. \E p \in {"ready", "top"}: Goto(p, NoRecord)
      BY <1>2 DEF Spawn, MarkReady, SelectTimesOut
    <3> QED
      BY <3>1, NothingHeld, TypedGoto DEF WatchSteps, WorkSteps
  <2>2. /\ stream' \in {stream, "spawned"} /\ ready' \in {ready, TRUE}
        /\ UNCHANGED <<daemon, since, pipe, buffer, running, audit, violations, gate, faults>>
    BY <1>2 DEF Spawn, MarkReady, SelectTimesOut
  <2>3. ShapeTyped' /\ StatusTyped' /\ HistoryTyped' /\ LinesTyped'
    BY <2>2 DEF ShapeTyped, StatusTyped, HistoryTyped, LinesTyped
  <2>4. FilesTyped' /\ ControlTyped' /\ FaultsTyped'
    BY <2>2 DEF FilesTyped, ControlTyped, FaultsTyped
  <2> QED
    BY <2>1, <2>3, <2>4
<1>3. CASE LoopTop \/ ReadEnd
  <2>1. WatchTyped' /\ LinesTyped' /\ HistoryTyped'
    <3>1. CASE Goto("select", NoRecord) /\ UNCHANGED lines /\ UNCHANGED history
      <4>1. WatchTyped'
        BY <3>1, NothingHeld, TypedGoto DEF WatchSteps, WorkSteps
      <4> QED
        BY <3>1, <4>1 DEF LinesTyped, HistoryTyped
    <3>2. CASE Leave /\ UNCHANGED history
      BY <3>2, TypedLeave
    <3> QED
      BY <1>3, <3>1, <3>2 DEF LoopTop, ReadEnd
  <2>2. UNCHANGED <<daemon, running, files, gate, faults>>
    BY <1>3 DEF LoopTop, ReadEnd
  <2>3. ShapeTyped' /\ StatusTyped' /\ FilesTyped' /\ ControlTyped' /\ FaultsTyped'
    BY <2>2 DEF ShapeTyped, StatusTyped, FilesTyped, ControlTyped, FaultsTyped
  <2> QED
    BY <2>1, <2>3
<1>4. CASE ReadLine
  <2>1. PICK n \in 0..Len(pipe):
          LET got == buffer \o SubSeq(pipe, 1, n) IN
            /\ got # <<>> /\ buffer' = Tail(got) /\ pipe' = SubSeq(pipe, n + 1, Len(pipe))
            /\ Goto("inspect", Record(Head(got).action, Head(got).c, "none", TRUE))
    BY <1>4 DEF ReadLine
  <2> DEFINE got == buffer \o SubSeq(pipe, 1, n)
  <2>2. got \in Seq(Events) /\ got # <<>>
    <3>1. SubSeq(pipe, 1, n) \in Seq(Events) /\ buffer \in Seq(Events)
      BY DEF LinesTyped
    <3> QED
      BY <2>1, <3>1, ConcatProperties
  <2>10. /\ buffer' = Tail(got) /\ pipe' = SubSeq(pipe, n + 1, Len(pipe))
         /\ Goto("inspect", Record(Head(got).action, Head(got).c, "none", TRUE))
    BY <2>1
  <2> HIDE DEF got
  <2>3. Head(got) \in Events /\ Tail(got) \in Seq(Events)
    BY <2>2, HeadTailProperties
  <2>4. buffer' \in Seq(Events) /\ pipe' \in Seq(Events)
    BY <2>3, <2>10 DEF LinesTyped
  <2>5. Record(Head(got).action, Head(got).c, "none", TRUE) \in Records \ {NoRecord}
    BY <2>3, BoundsAssumption DEF Events, Records, Record, Roles, NoRecord, Containers
  <2>6. WatchTyped'
    BY <2>5, <2>10, TypedGoto DEF WatchSteps, WorkSteps
  <2>7. UNCHANGED <<daemon, stream, since, running, files, gate, faults>>
    BY <1>4 DEF ReadLine
  <2>8. LinesTyped' /\ HistoryTyped'
    BY <2>4, <2>7 DEF LinesTyped, HistoryTyped
  <2>9. ShapeTyped' /\ StatusTyped' /\ FilesTyped' /\ ControlTyped' /\ FaultsTyped'
    BY <2>7 DEF ShapeTyped, StatusTyped, FilesTyped, ControlTyped, FaultsTyped
  <2> QED
    BY <2>6, <2>8, <2>9
<1>5. CASE Inspect
  <2>1. PICK networkRead \in BOOLEAN, inspected \in BOOLEAN:
          /\ Charge(networkRead /\ inspected)
          /\ Goto("audit", IF inspected /\ status[watch.rec.c] # "removed"
                THEN Record(watch.rec.phase, watch.rec.c, Role(shape[watch.rec.c]),
                            networkRead /\ frozenNet /\ Compliant(watch.rec.c, watch.rec.phase))
                ELSE Record(watch.rec.phase, watch.rec.c, "unobserved", FALSE))
    BY <1>5 DEF Inspect
  <2>2. FaultsTyped'
    BY <2>1, Charged
  <2>3. \E role \in Roles \ {"none"}, ok \in BOOLEAN:
           Goto("audit", Record(watch.rec.phase, watch.rec.c, role, ok))
    <3>1. Role(shape[watch.rec.c]) \in Roles \ {"none"} /\ "unobserved" \in Roles \ {"none"}
      BY DEF Role, Roles
    <3>2. (networkRead /\ frozenNet /\ Compliant(watch.rec.c, watch.rec.phase)) \in BOOLEAN
      BY DEF ControlTyped, Compliant
    <3> QED
      BY <2>1, <3>1, <3>2
  <2>4. ASSUME NEW role \in Roles \ {"none"}, NEW ok \in BOOLEAN
        PROVE  Record(watch.rec.phase, watch.rec.c, role, ok) \in Records \ {NoRecord}
    BY BoundsAssumption DEF WatchTyped, Records, Record, NoRecord
  <2>5. WatchTyped'
    BY <2>3, <2>4, TypedGoto DEF WatchSteps, WorkSteps
  <2>6. UNCHANGED <<daemon, lines, running, files, gate>>
    BY <1>5 DEF Inspect
  <2>7. ShapeTyped' /\ StatusTyped' /\ HistoryTyped' /\ LinesTyped' /\ FilesTyped' /\ ControlTyped'
    BY <2>6 DEF ShapeTyped, StatusTyped, HistoryTyped, LinesTyped, FilesTyped, ControlTyped
  <2> QED
    BY <2>2, <2>5, <2>7
<1>6. CASE WriteAudit
  <2>1. watch.rec \in Records /\ watch.rec # NoRecord
    BY <1>6 DEF WriteAudit, At, WatchTyped, WorkSteps
  <2>2. Goto("top", NoRecord) \/ Goto("violation", watch.rec)
    BY <1>6 DEF WriteAudit
  <2>3. WatchTyped'
    BY <2>1, <2>2, NothingHeld, TypedGoto DEF WatchSteps, WorkSteps
  <2>4. /\ audit' = Append(audit, watch.rec)
        /\ UNCHANGED <<daemon, lines, running, ready, violations, gate, faults>>
    BY <1>6 DEF WriteAudit
  <2>5. FilesTyped'
    BY <2>1, <2>4 DEF FilesTyped
  <2>6. ShapeTyped' /\ StatusTyped' /\ HistoryTyped' /\ LinesTyped' /\ ControlTyped' /\ FaultsTyped'
    BY <2>4 DEF ShapeTyped, StatusTyped, HistoryTyped, LinesTyped, ControlTyped, FaultsTyped
  <2> QED
    BY <2>3, <2>5, <2>6
<1>7. CASE WriteViolation
  <2>1. watch.rec \in Records /\ watch.rec # NoRecord
    BY <1>7 DEF WriteViolation, At, WatchTyped, WorkSteps
  <2>2. /\ violations' = Append(violations, watch.rec)
        /\ UNCHANGED <<daemon, running, ready, audit, gate, faults>>
    BY <1>7 DEF WriteViolation
  <2>3. WatchTyped' /\ LinesTyped' /\ HistoryTyped'
    <3>1. CASE Goto("act", watch.rec) /\ UNCHANGED lines
      <4>1. WatchTyped'
        BY <2>1, <3>1, TypedGoto DEF WatchSteps, WorkSteps
      <4> QED
        BY <2>2, <3>1, <4>1 DEF LinesTyped, HistoryTyped
    <3>2. CASE Leave
      BY <2>2, <3>2, TypedLeave
    <3> QED
      BY <1>7, <3>1, <3>2 DEF WriteViolation
  <2>4. FilesTyped'
    BY <2>1, <2>2 DEF FilesTyped
  <2>5. ShapeTyped' /\ StatusTyped' /\ ControlTyped' /\ FaultsTyped'
    BY <2>2 DEF ShapeTyped, StatusTyped, ControlTyped, FaultsTyped
  <2> QED
    BY <2>3, <2>4, <2>5
<1>8. CASE Act
  <2>1. FaultsTyped'
    BY <1>8, Charged DEF Act
  <2>2. Leave /\ UNCHANGED <<shape, history, frozenNet, running, files, gate>>
    BY <1>8 DEF Act
  <2>3. WatchTyped' /\ LinesTyped' /\ HistoryTyped'
    BY <2>2, TypedLeave
  <2>4. StatusTyped'
    <3>1. \/ UNCHANGED status
          \/ \E now: /\ status' = [status EXCEPT ![watch.rec.c] = now]
                     /\ now \in Statuses \cup {status[watch.rec.c]}
      BY <1>8 DEF Act, Statuses
    <3> QED
      BY <2>2, <3>1 DEF StatusTyped, ShapeTyped
  <2>5. ShapeTyped' /\ FilesTyped' /\ ControlTyped'
    BY <2>2 DEF ShapeTyped, FilesTyped, ControlTyped
  <2> QED
    BY <2>1, <2>3, <2>4, <2>5
<1> QED
  BY <1>1, <1>2, <1>3, <1>4, <1>5, <1>6, <1>7, <1>8 DEF Watcher

(* The verdicts the gate gives are verdicts. *)
LEMMA TypedVerdict ==
  ASSUME NEW volume, NEW bad, NEW strangers, NEW cliOk
  PROVE  GateVerdict(volume, bad, strangers, cliOk) \in Verdicts
<1>1. Classification(volume, bad) \in
         {"OBSERVER_COVERAGE_GAP", "CONTAINER_CREATE_FAILED", "CONTAINER_CREATED_NOT_STARTED",
          "GOTRUE_MIGRATION_FAILED", "DATABASE_HEALTH_FAILED", "NO_DOCKER_MUTATION_OBSERVED",
          "EVENT_HISTORY_CONSISTENT"}
  BY Zenon DEF Classification
<1> QED
  BY <1>1 DEF GateVerdict, Verdicts

(* The steps of the shell keep the types. *)
LEMMA TypedShell ==
  ASSUME Typed, Shell
  PROVE  Typed'
<1> USE DEF Typed, daemon, lines, files, WatchState
<1> DEFINE Stay == UNCHANGED <<daemon, WatchState>>
           Moves == /\ shell' \in ShellSteps /\ verdict' \in Verdicts
                    /\ alive' \in BOOLEAN /\ killed' \in BOOLEAN
<1>1. ASSUME Stay, Moves
      PROVE  /\ ShapeTyped' /\ StatusTyped' /\ HistoryTyped' /\ LinesTyped'
             /\ FilesTyped' /\ WatchTyped' /\ ControlTyped'
  <2>1. ShapeTyped' /\ StatusTyped' /\ HistoryTyped' /\ LinesTyped'
    BY <1>1 DEF ShapeTyped, StatusTyped, HistoryTyped, LinesTyped
  <2>2. FilesTyped' /\ WatchTyped' /\ ControlTyped'
    BY <1>1 DEF FilesTyped, WatchTyped, ControlTyped
  <2> QED
    BY <2>1, <2>2
<1>2. CASE StartWatcher \/ StopWatcher
  <2>1. UNCHANGED <<daemon, lines, files, verdict, killed, faults>>
    BY <1>2 DEF StartWatcher, StopWatcher, GoOn
  <2>2. WatchTyped'
    <3>1. CASE UNCHANGED watch
      BY <3>1 DEF WatchTyped
    <3>2. CASE Goto("network", NoRecord)
      BY <3>2, NothingHeld, TypedGoto DEF WatchSteps, WorkSteps
    <3> QED
      BY <1>2, <3>1, <3>2 DEF StartWatcher, StopWatcher
  <2>3. ControlTyped'
    <3>1. shell' \in ShellSteps /\ alive' \in BOOLEAN /\ running' \in BOOLEAN
      BY <1>2 DEF StartWatcher, StopWatcher, GoOn, At, ShellSteps, ControlTyped
    <3> QED
      BY <2>1, <3>1 DEF ControlTyped
  <2>4. ShapeTyped' /\ StatusTyped' /\ HistoryTyped' /\ LinesTyped' /\ FilesTyped' /\ FaultsTyped'
    BY <2>1 DEF ShapeTyped, StatusTyped, HistoryTyped, LinesTyped, FilesTyped, FaultsTyped
  <2> QED
    BY <2>2, <2>3, <2>4
<1>3. CASE WaitReady \/ CliEnds \/ Stopped \/ CheckFiles
  <2>1. Stay /\ UNCHANGED faults
    BY <1>3 DEF WaitReady, CliEnds, Stopped, CheckFiles
  <2>2. Moves
    BY <1>3 DEF WaitReady, CliEnds, Stopped, CheckFiles, GoOn, Decide, ViolationOr, StoppedPhases,
                ShellSteps, Verdicts, ControlTyped
  <2>3. FaultsTyped'
    BY <2>1, FaultsStand
  <2> QED
    BY <1>1, <2>1, <2>2, <2>3
<1>4. CASE Freeze \/ CheckFrozenNetwork
  <2>1. Stay
    BY <1>4 DEF Freeze, CheckFrozenNetwork
  <2>2. Moves
    BY <1>4 DEF Freeze, CheckFrozenNetwork, GoOn, Decide, ShellSteps, Verdicts, ControlTyped
  <2>3. FaultsTyped'
    BY <1>4, NetworkCharged DEF Freeze, CheckFrozenNetwork
  <2> QED
    BY <1>1, <2>1, <2>2, <2>3
<1>5. CASE KillWatcher
  <2>1. WatchTyped' /\ LinesTyped' /\ HistoryTyped'
    BY <1>5, TypedLeave DEF KillWatcher
  <2>2. ControlTyped'
    BY <1>5 DEF KillWatcher, ControlTyped, StoppedPhases, ShellSteps
  <2>3. ShapeTyped' /\ StatusTyped' /\ FilesTyped' /\ FaultsTyped'
    BY <1>5 DEF KillWatcher, ShapeTyped, StatusTyped, FilesTyped, FaultsTyped
  <2> QED
    BY <2>1, <2>2, <2>3
<1>6. CASE Classify
  <2>1. Stay
    BY <1>6 DEF Classify
  <2>2. \E code \in Verdicts: Decide(code)
    BY <1>6, TypedVerdict DEF Classify, Verdicts
  <2>3. Moves
    BY <2>2 DEF Decide, ShellSteps, ControlTyped
  <2>4. FaultsTyped'
    BY <1>6, Charged DEF Classify
  <2> QED
    BY <1>1, <2>1, <2>3, <2>4
<1> QED
  BY <1>2, <1>3, <1>4, <1>5, <1>6 DEF Shell

(* The first state has the types. *)
LEMMA TypedInit == Init => Typed
<1> SUFFICES ASSUME Init PROVE Typed
  OBVIOUS
<1>1. ShapeTyped /\ StatusTyped /\ HistoryTyped /\ LinesTyped /\ FilesTyped
  BY BoundsAssumption DEF Init, ShapeTyped, StatusTyped, HistoryTyped, LinesTyped, FilesTyped
<1>2. WatchTyped
  BY NothingHeld DEF Init, WatchTyped, WatchSteps, WorkSteps
<1>3. ControlTyped
  BY DEF Init, ControlTyped, ShellSteps, Verdicts
<1>4. FaultsTyped
  BY BoundsAssumption DEF Init, FaultsTyped
<1> QED
  BY <1>1, <1>2, <1>3, <1>4 DEF Typed

(* No step breaks the types. *)
LEMMA TypedNext ==
  ASSUME Typed, [Next]_vars
  PROVE  Typed'
<1>1. CASE UNCHANGED vars
  <2> USE <1>1 DEF vars, daemon, lines, files, gate, Typed
  <2>1. ShapeTyped' /\ StatusTyped' /\ HistoryTyped' /\ LinesTyped'
    BY DEF ShapeTyped, StatusTyped, HistoryTyped, LinesTyped
  <2>2. FilesTyped' /\ WatchTyped' /\ ControlTyped' /\ FaultsTyped'
    BY DEF FilesTyped, WatchTyped, ControlTyped, FaultsTyped
  <2> QED
    BY <2>1, <2>2
<1> QED
  BY <1>1, TypedDocker, TypedWatcher, TypedShell DEF Next

-----------------------------------------------------------------------------
(* The inductive invariant *)

(* The daemon has reported the event. *)
Told(e) == \E i \in DOMAIN history: history[i] = e

(* The history is of the containers there are, and tells of each. *)
HistoryKnown ==
    /\ \A i \in DOMAIN history: history[i].c \in DOMAIN shape
    /\ \A c \in DOMAIN shape: Told(Event("create", c))

(* What is on its way, in the watcher's hands and in its audit comes from  *)
(* the daemon, or is its own finding about the network.                    *)
Known(r) == r = NetworkFailure \/ (r.c # 0 /\ Told(Event(r.phase, r.c)))

LinesTraced ==
    /\ \A i \in DOMAIN pipe: Told(pipe[i])
    /\ \A i \in DOMAIN buffer: Told(buffer[i])

RecordsTraced ==
    /\ watch.pc \in WorkSteps => Known(watch.rec)
    /\ watch.pc \in {"inspect", "act"} => watch.rec.c # 0
    /\ \A i \in DOMAIN audit: Known(audit[i])

(* A record that says so is of a container that keeps its contract. *)
Holds(r) ==
    r.ok => /\ r.role = Role(shape[r.c]) /\ r.role # "unexpected"
            /\ shape[r.c].rest

RecordsHold ==
    /\ watch.pc = "audit" => Holds(watch.rec)
    /\ \A i \in DOMAIN audit: Holds(audit[i])

(* The audit ends with the first bad record. *)
AllGood == \A i \in DOMAIN audit: audit[i].ok

AuditEnds ==
    /\ \A i \in DOMAIN audit: i < Len(audit) => audit[i].ok
    /\ watch.pc \notin {"violation", "act", "exited"} => AllGood
    /\ watch.pc \in {"violation", "act"} => audit # <<>> /\ audit[Len(audit)] = watch.rec
    /\ watch.pc = "act" => violations # <<>>
    /\ watch.pc = "exited" => killed \/ violations # <<>> \/ AllGood

(* Nothing is read before the child is started. *)
BeforeSpawn ==
    watch.pc \in {"off", "network", "spawn"} =>
        stream = "off" /\ audit = <<>> /\ pipe = <<>> /\ buffer = <<>>

(* The child does not outlive the watcher. *)
ChildGone == watch.pc = "exited" => stream = "ended"

(* While the subscription lasts: the lines the audit has, the one in the   *)
(* watcher's hands, those in its buffer and those in the pipe make up the  *)
(* history from the subscription on.                                       *)
Line(r) == Event(r.phase, r.c)
From == IF stream = "subscribed" THEN since ELSE Len(history)
Seen == IF watch.pc = "violation" /\ watch.rec.c = 0 THEN Len(audit) - 1 ELSE Len(audit)
Audited == [i \in 1..Seen |-> Line(audit[i])]
InHand == IF watch.pc \in {"inspect", "audit"} /\ watch.rec.c # 0 THEN <<Line(watch.rec)>> ELSE <<>>

InOrder ==
    stream \in {"spawned", "subscribed"} =>
        Audited \o InHand \o buffer \o pipe = SubSeq(history, From + 1, Len(history))

(* Where the shell is, and what it has found out on its way *)
Decided == {"trap", "trapping", "done"}

ShellKnows ==
    /\ shell = "start" <=> watch.pc = "off"
    /\ shell \in {"files", "network", "query"} => watch.pc = "exited"
    /\ shell \in {"network", "query"} => violations = <<>>
    /\ shell = "query" => frozenNet
    /\ verdict # "none" <=> shell \in Decided

GateKnows ==
    /\ verdict \in {"PASS", "OBSERVER_COVERAGE_GAP"} => watch.pc = "exited"
    /\ verdict = "PASS" => /\ frozenNet /\ violations = <<>>
                           /\ Correlated /\ HistoryIds("create") \subseteq HistoryIds("start")
                           /\ ExactlyOnce
    /\ verdict = "OBSERVER_COVERAGE_GAP" => ~Correlated

WatchInv ==
    /\ Typed /\ HistoryKnown /\ LinesTraced /\ RecordsTraced /\ RecordsHold /\ AuditEnds
    /\ BeforeSpawn /\ ChildGone /\ InOrder /\ ShellKnows /\ GateKnows

-----------------------------------------------------------------------------
(* What the steps do *)

(* The daemon reports an event; the watcher and the shell do not move. *)
Reports(e) ==
    /\ Emit(e)
    /\ UNCHANGED <<frozenNet, stream, since, buffer, watch, running, files, gate>>

(* The daemon's containers and its history grow together, one event at a   *)
(* time, while the CLI runs or the gate has not decided.                   *)
LEMMA DaemonMoves ==
  ASSUME [Next]_vars
  PROVE  \/ /\ CliRuns
            /\ \E s \in Shapes: shape' = Append(shape, s)
            /\ Reports(Event("create", Len(shape) + 1))
         \/ /\ CliRuns \/ verdict = "none"
            /\ UNCHANGED shape
            /\ \E c \in DOMAIN shape: Reports(Event("start", c))
         \/ UNCHANGED <<shape, history>>
<1>1. CASE Docker
  <2>1. ASSUME NEW s \in Shapes, Create(s)
        PROVE  /\ CliRuns /\ shape' = Append(shape, s)
               /\ Reports(Event("create", Len(shape) + 1))
    BY <2>1 DEF Create, Reports
  <2>2. ASSUME NEW c \in DOMAIN shape, Start(c) \/ Restart(c)
        PROVE  /\ CliRuns \/ verdict = "none"
               /\ UNCHANGED shape /\ Reports(Event("start", c))
    BY <2>2 DEF Start, Restart, Reports
  <2>3. ASSUME NEW c \in DOMAIN shape, Die(c) \/ CliRemove(c)
        PROVE  UNCHANGED <<shape, history>>
    BY <2>3 DEF Die, CliRemove
  <2>4. CASE NetworkChanges \/ Subscribe \/ StreamEnds
    BY <2>4 DEF NetworkChanges, Subscribe, StreamEnds, daemon
  <2> QED
    BY <1>1, <2>1, <2>2, <2>3, <2>4 DEF Docker
<1>2. CASE Watcher
  BY <1>2 DEF Watcher, InitialCheck, Spawn, MarkReady, LoopTop, PeriodicCheck, SelectTimesOut,
     ReadLine, ReadEnd, Inspect, WriteAudit, WriteViolation, Act, daemon
<1>3. CASE Shell
  BY <1>3 DEF Shell, StartWatcher, WaitReady, Freeze, CliEnds, StopWatcher, Stopped, KillWatcher,
     CheckFiles, CheckFrozenNetwork, Classify, daemon
<1>4. CASE UNCHANGED vars
  BY <1>4 DEF vars, daemon
<1> QED
  BY <1>1, <1>2, <1>3, <1>4 DEF Next

(* What the watcher does with its record and its audit; Rests is the       *)
(* others' part.                                                           *)
Rests == UNCHANGED <<watch, audit>>
Idles(p) == Goto(p, NoRecord) /\ UNCHANGED audit

(* The watcher's steps, by where it is and where it goes *)
LEMMA WatcherMoves ==
  ASSUME Watcher
  PROVE  \/ At("network") /\ Idles("spawn") /\ UNCHANGED <<lines, gate, violations>>
         \/ At("spawn") /\ Spawn
         \/ /\ \/ At("ready") /\ Idles("top")
               \/ At("select") /\ Idles("top")
               \/ At("top") /\ Idles("select")
            /\ UNCHANGED <<lines, gate, violations>>
         \/ /\ At("network") \/ At("top")
            /\ Goto("audit", NetworkFailure) /\ UNCHANGED <<lines, audit, gate, violations>>
         \/ (At("top") \/ At("select")) /\ Leave /\ UNCHANGED <<audit, gate, violations>>
         \/ ReadLine \/ Inspect \/ WriteAudit \/ WriteViolation \/ Act
<1> USE DEF files, Idles
<1>1. CASE InitialCheck \/ PeriodicCheck
  BY <1>1 DEF InitialCheck, PeriodicCheck
<1>2. CASE Spawn \/ MarkReady \/ SelectTimesOut
  BY <1>2 DEF Spawn, MarkReady, SelectTimesOut
<1>3. CASE LoopTop \/ ReadEnd
  BY <1>3 DEF LoopTop, ReadEnd
<1> QED
  BY <1>1, <1>2, <1>3 DEF Watcher

(* The other steps leave its files alone, and start it or kill it at most. *)
LEMMA OthersMoves ==
  ASSUME [Next]_vars, ~Watcher
  PROVE  /\ UNCHANGED <<audit, violations>>
         /\ \/ UNCHANGED watch
            \/ shell = "start" /\ Goto("network", NoRecord)
            \/ KillWatcher
<1>1. CASE Docker
  <2>1. ASSUME NEW s \in Shapes, Create(s)
        PROVE  UNCHANGED <<watch, files>>
    BY <2>1 DEF Create
  <2>2. ASSUME NEW c \in DOMAIN shape, Start(c) \/ Restart(c) \/ Die(c) \/ CliRemove(c)
        PROVE  UNCHANGED <<watch, files>>
    BY <2>2 DEF Start, Restart, Die, CliRemove
  <2>3. CASE NetworkChanges \/ Subscribe \/ StreamEnds
    BY <2>3 DEF NetworkChanges, Subscribe, StreamEnds, files
  <2> QED
    BY <1>1, <2>1, <2>2, <2>3 DEF Docker, files
<1>2. CASE Shell
  BY <1>2 DEF Shell, StartWatcher, WaitReady, Freeze, CliEnds, StopWatcher, Stopped, KillWatcher,
     CheckFiles, CheckFrozenNetwork, Classify, WatchState, files
<1>3. CASE UNCHANGED vars
  BY <1>3 DEF vars, files
<1> QED
  BY <1>1, <1>2, <1>3 DEF Next

(* What has been told stays told. *)
LEMMA ToldStays ==
  ASSUME Typed, [Next]_vars, NEW e, Told(e)
  PROVE  Told(e)'
<1>1. history \in Seq(Events)
  BY DEF Typed, HistoryTyped
<1>2. PICK i \in DOMAIN history: history[i] = e
  BY DEF Told
<1>3. UNCHANGED history \/ \E f: history' = Append(history, f)
  BY DaemonMoves DEF Reports, Emit
<1> QED
  BY <1>1, <1>2, <1>3 DEF Told

(* The daemon knows its containers. *)
LEMMA HistoryKnownStep ==
  ASSUME Typed, HistoryKnown, [Next]_vars
  PROVE  HistoryKnown'
<1>1. history \in Seq(Events) /\ shape \in Seq(Shapes)
  BY DEF Typed, HistoryTyped, ShapeTyped
<1>2. ASSUME NEW s \in Shapes, shape' = Append(shape, s), Reports(Event("create", Len(shape) + 1))
      PROVE  HistoryKnown'
  <2>1. history' = Append(history, Event("create", Len(shape) + 1))
    BY <1>2 DEF Reports, Emit
  <2>2. ASSUME NEW i \in DOMAIN history'
        PROVE  history'[i].c \in DOMAIN shape'
    BY <1>1, <1>2, <2>1 DEF HistoryKnown, Event
  <2>3. ASSUME NEW c \in DOMAIN shape'
        PROVE  Told(Event("create", c))'
    <3>1. CASE c \in DOMAIN shape
      <4>1. Told(Event("create", c))
        BY <3>1 DEF HistoryKnown
      <4> QED
        BY <4>1, ToldStays DEF Event
    <3>2. CASE c = Len(shape) + 1
      <4>1. Len(history) + 1 \in DOMAIN history'
            /\ history'[Len(history) + 1] = Event("create", Len(shape) + 1)
        BY <1>1, <2>1
      <4> QED
        BY <3>2, <4>1 DEF Told, Event
    <3> QED
      BY <1>1, <1>2, <3>1, <3>2
  <2> QED
    BY <2>2, <2>3 DEF HistoryKnown
<1>3. ASSUME UNCHANGED shape, NEW d \in DOMAIN shape, Reports(Event("start", d))
      PROVE  HistoryKnown'
  <2>1. history' = Append(history, Event("start", d))
    BY <1>3 DEF Reports, Emit
  <2>2. ASSUME NEW i \in DOMAIN history'
        PROVE  history'[i].c \in DOMAIN shape'
    BY <1>1, <1>3, <2>1 DEF HistoryKnown, Event
  <2>3. ASSUME NEW c \in DOMAIN shape'
        PROVE  Told(Event("create", c))'
    <3>1. Told(Event("create", c))
      BY <1>3 DEF HistoryKnown
    <3> QED
      BY <3>1, ToldStays DEF Event
  <2> QED
    BY <2>2, <2>3 DEF HistoryKnown
<1>4. CASE UNCHANGED <<shape, history>>
  BY <1>4 DEF HistoryKnown, Told
<1> QED
  BY <1>2, <1>3, <1>4, DaemonMoves

(* What a step of ReadLine takes from the buffer or, when that is empty,   *)
(* from the pipe                                                           *)
LEMMA Taken ==
  ASSUME Typed, ReadLine
  PROVE  /\ stream' = stream /\ since' = since
         /\ UNCHANGED <<audit, history, violations, gate>>
         /\ At("select")
         /\ \/ /\ buffer # <<>> /\ buffer' = Tail(buffer) /\ pipe' = pipe
               /\ Goto("inspect", Record(buffer[1].action, buffer[1].c, "none", TRUE))
            \/ /\ buffer = <<>>
               /\ \E n \in 1..Len(pipe):
                     /\ buffer' = SubSeq(pipe, 2, n) /\ pipe' = SubSeq(pipe, n + 1, Len(pipe))
               /\ Goto("inspect", Record(pipe[1].action, pipe[1].c, "none", TRUE))
<1>1. PICK n \in 0..Len(pipe):
        /\ (buffer = <<>> /\ pipe # <<>>) <=> n > 0
        /\ buffer \o SubSeq(pipe, 1, n) # <<>>
        /\ buffer' = Tail(buffer \o SubSeq(pipe, 1, n))
        /\ pipe' = SubSeq(pipe, n + 1, Len(pipe))
        /\ Goto("inspect", Record(Head(buffer \o SubSeq(pipe, 1, n)).action,
                                  Head(buffer \o SubSeq(pipe, 1, n)).c, "none", TRUE))
  BY DEF ReadLine
<1>2. pipe \in Seq(Events) /\ buffer \in Seq(Events)
  BY DEF Typed, LinesTyped
<1>3. /\ At("select") /\ stream' = stream /\ since' = since
      /\ UNCHANGED <<audit, history, violations, gate>>
  BY DEF ReadLine, daemon, files
<1>4. CASE n = 0
  <2>1. SubSeq(pipe, 1, 0) = <<>> /\ SubSeq(pipe, 1, Len(pipe)) = pipe
    BY <1>2
  <2>2. buffer \o SubSeq(pipe, 1, n) = buffer /\ pipe' = pipe
    BY <1>1, <1>2, <1>4, <2>1
  <2>3. buffer # <<>> /\ buffer' = Tail(buffer) /\ Head(buffer) = buffer[1]
    BY <1>1, <1>2, <2>2
  <2>4. Goto("inspect", Record(buffer[1].action, buffer[1].c, "none", TRUE))
    BY <1>1, <2>2, <2>3
  <2> QED
    BY <1>3, <2>2, <2>3, <2>4
<1>5. CASE n # 0
  <2>1. buffer = <<>> /\ n \in 1..Len(pipe)
    BY <1>1, <1>5
  <2>2. buffer \o SubSeq(pipe, 1, n) = SubSeq(pipe, 1, n)
    BY <1>2, <2>1
  <2>3. Head(SubSeq(pipe, 1, n)) = pipe[1] /\ Tail(SubSeq(pipe, 1, n)) = SubSeq(pipe, 2, n)
    BY <1>2, <2>1, HeadTailOfSubSeq
  <2>4. Goto("inspect", Record(pipe[1].action, pipe[1].c, "none", TRUE)) /\ buffer' = SubSeq(pipe, 2, n)
    BY <1>1, <2>2, <2>3
  <2> QED
    BY <1>1, <1>3, <2>1, <2>4
<1> QED
  BY <1>4, <1>5

(* Whatever line it takes, it is inspected next. *)
LEMMA ReadLineGoes ==
  ASSUME ReadLine
  PROVE  /\ At("select") /\ UNCHANGED <<audit, violations, gate>>
         /\ \E r: Goto("inspect", r)
BY DEF ReadLine, files

(* The lines that are left, one by one *)
LEMMA LeftOf ==
  ASSUME NEW q \in Seq(Events), NEW m \in 1..(Len(q) + 1), NEW n \in 0..Len(q), m <= n + 1
  PROVE  /\ SubSeq(q, m, n) \in Seq(Events) /\ Len(SubSeq(q, m, n)) = n - m + 1
         /\ \A i \in 1..(n - m + 1): SubSeq(q, m, n)[i] = q[m + i - 1]
<1>1. \A i \in m..n: q[i] \in Events
  OBVIOUS
<1> QED
  BY <1>1, SubSeqProperties

(* Where the lines of pipe and buffer come from *)
LEMMA LinesMove ==
  ASSUME Typed, [Next]_vars
  PROVE  \/ UNCHANGED <<pipe, buffer>>
         \/ pipe' = <<>> /\ buffer' = <<>>
         \/ ReadLine
         \/ \E e \in Events: UNCHANGED buffer /\ pipe' = Append(pipe, e) /\ Told(e)'
<1> USE DEF lines
<1>1. ASSUME NEW e, Reports(e), e \in Events
      PROVE  UNCHANGED <<pipe, buffer>> \/ (UNCHANGED buffer /\ pipe' = Append(pipe, e) /\ Told(e)')
  <2>1. history' = Append(history, e) /\ UNCHANGED buffer /\ (pipe' = pipe \/ pipe' = Append(pipe, e))
    BY <1>1 DEF Reports, Emit
  <2>2. history'[Len(history) + 1] = e /\ Len(history) + 1 \in DOMAIN history'
    BY <1>1, <2>1 DEF Typed, HistoryTyped
  <2> QED
    BY <2>1, <2>2 DEF Told
<1>2. CASE Docker
  <2>1. ASSUME NEW s \in Shapes, Create(s)
        PROVE  \E e \in Events: Reports(e)
    <3>1. Event("create", Len(shape) + 1) \in Events
      BY <2>1, BoundsAssumption DEF Create, Typed, ShapeTyped, Event, Events, Containers
    <3> QED
      BY <2>1, <3>1 DEF Create, Reports
  <2>2. ASSUME NEW c \in DOMAIN shape, Start(c) \/ Restart(c)
        PROVE  \E e \in Events: Reports(e)
    <3>1. Event("start", c) \in Events
      BY BoundsAssumption DEF Typed, ShapeTyped, Event, Events, Containers
    <3> QED
      BY <2>2, <3>1 DEF Start, Restart, Reports
  <2>3. ASSUME NEW c \in DOMAIN shape, Die(c) \/ CliRemove(c)
        PROVE  UNCHANGED lines
    BY <2>3 DEF Die, CliRemove
  <2>4. CASE NetworkChanges \/ Subscribe \/ StreamEnds
    BY <2>4 DEF NetworkChanges, Subscribe, StreamEnds
  <2> QED
    BY <1>1, <1>2, <2>1, <2>2, <2>3, <2>4 DEF Docker
<1>3. CASE Watcher
  BY <1>3, WatcherMoves DEF Leave, Spawn, Inspect, WriteAudit, WriteViolation, Act
<1>4. CASE Shell
  BY <1>4 DEF Shell, StartWatcher, WaitReady, Freeze, CliEnds, StopWatcher, Stopped, KillWatcher,
     CheckFiles, CheckFrozenNetwork, Classify, WatchState, Leave
<1>5. CASE UNCHANGED vars
  BY <1>5 DEF vars
<1> QED
  BY <1>2, <1>3, <1>4, <1>5 DEF Next

(* What is on its way has been told. *)
LEMMA LinesTracedStep ==
  ASSUME Typed, LinesTraced, [Next]_vars
  PROVE  LinesTraced'
<1>1. pipe \in Seq(Events) /\ buffer \in Seq(Events)
  BY DEF Typed, LinesTyped
<1>2. \A e: Told(e) => Told(e)'
  BY ToldStays
<1>3. CASE UNCHANGED <<pipe, buffer>> \/ (pipe' = <<>> /\ buffer' = <<>>)
  BY <1>2, <1>3 DEF LinesTraced
<1>4. CASE ReadLine
  <2>1. CASE buffer # <<>> /\ buffer' = Tail(buffer) /\ pipe' = pipe
    <3>1. \A i \in DOMAIN buffer': i + 1 \in DOMAIN buffer /\ buffer'[i] = buffer[i + 1]
      BY <1>1, <2>1, HeadTailProperties
    <3> QED
      BY <1>2, <2>1, <3>1 DEF LinesTraced
  <2>2. ASSUME NEW n \in 1..Len(pipe),
               buffer' = SubSeq(pipe, 2, n), pipe' = SubSeq(pipe, n + 1, Len(pipe))
        PROVE  LinesTraced'
    <3>1. /\ Len(SubSeq(pipe, 2, n)) = n - 1
          /\ \A i \in 1..(n - 1): SubSeq(pipe, 2, n)[i] = pipe[i + 1]
      BY <1>1, LeftOf
    <3>2. /\ Len(SubSeq(pipe, n + 1, Len(pipe))) = Len(pipe) - n
          /\ \A i \in 1..(Len(pipe) - n): SubSeq(pipe, n + 1, Len(pipe))[i] = pipe[n + i]
      BY <1>1, LeftOf
    <3>3. \A i \in DOMAIN buffer': i + 1 \in DOMAIN pipe /\ buffer'[i] = pipe[i + 1]
      BY <1>1, <2>2, <3>1
    <3>4. \A i \in DOMAIN pipe': n + i \in DOMAIN pipe /\ pipe'[i] = pipe[n + i]
      BY <1>1, <2>2, <3>2
    <3> QED
      BY <1>2, <3>3, <3>4 DEF LinesTraced
  <2> QED
    BY <1>4, <2>1, <2>2, Taken
<1>5. ASSUME NEW e \in Events, UNCHANGED buffer, pipe' = Append(pipe, e), Told(e)'
      PROVE  LinesTraced'
  <2>1. \A i \in DOMAIN pipe': pipe'[i] = e \/ (i \in DOMAIN pipe /\ pipe'[i] = pipe[i])
    BY <1>1, <1>5
  <2> QED
    BY <1>2, <1>5, <2>1 DEF LinesTraced
<1> QED
  BY <1>3, <1>4, <1>5, LinesMove

(* What the watcher holds and writes has been told, or is its own finding. *)
LEMMA RecordsTracedStep ==
  ASSUME Typed, LinesTraced, RecordsTraced, ShellKnows, [Next]_vars
  PROVE  RecordsTraced'
<1>1. audit \in Seq(Records) /\ pipe \in Seq(Events) /\ buffer \in Seq(Events)
  BY DEF Typed, FilesTyped, LinesTyped
<1>2. \A r: Known(r) => Known(r)'
  BY ToldStays DEF Known, Event, NetworkFailure, Record
<1>3. ASSUME UNCHANGED audit, watch'.pc \notin WorkSteps \/ UNCHANGED watch
      PROVE  RecordsTraced'
  BY <1>2, <1>3 DEF RecordsTraced, WorkSteps
<1>4. ASSUME UNCHANGED audit, NEW p \in WorkSteps, NEW r, Goto(p, r), Known(r)',
             p \in {"inspect", "act"} => r.c # 0
      PROVE  RecordsTraced'
  BY <1>2, <1>4 DEF RecordsTraced, WorkSteps, Goto
<1>5. CASE ReadLine
  <2>1. ASSUME NEW e \in Events, Told(e), Goto("inspect", Record(e.action, e.c, "none", TRUE))
        PROVE  RecordsTraced'
    <3> DEFINE r == Record(e.action, e.c, "none", TRUE)
    <3>1. r.c # 0 /\ Event(r.phase, r.c) = e
      BY <2>1, BoundsAssumption DEF Record, Event, Events, Containers
    <3>2. Known(r)
      BY <2>1, <3>1 DEF Known
    <3> HIDE DEF r
    <3>3. Known(r)'
      BY <1>2, <3>2
    <3> QED
      BY <1>4, <1>5, <2>1, <3>1, <3>3, Taken DEF WorkSteps, r
  <2>2. CASE buffer # <<>> /\ Goto("inspect", Record(buffer[1].action, buffer[1].c, "none", TRUE))
    <3>1. 1 \in DOMAIN buffer /\ buffer[1] \in Events
      BY <1>1, <2>2
    <3> QED
      BY <2>1, <2>2, <3>1 DEF LinesTraced
  <2>3. ASSUME NEW n \in 1..Len(pipe), Goto("inspect", Record(pipe[1].action, pipe[1].c, "none", TRUE))
        PROVE  RecordsTraced'
    <3>1. 1 \in DOMAIN pipe /\ pipe[1] \in Events
      BY <1>1, <2>3
    <3> QED
      BY <2>1, <2>3, <3>1 DEF LinesTraced
  <2> QED
    BY <1>5, <2>2, <2>3, Taken
<1>6. CASE Inspect
  <2>1. Known(watch.rec) /\ watch.rec.c # 0 /\ UNCHANGED audit
    BY <1>6 DEF Inspect, At, RecordsTraced, WorkSteps, files
  <2>2. PICK role, ok: Goto("audit", Record(watch.rec.phase, watch.rec.c, role, ok))
    BY <1>6 DEF Inspect
  <2>3. Known(Record(watch.rec.phase, watch.rec.c, role, ok))
    BY <2>1 DEF Known, Record, NetworkFailure
  <2> QED
    BY <1>2, <1>4, <2>1, <2>2, <2>3 DEF WorkSteps
<1>7. CASE WriteAudit
  <2>1. Known(watch.rec) /\ audit' = Append(audit, watch.rec) /\ watch.rec \in Records
    BY <1>7 DEF WriteAudit, At, RecordsTraced, WorkSteps, Typed, WatchTyped
  <2>2. \A i \in DOMAIN audit': audit'[i] = watch.rec \/ (i \in DOMAIN audit /\ audit'[i] = audit[i])
    BY <1>1, <2>1
  <2>3. ASSUME NEW i \in DOMAIN audit'
        PROVE  Known(audit[i])'
    BY <1>2, <2>1, <2>2 DEF RecordsTraced
  <2>4. Goto("top", NoRecord) \/ Goto("violation", watch.rec)
    BY <1>7 DEF WriteAudit
  <2> QED
    BY <1>2, <2>1, <2>3, <2>4 DEF RecordsTraced, Goto, WorkSteps
<1>8. CASE WriteViolation
  <2>1. Known(watch.rec) /\ UNCHANGED audit
    BY <1>8 DEF WriteViolation, At, RecordsTraced, WorkSteps
  <2>2. Goto("exited", NoRecord) \/ (watch.rec.c # 0 /\ Goto("act", watch.rec))
    BY <1>8 DEF WriteViolation, Leave
  <2> QED
    BY <1>2, <1>3, <1>4, <2>1, <2>2 DEF Goto, WorkSteps
<1>9. CASE Watcher
  <2>1. Known(NetworkFailure)'
    BY DEF Known, NetworkFailure, Record
  <2>2. ASSUME UNCHANGED audit, Goto("audit", NetworkFailure)
        PROVE  RecordsTraced'
    BY <1>4, <2>1, <2>2 DEF WorkSteps
  <2>3. ASSUME UNCHANGED audit, NEW p \in {"spawn", "ready", "top", "select", "exited"}, Goto(p, NoRecord)
        PROVE  RecordsTraced'
    BY <1>3, <2>3 DEF Goto, WorkSteps
  <2>4. Act => Leave /\ UNCHANGED audit
    BY DEF Act, files
  <2>5. Spawn => Goto("ready", NoRecord) /\ UNCHANGED audit
    BY DEF Spawn, files
  <2> QED
    BY <1>5, <1>6, <1>7, <1>8, <1>9, <2>2, <2>3, <2>4, <2>5, WatcherMoves DEF Idles, Leave
<1>10. CASE ~Watcher
  <2>1. KillWatcher => Goto("exited", NoRecord)
    BY DEF KillWatcher, Leave
  <2> QED
    BY <1>3, <1>10, <2>1, OthersMoves DEF Goto, WorkSteps
<1> QED
  BY <1>9, <1>10

(* A container keeps its shape. *)
LEMMA HoldsStays ==
  ASSUME Typed, HistoryKnown, [Next]_vars, NEW r, Known(r), Holds(r)
  PROVE  Holds(r)'
<1>1. CASE r = NetworkFailure
  BY <1>1 DEF Holds, NetworkFailure, Record
<1>2. CASE Told(Event(r.phase, r.c))
  <2>1. r.c \in DOMAIN shape
    BY <1>2 DEF Told, HistoryKnown, Event
  <2>2. shape \in Seq(Shapes) /\ (shape' = shape \/ \E s \in Shapes: shape' = Append(shape, s))
    BY DaemonMoves DEF Typed, ShapeTyped
  <2>3. shape'[r.c] = shape[r.c]
    BY <2>1, <2>2
  <2> QED
    BY <2>3 DEF Holds, Role
<1> QED
  BY <1>1, <1>2 DEF Known

(* A good record is of a container that keeps its contract. *)
LEMMA RecordsHoldStep ==
  ASSUME Typed, HistoryKnown, RecordsTraced, RecordsHold, [Next]_vars
  PROVE  RecordsHold'
<1>1. audit \in Seq(Records)
  BY DEF Typed, FilesTyped
<1>2. \A r: Known(r) /\ Holds(r) => Holds(r)'
  BY HoldsStays
<1>3. ASSUME UNCHANGED audit, watch'.pc # "audit" \/ UNCHANGED watch
      PROVE  RecordsHold'
  <2>1. watch'.pc = "audit" => Holds(watch.rec)'
    BY <1>3, HoldsStays DEF RecordsHold, RecordsTraced, WorkSteps
  <2>2. \A i \in DOMAIN audit: Holds(audit[i])'
    BY <1>2, <1>3 DEF RecordsHold, RecordsTraced
  <2> QED
    BY <1>3, <2>1, <2>2 DEF RecordsHold
<1>4. CASE UNCHANGED audit /\ Goto("audit", NetworkFailure)
  <2>1. \A i \in DOMAIN audit: Holds(audit[i])'
    BY <1>2, <1>4 DEF RecordsHold, RecordsTraced
  <2>2. Holds(watch.rec)'
    BY <1>4 DEF Goto, Holds, NetworkFailure, Record
  <2> QED
    BY <1>4, <2>1, <2>2 DEF RecordsHold
<1>5. CASE Inspect
  <2>1. UNCHANGED <<audit, shape>>
    BY <1>5 DEF Inspect, files, daemon
  <2>2. PICK networkRead \in BOOLEAN, inspected \in BOOLEAN:
          Goto("audit", IF inspected /\ status[watch.rec.c] # "removed"
              THEN Record(watch.rec.phase, watch.rec.c, Role(shape[watch.rec.c]),
                          networkRead /\ frozenNet /\ Compliant(watch.rec.c, watch.rec.phase))
              ELSE Record(watch.rec.phase, watch.rec.c, "unobserved", FALSE))
    BY <1>5 DEF Inspect
  <2>3. Holds(watch.rec)'
    <3>1. CASE inspected /\ status[watch.rec.c] # "removed"
      <4>1. /\ watch'.rec.c = watch.rec.c /\ watch'.rec.role = Role(shape[watch.rec.c])
            /\ watch'.rec.ok => Compliant(watch.rec.c, watch.rec.phase)
        BY <2>2, <3>1 DEF Goto, Record
      <4> QED
        BY <2>1, <4>1 DEF Holds, Compliant, Role
    <3>2. CASE ~(inspected /\ status[watch.rec.c] # "removed")
      <4>1. ~watch'.rec.ok
        BY <2>2, <3>2 DEF Goto, Record
      <4> QED
        BY <4>1 DEF Holds
    <3> QED
      BY <3>1, <3>2
  <2>6. \A i \in DOMAIN audit: Holds(audit[i])'
    BY <1>2, <2>1 DEF RecordsHold, RecordsTraced
  <2> QED
    BY <2>1, <2>3, <2>6 DEF RecordsHold
<1>6. CASE WriteAudit
  <2>1. /\ Holds(watch.rec) /\ audit' = Append(audit, watch.rec) /\ watch.rec \in Records
        /\ UNCHANGED shape /\ watch'.pc # "audit"
    BY <1>6 DEF WriteAudit, At, RecordsHold, Typed, WatchTyped, daemon, Goto
  <2>2. ASSUME NEW i \in DOMAIN audit'
        PROVE  Holds(audit[i])'
    <3>1. audit'[i] = watch.rec \/ (i \in DOMAIN audit /\ audit'[i] = audit[i])
      BY <1>1, <2>1
    <3>2. Holds(audit'[i])
      BY <2>1, <3>1 DEF RecordsHold
    <3> QED
      BY <2>1, <3>2 DEF Holds, Role
  <2> QED
    BY <2>1, <2>2 DEF RecordsHold
<1>7. CASE Watcher
  <2>1. ASSUME Spawn \/ ReadLine \/ WriteViolation \/ Act \/ Leave
        PROVE  watch'.pc # "audit"
    <3>1. \E p \in {"ready", "inspect", "exited", "act"}: \E r: Goto(p, r)
      BY <2>1, ReadLineGoes DEF Spawn, WriteViolation, Act, Leave
    <3> QED
      BY <3>1 DEF Goto
  <2>2. Spawn \/ ReadLine \/ WriteViolation \/ Act => UNCHANGED audit
    BY DEF Spawn, ReadLine, WriteViolation, Act, files
  <2>3. ASSUME NEW p \in {"spawn", "top", "select"}, Idles(p)
        PROVE  watch'.pc # "audit" /\ UNCHANGED audit
    BY <2>3 DEF Idles, Goto
  <2> QED
    BY <1>3, <1>4, <1>5, <1>6, <1>7, <2>1, <2>2, <2>3, WatcherMoves
<1>8. CASE ~Watcher
  <2>1. KillWatcher \/ Goto("network", NoRecord) => watch'.pc # "audit"
    BY DEF KillWatcher, Leave, Goto
  <2> QED
    BY <1>3, <1>8, <2>1, OthersMoves
<1> QED
  BY <1>7, <1>8

(* Nothing follows a bad record. *)
LEMMA AuditEndsStep ==
  ASSUME Typed, RecordsTraced, ShellKnows, AuditEnds, [Next]_vars
  PROVE  AuditEnds'
<1>1. audit \in Seq(Records) /\ violations \in Seq(Records)
  BY DEF Typed, FilesTyped
<1>2. ASSUME UNCHANGED <<audit, violations, watch>>, killed => killed'
      PROVE  AuditEnds'
  BY <1>2 DEF AuditEnds, AllGood
<1>3. ASSUME UNCHANGED audit, watch.pc \notin {"violation", "act", "exited"},
             watch'.pc \notin {"violation", "act"}
      PROVE  AuditEnds'
  BY <1>3 DEF AuditEnds, AllGood
<1>4. CASE WriteAudit
  <2>1. /\ audit' = Append(audit, watch.rec) /\ watch.rec \in Records /\ AllGood
        /\ IF watch.rec.ok THEN Goto("top", NoRecord) ELSE Goto("violation", watch.rec)
    BY <1>4 DEF WriteAudit, At, Typed, WatchTyped, AuditEnds
  <2>2. /\ Len(audit') = Len(audit) + 1 /\ audit'[Len(audit) + 1] = watch.rec /\ audit' # <<>>
        /\ \A i \in DOMAIN audit': i = Len(audit) + 1 \/ (i \in DOMAIN audit /\ audit'[i] = audit[i])
    BY <1>1, <2>1
  <2>3. \A i \in DOMAIN audit': i < Len(audit') => audit'[i].ok
    BY <1>1, <2>1, <2>2 DEF AllGood
  <2>4. watch.rec.ok => AllGood'
    BY <2>1, <2>2 DEF AllGood
  <2>5. watch'.pc = (IF watch.rec.ok THEN "top" ELSE "violation") /\ (watch.rec.ok \/ watch'.rec = watch.rec)
    BY <2>1 DEF Goto
  <2> QED
    BY <2>2, <2>3, <2>4, <2>5 DEF AuditEnds
<1>5. CASE WriteViolation
  <2>1. /\ violations' # <<>> /\ UNCHANGED audit
        /\ watch'.pc = "exited" \/ (watch'.pc = "act" /\ watch'.rec = watch.rec /\ At("violation"))
    BY <1>1, <1>5 DEF WriteViolation, Leave, Goto, Typed, WatchTyped
  <2> QED
    BY <2>1 DEF AuditEnds, AllGood, At
<1>6. CASE Act
  <2>1. violations # <<>> /\ UNCHANGED <<audit, violations>> /\ watch'.pc = "exited"
    BY <1>6 DEF Act, At, AuditEnds, Leave, Goto, files
  <2> QED
    BY <2>1 DEF AuditEnds, AllGood
<1>7. CASE Watcher
  <2>1. Spawn => UNCHANGED audit /\ watch'.pc = "ready"
    BY DEF Spawn, Goto, files
  <2>2. ReadLine => UNCHANGED audit /\ At("select") /\ watch'.pc = "inspect"
    BY ReadLineGoes DEF Goto
  <2>3. Inspect => UNCHANGED audit /\ At("inspect") /\ watch'.pc = "audit"
    BY DEF Inspect, Goto, files
  <2>4. /\ \A p: Idles(p) => UNCHANGED audit /\ watch'.pc = p
        /\ Leave => watch'.pc = "exited"
        /\ Goto("audit", NetworkFailure) => watch'.pc = "audit"
    BY DEF Idles, Leave, Goto
  <2> QED
    BY <1>3, <1>4, <1>5, <1>6, <1>7, <2>1, <2>2, <2>3, <2>4, WatcherMoves DEF At
<1>8. CASE ~Watcher
  <2>1. UNCHANGED killed \/ KillWatcher
    <3>1. CASE Docker
      BY <3>1 DEF Docker, Create, Start, Restart, Die, CliRemove, NetworkChanges, Subscribe,
         StreamEnds, gate
    <3>2. CASE Shell
      BY <3>2 DEF Shell, StartWatcher, WaitReady, Freeze, CliEnds, StopWatcher, Stopped, CheckFiles,
         CheckFrozenNetwork, Classify, GoOn, Decide
    <3> QED
      BY <1>8, <3>1, <3>2 DEF Next, vars, gate
  <2>2. CASE KillWatcher
    <3>1. killed' /\ watch'.pc = "exited" /\ UNCHANGED audit
      BY <2>2 DEF KillWatcher, Leave, Goto, files
    <3> QED
      BY <3>1 DEF AuditEnds, AllGood
  <2>3. CASE shell = "start" /\ Goto("network", NoRecord)
    <3>1. watch.pc = "off" /\ watch'.pc = "network" /\ UNCHANGED audit
      BY <1>8, <2>3, OthersMoves DEF ShellKnows, Goto
    <3> QED
      BY <1>3, <3>1
  <2> QED
    BY <1>2, <1>8, <2>1, <2>2, <2>3, OthersMoves
<1> QED
  BY <1>7, <1>8

(* What Docker and the CLI do to the lines *)
LEMMA DockerMoves ==
  ASSUME Typed, Docker
  PROVE  /\ UNCHANGED <<watch, audit, violations, gate, buffer>>
         /\ \/ \E e \in Events: Emit(e) /\ UNCHANGED <<stream, since>>
            \/ UNCHANGED <<history, lines>>
            \/ /\ stream = "spawned" /\ stream' = "subscribed" /\ since' = Len(history)
               /\ UNCHANGED <<history, pipe>>
            \/ stream \in {"spawned", "subscribed"} /\ stream' = "ended" /\ UNCHANGED <<history, pipe, since>>
<1> USE DEF lines, files, daemon
<1>1. ASSUME NEW s \in Shapes, Create(s)
      PROVE  /\ UNCHANGED <<watch, audit, violations, gate, buffer, stream, since>>
             /\ \E e \in Events: Emit(e)
  <2>1. Event("create", Len(shape) + 1) \in Events
    BY <1>1, BoundsAssumption DEF Create, Typed, ShapeTyped, Event, Events, Containers
  <2> QED
    BY <1>1, <2>1 DEF Create
<1>2. ASSUME NEW c \in DOMAIN shape, Start(c) \/ Restart(c)
      PROVE  /\ UNCHANGED <<watch, audit, violations, gate, buffer, stream, since>>
             /\ \E e \in Events: Emit(e)
  <2>1. Event("start", c) \in Events
    BY BoundsAssumption DEF Typed, ShapeTyped, Event, Events, Containers
  <2> QED
    BY <1>2, <2>1 DEF Start, Restart
<1>3. ASSUME NEW c \in DOMAIN shape, Die(c) \/ CliRemove(c)
      PROVE  UNCHANGED <<watch, audit, violations, gate, history, lines>>
  BY <1>3 DEF Die, CliRemove
<1>4. CASE NetworkChanges
  BY <1>4 DEF NetworkChanges
<1>5. CASE Subscribe
  BY <1>5 DEF Subscribe
<1>6. CASE StreamEnds
  BY <1>6 DEF StreamEnds
<1> QED
  BY <1>1, <1>2, <1>3, <1>4, <1>5, <1>6 DEF Docker

(* What the shell does to the watcher *)
LEMMA ShellMoves ==
  ASSUME Shell
  PROVE  /\ UNCHANGED <<shape, history, frozenNet, audit, violations>>
         /\ \/ UNCHANGED <<lines, watch>>
            \/ shell = "start" /\ Goto("network", NoRecord) /\ UNCHANGED lines
            \/ KillWatcher
BY DEF Shell, StartWatcher, WaitReady, Freeze, CliEnds, StopWatcher, Stopped, KillWatcher,
     CheckFiles, CheckFrozenNetwork, Classify, WatchState, files, daemon

(* Before the child is started there is nothing to read. *)
LEMMA BeforeSpawnStep ==
  ASSUME Typed, BeforeSpawn, ShellKnows, [Next]_vars
  PROVE  BeforeSpawn'
<1>1. CASE Docker
  BY <1>1, DockerMoves DEF BeforeSpawn, Emit, lines
<1>2. CASE Watcher
  <2>1. CASE At("network") /\ Idles("spawn") /\ UNCHANGED lines
    BY <2>1 DEF BeforeSpawn, At, Idles, lines, Goto
  <2>2. ASSUME NEW p \in {"ready", "top", "select", "audit", "inspect", "violation", "act", "exited"},
               NEW r, Goto(p, r)
        PROVE  BeforeSpawn'
    BY <2>2 DEF BeforeSpawn, Goto
  <2>3. \/ At("network") /\ Idles("spawn") /\ UNCHANGED lines
        \/ \E p \in {"ready", "top", "select", "audit", "inspect", "violation", "act", "exited"}: \E r:
              Goto(p, r)
    <3>1. ReadLine => \E r: Goto("inspect", r)
      BY ReadLineGoes
    <3>2. Inspect => \E r: Goto("audit", r)
      BY DEF Inspect
    <3>3. Spawn \/ WriteAudit \/ WriteViolation \/ Act \/ Leave =>
             \E p \in {"ready", "top", "violation", "act", "exited"}: \E r: Goto(p, r)
      BY DEF Spawn, WriteAudit, WriteViolation, Act, Leave
    <3> QED
      BY <1>2, <3>1, <3>2, <3>3, WatcherMoves DEF Idles
  <2> QED
    BY <2>1, <2>2, <2>3
<1>3. CASE Shell
  <2>1. CASE UNCHANGED <<lines, watch>>
    BY <1>3, <2>1, ShellMoves DEF BeforeSpawn, lines
  <2>2. CASE shell = "start" /\ Goto("network", NoRecord) /\ UNCHANGED lines
    BY <1>3, <2>2, ShellMoves DEF BeforeSpawn, ShellKnows, lines
  <2>3. CASE KillWatcher
    BY <2>3 DEF BeforeSpawn, KillWatcher, Leave, Goto
  <2> QED
    BY <1>3, <2>1, <2>2, <2>3, ShellMoves
<1>4. CASE UNCHANGED vars
  BY <1>4 DEF BeforeSpawn, vars, lines, files
<1> QED
  BY <1>1, <1>2, <1>3, <1>4 DEF Next

(* Every way out of the watcher ends its child. *)
LEMMA ChildGoneStep ==
  ASSUME Typed, ChildGone, [Next]_vars
  PROVE  ChildGone'
<1>1. CASE Docker
  BY <1>1, DockerMoves DEF ChildGone, lines
<1>2. CASE Watcher
  <2>1. ASSUME NEW p \in {"spawn", "ready", "top", "select", "inspect", "audit", "violation", "act"},
               NEW r, Goto(p, r)
        PROVE  ChildGone'
    BY <2>1 DEF ChildGone, Goto
  <2>2. CASE Leave
    BY <2>2 DEF ChildGone, Leave
  <2>3. \/ Leave
        \/ \E p \in {"spawn", "ready", "top", "select", "inspect", "audit", "violation", "act"}:
             \E r: Goto(p, r)
    <3>1. ReadLine => \E r: Goto("inspect", r)
      BY ReadLineGoes
    <3>2. Inspect => \E r: Goto("audit", r)
      BY DEF Inspect
    <3>3. Spawn \/ WriteAudit \/ WriteViolation \/ Act =>
             Leave \/ \E p \in {"ready", "top", "violation", "act"}: \E r: Goto(p, r)
      BY DEF Spawn, WriteAudit, WriteViolation, Act
    <3> QED
      BY <1>2, <3>1, <3>2, <3>3, WatcherMoves DEF Idles
  <2> QED
    BY <2>1, <2>2, <2>3
<1>3. CASE Shell
  <2>1. CASE KillWatcher
    BY <2>1 DEF ChildGone, KillWatcher, Leave
  <2>2. CASE Goto("network", NoRecord)
    BY <2>2 DEF ChildGone, Goto
  <2> QED
    BY <1>3, <2>1, <2>2, ShellMoves DEF ChildGone, lines
<1>4. CASE UNCHANGED vars
  BY <1>4 DEF ChildGone, vars, lines
<1> QED
  BY <1>1, <1>2, <1>3, <1>4 DEF Next

(* Anything a line of the watcher's could be *)
AnyLine == [action: {"create", "start", "network_contract", "none"}, c: 0..MaxContainers]

(* The pieces of the order are sequences of lines. *)
LEMMA LinesAreLines ==
  ASSUME Typed, RecordsTraced, AuditEnds
  PROVE  /\ Seen \in 0..Len(audit) /\ Audited \in Seq(AnyLine) /\ InHand \in Seq(AnyLine)
         /\ buffer \in Seq(AnyLine) /\ pipe \in Seq(AnyLine) /\ history \in Seq(AnyLine)
         /\ From \in 0..Len(history)
<1>1. \A r \in Records: Line(r) \in AnyLine
  BY DEF Records, Line, Event, AnyLine
<1>2. audit \in Seq(Records) /\ watch.rec \in Records
  BY DEF Typed, FilesTyped, WatchTyped
<1>3. Seen \in 0..Len(audit)
  BY <1>2 DEF Seen, AuditEnds
<1>4. \A i \in 1..Seen: Line(audit[i]) \in AnyLine
  BY <1>1, <1>2, <1>3
<1>5. Audited \in Seq(AnyLine)
  BY <1>3, <1>4 DEF Audited
<1>6. InHand \in Seq(AnyLine)
  BY <1>1, <1>2 DEF InHand
<1>7. Events \subseteq AnyLine
  BY BoundsAssumption DEF Events, AnyLine, Containers
<1>8. buffer \in Seq(AnyLine) /\ pipe \in Seq(AnyLine) /\ history \in Seq(AnyLine)
  BY <1>7, SeqMonotonic DEF Typed, LinesTyped, HistoryTyped
<1>9. From \in 0..Len(history)
  BY DEF From, Typed, HistoryTyped
<1> QED
  BY <1>3, <1>5, <1>6, <1>8, <1>9

(* What is added at the end of a sequence is at the end of all that ends   *)
(* with it.                                                                *)
LEMMA AppendInside ==
  ASSUME NEW S, NEW x \in Seq(S), NEW q \in Seq(S), NEW e \in S
  PROVE  x \o Append(q, e) = Append(x \o q, e)
OBVIOUS

(* The rest of a sequence grows with the sequence. *)
LEMMA AppendToSubSeq ==
  ASSUME NEW S, NEW h \in Seq(S), NEW e \in S, NEW k \in 0..Len(h)
  PROVE  SubSeq(Append(h, e), k + 1, Len(Append(h, e))) = Append(SubSeq(h, k + 1, Len(h)), e)
<1> DEFINE g == Append(h, e)
<1>1. g \in Seq(S) /\ Len(g) = Len(h) + 1 /\ g[Len(g)] = e /\ \A i \in 1..Len(h): g[i] = h[i]
  BY AppendProperties
<1> HIDE DEF g
<1>2. SubSeq(g, k + 1, Len(g)) = SubSeq(g, k + 1, Len(h)) \o <<e>>
  <2>1. k + 1 \in 1..Len(g) /\ Len(g) \in (k + 1)..Len(g) /\ Len(g) - 1 = Len(h)
    BY <1>1
  <2>2. SubSeq(g, k + 1, Len(g)) = SubSeq(g, k + 1, Len(g) - 1) \o <<g[Len(g)]>>
    BY <1>1, <2>1, SubSeqRecursiveSecond, Zenon
  <2> QED
    BY <1>1, <2>1, <2>2
<1>3. SubSeq(g, k + 1, Len(h)) = SubSeq(h, k + 1, Len(h)) /\ SubSeq(h, k + 1, Len(h)) \in Seq(S)
  <2>1. /\ \A i \in (k + 1)..Len(h): g[i] \in S /\ h[i] \in S /\ g[i] = h[i]
        /\ k + 1 \in Int /\ Len(h) \in Int
    BY <1>1
  <2>2. /\ SubSeq(h, k + 1, Len(h)) \in Seq(S)
        /\ Len(SubSeq(h, k + 1, Len(h))) = IF k + 1 <= Len(h) THEN Len(h) - (k + 1) + 1 ELSE 0
        /\ \A i \in 1..(Len(h) - (k + 1) + 1): SubSeq(h, k + 1, Len(h))[i] = h[(k + 1) + i - 1]
    BY <2>1, SubSeqProperties
  <2>3. /\ SubSeq(g, k + 1, Len(h)) \in Seq(S)
        /\ Len(SubSeq(g, k + 1, Len(h))) = IF k + 1 <= Len(h) THEN Len(h) - (k + 1) + 1 ELSE 0
        /\ \A i \in 1..(Len(h) - (k + 1) + 1): SubSeq(g, k + 1, Len(h))[i] = g[(k + 1) + i - 1]
    BY <2>1, SubSeqProperties
  <2>4. \A i \in 1..Len(SubSeq(h, k + 1, Len(h))): SubSeq(h, k + 1, Len(h))[i] = SubSeq(g, k + 1, Len(h))[i]
    BY <2>1, <2>2, <2>3
  <2> QED
    BY <2>2, <2>3, <2>4, SeqEqual
<1> QED
  BY <1>2, <1>3, AppendIsConcat DEF g

(* A line that is reported goes to the end of the pipe as it goes to the   *)
(* end of the history.                                                     *)
LEMMA InOrderDocker ==
  ASSUME Typed, RecordsTraced, AuditEnds, InOrder, Docker
  PROVE  InOrder'
<1>1. /\ Audited \in Seq(AnyLine) /\ InHand \in Seq(AnyLine) /\ buffer \in Seq(AnyLine)
      /\ pipe \in Seq(AnyLine) /\ history \in Seq(AnyLine) /\ From \in 0..Len(history)
  BY LinesAreLines
<1>2. Events \subseteq AnyLine
  BY BoundsAssumption DEF Events, AnyLine, Containers
<1> DEFINE before == Audited \o InHand \o buffer
<1>3. before \in Seq(AnyLine)
  BY <1>1, ConcatProperties
<1>4. Audited' = Audited /\ InHand' = InHand /\ before' = before
  BY DockerMoves DEF Audited, InHand, Seen, Line
<1> HIDE DEF before
<1>5. stream \in {"spawned", "subscribed"} => before \o pipe = SubSeq(history, From + 1, Len(history))
  BY DEF InOrder, before
<1>6. SUFFICES ASSUME stream' \in {"spawned", "subscribed"}
               PROVE  before' \o pipe' = SubSeq(history', From' + 1, Len(history'))
  BY DEF InOrder, before
<1>7. ASSUME NEW e \in Events, Emit(e), UNCHANGED <<stream, since>>
      PROVE  before' \o pipe' = SubSeq(history', From' + 1, Len(history'))
  <2>1. history' = Append(history, e) /\ e \in AnyLine
    BY <1>2, <1>7 DEF Emit
  <2>2. CASE stream = "subscribed"
    <3>1. pipe' = Append(pipe, e) /\ From' = From
      BY <1>7, <2>2 DEF Emit, From
    <3>2. before' \o pipe' = Append(before \o pipe, e)
      BY <1>1, <1>3, <1>4, <2>1, <3>1, AppendInside
    <3>3. SubSeq(history', From' + 1, Len(history')) = Append(SubSeq(history, From + 1, Len(history)), e)
      BY <1>1, <2>1, <3>1, AppendToSubSeq
    <3> QED
      BY <1>5, <2>2, <3>2, <3>3
  <2>3. CASE stream = "spawned"
    <3>1. pipe' = pipe /\ From = Len(history) /\ From' = Len(history')
      BY <1>7, <2>3 DEF Emit, From
    <3>2. SubSeq(history, From + 1, Len(history)) = <<>>
      BY <1>1, <3>1
    <3>3. history' \in Seq(AnyLine)
      BY <1>1, <2>1
    <3>4. SubSeq(history', From' + 1, Len(history')) = <<>>
      BY <3>1, <3>3
    <3> QED
      BY <1>4, <1>5, <2>3, <3>1, <3>2, <3>4
  <2> QED
    BY <1>6, <1>7, <2>2, <2>3
<1>8. CASE UNCHANGED <<history, lines>>
  BY <1>4, <1>5, <1>6, <1>8 DEF lines, From
<1>9. CASE /\ stream = "spawned" /\ stream' = "subscribed" /\ since' = Len(history)
           /\ UNCHANGED <<history, pipe>>
  BY <1>4, <1>5, <1>9 DEF From
<1> QED
  BY <1>6, <1>7, <1>8, <1>9, DockerMoves


(* Reading takes the first of the lines in buffer and pipe, and moves none *)
(* of the others past another.                                             *)
LEMMA FirstTaken ==
  ASSUME Typed, ReadLine
  PROVE  /\ buffer \o pipe # <<>> /\ (buffer \o pipe)[1] \in Events
         /\ buffer \o pipe = <<(buffer \o pipe)[1]>> \o (buffer' \o pipe')
         /\ Goto("inspect", Record((buffer \o pipe)[1].action, (buffer \o pipe)[1].c, "none", TRUE))
<1>1. pipe \in Seq(Events) /\ buffer \in Seq(Events)
  BY DEF Typed, LinesTyped
<1>2. CASE /\ buffer # <<>> /\ buffer' = Tail(buffer) /\ pipe' = pipe
           /\ Goto("inspect", Record(buffer[1].action, buffer[1].c, "none", TRUE))
  <2>1. buffer[1] \in Events /\ Tail(buffer) \in Seq(Events) /\ Len(buffer) >= 1
    BY <1>1, <1>2, HeadTailProperties
  <2>2. buffer = <<buffer[1]>> \o Tail(buffer)
    <3>1. buffer = SubSeq(buffer, 1, Len(buffer))
      BY <1>1, SubSeqFull
    <3>2. SubSeq(buffer, 1, Len(buffer)) = <<buffer[1]>> \o SubSeq(buffer, 2, Len(buffer))
      BY <1>1, <2>1, SubSeqRecursiveFirst
    <3> QED
      BY <1>1, <1>2, <3>1, <3>2, TailIsSubSeq
  <2>3. (buffer \o pipe)[1] = buffer[1] /\ buffer \o pipe # <<>>
    BY <1>1, <2>1, ConcatProperties
  <2>4. buffer \o pipe = <<buffer[1]>> \o (Tail(buffer) \o pipe)
    <3>1. <<buffer[1]>> \in Seq(Events)
      BY <2>1
    <3> QED
      BY <1>1, <2>1, <2>2, <3>1, ConcatAssociative
  <2> QED
    BY <1>2, <2>1, <2>3, <2>4
<1>3. ASSUME buffer = <<>>, NEW n \in 1..Len(pipe),
             buffer' = SubSeq(pipe, 2, n), pipe' = SubSeq(pipe, n + 1, Len(pipe)),
             Goto("inspect", Record(pipe[1].action, pipe[1].c, "none", TRUE))
      PROVE  /\ buffer \o pipe # <<>> /\ (buffer \o pipe)[1] \in Events
             /\ buffer \o pipe = <<(buffer \o pipe)[1]>> \o (buffer' \o pipe')
             /\ Goto("inspect", Record((buffer \o pipe)[1].action, (buffer \o pipe)[1].c, "none", TRUE))
  <2>1. buffer \o pipe = pipe /\ pipe # <<>> /\ pipe[1] \in Events
    BY <1>1, <1>3, ConcatEmptySeq
  <2>2. buffer' \o pipe' = SubSeq(pipe, 2, Len(pipe))
    <3>1. 2 \in 1..(Len(pipe) + 1) /\ n \in (2 - 1)..Len(pipe) /\ Len(pipe) \in n..Len(pipe)
      BY <1>1, <1>3
    <3>2. SubSeq(pipe, 2, n) \o SubSeq(pipe, n + 1, Len(pipe)) = SubSeq(pipe, 2, Len(pipe))
      BY <1>1, <3>1, ConcatAdjacentSubSeq, Zenon
    <3> QED
      BY <1>3, <3>2
  <2>3. pipe = <<pipe[1]>> \o SubSeq(pipe, 2, Len(pipe))
    BY <1>1, <1>3, SubSeqFull, SubSeqRecursiveFirst
  <2> QED
    BY <1>3, <2>1, <2>2, <2>3
<1> QED
  BY <1>2, <1>3, Taken

(* The watcher moves lines on, and never past one another. *)
LEMMA InOrderWatcher ==
  ASSUME Typed, RecordsTraced, AuditEnds, BeforeSpawn, InOrder, Watcher
  PROVE  InOrder'
<1>1. /\ Audited \in Seq(AnyLine) /\ InHand \in Seq(AnyLine) /\ buffer \in Seq(AnyLine)
      /\ pipe \in Seq(AnyLine) /\ history \in Seq(AnyLine) /\ From \in 0..Len(history)
  BY LinesAreLines
<1>2. audit \in Seq(Records) /\ watch.rec \in Records
  BY DEF Typed, FilesTyped, WatchTyped
<1>3. UNCHANGED history
  BY DEF Watcher, InitialCheck, Spawn, MarkReady, LoopTop, PeriodicCheck, SelectTimesOut,
     ReadLine, ReadEnd, Inspect, WriteAudit, WriteViolation, Act, daemon
<1>4. ASSUME UNCHANGED lines, Audited' \o InHand' = Audited \o InHand
      PROVE  InOrder'
  BY <1>3, <1>4 DEF InOrder, From, lines
<1>5. ASSUME stream' \notin {"spawned", "subscribed"}
      PROVE  InOrder'
  BY <1>5 DEF InOrder
<1>6. CASE At("network")
  BY <1>5, <1>6, WatcherMoves DEF At, BeforeSpawn, lines, Leave, Spawn, ReadLine, Inspect, WriteAudit,
     WriteViolation, Act
<1>7. CASE At("spawn") /\ Spawn
  <2>1. audit' = <<>> /\ pipe' = <<>> /\ buffer' = <<>> /\ stream' = "spawned" /\ watch'.pc = "ready"
    BY <1>7 DEF At, BeforeSpawn, Spawn, files, Goto
  <2>2. Audited' = <<>> /\ InHand' = <<>> /\ From' = Len(history')
    BY <2>1 DEF Audited, InHand, Seen, From
  <2>3. SubSeq(history', From' + 1, Len(history')) = <<>>
    BY <1>1, <1>3, <2>2
  <2> QED
    BY <2>1, <2>2, <2>3 DEF InOrder
<1>8. CASE /\ \/ At("ready") /\ Idles("top")
              \/ At("select") /\ Idles("top")
              \/ At("top") /\ Idles("select")
           /\ UNCHANGED lines
  <2>1. /\ watch.pc \notin {"inspect", "audit", "violation"} /\ UNCHANGED audit
        /\ watch'.pc \notin {"inspect", "audit", "violation"}
    BY <1>8 DEF At, Idles, Goto
  <2>2. Audited' = Audited /\ InHand' = InHand
    BY <2>1 DEF Audited, InHand, Seen, Line
  <2> QED
    BY <1>4, <1>8, <2>2
<1>9. CASE At("top") /\ Goto("audit", NetworkFailure) /\ UNCHANGED <<lines, audit>>
  <2>1. /\ watch.pc = "top" /\ UNCHANGED audit
        /\ watch'.pc = "audit" /\ watch'.rec.c = 0
    BY <1>9 DEF At, Goto, NetworkFailure, Record
  <2>2. Audited' = Audited /\ InHand' = InHand
    BY <2>1 DEF Audited, InHand, Seen, Line
  <2> QED
    BY <1>4, <1>9, <2>2
<1>10. CASE Leave \/ Act
  BY <1>5, <1>10 DEF Leave, Act
<1>11. CASE ReadLine
  <2> DEFINE first == (buffer \o pipe)[1]
  <2>1. /\ first \in Events /\ buffer \o pipe = <<first>> \o (buffer' \o pipe')
        /\ Goto("inspect", Record(first.action, first.c, "none", TRUE))
    BY <1>11, FirstTaken
  <2> HIDE DEF first
  <2>2. At("select") /\ UNCHANGED <<stream, since, audit>>
    BY <1>11, Taken
  <2>3. first.c # 0 /\ Event(first.action, first.c) = first /\ first \in AnyLine
    BY <2>1, BoundsAssumption DEF Events, Event, Containers, AnyLine
  <2>4. InHand = <<>> /\ InHand' = <<first>> /\ Audited' = Audited
    BY <2>1, <2>2, <2>3 DEF At, Goto, InHand, Audited, Seen, Line, Record
  <2>5. buffer' \in Seq(AnyLine) /\ pipe' \in Seq(AnyLine) /\ <<first>> \in Seq(AnyLine)
    <3>1. Events \subseteq AnyLine
      BY BoundsAssumption DEF Events, AnyLine, Containers
    <3>2. Typed'
      BY <1>11, TypedWatcher DEF Watcher
    <3> QED
      BY <2>3, <3>1, <3>2, SeqMonotonic DEF Typed, LinesTyped
  <2>6. Audited \o <<first>> \o buffer' \o pipe' = Audited \o (buffer \o pipe)
    <3>1. buffer' \o pipe' \in Seq(AnyLine) /\ Audited \o <<first>> \in Seq(AnyLine)
      BY <1>1, <2>5, ConcatProperties
    <3>2. (Audited \o <<first>>) \o buffer' \o pipe' = (Audited \o <<first>>) \o (buffer' \o pipe')
      BY <2>5, <3>1
    <3>3. (Audited \o <<first>>) \o (buffer' \o pipe') = Audited \o (<<first>> \o (buffer' \o pipe'))
      <4> DEFINE one == <<first>>
                 rest == buffer' \o pipe'
      <4>1. Audited \in Seq(AnyLine) /\ one \in Seq(AnyLine) /\ rest \in Seq(AnyLine)
        BY <1>1, <2>5, <3>1
      <4> HIDE DEF one, rest
      <4>2. (Audited \o one) \o rest = Audited \o (one \o rest)
        BY <4>1
      <4> QED
        BY <4>2 DEF one, rest
    <3> QED
      BY <2>1, <3>2, <3>3
  <2>7. Audited \o InHand \o buffer \o pipe = Audited \o (buffer \o pipe)
    <3>1. Audited \o InHand = Audited
      BY <1>1, <2>4, ConcatEmptySeq
    <3>2. Audited \o buffer \o pipe = Audited \o (buffer \o pipe)
      BY <1>1
    <3> QED
      BY <3>1, <3>2
  <2> QED
    BY <1>3, <2>2, <2>4, <2>6, <2>7 DEF InOrder, From
<1>12. CASE Inspect
  <2>1. /\ At("inspect") /\ UNCHANGED <<lines, audit>>
        /\ watch'.pc = "audit" /\ watch'.rec.phase = watch.rec.phase /\ watch'.rec.c = watch.rec.c
    BY <1>12 DEF Inspect, Goto, Record, files
  <2> QED
    BY <1>4, <2>1 DEF At, Audited, InHand, Seen, Line
<1>13. CASE WriteAudit
  <2>1. /\ At("audit") /\ audit' = Append(audit, watch.rec) /\ UNCHANGED lines
        /\ IF watch.rec.ok THEN Goto("top", NoRecord) ELSE Goto("violation", watch.rec)
    BY <1>13 DEF WriteAudit
  <2>2. /\ Len(audit') = Len(audit) + 1 /\ audit'[Len(audit) + 1] = watch.rec
        /\ \A i \in 1..Len(audit): audit'[i] = audit[i]
    BY <1>2, <2>1, AppendProperties
  <2>3. Seen = Len(audit) /\ InHand' = <<>>
    BY <2>1 DEF At, Seen, InHand, Goto, NoRecord, Record
  <2>4. CASE watch.rec.c = 0
    <3>1. watch.rec = NetworkFailure
      BY <2>1, <2>4 DEF RecordsTraced, Known, At, WorkSteps
    <3>2. Goto("violation", watch.rec)
      BY <2>1, <3>1 DEF NetworkFailure, Record
    <3>3. Seen' = Seen
      BY <1>2, <2>2, <2>3, <2>4, <3>2 DEF Seen, Goto
    <3>4. Audited' = Audited
      BY <2>2, <2>3, <3>3 DEF Audited, Line
    <3> QED
      BY <1>4, <2>1, <2>3, <2>4, <3>4 DEF InHand
  <2>5. CASE watch.rec.c # 0
    <3>1. Seen' = Seen + 1
      BY <1>2, <2>1, <2>2, <2>3, <2>5 DEF Seen, Goto, NoRecord, Record
    <3>2. InHand = <<Line(watch.rec)>> /\ Line(watch.rec) \in AnyLine
      BY <1>2, <2>1, <2>5 DEF InHand, At, Line, Records, Event, AnyLine
    <3>3. Audited' = Append(Audited, Line(watch.rec))
      <4> DEFINE more == Append(Audited, Line(watch.rec))
      <4>1. Len(Audited) = Seen /\ Seen \in Nat /\ \A i \in 1..Seen: Audited[i] = Line(audit[i])
        BY <1>2, <2>3 DEF Audited
      <4>2. /\ more \in Seq(AnyLine) /\ Len(more) = Seen + 1 /\ more[Seen + 1] = Line(watch.rec)
            /\ \A i \in 1..Seen: more[i] = Line(audit[i])
        BY <1>1, <3>2, <4>1, AppendProperties
      <4>3. \A i \in 1..(Seen + 1): Line(audit'[i]) = more[i]
        BY <2>2, <2>3, <4>1, <4>2
      <4>4. Audited' = [i \in 1..(Seen + 1) |-> Line(audit'[i])]
        BY <3>1 DEF Audited, Line
      <4>5. more = [i \in 1..(Seen + 1) |-> more[i]]
        BY <4>2 DEF more
      <4> HIDE DEF more
      <4>6. Audited' = more
        BY <4>3, <4>4, <4>5
      <4> QED
        BY <4>6 DEF more
    <3>4. Audited' \o InHand' = Audited \o InHand
      <4>1. Audited' \in Seq(AnyLine) /\ Audited' = Audited \o InHand
        BY <1>1, <3>2, <3>3, AppendIsConcat, AppendProperties
      <4> QED
        BY <2>3, <4>1, ConcatEmptySeq
    <3> QED
      BY <1>4, <2>1, <3>4
  <2> QED
    BY <2>4, <2>5
<1>14. CASE WriteViolation
  <2>1. CASE Leave
    BY <1>10, <2>1
  <2>2. CASE watch.rec.c # 0 /\ Goto("act", watch.rec) /\ UNCHANGED lines
    <3>1. At("violation") /\ UNCHANGED audit
      BY <1>14 DEF WriteViolation
    <3> QED
      BY <1>4, <2>2, <3>1 DEF At, Goto, Audited, InHand, Seen, Line
  <2> QED
    BY <1>14, <2>1, <2>2 DEF WriteViolation
<1> QED
  BY <1>6, <1>7, <1>8, <1>9, <1>10, <1>11, <1>12, <1>13, <1>14, WatcherMoves DEF Idles

(* Steps in which every line keeps its place *)
LEMMA InOrderStep ==
  ASSUME Typed, RecordsTraced, AuditEnds, BeforeSpawn, ShellKnows, InOrder, [Next]_vars
  PROVE  InOrder'
<1>1. CASE Shell
  <2>1. UNCHANGED <<history, audit>>
    BY <1>1, ShellMoves
  <2>2. CASE UNCHANGED <<lines, watch>>
    BY <2>1, <2>2 DEF InOrder, From, Audited, InHand, Seen, Line, lines
  <2>3. CASE shell = "start" /\ UNCHANGED lines
    BY <2>3 DEF ShellKnows, BeforeSpawn, InOrder, lines
  <2>4. CASE KillWatcher
    BY <2>4 DEF KillWatcher, Leave, InOrder
  <2> QED
    BY <1>1, <2>2, <2>3, <2>4, ShellMoves
<1>2. CASE UNCHANGED vars
  BY <1>2 DEF InOrder, From, Audited, InHand, Seen, Line, vars, daemon, lines, files
<1> QED
  BY <1>1, <1>2, InOrderDocker, InOrderWatcher DEF Next

(* The history and the network stand still once the CLI has ended and      *)
(* the gate has decided.                                                   *)
LEMMA DockerStandsStill ==
  ASSUME Docker
  PROVE  /\ CliRuns \/ UNCHANGED frozenNet
         /\ CliRuns \/ verdict = "none" \/ UNCHANGED <<shape, history>>
<1>1. ASSUME NEW s \in Shapes, Create(s)
      PROVE  CliRuns
  BY <1>1 DEF Create
<1>2. ASSUME NEW c \in DOMAIN shape, Start(c) \/ CliRemove(c)
      PROVE  CliRuns
  BY <1>2 DEF Start, CliRemove
<1>3. ASSUME NEW c \in DOMAIN shape, Restart(c) \/ Die(c)
      PROVE  UNCHANGED frozenNet /\ verdict = "none"
  BY <1>3 DEF Restart, Die
<1>4. CASE NetworkChanges
  BY <1>4 DEF NetworkChanges
<1>5. CASE Subscribe \/ StreamEnds
  BY <1>5 DEF Subscribe, StreamEnds, daemon
<1> QED
  BY <1>1, <1>2, <1>3, <1>4, <1>5 DEF Docker

(* A watcher that takes a step was started and has not left.               *)
LEMMA WatcherIsThere ==
  ASSUME Watcher
  PROVE  /\ watch.pc \notin {"off", "exited"} /\ watch'.pc # "off"
         /\ UNCHANGED <<shape, history, frozenNet, gate>>
<1> USE DEF At, Goto, daemon
<1>1. CASE InitialCheck \/ PeriodicCheck
  BY <1>1 DEF InitialCheck, PeriodicCheck
<1>2. CASE Spawn \/ MarkReady \/ SelectTimesOut
  BY <1>2 DEF Spawn, MarkReady, SelectTimesOut
<1>3. CASE LoopTop \/ ReadEnd
  BY <1>3 DEF LoopTop, ReadEnd, Leave
<1>4. CASE ReadLine \/ Inspect
  <2>1. watch'.pc # "off"
    <3>1. ReadLine => \E r: Goto("inspect", r)
      BY ReadLineGoes
    <3>2. Inspect => \E r: Goto("audit", r)
      BY DEF Inspect
    <3> QED
      BY <1>4, <3>1, <3>2
  <2>2. At("select") \/ At("inspect")
    BY <1>4, ReadLineGoes DEF Inspect
  <2>3. UNCHANGED <<daemon, gate>>
    BY <1>4 DEF ReadLine, Inspect
  <2> QED
    BY <2>1, <2>2, <2>3
<1>5. CASE WriteAudit \/ WriteViolation \/ Act
  BY <1>5 DEF WriteAudit, WriteViolation, Act, Leave
<1> QED
  BY <1>1, <1>2, <1>3, <1>4, <1>5 DEF Watcher

(* What the gate's two interesting verdicts mean *)
LEMMA VerdictMeans ==
  ASSUME NEW volume, NEW bad, NEW strangers, NEW cliOk
  PROVE  LET code == GateVerdict(volume, bad, strangers, cliOk) IN
           /\ code # "none"
           /\ code = "PASS" => /\ Correlated /\ ExactlyOnce
                               /\ HistoryIds("create") \subseteq HistoryIds("start")
           /\ code = "OBSERVER_COVERAGE_GAP" => ~Correlated
<1> DEFINE class == Classification(volume, bad)
<1>1. /\ class \in {"OBSERVER_COVERAGE_GAP", "CONTAINER_CREATE_FAILED", "CONTAINER_CREATED_NOT_STARTED",
                    "GOTRUE_MIGRATION_FAILED", "DATABASE_HEALTH_FAILED", "NO_DOCKER_MUTATION_OBSERVED",
                    "EVENT_HISTORY_CONSISTENT"}
      /\ class = "OBSERVER_COVERAGE_GAP" <=> ~Correlated
  BY Zenon DEF Classification
<1> HIDE DEF class
<1>2. OnFrozenNetwork(strangers) => HistoryIds("create") \subseteq HistoryIds("start")
  BY DEF OnFrozenNetwork
<1>3. GateVerdict(volume, bad, strangers, cliOk) =
        (IF AuditIds("network_contract") # {} THEN "DOCKER_EVENT_HISTORY_SANITIZER_FAILED"
         ELSE IF ~ImagesPinned THEN "EVENT_HISTORY_IMAGE_IDENTITY_FAILED"
         ELSE IF ~OnFrozenNetwork(strangers) THEN "EVENT_HISTORY_NETWORK_CORRELATION_FAILED"
         ELSE IF class \notin {"EVENT_HISTORY_CONSISTENT", "NO_DOCKER_MUTATION_OBSERVED"} THEN class
         ELSE IF ~cliOk THEN "DB_START_FAILED"
         ELSE IF ~ExactlyOnce THEN "NOT_EXACTLY_ONCE"
         ELSE "PASS")
  BY Zenon DEF GateVerdict, class
<1> QED
  BY <1>1, <1>2, <1>3

(* What the last step of the gate finds out *)
LEMMA ClassifyMeans ==
  ASSUME Classify, ShellKnows
  PROVE  /\ shell' = "trap" /\ verdict' # "none" /\ watch.pc = "exited" /\ violations = <<>> /\ frozenNet
         /\ verdict' = "PASS" => /\ Correlated /\ ExactlyOnce
                                 /\ HistoryIds("create") \subseteq HistoryIds("start")
         /\ verdict' = "OBSERVER_COVERAGE_GAP" => ~Correlated
<1>1. shell = "query" /\ watch.pc = "exited" /\ violations = <<>> /\ frozenNet
  BY DEF Classify, ShellKnows
<1>2. CASE Decide("DOCKER_EVENT_HISTORY_QUERY_FAILED")
  BY <1>1, <1>2 DEF Decide
<1>3. ASSUME NEW volume, NEW bad, NEW strangers, NEW cliOk,
             Decide(GateVerdict(volume, bad, strangers, cliOk))
      PROVE  /\ shell' = "trap" /\ verdict' # "none"
             /\ verdict' = "PASS" => /\ Correlated /\ ExactlyOnce
                                     /\ HistoryIds("create") \subseteq HistoryIds("start")
             /\ verdict' = "OBSERVER_COVERAGE_GAP" => ~Correlated
  <2>1. shell' = "trap" /\ verdict' = GateVerdict(volume, bad, strangers, cliOk)
    BY <1>3 DEF Decide
  <2> QED
    BY <2>1, VerdictMeans
<1>4. \/ Decide("DOCKER_EVENT_HISTORY_QUERY_FAILED")
      \/ \E volume, cliOk \in BOOLEAN, bad \in SUBSET Ended,
            strangers \in SUBSET {c \in DOMAIN shape : ~shape[c].rest} :
              Decide(GateVerdict(volume, bad, strangers, cliOk))
  BY DEF Classify
<1> QED
  BY <1>1, <1>2, <1>3, <1>4

(* The shell's other steps decide nothing, or something else. *)
LEMMA ShellSettles ==
  ASSUME Shell, ~Classify
  PROVE  \/ UNCHANGED verdict
         \/ verdict' \in Verdicts \ {"none", "PASS", "OBSERVER_COVERAGE_GAP"} /\ shell' = "trap"
BY DEF Shell, StartWatcher, WaitReady, Freeze, CliEnds, StopWatcher, Stopped, KillWatcher,
     CheckFiles, CheckFrozenNetwork, GoOn, Decide, ViolationOr, Verdicts

(* Where the shell is and what it knows fit after each step. *)
LEMMA ShellKnowsStep ==
  ASSUME Typed, ShellKnows, [Next]_vars
  PROVE  ShellKnows'
<1>1. CASE Docker
  BY <1>1, DockerMoves, DockerStandsStill DEF ShellKnows, CliRuns, gate
<1>2. CASE Watcher
  BY <1>2, WatcherIsThere DEF ShellKnows, gate
<1>3. CASE Classify
  <2>1. UNCHANGED watch
    BY <1>3 DEF Classify, WatchState
  <2> QED
    BY <1>3, <2>1, ClassifyMeans DEF ShellKnows, Decided
<1>4. CASE Shell /\ ~Classify
  <2> USE DEF ShellKnows, Decided
  <2>1. CASE StartWatcher
    BY <2>1 DEF StartWatcher, GoOn, Goto, files
  <2>2. CASE WaitReady
    BY <2>2 DEF WaitReady, GoOn, Decide, ViolationOr, WatchState, files
  <2>3. CASE Freeze \/ CliEnds
    BY <2>3 DEF Freeze, CliEnds, GoOn, Decide, WatchState, files
  <2>4. CASE StopWatcher
    BY <2>4 DEF StopWatcher, files
  <2>5. CASE Stopped \/ KillWatcher
    <3>1. shell \in {"stopping", "trapping"} /\ shell' = StoppedPhases[shell] /\ watch'.pc = "exited"
      BY <2>5 DEF Stopped, KillWatcher, GoOn, StoppedPhases, Leave, Goto, WatchState
    <3>2. UNCHANGED verdict
      BY <2>5 DEF Stopped, KillWatcher, GoOn
    <3> QED
      BY <3>1, <3>2 DEF StoppedPhases
  <2>6. CASE CheckFiles
    BY <2>6 DEF CheckFiles, GoOn, Decide, ViolationOr, WatchState, files
  <2>7. CASE CheckFrozenNetwork
    <3>1. /\ shell = "network" /\ UNCHANGED <<daemon, watch, files>>
          /\ \E good \in BOOLEAN : /\ good => frozenNet
                                   /\ IF good THEN GoOn("query") ELSE Decide("NETWORK_CONTRACT")
      BY <2>7 DEF CheckFrozenNetwork, NetworkSeen, WatchState
    <3> QED
      BY <3>1 DEF GoOn, Decide, daemon, files
  <2> QED
    BY <1>4, <2>1, <2>2, <2>3, <2>4, <2>5, <2>6, <2>7 DEF Shell
<1>5. CASE UNCHANGED vars
  BY <1>5 DEF vars, ShellKnows, gate, files, daemon
<1> QED
  BY <1>1, <1>2, <1>3, <1>4, <1>5 DEF Next

(* What the gate has found stays so: nothing is created, started, found or *)
(* written any more.                                                       *)
LEMMA GateKnowsStep ==
  ASSUME Typed, ShellKnows, GateKnows, [Next]_vars
  PROVE  GateKnows'
<1>1. ASSUME UNCHANGED <<history, audit>>
      PROVE  /\ Correlated' <=> Correlated
             /\ ExactlyOnce' <=> ExactlyOnce
             /\ (HistoryIds("create") \subseteq HistoryIds("start"))' <=>
                  HistoryIds("create") \subseteq HistoryIds("start")
  BY <1>1 DEF Correlated, ExactlyOnce, HistoryIds, AuditIds, Observations
<1>2. ASSUME UNCHANGED <<history, audit, frozenNet, violations, verdict>>,
             watch.pc = "exited" => watch'.pc = "exited"
      PROVE  GateKnows'
  BY <1>1, <1>2 DEF GateKnows
<1>3. ASSUME verdict' \notin {"PASS", "OBSERVER_COVERAGE_GAP"}
      PROVE  GateKnows'
  BY <1>3 DEF GateKnows
<1>4. CASE Docker
  <2>1. UNCHANGED <<watch, audit, violations, verdict>>
    BY <1>4, DockerMoves DEF gate
  <2>2. CASE verdict \in {"PASS", "OBSERVER_COVERAGE_GAP"}
    <3>1. UNCHANGED <<history, frozenNet>>
      BY <1>4, <2>2, DockerStandsStill DEF ShellKnows, CliRuns, Decided
    <3> QED
      BY <1>2, <2>1, <3>1
  <2> QED
    BY <1>3, <2>1, <2>2
<1>5. CASE Watcher
  BY <1>3, <1>5, WatcherIsThere DEF GateKnows, gate
<1>6. CASE Classify
  <2>1. UNCHANGED <<history, audit, frozenNet, violations, watch>>
    BY <1>6 DEF Classify, WatchState, daemon, files
  <2> QED
    BY <1>1, <1>6, <2>1, ClassifyMeans DEF GateKnows
<1>7. CASE Shell /\ ~Classify
  <2>1. UNCHANGED <<history, audit, frozenNet, violations>>
    BY <1>7, ShellMoves
  <2>2. watch.pc = "exited" => watch'.pc = "exited"
    BY <1>7, ShellMoves DEF ShellKnows, KillWatcher, Leave, Goto
  <2> QED
    BY <1>2, <1>3, <1>7, <2>1, <2>2, ShellSettles
<1>8. CASE UNCHANGED vars
  BY <1>2, <1>8 DEF vars, daemon, files, gate
<1> QED
  BY <1>4, <1>5, <1>6, <1>7, <1>8 DEF Next

(* The invariant holds at first. *)
LEMMA InvInit == Init => WatchInv
<1> SUFFICES ASSUME Init PROVE WatchInv
  OBVIOUS
<1>1. Typed
  BY TypedInit
<1>2. HistoryKnown /\ LinesTraced /\ RecordsTraced /\ RecordsHold
  BY DEF Init, HistoryKnown, LinesTraced, RecordsTraced, RecordsHold, WorkSteps
<1>3. AuditEnds /\ BeforeSpawn /\ ChildGone /\ InOrder
  BY DEF Init, AuditEnds, AllGood, BeforeSpawn, ChildGone, InOrder
<1>4. ShellKnows /\ GateKnows
  BY DEF Init, ShellKnows, GateKnows, Decided
<1> QED
  BY <1>1, <1>2, <1>3, <1>4 DEF WatchInv

(* And every step keeps it. *)
LEMMA InvNext == WatchInv /\ [Next]_vars => WatchInv'
BY TypedNext, HistoryKnownStep, LinesTracedStep, RecordsTracedStep, RecordsHoldStep, AuditEndsStep,
   BeforeSpawnStep, ChildGoneStep, InOrderStep, ShellKnowsStep, GateKnowsStep DEF WatchInv

(* The inductive invariant holds of every behaviour. *)
THEOREM Invariance == Spec => []WatchInv
BY InvInit, InvNext, PTL DEF Spec

-----------------------------------------------------------------------------
(* Theorems *)

(* Every variable keeps to its values: the watcher holds a record exactly  *)
(* while it works on one, and the gate blocks with a code of its own.      *)
THEOREM TypeCorrect == Spec => []TypeOK
<1>1. WatchInv => TypeOK
  BY TypesOfParts DEF WatchInv
<1> QED
  BY Invariance, <1>1, PTL

(* Lines are about containers, a finding about the network is about none;  *)
(* it is written only as the end of the audit.                             *)
LEMMA NetworkFailureEnds ==
  ASSUME Typed, RecordsTraced, AuditEnds, watch.pc # "exited", audit # <<>>
  PROVE  audit[Len(audit)].c = 0 <=> watch.pc = "violation" /\ watch.rec.c = 0
<1>1. audit \in Seq(Records) /\ Len(audit) \in DOMAIN audit
  BY DEF Typed, FilesTyped
<1>2. CASE watch.pc = "violation"
  BY <1>2 DEF AuditEnds
<1>3. CASE watch.pc # "violation" /\ audit[Len(audit)].c = 0
  <2>1. audit[Len(audit)] = NetworkFailure
    BY <1>1, <1>3 DEF RecordsTraced, Known
  <2>2. ~audit[Len(audit)].ok
    BY <2>1 DEF NetworkFailure, Record
  <2>3. watch.pc = "act"
    BY <1>1, <1>3, <2>2 DEF AuditEnds, AllGood
  <2> QED
    BY <1>3, <2>3 DEF AuditEnds, RecordsTraced
<1> QED
  BY <1>2, <1>3

(* No line is lost, repeated or reordered between the daemon and the       *)
(* watcher's audit while its subscription lasts, whatever part of them     *)
(* lies in the pipe, in its read buffer or in its hands.                   *)
THEOREM NothingIsLost == Spec => []NoLineLost
<1>1. ASSUME WatchInv PROVE NoLineLost
  <2> USE <1>1 DEF WatchInv
  <2>1. audit \in Seq(Records)
    BY DEF Typed, FilesTyped
  <2>2. CASE stream = "subscribed"
    <3> DEFINE observed == IF audit # <<>> /\ Last(audit).c = 0 THEN Front(audit) ELSE audit
    <3>1. Len(audit) \in Nat /\ Last(audit) = audit[Len(audit)]
      BY <2>1 DEF Last
    <3>2. watch.pc # "exited"
      BY <2>2 DEF ChildGone
    <3>3. ASSUME watch.pc = "violation", watch.rec.c = 0
          PROVE  DOMAIN observed = 1..Seen /\ \A i \in 1..Seen: observed[i] = audit[i]
      <4>1. audit # <<>> /\ Last(audit).c = 0 /\ Len(audit) >= 1
        BY <2>1, <3>1, <3>3 DEF AuditEnds
      <4>2. observed = SubSeq(audit, 1, Len(audit) - 1) /\ Seen = Len(audit) - 1
        BY <3>3, <4>1 DEF Front, Seen
      <4>3. DOMAIN observed = 1..Seen /\ \A i \in 1..Seen: observed[i] = audit[i]
        BY <2>1, <4>1, <4>2
      <4> QED
        BY <4>3
    <3>4. ASSUME ~(watch.pc = "violation" /\ watch.rec.c = 0)
          PROVE  DOMAIN observed = 1..Seen /\ \A i \in 1..Seen: observed[i] = audit[i]
      <4>1. observed = audit /\ Seen = Len(audit)
        BY <3>1, <3>2, <3>4, NetworkFailureEnds DEF Seen
      <4> QED
        BY <2>1, <4>1
    <3>5. DOMAIN observed = 1..Seen /\ \A i \in 1..Seen: observed[i] = audit[i]
      BY <3>3, <3>4
    <3> HIDE DEF observed
    <3>6. [i \in DOMAIN observed |-> Event(observed[i].phase, observed[i].c)] = Audited
      BY <3>5 DEF Audited, Line
    <3>7. (IF watch.pc \in {"inspect", "audit"} /\ watch.rec.c # 0
           THEN <<Event(watch.rec.phase, watch.rec.c)>> ELSE <<>>) = InHand
      BY DEF InHand, Line
    <3>8. Audited \o InHand \o buffer \o pipe = SubSeq(history, since + 1, Len(history))
      BY <2>2 DEF InOrder, From
    <3> QED
      BY <3>6, <3>7, <3>8 DEF NoLineLost, observed
  <2> QED
    BY <2>2 DEF NoLineLost
<1> QED
  BY <1>1, Invariance, PTL

(* A coverage gap is an event of the daemon's history that the watcher has *)
(* not audited: a run it has seen all of is not turned away for one.       *)
THEOREM GapsAreReal == Spec => []GapIsReal
<1>1. ASSUME WatchInv PROVE GapIsReal
  <2> SUFFICES ASSUME verdict = "OBSERVER_COVERAGE_GAP"
               PROVE  \E e \in ToSet(history) : ~\E r \in ToSet(audit) : Event(r.phase, r.c) = e
    BY DEF GapIsReal
  <2>1. ~Correlated
    BY <1>1 DEF WatchInv, GateKnows
  <2>2. ASSUME NEW action \in {"create", "start"}
        PROVE  AuditIds(action) \subseteq HistoryIds(action)
    <3> SUFFICES ASSUME NEW i \in DOMAIN audit, audit[i].phase = action
                 PROVE  audit[i].c \in HistoryIds(action)
      BY DEF AuditIds, ToSet
    <3>1. Told(Event(action, audit[i].c))
      BY <1>1 DEF WatchInv, RecordsTraced, Known, NetworkFailure, Record
    <3> QED
      BY <3>1 DEF Told, HistoryIds, ToSet, Event
  <2>3. PICK action \in {"create", "start"}: \E c \in HistoryIds(action): c \notin AuditIds(action)
    BY <2>1, <2>2 DEF Correlated
  <2>4. PICK c \in HistoryIds(action): c \notin AuditIds(action)
    BY <2>3
  <2>5. PICK e \in ToSet(history): e.action = action /\ e.c = c
    BY <2>4 DEF HistoryIds
  <2>6. ASSUME NEW r \in ToSet(audit), Event(r.phase, r.c) = e
        PROVE  c \in AuditIds(action)
    BY <2>5, <2>6 DEF AuditIds, Event
  <2> QED
    BY <2>4, <2>5, <2>6
<1> QED
  BY <1>1, Invariance, PTL

(* Of a collection of one thing there are no two. *)
LEMMA OneOfOne ==
  ASSUME NEW S, Cardinality(S) = 1, IsFiniteSet(S)
  PROVE  \E x: S = {x}
BY FS_Singleton

(* The gate's count of observations names one record. *)
LEMMA ObservedOnce ==
  ASSUME Typed, ExactlyOnce, NEW role \in {"database", "gotrue_migration"}
  PROVE  \E i \in DOMAIN audit: /\ audit[i].role = role /\ audit[i].phase = "create"
                                /\ \A j \in DOMAIN audit:
                                     audit[j].role = role /\ audit[j].phase = "create" => j = i
<1> DEFINE S == {i \in DOMAIN audit : audit[i].role = role /\ audit[i].phase = "create"}
<1>1. Cardinality(S) = 1
  BY DEF ExactlyOnce, Observations
<1>2. DOMAIN audit = 1..Len(audit) /\ Len(audit) \in Nat
  BY DEF Typed, FilesTyped
<1>3. IsFiniteSet(S)
  <2>1. IsFiniteSet(1..Len(audit))
    BY <1>2, FS_Interval
  <2> QED
    BY <1>2, <2>1, FS_Subset
<1>4. PICK i: S = {i}
  BY <1>1, <1>3, OneOfOne
<1> QED
  BY <1>4

(* When the gate passes, the CLI created exactly the database and the      *)
(* migration, started both, and the watcher saw each keep its contract     *)
(* when created and when started; a killed watcher's last record may be    *)
(* the exception.                                                          *)
THEOREM PassesAreWatched == Spec => []PassIsWatched
<1>1. ASSUME WatchInv PROVE PassIsWatched
  <2> USE <1>1 DEF WatchInv
  <2> SUFFICES ASSUME verdict = "PASS" PROVE PassIsWatched
    BY DEF PassIsWatched
  <2>1. /\ frozenNet /\ violations = <<>> /\ watch.pc = "exited" /\ Correlated /\ ExactlyOnce
        /\ HistoryIds("create") \subseteq HistoryIds("start")
    BY DEF GateKnows
  <2>2. audit \in Seq(Records) /\ shape \in Seq(Shapes)
    BY DEF Typed, FilesTyped, ShapeTyped
  <2>3. \A i \in 1..(Len(audit) - 1): audit[i].ok
    BY <2>2 DEF AuditEnds
  <2>4. ASSUME ~killed
        PROVE  /\ {Role(shape[c]) : c \in DOMAIN shape} = {"database", "gotrue_migration"}
               /\ Len(shape) = 2
               /\ \A c \in DOMAIN shape :
                    /\ shape[c].rest
                    /\ {"create", "start"} \subseteq
                         {r.phase : r \in {x \in ToSet(audit) : x.c = c /\ x.ok}}
    <3>1. ASSUME NEW i \in DOMAIN audit
          PROVE  /\ audit[i].ok /\ audit[i].role = Role(shape[audit[i].c])
                 /\ audit[i].role # "unexpected" /\ shape[audit[i].c].rest
      BY <2>1, <2>4 DEF AuditEnds, AllGood, RecordsHold, Holds
    <3>2. ASSUME NEW c \in DOMAIN shape, NEW phase \in {"create", "start"}
          PROVE  \E i \in DOMAIN audit: audit[i].c = c /\ audit[i].phase = phase
      <4>1. c \in HistoryIds("create")
        <5>1. PICK i \in DOMAIN history: history[i] = Event("create", c)
          BY DEF HistoryKnown, Told
        <5> QED
          BY <5>1 DEF HistoryIds, ToSet, Event
      <4>2. c \in AuditIds(phase)
        BY <2>1, <4>1 DEF Correlated
      <4> QED
        BY <4>2 DEF AuditIds, ToSet
    <3>3. ASSUME NEW i \in DOMAIN audit, audit[i].phase = "create"
          PROVE  audit[i].c \in DOMAIN shape
      <4>1. PICK j \in DOMAIN history: history[j] = Event("create", audit[i].c)
        BY <3>3 DEF RecordsTraced, Known, Told, NetworkFailure, Record
      <4> QED
        BY <4>1 DEF HistoryKnown, Event
    <3>4. ASSUME NEW c \in DOMAIN shape
          PROVE  /\ shape[c].rest
                 /\ {"create", "start"} \subseteq {r.phase : r \in {x \in ToSet(audit) : x.c = c /\ x.ok}}
                 /\ Role(shape[c]) \in {"database", "gotrue_migration"}
      <4>1. ASSUME NEW phase \in {"create", "start"}
            PROVE  phase \in {r.phase : r \in {x \in ToSet(audit) : x.c = c /\ x.ok}}
        BY <3>1, <3>2 DEF ToSet
      <4>2. shape[c].rest /\ Role(shape[c]) # "unexpected"
        BY <3>1, <3>2
      <4>3. Role(shape[c]) \in {"database", "gotrue_migration", "unexpected"}
        BY DEF Role
      <4> QED
        BY <4>1, <4>2, <4>3
    <3>5. ASSUME NEW role \in {"database", "gotrue_migration"}
          PROVE  \E c \in DOMAIN shape: Role(shape[c]) = role
      BY <2>1, <3>1, <3>3, ObservedOnce
    <3>6. ASSUME NEW c \in DOMAIN shape, NEW d \in DOMAIN shape, Role(shape[c]) = Role(shape[d])
          PROVE  c = d
      <4>1. PICK i \in DOMAIN audit: audit[i].c = c /\ audit[i].phase = "create"
        BY <3>2
      <4>2. PICK j \in DOMAIN audit: audit[j].c = d /\ audit[j].phase = "create"
        BY <3>2
      <4>3. audit[i].role = Role(shape[c]) /\ audit[j].role = Role(shape[c])
        BY <3>1, <3>6, <4>1, <4>2
      <4>4. i = j
        BY <2>1, <3>4, <4>1, <4>2, <4>3, ObservedOnce
      <4> QED
        BY <4>1, <4>2, <4>4
    <3>7. PICK c \in DOMAIN shape: Role(shape[c]) = "database"
      BY <3>5
    <3>8. PICK d \in DOMAIN shape: Role(shape[d]) = "gotrue_migration"
      BY <3>5
    <3>9. DOMAIN shape = {c, d} /\ c # d
      BY <3>4, <3>6, <3>7, <3>8
    <3>10. DOMAIN shape = 1..Len(shape) /\ Len(shape) \in Nat
      BY <2>2
    <3>11. Len(shape) = 2
      <4>1. /\ \A n \in 1..Len(shape): n = c \/ n = d
            /\ c \in 1..Len(shape) /\ d \in 1..Len(shape)
        BY <3>9, <3>10
      <4>2. Len(shape) >= 2
        BY <3>9, <3>10, <4>1
      <4>3. CASE Len(shape) > 2
        <5>1. 1 \in 1..Len(shape) /\ 2 \in 1..Len(shape) /\ 3 \in 1..Len(shape)
          BY <3>10, <4>3
        <5> QED
          BY <4>1, <5>1
      <4> QED
        BY <3>10, <4>2, <4>3
    <3>12. {Role(shape[x]) : x \in DOMAIN shape} = {"database", "gotrue_migration"}
      BY <3>4, <3>5
    <3> QED
      BY <3>4, <3>11, <3>12
  <2> QED
    BY <2>1, <2>3, <2>4 DEF PassIsWatched
<1> QED
  BY <1>1, Invariance, PTL

=============================================================================
