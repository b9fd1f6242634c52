--------------------------- MODULE ContainerWatch ---------------------------
(***************************************************************************)
(* The observation of `supabase db start`: scripts/container_watch.py,     *)
(* which follows the Docker event stream, inspects each packet container   *)
(* and removes one that breaks its contract; and the gate of               *)
(* scripts/run-containment-smoke.sh, which stops the watcher, compares its *)
(* audit with the daemon's own event history                               *)
(* (scripts/classify_docker_events.py) and decides.                        *)
(*                                                                         *)
(* Four processes run side by side: the shell, the watcher, its child      *)
(* `docker events`, and the daemon with its client the CLI.  An event line *)
(* travels from the daemon to the pipe, from the pipe in chunks to the     *)
(* read buffer of the watcher, and from there one by one to the audit.     *)
(* Nothing is assumed of the CLI: it may create and start any container.   *)
(***************************************************************************)
EXTENDS Naturals, Sequences, FiniteSets, SequencesExt

CONSTANTS
    MaxContainers,  \* bound on containers the CLI creates
    MaxFaults,      \* bound on mishaps: a failing Docker command, the end of the
                    \* subscription, a changed network, a restarted database
    Shapes          \* the containers the CLI may ask for

(* image: whose image it runs.  named: it has the database's name, or the  *)
(* migration's command.  rest: the rest of its contract holds (network,    *)
(* privilege, mounts, ports, labels, restart policy).                      *)
AllShapes == [image: {"postgres", "gotrue", "other"}, named: BOOLEAN, rest: BOOLEAN]

ASSUME BoundsAssumption == {MaxContainers, MaxFaults} \subseteq Nat
ASSUME ShapesAssumption == Shapes \subseteq AllShapes

Containers == 1..MaxContainers

VARIABLES
    shape,      \* daemon: of the containers created so far, in order of creation
    status,     \* daemon: "created", "running", "exited" or "removed", likewise
    history,    \* daemon: create and start events since the boundary was frozen
    frozenNet,  \* daemon: the packet network is the only one and as it was made
    stream,     \* `docker events`: "off", "spawned", "subscribed" or "ended"
    since,      \* how much of the history had gone by when it subscribed
    pipe,       \* lines on their way to the watcher
    buffer,     \* lines the watcher has read and not yet looked at
    watch,      \* the watcher: its next step, and the record in its hands
    running,    \* the watcher: no SIGTERM yet
    ready,      \* readiness file
    audit,      \* audit file
    violations, \* violation file
    shell,      \* the shell's next step
    alive,      \* the shell: the watcher was alive when the CLI had ended
    verdict,    \* "none", "PASS" or the code the shell blocks with
    killed,     \* history variable: the watcher was ended by SIGKILL
    faults

daemon == <<shape, status, history, frozenNet>>
lines == <<stream, since, pipe, buffer>>
files == <<ready, audit, violations>>
gate == <<shell, alive, verdict, killed>>
vars == <<daemon, lines, watch, running, files, gate, faults>>

Charge(ok) == /\ ok \/ faults < MaxFaults
              /\ faults' = IF ok THEN faults ELSE faults + 1

-----------------------------------------------------------------------------
(* Docker and the CLI *)

Event(action, c) == [action |-> action, c |-> c]

(* The history proper also has destroy events, of which only the number is *)
(* recorded, and die events: how a container ended is settled when the     *)
(* history is read.                                                        *)
Emit(event) ==
    /\ history' = Append(history, event)
    /\ pipe' = IF stream = "subscribed" THEN Append(pipe, event) ELSE pipe

(* The CLI runs, and with it its requests to the daemon, until the shell   *)
(* has seen it end.                                                        *)
CliRuns == shell = "db_start"

Create(s) ==
    /\ CliRuns /\ Len(shape) < MaxContainers
    /\ shape' = Append(shape, s) /\ status' = Append(status, "created")
    /\ Emit(Event("create", Len(shape) + 1))
    /\ UNCHANGED <<frozenNet, stream, since, buffer, watch, running, files, gate, faults>>

Start(c) ==
    /\ CliRuns /\ status[c] = "created"
    /\ status' = [status EXCEPT ![c] = "running"]
    /\ Emit(Event("start", c))
    /\ UNCHANGED <<shape, frozenNet, stream, since, buffer, watch, running, files, gate, faults>>

(* The restart policy of a database that has ended and was not stopped.    *)
Restart(c) ==
    /\ status[c] = "exited" /\ verdict = "none"
    /\ \A r \in ToSet(violations) : r.c # c
    /\ Charge(FALSE)
    /\ status' = [status EXCEPT ![c] = "running"]
    /\ Emit(Event("start", c))
    /\ UNCHANGED <<shape, frozenNet, stream, since, buffer, watch, running, files, gate>>

(* Only of the database is the end a state of its own: without its port it *)
(* is inspected differently, and its restart policy starts it again.       *)
Die(c) ==
    /\ status[c] = "running" /\ shape[c].image = "postgres" /\ verdict = "none"
    /\ status' = [status EXCEPT ![c] = "exited"]
    /\ UNCHANGED <<shape, history, frozenNet, lines, watch, running, files, gate, faults>>

CliRemove(c) ==
    /\ CliRuns /\ status[c] # "removed"
    /\ status' = [status EXCEPT ![c] = "removed"]
    /\ UNCHANGED <<shape, history, frozenNet, lines, watch, running, files, gate, faults>>

(* A second packet network appears, or the packet's own is replaced. *)
NetworkChanges ==
    /\ CliRuns /\ frozenNet
    /\ frozenNet' = FALSE
    /\ Charge(FALSE)
    /\ UNCHANGED <<shape, status, history, lines, watch, running, files, gate>>

(* The child connects to the daemon some time after it was started. *)
Subscribe ==
    /\ stream = "spawned" /\ stream' = "subscribed"
    /\ since' = Len(history)
    /\ UNCHANGED <<daemon, pipe, buffer, watch, running, files, gate, faults>>

StreamEnds ==
    /\ stream \in {"spawned", "subscribed"} /\ stream' = "ended"
    /\ Charge(FALSE)
    /\ UNCHANGED <<daemon, since, pipe, buffer, watch, running, files, gate>>

-----------------------------------------------------------------------------
(* The watcher *)

(* What it writes of an event, and of the network. *)
Roles == {"database", "gotrue_migration", "unexpected", "unobserved", "network_contract", "none"}

Record(phase, c, role, ok) == [phase |-> phase, c |-> c, role |-> role, ok |-> ok]

NoRecord == Record("none", 0, "none", TRUE)
NetworkFailure == Record("network_contract", 0, "network_contract", FALSE)

At(pc) == watch.pc = pc
Goto(pc, rec) == watch' = [pc |-> pc, rec |-> rec]

(* inspect_live_network: three lists and an inspection; a failing command  *)
(* counts as a broken contract.                                            *)
NetworkSeen(good) ==
    \E ok \in BOOLEAN : Charge(ok) /\ good = (ok /\ frozenNet)

InitialCheck ==
    /\ At("network")
    /\ \E good \in BOOLEAN :
         NetworkSeen(good) /\ IF good THEN Goto("spawn", NoRecord) ELSE Goto("audit", NetworkFailure)
    /\ UNCHANGED <<daemon, lines, running, files, gate>>

Spawn ==
    /\ At("spawn") /\ Goto("ready", NoRecord)
    /\ stream' = "spawned"
    /\ UNCHANGED <<daemon, since, pipe, buffer, running, files, gate, faults>>

(* Ready means that the child was started, not that it has subscribed. *)
MarkReady ==
    /\ At("ready") /\ Goto("top", NoRecord)
    /\ ready' = TRUE
    /\ UNCHANGED <<daemon, lines, running, audit, violations, gate, faults>>

(* The child is terminated on every way out, and with the process goes     *)
(* what it has not looked at.                                              *)
Leave ==
    /\ Goto("exited", NoRecord)
    /\ stream' = "ended" /\ since' = 0 /\ pipe' = <<>> /\ buffer' = <<>>

LoopTop ==
    /\ At("top")
    /\ IF running THEN Goto("select", NoRecord) /\ UNCHANGED lines ELSE Leave
    /\ UNCHANGED <<daemon, running, files, gate, faults>>

(* Once a second. *)
PeriodicCheck ==
    /\ At("top") /\ running
    /\ \E good \in BOOLEAN :
         /\ NetworkSeen(good)
         /\ IF good THEN Goto("select", NoRecord) ELSE Goto("audit", NetworkFailure)
    /\ UNCHANGED <<daemon, lines, running, files, gate>>

(* Nothing to read for a quarter of a second. *)
SelectTimesOut ==
    /\ At("select") /\ stream # "ended"
    /\ Goto("top", NoRecord)
    /\ UNCHANGED <<daemon, lines, running, files, gate, faults>>

(* Mutant of ReadLine: it keeps the first line of a chunk only. *)
ReadLineAlone ==
    /\ At("select") /\ (pipe # <<>> \/ stream = "ended")
    /\ \E n \in 1..Len(pipe) :
         /\ pipe' = SubSeq(pipe, n + 1, Len(pipe))
         /\ Goto("inspect", Record(Head(pipe).action, Head(pipe).c, "none", TRUE))
    /\ UNCHANGED <<daemon, stream, since, buffer, running, files, gate, faults>>

(* The pipe can be read, or has ended: readline takes a line the buffer    *)
(* holds; an empty buffer is first filled with whatever has arrived.  The  *)
(* selector sees only the pipe, never the buffer.                          *)
ReadLine ==
    /\ At("select") /\ (pipe # <<>> \/ stream = "ended")
    /\ \E n \in 0..Len(pipe) :
         LET got == buffer \o SubSeq(pipe, 1, n) IN
         /\ (buffer = <<>> /\ pipe # <<>>) <=> n > 0
         /\ got # <<>>
         /\ buffer' = Tail(got)
         /\ pipe' = SubSeq(pipe, n + 1, Len(pipe))
         /\ Goto("inspect", Record(Head(got).action, Head(got).c, "none", TRUE))
    /\ UNCHANGED <<daemon, stream, since, running, files, gate, faults>>

ReadEnd ==
    /\ At("select") /\ stream = "ended" /\ pipe = <<>> /\ buffer = <<>>
    /\ Leave
    /\ UNCHANGED <<daemon, running, files, gate, faults>>

(* classify_and_validate.  The published port is there only while the      *)
(* database runs.                                                          *)
Role(s) ==
    IF s.named /\ s.image = "postgres" THEN "database"
    ELSE IF s.named /\ s.image = "gotrue" THEN "gotrue_migration" ELSE "unexpected"

Compliant(c, phase) ==
    /\ Role(shape[c]) # "unexpected" /\ shape[c].rest
    /\ phase = "start" /\ Role(shape[c]) = "database" => status[c] = "running"

(* The network and the container are inspected, the container thirty times *)
(* if need be: one that is gone cannot be, and the record says so.         *)
Inspect ==
    /\ At("inspect")
    /\ \E networkRead, inspected \in BOOLEAN :
         LET rec == watch.rec
             good == networkRead /\ frozenNet /\ Compliant(rec.c, rec.phase)
         IN  /\ Charge(networkRead /\ inspected)
             /\ Goto("audit", IF inspected /\ status[rec.c] # "removed"
                    THEN Record(rec.phase, rec.c, Role(shape[rec.c]), good)
                    ELSE Record(rec.phase, rec.c, "unobserved", FALSE))
    /\ UNCHANGED <<daemon, lines, running, files, gate>>

WriteAudit ==
    /\ At("audit")
    /\ audit' = Append(audit, watch.rec)
    /\ IF watch.rec.ok THEN Goto("top", NoRecord) ELSE Goto("violation", watch.rec)
    /\ UNCHANGED <<daemon, lines, running, ready, violations, gate, faults>>

WriteViolation ==
    /\ At("violation")
    /\ violations' = Append(violations, watch.rec)
    /\ IF watch.rec.c = 0 THEN Leave ELSE Goto("act", watch.rec) /\ UNCHANGED lines
    /\ UNCHANGED <<daemon, running, ready, audit, gate, faults>>

(* `docker rm -f` for a container found bad when created, `docker stop`    *)
(* for one found bad when started; the exit status is not looked at.       *)
Act ==
    LET c == watch.rec.c IN
    /\ At("act") /\ Leave
    /\ \E ok \in BOOLEAN :
         /\ Charge(ok)
         /\ IF ok /\ status[c] # "removed"
            THEN status' = [status EXCEPT ![c] =
                    IF watch.rec.phase = "create" THEN "removed"
                    ELSE IF @ = "running" THEN "exited" ELSE @]
            ELSE UNCHANGED status
    /\ UNCHANGED <<shape, history, frozenNet, running, files, gate>>

Watcher ==
    \/ InitialCheck \/ Spawn \/ MarkReady \/ LoopTop \/ PeriodicCheck \/ SelectTimesOut
    \/ ReadLine \/ ReadEnd \/ Inspect \/ WriteAudit \/ WriteViolation \/ Act

-----------------------------------------------------------------------------
(* The shell: start, stop and gate *)

GoOn(pc) == shell' = pc /\ UNCHANGED <<alive, verdict, killed>>
Decide(code) == shell' = "trap" /\ verdict' = code /\ UNCHANGED <<alive, killed>>

WatchState == <<lines, watch, running, files>>

StartWatcher ==
    /\ shell = "start" /\ GoOn("wait_ready")
    /\ Goto("network", NoRecord)
    /\ UNCHANGED <<daemon, lines, running, files, faults>>

(* first_observer_violation: its code, whatever the caller has to say. *)
ViolationOr(code) == IF violations # <<>> THEN "OBSERVED_VIOLATION" ELSE code

(* The shell waits five seconds for the readiness file. *)
WaitReady ==
    /\ shell = "wait_ready"
    /\ IF ready THEN GoOn("freeze") ELSE Decide(ViolationOr("CONTAINER_WATCHER_NOT_READY"))
    /\ UNCHANGED <<daemon, WatchState, faults>>

(* The network is asserted once more; the event history begins here. *)
Freeze ==
    /\ shell = "freeze"
    /\ \E good \in BOOLEAN :
         NetworkSeen(good) /\ IF good THEN GoOn("db_start") ELSE Decide("NETWORK_CONTRACT")
    /\ UNCHANGED <<daemon, WatchState>>

CliEnds ==
    /\ shell = "db_start" /\ GoOn("alive")
    /\ UNCHANGED <<daemon, WatchState, faults>>

(* stop_watcher, once before the gate and once from the EXIT trap: SIGTERM *)
(* first.  Before the gate the shell has looked whether there is a watcher *)
(* to stop.                                                                *)
StopWatcher ==
    /\ \/ shell = "alive" /\ shell' = "stopping" /\ alive' = ~At("exited")
       \/ shell = "trap" /\ shell' = "trapping" /\ UNCHANGED alive
    /\ running' = FALSE
    /\ UNCHANGED <<daemon, lines, watch, files, verdict, killed, faults>>

StoppedPhases == [stopping |-> "files", trapping |-> "done"]

Stopped ==
    /\ shell \in DOMAIN StoppedPhases /\ watch.pc \in {"off", "exited"}
    /\ GoOn(StoppedPhases[shell])
    /\ UNCHANGED <<daemon, WatchState, faults>>

(* Mutant of KillWatcher: only a watcher that is reading is killed. *)
KillWatcherIdle ==
    /\ shell \in DOMAIN StoppedPhases /\ At("select")
    /\ shell' = StoppedPhases[shell] /\ killed' = TRUE
    /\ Leave
    /\ UNCHANGED <<daemon, running, files, alive, verdict, faults>>

(* Five seconds later SIGKILL, wherever the watcher is. *)
KillWatcher ==
    /\ shell \in DOMAIN StoppedPhases /\ watch.pc \notin {"off", "exited"}
    /\ shell' = StoppedPhases[shell] /\ killed' = TRUE
    /\ Leave
    /\ UNCHANGED <<daemon, running, files, alive, verdict, faults>>

(* Mutant of CheckFiles: a watcher that was alive when the CLI ended is     *)
(* taken to have found nothing.                                            *)
CheckFilesIfExited ==
    /\ shell = "files"
    /\ IF ~alive THEN Decide(ViolationOr("CONTAINER_WATCHER_EXITED")) ELSE GoOn("network")
    /\ UNCHANGED <<daemon, WatchState, faults>>

CheckFiles ==
    /\ shell = "files"
    /\ IF ~alive THEN Decide(ViolationOr("CONTAINER_WATCHER_EXITED"))
       ELSE IF violations # <<>> THEN Decide("OBSERVED_VIOLATION")
       ELSE GoOn("network")
    /\ UNCHANGED <<daemon, WatchState, faults>>

CheckFrozenNetwork ==
    /\ shell = "network"
    /\ \E good \in BOOLEAN :
         NetworkSeen(good) /\ IF good THEN GoOn("query") ELSE Decide("NETWORK_CONTRACT")
    /\ UNCHANGED <<daemon, WatchState>>

HistoryIds(action) == {e.c : e \in {x \in ToSet(history) : x.action = action}}
AuditIds(phase) == {r.c : r \in {x \in ToSet(audit) : x.phase = phase}}
Count(action) == Cardinality({i \in DOMAIN history : history[i].action = action})
Observations(role, phase) ==
    Cardinality({i \in DOMAIN audit : audit[i].role = role /\ audit[i].phase = phase})

(* Mutant of Correlated: the daemon's count of events is compared with the *)
(* audit's.                                                                *)
CorrelatedByCount ==
    /\ Count("create") = Cardinality(AuditIds("create"))
    /\ Count("start") = Cardinality(AuditIds("start"))

Correlated ==
    /\ HistoryIds("create") = AuditIds("create")
    /\ HistoryIds("start") = AuditIds("start")

(* Containers that may have come to an end. *)
Ended == {c \in HistoryIds("start") :
            \/ shape[c].image # "postgres" \/ status[c] # "running"
            \/ Cardinality({i \in DOMAIN history : history[i] = Event("start", c)}) > 1}

(* analyze.  volume: the history shows the database volume made; bad:      *)
(* containers that exited with a nonzero status.                           *)
Classification(volume, bad) ==
    LET badImages == {shape[c].image : c \in bad} IN
    IF ~Correlated THEN "OBSERVER_COVERAGE_GAP"
    ELSE IF volume /\ Count("create") = 0 THEN "CONTAINER_CREATE_FAILED"
    ELSE IF Count("create") > Count("start") THEN "CONTAINER_CREATED_NOT_STARTED"
    ELSE IF "gotrue" \in badImages THEN "GOTRUE_MIGRATION_FAILED"
    ELSE IF "postgres" \in badImages THEN "DATABASE_HEALTH_FAILED"
    ELSE IF Count("create") = 0 /\ ~volume THEN "NO_DOCKER_MUTATION_OBSERVED"
    ELSE "EVENT_HISTORY_CONSISTENT"

ImagesPinned == \A e \in ToSet(history) : shape[e.c].image # "other"

(* A container joins its network when it is started; one whose contract is *)
(* broken may have joined another.                                         *)
OnFrozenNetwork(strangers) == HistoryIds("create") \subseteq HistoryIds("start") \ strangers

ExactlyOnce ==
    \A role \in {"database", "gotrue_migration"}, phase \in {"create", "start"} :
        Observations(role, phase) = 1

(* cliOk: the CLI succeeded and the policy's ledger is complete. *)
GateVerdict(volume, bad, strangers, cliOk) ==
    IF AuditIds("network_contract") # {} THEN "DOCKER_EVENT_HISTORY_SANITIZER_FAILED"
    ELSE IF ~ImagesPinned THEN "EVENT_HISTORY_IMAGE_IDENTITY_FAILED"
    ELSE IF ~OnFrozenNetwork(strangers) THEN "EVENT_HISTORY_NETWORK_CORRELATION_FAILED"
    ELSE IF Classification(volume, bad) \notin {"EVENT_HISTORY_CONSISTENT", "NO_DOCKER_MUTATION_OBSERVED"}
         THEN Classification(volume, bad)
    ELSE IF ~cliOk THEN "DB_START_FAILED"
    ELSE IF ~ExactlyOnce THEN "NOT_EXACTLY_ONCE"
    ELSE "PASS"

(* The history is asked for, classified and compared.  The three queries   *)
(* are one step: a later one only knows more connections.                  *)
Classify ==
    /\ shell = "query"
    /\ \/ /\ Charge(FALSE) /\ Decide("DOCKER_EVENT_HISTORY_QUERY_FAILED")
       \/ /\ Charge(TRUE)
          /\ \E volume, cliOk \in BOOLEAN, bad \in SUBSET Ended,
                strangers \in SUBSET {c \in DOMAIN shape : ~shape[c].rest} :
                 Decide(GateVerdict(volume, bad, strangers, cliOk))
    /\ UNCHANGED <<daemon, WatchState>>

Shell ==
    \/ StartWatcher \/ WaitReady \/ Freeze \/ CliEnds \/ StopWatcher \/ Stopped
    \/ KillWatcher \/ CheckFiles \/ CheckFrozenNetwork \/ Classify

-----------------------------------------------------------------------------
(* The whole *)

Init ==
    /\ shape = <<>> /\ status = <<>> /\ history = <<>>
    /\ frozenNet = TRUE
    /\ stream = "off" /\ since = 0 /\ pipe = <<>> /\ buffer = <<>>
    /\ watch = [pc |-> "off", rec |-> NoRecord] /\ running = TRUE
    /\ ready = FALSE /\ audit = <<>> /\ violations = <<>>
    /\ shell = "start" /\ alive = FALSE /\ verdict = "none" /\ killed = FALSE
    /\ faults = 0

Docker ==
    \/ \E s \in Shapes : Create(s)
    \/ \E c \in DOMAIN shape : Start(c) \/ Restart(c) \/ Die(c) \/ CliRemove(c)
    \/ NetworkChanges \/ Subscribe \/ StreamEnds

Next == Docker \/ Watcher \/ Shell

Spec == Init /\ [][Next]_vars

-----------------------------------------------------------------------------
(* Properties *)

Records == [phase: {"create", "start", "network_contract", "none"}, c: 0..MaxContainers,
            role: Roles, ok: BOOLEAN]
Events == [action: {"create", "start"}, c: Containers]

Verdicts ==
    {"none", "OBSERVED_VIOLATION", "CONTAINER_WATCHER_NOT_READY", "CONTAINER_WATCHER_EXITED",
     "NETWORK_CONTRACT", "DOCKER_EVENT_HISTORY_QUERY_FAILED",
     "DOCKER_EVENT_HISTORY_SANITIZER_FAILED", "EVENT_HISTORY_IMAGE_IDENTITY_FAILED",
     "EVENT_HISTORY_NETWORK_CORRELATION_FAILED", "OBSERVER_COVERAGE_GAP",
     "CONTAINER_CREATE_FAILED", "CONTAINER_CREATED_NOT_STARTED", "GOTRUE_MIGRATION_FAILED",
     "DATABASE_HEALTH_FAILED", "DB_START_FAILED", "NOT_EXACTLY_ONCE", "PASS"}

(* The values every variable takes; and the watcher holds a record exactly *)
(* while it works on one.                                                  *)
TypeOK ==
    /\ shape \in Seq(Shapes) /\ Len(shape) <= MaxContainers
    /\ status \in [DOMAIN shape -> {"created", "running", "exited", "removed"}]
    /\ history \in Seq(Events) /\ since \in 0..Len(history)
    /\ pipe \in Seq(Events) /\ buffer \in Seq(Events)
    /\ audit \in Seq(Records) /\ violations \in Seq(Records)
    /\ stream \in {"off", "spawned", "subscribed", "ended"}
    /\ watch.pc \in {"off", "network", "spawn", "ready", "top", "select", "inspect",
                     "audit", "violation", "act", "exited"}
    /\ watch.rec \in Records
    /\ watch.rec # NoRecord <=> watch.pc \in {"inspect", "audit", "violation", "act"}
    /\ {frozenNet, running, ready, alive, killed} \subseteq BOOLEAN
    /\ shell \in {"start", "wait_ready", "freeze", "db_start", "alive", "stopping", "files",
                  "network", "query", "trap", "trapping", "done"}
    /\ verdict \in Verdicts
    /\ faults \in 0..MaxFaults

(* No line of the subscription is lost, repeated or reordered on its way   *)
(* through pipe and buffer: what the watcher has audited, holds and has    *)
(* still to read is what the daemon reported since it subscribed.  A       *)
(* failed check of the network is no line, and ends the audit.             *)
NoLineLost ==
    LET event(r) == Event(r.phase, r.c)
        observed == IF audit # <<>> /\ Last(audit).c = 0 THEN Front(audit) ELSE audit
        held == IF watch.pc \in {"inspect", "audit"} /\ watch.rec.c # 0
                THEN <<event(watch.rec)>> ELSE <<>>
    IN  stream = "subscribed" =>
            [i \in DOMAIN observed |-> event(observed[i])] \o held \o buffer \o pipe
              = SubSeq(history, since + 1, Len(history))

(* Whatever the CLI did, and however late or briefly the watcher followed  *)
(* the events: when the gate passes, the CLI has created one database and  *)
(* one migration container and no other, each was started, and each obeys  *)
(* its contract and was found to, when created and when started.  If the   *)
(* watcher had to be killed, the last thing it wrote may be the exception. *)
PassIsWatched ==
    verdict = "PASS" =>
        /\ frozenNet
        /\ \A i \in 1..(Len(audit) - 1) : audit[i].ok
        /\ ~killed =>
             /\ {Role(shape[c]) : c \in DOMAIN shape} = {"database", "gotrue_migration"}
             /\ Len(shape) = 2
             /\ \A c \in DOMAIN shape :
                  /\ shape[c].rest
                  /\ {"create", "start"} \subseteq
                       {r.phase : r \in {x \in ToSet(audit) : x.c = c /\ x.ok}}

(* A coverage gap is only found where there is one: a run all of whose     *)
(* events were audited is never turned away with it.                       *)
GapIsReal ==
    verdict = "OBSERVER_COVERAGE_GAP" =>
        \E e \in ToSet(history) : ~\E r \in ToSet(audit) : Event(r.phase, r.c) = e

(* Until it has finished the shell can always go on, whatever the watcher, *)
(* whose Docker commands have no time limit, is waiting for.               *)
ShellNeverWaits == shell # "done" => ENABLED Shell

=============================================================================
