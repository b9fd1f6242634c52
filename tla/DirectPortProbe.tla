--------------------------- MODULE DirectPortProbe ---------------------------
(***************************************************************************)
(* scripts/direct_port_probe.py and run_direct_port_probe of               *)
(* scripts/run-containment-smoke.sh, which starts one database container,  *)
(* lets the probe watch it and reports the probe's failure code.           *)
(*                                                                         *)
(* The probe inspects the container about once a second until it has been  *)
(* healthy for long enough.  When Docker cannot answer the whole           *)
(* inspection it asks for the fields group by group, at different times,   *)
(* and puts the answers together; when it cannot do that either it prints  *)
(* a diagnostic, which its own validator must admit.                       *)
(***************************************************************************)
EXTENDS Naturals

CONSTANTS
    HealthTimeout,  \* seconds until the probe takes no further sample (120)
    StableSeconds,  \* seconds the container has to be healthy (10)
    Horizon,        \* bound on the clock
    MaxMishaps      \* bound on failing calls

Groups == <<"IDENTITY_CONFIG", "HOSTCONFIG_SECURITY_TMPFS", "PUBLICATION",
            "NETWORK_RUNTIME_MOUNTS", "STATE_HEALTH">>
GroupTerminals == <<"DIRECT_INSPECT_TEMPLATE_IDENTITY_FAILED",
                    "DIRECT_INSPECT_TEMPLATE_HOSTCONFIG_FAILED",
                    "DIRECT_INSPECT_TEMPLATE_PUBLICATION_FAILED",
                    "DIRECT_INSPECT_TEMPLATE_NETWORK_FAILED",
                    "DIRECT_INSPECT_TEMPLATE_STATE_HEALTH_FAILED">>

ParseTerminal == [INVALID_UTF8 |-> "DIRECT_INSPECT_INVALID_UTF8",
                  JSON_SYNTAX |-> "DIRECT_INSPECT_JSON_REJECTED",
                  DUPLICATE_KEY |-> "DIRECT_INSPECT_DUPLICATE_KEY_REJECTED",
                  TOPLEVEL_TYPE |-> "DIRECT_INSPECT_TOPLEVEL_REJECTED"]
ParseClasses == {"VALID_OBJECT"} \cup DOMAIN ParseTerminal

VARIABLES
    step,       \* of the shell and, from "loop" to "outside", of the probe
    clock,
    wake,       \* the next sample is not before it
    since,      \* the healthy_since of the code, in a set that may be empty
    answer,     \* what the last inspection, or the groups so far, said
    envelope,   \* the first inspection's exit and parse class; the diagnostic
    container,
    addresses,  \* the host's other addresses can be listed
    soundSince, \* history variable: the first of the latest readings that were all
                \* of a running, healthy container, in a set that may be empty
    outcome,    \* the failure code, "PASS", or "none" yet
    mishaps

probe == <<step, wake, since, answer, envelope>>
world == <<container, addresses>>
directVars == <<probe, clock, world, soundSince, outcome, mishaps>>

Suffer(ok) == /\ ok \/ mishaps < MaxMishaps
              /\ mishaps' = IF ok THEN mishaps ELSE mishaps + 1

Blocks(code) == step' = "done" /\ outcome' = code
Proceeds(next) == step' = next /\ UNCHANGED outcome

-----------------------------------------------------------------------------
(* The shell *)

(* The daemon may do something else than it was asked for: bind the port   *)
(* on every address, let it be reached from outside, restart the container *)
(* when it exits.                                                          *)
CreateContainer ==
    /\ step = "create"
    /\ \/ /\ container' \in [state: {"running"}, health: {"starting"}, oom: {FALSE}, restarts: {0},
                             asked: BOOLEAN, bound: {"loopback", "all"}, open: BOOLEAN]
          /\ Suffer(TRUE) /\ Proceeds("correlate")
       \/ /\ Suffer(FALSE) /\ UNCHANGED container
          /\ \E code \in {"DIRECT_CONTAINER_CREATE_TIMEOUT", "DIRECT_CONTAINER_CREATE_FAILED"}:
                Blocks(code)
    /\ UNCHANGED <<clock, wake, since, answer, envelope, addresses, soundSince>>

(* `docker ps` shows the containers that run. *)
CorrelateContainer ==
    /\ step = "correlate"
    /\ IF container.state = "running" THEN Proceeds("loop") ELSE Blocks("DIRECT_CONTAINER_COUNT_MISMATCH")
    /\ UNCHANGED <<clock, wake, since, answer, envelope, world, soundSince, mishaps>>

-----------------------------------------------------------------------------
(* safe_inspect *)

StateFields == {"state", "health", "oom", "restarts"}
FieldsOf(group) ==
    CASE group = "IDENTITY_CONFIG" -> {"identity"}
      [] group = "HOSTCONFIG_SECURITY_TMPFS" -> {"asked"}
      [] group = "PUBLICATION" -> {"bound"}
      [] group = "NETWORK_RUNTIME_MOUNTS" -> {}
      [] group = "STATE_HEALTH" -> StateFields

(* Docker reports a binding only while the container runs. *)
Reported == [identity |-> TRUE, asked |-> container.asked,
             bound |-> IF container.state = "running" THEN container.bound ELSE "none",
             state |-> container.state, health |-> container.health, oom |-> container.oom,
             restarts |-> container.restarts]
Nothing == [identity |-> FALSE, asked |-> FALSE, bound |-> "none", state |-> "unknown",
            health |-> "unknown", oom |-> FALSE, restarts |-> 0]

Sound == container.state = "running" /\ container.health = "healthy" /\ ~container.oom
         /\ container.restarts = 0
Reads == soundSince' = IF ~Sound THEN {} ELSE IF soundSince = {} THEN {clock} ELSE soundSince

NoEnvelope == [terminal |-> "none", exit |-> "ZERO", parse |-> "VALID_OBJECT", group |-> "NONE",
               count |-> 0]

(* _diagnostic_envelope *)
Diagnoses(terminal, group, count) ==
    /\ envelope' = [envelope EXCEPT !.terminal = terminal, !.group = group, !.count = count]
    /\ step' = "diagnose"

(* One `docker inspect` with the whole template: it answers, answers       *)
(* something that is no object, or fails (whatever it has printed).        *)
InspectAll ==
    /\ step = "loop" /\ clock < HealthTimeout /\ clock >= wake
    /\ \/ /\ Suffer(TRUE)
          /\ answer' = Reported /\ envelope' = NoEnvelope /\ Reads
          /\ step' = "judge"
       \/ /\ Suffer(FALSE)
          /\ \E class \in DOMAIN ParseTerminal:
                envelope' = [NoEnvelope EXCEPT !.terminal = ParseTerminal[class], !.parse = class]
          /\ step' = "diagnose" /\ UNCHANGED <<answer, soundSince>>
       \/ /\ Suffer(FALSE)
          /\ \E class \in ParseClasses, exit \in {"NONZERO", "SIGNAL"}:
                envelope' = [NoEnvelope EXCEPT !.exit = exit, !.parse = class]
          /\ step' = "availability" /\ UNCHANGED <<answer, soundSince>>
    /\ wake' = 0
    /\ UNCHANGED <<clock, since, world, outcome>>

(* Can Docker name the object at all, and is it this one? *)
InspectAvailability ==
    /\ step = "availability"
    /\ \E found \in {"this", "another", "none"}:
          /\ Suffer(found = "this")
          /\ CASE found = "this" -> step' = "group" /\ UNCHANGED envelope
               [] found = "another" -> Diagnoses("DIRECT_INSPECT_COMPOSITION_FAILED", "IDENTITY_CONFIG", 0)
               [] found = "none" -> Diagnoses("DIRECT_INSPECT_OBJECT_UNAVAILABLE", "IDENTITY_CONFIG", 0)
    /\ answer' = Nothing
    /\ UNCHANGED <<clock, wake, since, world, soundSince, outcome>>

(* Mutant of InspectGroup: a group is counted before it is validated. *)
InspectGroupCountedFirst ==
    /\ step = "group"
    /\ LET index == envelope.count + 1
           group == Groups[index]
       IN \E ok \in BOOLEAN:
             /\ Suffer(ok)
             /\ answer' = IF ok THEN [f \in DOMAIN answer |-> IF f \in FieldsOf(group) THEN Reported[f]
                                                              ELSE answer[f]]
                          ELSE answer
             /\ IF ok /\ group = "STATE_HEALTH" THEN Reads ELSE UNCHANGED soundSince
             /\ IF ok
                THEN /\ envelope' = [envelope EXCEPT !.count = index]
                     /\ step' = IF index = 5 THEN "compose" ELSE "group"
                ELSE Diagnoses(GroupTerminals[index], group, index)
    /\ UNCHANGED <<clock, wake, since, world, outcome>>

(* The next of the five groups, validated on its own *)
InspectGroup ==
    /\ step = "group"
    /\ LET index == envelope.count + 1
           group == Groups[index]
       IN \E ok \in BOOLEAN:
             /\ Suffer(ok)
             /\ answer' = IF ok THEN [f \in DOMAIN answer |-> IF f \in FieldsOf(group) THEN Reported[f]
                                                              ELSE answer[f]]
                          ELSE answer
             /\ IF ok /\ group = "STATE_HEALTH" THEN Reads ELSE UNCHANGED soundSince
             /\ IF ok
                THEN /\ envelope' = [envelope EXCEPT !.count = index]
                     /\ step' = IF index = 5 THEN "compose" ELSE "group"
                ELSE Diagnoses(GroupTerminals[index], group, envelope.count)
    /\ UNCHANGED <<clock, wake, since, world, outcome>>

(* compose_group_payloads: the identity group may be about another object. *)
ComposeGroups ==
    /\ step = "compose"
    /\ \E ok \in BOOLEAN:
          /\ Suffer(ok)
          /\ IF ok THEN step' = "judge" /\ UNCHANGED envelope
             ELSE Diagnoses("DIRECT_INSPECT_COMPOSITION_FAILED", "IDENTITY_CONFIG", envelope.count)
    /\ UNCHANGED <<clock, wake, since, answer, world, soundSince, outcome>>

(* What inspection_state_lines admits *)
Admitted(e) ==
    \/ /\ \E class \in DOMAIN ParseTerminal: e.terminal = ParseTerminal[class] /\ e.parse = class
       /\ e.exit = "ZERO" /\ e.group = "NONE" /\ e.count = 0
    \/ /\ e.terminal = "DIRECT_INSPECT_OBJECT_UNAVAILABLE"
       /\ e.exit # "ZERO" /\ e.group = "IDENTITY_CONFIG" /\ e.count = 0
    \/ /\ e.terminal = "DIRECT_INSPECT_COMPOSITION_FAILED"
       /\ e.exit # "ZERO"
       /\ \/ e.group = "IDENTITY_CONFIG" /\ e.count = 0
          \/ e.count = 5 /\ e.group \in {"NONE"} \cup {Groups[i]: i \in 1..5}
    \/ \E i \in 1..5: /\ e.terminal = GroupTerminals[i] /\ e.group = Groups[i]
                      /\ e.exit # "ZERO" /\ e.count = i - 1

(* A diagnostic that is not admitted is an exception: the probe ends       *)
(* without a failure code, and the shell has only its own for that.        *)
PrintDiagnostic ==
    /\ step = "diagnose"
    /\ Blocks(IF Admitted(envelope) THEN envelope.terminal ELSE "DIRECT_PROBE_FAILED")
    /\ UNCHANGED <<clock, wake, since, answer, envelope, world, soundSince, mishaps>>

-----------------------------------------------------------------------------
(* main *)

(* Mutant of JudgeSample: one good sample starts the wait for good. *)
JudgeSampleSticky ==
    /\ step = "judge"
    /\ CASE answer.oom -> Blocks("DIRECT_CONTAINER_OOM_KILLED") /\ UNCHANGED <<since, wake>>
         [] ~answer.oom /\ answer.restarts # 0 ->
               Blocks("DIRECT_RESTART_COUNT_NONZERO") /\ UNCHANGED <<since, wake>>
         [] ~answer.oom /\ answer.restarts = 0 /\ answer.state # "running" ->
               Blocks("DIRECT_CONTAINER_NOT_RUNNING") /\ UNCHANGED <<since, wake>>
         [] OTHER ->
               /\ since' = IF answer.health = "healthy" /\ since = {} THEN {clock} ELSE since
               /\ wake' = clock + 1
               /\ Proceeds(IF answer.health = "healthy" /\ \E t \in since': clock - t >= StableSeconds
                           THEN "validate" ELSE "loop")
    /\ answer' = IF step' = "validate" THEN answer ELSE Nothing
    /\ envelope' = NoEnvelope
    /\ UNCHANGED <<clock, world, soundSince, mishaps>>

(* The time is taken after the inspection has answered, however long that  *)
(* took; a sample that is not healthy starts the wait anew.                *)
JudgeSample ==
    /\ step = "judge"
    /\ CASE answer.oom -> Blocks("DIRECT_CONTAINER_OOM_KILLED") /\ UNCHANGED <<since, wake>>
         [] ~answer.oom /\ answer.restarts # 0 ->
               Blocks("DIRECT_RESTART_COUNT_NONZERO") /\ UNCHANGED <<since, wake>>
         [] ~answer.oom /\ answer.restarts = 0 /\ answer.state # "running" ->
               Blocks("DIRECT_CONTAINER_NOT_RUNNING") /\ UNCHANGED <<since, wake>>
         [] OTHER ->
               /\ since' = IF answer.health # "healthy" THEN {}
                           ELSE IF since = {} THEN {clock} ELSE since
               /\ wake' = clock + 1
               /\ Proceeds(IF \E t \in since': clock - t >= StableSeconds THEN "validate" ELSE "loop")
    /\ answer' = IF step' = "validate" THEN answer ELSE Nothing
    /\ envelope' = NoEnvelope
    /\ UNCHANGED <<clock, world, soundSince, mishaps>>

GiveUp ==
    /\ step = "loop" /\ clock >= HealthTimeout
    /\ Blocks("DIRECT_HEALTH_TIMEOUT")
    /\ UNCHANGED <<clock, wake, since, answer, envelope, world, soundSince, mishaps>>

(* validate_inspection on the last sample; the names of its violations but *)
(* the binding's are one here.                                             *)
ValidateInspection ==
    /\ step = "validate"
    /\ IF answer.asked /\ answer.identity /\ answer.bound = "loopback" THEN Proceeds("loopback")
       ELSE Blocks(IF answer.asked /\ answer.identity THEN "DIRECT_PORT_BINDING_MISMATCH"
                   ELSE "DIRECT_CONTRACT_MISMATCH")
    /\ UNCHANGED <<clock, wake, since, answer, envelope, world, soundSince, mishaps>>

ConnectLoopback ==
    /\ step = "loopback"
    /\ \E ok \in BOOLEAN:
          /\ Suffer(ok)
          /\ IF ok /\ container.state = "running" THEN Proceeds("outside")
             ELSE Blocks("DIRECT_LOOPBACK_CONNECT_FAILED")
    /\ UNCHANGED <<clock, wake, since, answer, envelope, world, soundSince>>

(* No address that can be listed is no address that connects. *)
ConnectOutside ==
    /\ step = "outside"
    /\ Blocks(IF addresses /\ container.open /\ container.state = "running"
              THEN "DIRECT_NONLOOPBACK_CONNECT_SUCCEEDED" ELSE "PASS")
    /\ UNCHANGED <<clock, wake, since, answer, envelope, world, soundSince, mishaps>>

-----------------------------------------------------------------------------
(* The container, and time *)

HealthChanges ==
    /\ container.state = "running" /\ step # "done"
    /\ container' \in {[container EXCEPT !.health = h]: h \in {"healthy", "unhealthy"} \ {container.health}}
    /\ UNCHANGED <<probe, clock, addresses, soundSince, outcome, mishaps>>

ContainerExits ==
    /\ container.state = "running" /\ step # "done"
    /\ \E oom \in BOOLEAN: container' = [container EXCEPT !.state = "exited", !.oom = oom]
    /\ UNCHANGED <<probe, clock, addresses, soundSince, outcome, mishaps>>

(* Only a container with another restart policy than asked for comes back. *)
ContainerRestarts ==
    /\ container.state = "exited" /\ ~container.asked /\ container.restarts = 0 /\ step # "done"
    /\ container' = [container EXCEPT !.state = "running", !.health = "starting", !.oom = FALSE,
                                      !.restarts = 1]
    /\ UNCHANGED <<probe, clock, addresses, soundSince, outcome, mishaps>>

Tick ==
    /\ clock < Horizon /\ step # "done"
    /\ clock' = clock + 1
    /\ UNCHANGED <<probe, world, soundSince, outcome, mishaps>>

DirectInit ==
    /\ step = "create" /\ clock = 0 /\ wake = 0 /\ since = {}
    /\ answer = Nothing /\ envelope = NoEnvelope
    /\ container = [state |-> "none", health |-> "starting", oom |-> FALSE, restarts |-> 0,
                    asked |-> TRUE, bound |-> "loopback", open |-> FALSE]
    /\ addresses \in BOOLEAN
    /\ soundSince = {} /\ outcome = "none" /\ mishaps = 0

DirectNext ==
    \/ CreateContainer \/ CorrelateContainer
    \/ InspectAll \/ InspectAvailability \/ InspectGroup \/ ComposeGroups \/ PrintDiagnostic
    \/ JudgeSample \/ GiveUp \/ ValidateInspection \/ ConnectLoopback \/ ConnectOutside
    \/ HealthChanges \/ ContainerExits \/ ContainerRestarts \/ Tick

-----------------------------------------------------------------------------
(* Properties *)

DirectTypeOK ==
    /\ clock \in 0..Horizon /\ wake \in 0..(Horizon + 1) /\ mishaps \in 0..MaxMishaps
    /\ since \in SUBSET (0..Horizon)
    /\ envelope.count \in 0..5 /\ envelope.parse \in ParseClasses

(* A PASS rests on readings that were all of a running, healthy container, *)
(* never restarted and never killed, the first of them StableSeconds ago   *)
(* at least; its port is bound to loopback alone, and reachable from       *)
(* nowhere else while it runs, if the host's addresses can be listed.      *)
PassIsSound ==
    outcome = "PASS" =>
       /\ \E t \in soundSince: clock - t >= StableSeconds
       /\ container.asked /\ container.bound = "loopback"
       /\ addresses /\ container.state = "running" => ~container.open

(* Every failure of the probe reaches the shell under its own name: no     *)
(* diagnostic is one that the probe's validator throws out.                *)
FailureIsNamed == outcome # "DIRECT_PROBE_FAILED"

=============================================================================
