------------------------- MODULE PrivateNetnsProbe -------------------------
(***************************************************************************)
(* scripts/private_docker_netns_probe.py: it starts a containerd and a     *)
(* dockerd of its own in a network namespace, runs two containers in them, *)
(* tries what must be denied, takes everything down again and writes one   *)
(* receipt; and run_private_docker_netns_probe of                          *)
(* scripts/run-containment-smoke.sh, which starts it and judges the        *)
(* receipt and the exit status together.                                   *)
(*                                                                         *)
(* Beside the probe run its two daemons, which may leave on their own and  *)
(* may carry out a request after the client gave up on it, and other       *)
(* programs of the host, which may change its firewall and its links.      *)
(* Cleanup is a ledger of operations: what was required, what was          *)
(* attempted, what succeeded.                                              *)
(***************************************************************************)
EXTENDS Naturals, Sequences, FiniteSets

CONSTANT MaxFaults  \* bound on mishaps: a failing call, a daemon that leaves, a
                    \* foreign change of the host, the death of the probe

ASSUME MaxFaultsAssumption == MaxFaults \in Nat

Containers == {"CLIENT", "SERVICE"}
Objects == Containers \cup {"NETWORK", "IMAGE"}
Daemons == {"containerd", "dockerd"}
Host == {"firewall", "links"}

Removals == <<"REMOVE_CLIENT", "REMOVE_SERVICE", "REMOVE_NETWORK", "REMOVE_IMAGE">>
DockerOps == Removals \o <<"QUERY_CONTAINERS", "QUERY_IMAGES", "QUERY_VOLUMES", "QUERY_NETWORKS">>

(* The objects an operation on the private daemon is about *)
About == [op \in {DockerOps[i]: i \in 1..8} |->
            CASE op = "REMOVE_CLIENT" -> {"CLIENT"}
              [] op = "REMOVE_SERVICE" -> {"SERVICE"}
              [] op \in {"REMOVE_NETWORK", "QUERY_NETWORKS"} -> {"NETWORK"}
              [] op \in {"REMOVE_IMAGE", "QUERY_IMAGES"} -> {"IMAGE"}
              [] op = "QUERY_CONTAINERS" -> Containers
              [] op = "QUERY_VOLUMES" -> {}]

Actions == {"STOP_PROXY", "REMOVE_CLIENT", "REMOVE_SERVICE", "REMOVE_NETWORK", "REMOVE_IMAGE",
            "STOP_DOCKERD", "STOP_CONTAINERD", "DELETE_NETNS", "REMOVE_CGROUP", "REMOVE_RUNTIME_ROOT"}
DockerQueries == {"QUERY_CONTAINERS", "QUERY_IMAGES", "QUERY_VOLUMES", "QUERY_NETWORKS"}
Queries == DockerQueries \cup
           {"QUERY_NETNS", "QUERY_LISTENER", "QUERY_HOST_FIREWALL", "QUERY_HOST_LINKS"}
Ops == Actions \cup Queries

ExecuteSteps == {"validate", "image", "preimage", "cgroup", "netns", "containerd", "socket",
                 "namespace0", "namespace1", "readback", "dockerd", "ready", "boundary",
                 "load", "network", "service", "client", "health", "canaries", "proxy"}
CleanupSteps == {"sync", "docker", "stop dockerd", "stop containerd", "delete netns",
                 "query netns", "remove cgroup", "remove runtime", "query listener",
                 "query firewall", "query links", "finalize"}
Steps == {"idle"} \cup ExecuteSteps \cup CleanupSteps \cup {"report", "write", "exited"}

(* The failure codes that anything depends on; "CHECK_FAILED" is any other *)
Codes == {"PASS", "PACKET_PATH_COLLISION", "PRIVATE_CONTAINERD_START_FAILED", "CHECK_FAILED",
          "PRIVATE_CLEANUP_FAILED", "PRIVATE_RESIDUE"}

(* What execute() shows, each a boolean (or several) of the receipt that a *)
(* PASS needs                                                              *)
Showings == {"image identity", "boundaries", "private firewall", "containers", "canaries", "proxy"}

StartupFailures == {"PROCESS_EXIT_BEFORE_SOCKET", "SOCKET_READINESS_TIMEOUT",
                    "NAMESPACE_CREATE_INITIAL_FAILED", "NAMESPACE_CREATE_RETRY_FAILED",
                    "NAMESPACE_READBACK_FAILED"}
Substages == StartupFailures \cup {"READY", "UNKNOWN_SANITIZED"}

(* Counters of the receipt that must be zero: one for each Docker query    *)
(* (named after it) and those cleanup() measures itself                    *)
Counters == DockerQueries \cup {"processes", "namespaces", "cgroups", "roots", "listeners", "veths"}

VARIABLES
    pc,         \* the probe's next step
    code,       \* failure_code, "PASS" until something fails
    self,       \* the probe's attributes
    ledger,     \* its cleanup ledger and failures
    receipt,
    docker,     \* the private daemons and what they hold
    host,       \* what the probe makes on the host, and what others do there
    shell,      \* the shell: its step, the receipt's file, the exit status, the verdict
    faults

vars == <<pc, code, self, ledger, receipt, docker, host, shell, faults>>

Charge(ok) == /\ ok \/ faults < MaxFaults
              /\ faults' = IF ok THEN faults ELSE faults + 1

-----------------------------------------------------------------------------
(* The receipt and its validator *)

NoCounts == [required |-> 0, attempted |-> 0, succeeded |-> 0, failures |-> 0, complete |-> FALSE]

DefaultReceipt ==
    [startup |-> [substage |-> "UNKNOWN_SANITIZED", proof |-> FALSE, started |-> FALSE,
                  exit |-> FALSE, socket |-> FALSE, timeout |-> FALSE, attempted |-> 0,
                  created |-> 0, readback |-> FALSE, confirmed |-> FALSE, observed |-> 0],
     shown |-> {},
     attempted |-> FALSE,   \* cleanup.attempted
     nonzero |-> {},        \* the counters that are not zero
     restored |-> {},       \* of Host, what is as it was
     query |-> NoCounts, action |-> NoCounts, failures |-> 0,
     finalized |-> FALSE, proof |-> FALSE, succeeded |-> FALSE]

(* The one shape of a startup that ended in a substage *)
StartupShape(s) ==
    CASE s = "PROCESS_EXIT_BEFORE_SOCKET" -> <<TRUE, TRUE, FALSE, FALSE, 0, 0, FALSE, FALSE>>
      [] s = "SOCKET_READINESS_TIMEOUT" -> <<TRUE, FALSE, FALSE, TRUE, 0, 0, FALSE, FALSE>>
      [] s = "NAMESPACE_CREATE_INITIAL_FAILED" -> <<TRUE, FALSE, TRUE, FALSE, 1, 0, FALSE, FALSE>>
      [] s = "NAMESPACE_CREATE_RETRY_FAILED" -> <<TRUE, FALSE, TRUE, FALSE, 2, 1, FALSE, FALSE>>
      [] s = "NAMESPACE_READBACK_FAILED" -> <<TRUE, FALSE, TRUE, FALSE, 2, 2, TRUE, FALSE>>
      [] s = "READY" -> <<TRUE, FALSE, TRUE, FALSE, 2, 2, TRUE, TRUE>>
      [] OTHER -> <<>>

ValidStartup(s) ==
    /\ s.created <= s.attempted /\ s.attempted <= 2 /\ s.observed <= 2
    /\ IF s.proof
       THEN /\ StartupShape(s.substage) =
                   <<s.started, s.exit, s.socket, s.timeout,
                     s.attempted, s.created, s.readback, s.confirmed>>
            /\ s.substage = "READY" => s.observed = 2
            /\ s.substage # "NAMESPACE_READBACK_FAILED" /\ s.substage # "READY" => s.observed = 0
       ELSE s.substage = "UNKNOWN_SANITIZED"

ValidCompleteness(r) ==
    IF ~r.finalized
    THEN ~r.proof /\ ~r.succeeded /\ r.query = NoCounts /\ r.action = NoCounts
    ELSE /\ \A c \in {r.query, r.action}:
               /\ c.succeeded <= c.attempted /\ c.attempted <= c.required
               /\ c.failures = c.attempted - c.succeeded
               /\ c.complete = (/\ r.attempted
                                /\ c.required = c.attempted /\ c.attempted = c.succeeded)
         /\ r.failures >= r.query.failures + r.action.failures
         /\ r.succeeded = r.proof
         /\ r.proof => /\ r.attempted /\ r.query.complete /\ r.action.complete
                       /\ r.failures = 0
                       /\ r.nonzero = {} /\ r.restored = Host

(* validate_receipt, which format_receipt and the shell's `validate` run *)
ValidReceipt(r, c) ==
    /\ ValidStartup(r.startup)
    /\ ValidCompleteness(r)
    /\ c = "PRIVATE_CONTAINERD_START_FAILED" => r.startup.substage \in StartupFailures
    /\ c = "PASS" => r.startup.substage = "READY"

-----------------------------------------------------------------------------
(* execute() *)

(* A ProbeFailure, or another exception that run_probe expects: on to      *)
(* cleanup().                                                              *)
Raise(c) == code' = c /\ pc' = "sync"
Advance(step) == pc' = step /\ UNCHANGED code
Expect(good, step) == IF good THEN Advance(step) ELSE Raise("CHECK_FAILED")

Up(d) == docker[d] = "up"
BothUp == Up("dockerd") /\ Up("containerd")
(* host_firewall_snapshot succeeds *)
SnapshotHolds == self.preimage["firewall"] => "firewall" \notin host.drifted

Shows(what) == receipt' = [receipt EXCEPT !.shown = @ \cup what]

ValidateArguments ==
    /\ pc = "validate"
    /\ IF host.runtime # "none"
       THEN Raise("PACKET_PATH_COLLISION") /\ UNCHANGED faults
       ELSE \E ok \in BOOLEAN: Charge(ok) /\ Expect(ok, "image")
    /\ UNCHANGED <<self, ledger, receipt, docker, host, shell>>

PrepareHostImage ==
    /\ pc = "image"
    /\ host' = [host EXCEPT !.runtime = "own"]
    /\ \E ok \in BOOLEAN: Charge(ok) /\ Expect(ok, "preimage")
    /\ UNCHANGED <<self, ledger, receipt, docker, shell>>

(* The firewall first, then the links *)
TakePreimage ==
    /\ pc = "preimage"
    /\ \E taken \in {{}, {"firewall"}, Host}:
          /\ Charge(taken = Host)
          /\ self' = [self EXCEPT !.preimage = [h \in Host |-> h \in taken]]
          /\ Expect(taken = Host, "cgroup")
    /\ UNCHANGED <<ledger, receipt, docker, host, shell>>

CreateCgroup ==
    /\ pc = "cgroup"
    /\ \E ok \in BOOLEAN:
          /\ Charge(ok)
          /\ IF ok /\ host.cgroup = "none"
             THEN /\ host' = [host EXCEPT !.cgroup = "own"]
                  /\ self' = [self EXCEPT !.cgroup = TRUE]
                  /\ Advance("netns")
             ELSE Raise("CHECK_FAILED") /\ UNCHANGED <<host, self>>
    /\ UNCHANGED <<ledger, receipt, docker, shell>>

(* A call whose time is up raises before netns_created is set, though the  *)
(* namespace may be there.                                                 *)
CreateNetns ==
    /\ pc = "netns"
    /\ IF host.netns # "none"
       THEN Raise("PACKET_PATH_COLLISION") /\ UNCHANGED <<self, host, faults>>
       ELSE \E how \in {"made", "made, then a check fails", "timeout", "failed"}:
               /\ Charge(how = "made")
               /\ host' = [host EXCEPT !.netns = IF how = "failed" THEN "none" ELSE "own"]
               /\ self' = [self EXCEPT !.netns = how \notin {"failed", "timeout"}]
               /\ Expect(how = "made" /\ SnapshotHolds, "containerd")
    /\ UNCHANGED <<ledger, receipt, docker, shell>>

(* Popen, then the move to the packet's cgroup *)
StartContainerd ==
    /\ pc = "containerd"
    /\ \E how \in {"started", "not moved", "not spawned"}:
          /\ Charge(how = "started")
          /\ IF how = "not spawned"
             THEN UNCHANGED <<docker, receipt>>
             ELSE /\ docker' = [docker EXCEPT !.containerd = "up"]
                  /\ receipt' = [receipt EXCEPT !.startup.started = TRUE]
          /\ Expect(how = "started", "socket")
    /\ UNCHANGED <<self, ledger, host, shell>>

(* set_startup_substage and fail *)
StartupFails(startup, substage) ==
    /\ receipt' = [receipt EXCEPT !.startup = [startup EXCEPT !.substage = substage, !.proof = TRUE]]
    /\ Raise("PRIVATE_CONTAINERD_START_FAILED")

WaitForContainerdSocket ==
    /\ pc = "socket"
    /\ IF ~Up("containerd")
       THEN /\ StartupFails([receipt.startup EXCEPT !.exit = TRUE], "PROCESS_EXIT_BEFORE_SOCKET")
            /\ UNCHANGED faults
       ELSE \E ok \in BOOLEAN:
               /\ Charge(ok)
               /\ IF ok
                  THEN /\ receipt' = [receipt EXCEPT !.startup.socket = TRUE]
                       /\ Advance("namespace0")
                  ELSE StartupFails([receipt.startup EXCEPT !.timeout = TRUE],
                                    "SOCKET_READINESS_TIMEOUT")
    /\ UNCHANGED <<self, ledger, docker, host, shell>>

(* Mutant of CreateContainerdNamespace: either failure is reported as the   *)
(* first one's.                                                            *)
CreateContainerdNamespaceOneName(index) ==
    /\ pc = IF index = 0 THEN "namespace0" ELSE "namespace1"
    /\ LET tried == [receipt.startup EXCEPT !.attempted = index + 1] IN
       \E ok \in BOOLEAN:
          /\ Charge(ok \/ ~Up("containerd"))
          /\ IF ok /\ Up("containerd")
             THEN /\ receipt' = [receipt EXCEPT !.startup = [tried EXCEPT !.created = index + 1]]
                  /\ Advance(IF index = 0 THEN "namespace1" ELSE "readback")
             ELSE StartupFails(tried, "NAMESPACE_CREATE_INITIAL_FAILED")
    /\ UNCHANGED <<self, ledger, docker, host, shell>>

CreateContainerdNamespace(index) ==
    /\ pc = IF index = 0 THEN "namespace0" ELSE "namespace1"
    /\ LET tried == [receipt.startup EXCEPT !.attempted = index + 1] IN
       \E ok \in BOOLEAN:
          /\ Charge(ok \/ ~Up("containerd"))
          /\ IF ok /\ Up("containerd")
             THEN /\ receipt' = [receipt EXCEPT !.startup = [tried EXCEPT !.created = index + 1]]
                  /\ Advance(IF index = 0 THEN "namespace1" ELSE "readback")
             ELSE StartupFails(tried, IF index = 0 THEN "NAMESPACE_CREATE_INITIAL_FAILED"
                                                   ELSE "NAMESPACE_CREATE_RETRY_FAILED")
    /\ UNCHANGED <<self, ledger, docker, host, shell>>

VerifyContainerdNamespaces ==
    /\ pc = "readback"
    /\ \E observed \in 0..2:
          /\ Charge(observed = 2 \/ ~Up("containerd"))
          /\ ~Up("containerd") => observed = 0
          /\ LET read == [receipt.startup EXCEPT !.readback = TRUE, !.observed = observed] IN
             IF observed = 2
             THEN /\ receipt' = [receipt EXCEPT !.startup =
                                    [read EXCEPT !.confirmed = TRUE, !.substage = "READY",
                                                 !.proof = TRUE]]
                  /\ Advance("dockerd")
             ELSE StartupFails(read, "NAMESPACE_READBACK_FAILED")
    /\ UNCHANGED <<self, ledger, docker, host, shell>>

(* The cleanup of the private runtime is latched as soon as dockerd exists *)
StartDockerd ==
    /\ pc = "dockerd"
    /\ \E how \in {"started", "not moved", "not spawned"}:
          /\ Charge(how = "started")
          /\ IF how = "not spawned"
             THEN UNCHANGED <<docker, self>>
             ELSE /\ docker' = [docker EXCEPT !.dockerd = "up"]
                  /\ self' = [self EXCEPT !.latched = TRUE]
          /\ Expect(how = "started", "ready")
    /\ UNCHANGED <<ledger, receipt, host, shell>>

(* Mutant of WaitForDockerd: no deadline. *)
WaitForDockerdForever ==
    /\ pc = "ready" /\ docker.socket /\ Up("dockerd")
    /\ Advance("boundary")
    /\ UNCHANGED <<self, ledger, receipt, docker, host, shell, faults>>

(* Without an answer both waits end at their deadlines. *)
WaitForDockerd ==
    /\ pc = "ready"
    /\ \E ok \in BOOLEAN:
          /\ Charge(ok \/ ~docker.socket \/ ~Up("dockerd"))
          /\ Expect(ok /\ docker.socket /\ Up("dockerd"), "boundary")
    /\ UNCHANGED <<self, ledger, receipt, docker, host, shell>>

(* A step that only observes, and ends with a snapshot of the host *)
Observe(step, good, what, next) ==
    /\ pc = step
    /\ \E ok \in BOOLEAN:
          /\ Charge(ok \/ ~good)
          /\ IF ok /\ good THEN Shows(what) ELSE UNCHANGED receipt
          /\ Expect(ok /\ good /\ SnapshotHolds, next)
    /\ UNCHANGED <<self, ledger, docker, host, shell>>

VerifyBoundaries == Observe("boundary", BothUp, {"boundaries"}, "load")

(* Mutant of Latched: the obligation follows the answer. *)
LatchedOnceMade(object, how) ==
    IF how = "made"
    THEN [self EXCEPT !.latched = TRUE, !.owed = @ \cup {object}, !.known = @ \cup {object}]
    ELSE self

Latched(object, how) ==
    [self EXCEPT !.latched = TRUE,
                 !.owed = @ \cup {object},
                 !.known = IF how = "made" THEN @ \cup {object} ELSE @]

(* The client's request for an object.  The obligation to remove it is     *)
(* latched before the request is made, which may be refused, leave the     *)
(* object behind although a later check fails, or go on in the daemon      *)
(* after the client gave up.                                               *)
Make(step, object, what, next) ==
    /\ pc = step
    /\ \E how \in {"made", "left behind", "lost", "refused"}:
          /\ Up("dockerd") \/ how = "refused"
          /\ Charge(how = "made" \/ ~Up("dockerd"))
          /\ self' = Latched(object, how)
          /\ docker' = [docker EXCEPT
                          !.objects = IF how \in {"made", "left behind"} THEN @ \cup {object} ELSE @,
                          !.late = IF how = "lost" THEN @ \cup {object} ELSE @]
          /\ host' = [host EXCEPT !.running =
                          IF how = "made" /\ object \in Containers THEN @ \cup {object} ELSE @]
          /\ IF how = "made" THEN Shows(what) ELSE UNCHANGED receipt
          /\ Expect(how = "made" /\ (object = "NETWORK" => SnapshotHolds), next)
    /\ UNCHANGED <<ledger, shell>>

LoadImage == Make("load", "IMAGE", {"image identity"}, "network")
CreatePrivateNetwork == Make("network", "NETWORK", {"private firewall"}, "service")
StartService == Make("service", "SERVICE", {}, "client")
StartClient == Make("client", "CLIENT", {}, "health")

(* The health loop, the container contract and the process boundaries *)
VerifyContainers ==
    Observe("health", BothUp /\ Containers \subseteq host.running, {"containers"}, "canaries")

RunNetworkCanaries ==
    Observe("canaries", BothUp /\ Containers \subseteq host.running, {"canaries"}, "proxy")

(* A port that is taken makes the constructor raise; after it the proxy    *)
(* listens, whatever its checks find.                                      *)
VerifyLoopbackProxy ==
    /\ pc = "proxy"
    /\ \E how \in {"verified", "not verified", "not bound"}:
          /\ Charge(how = "verified" \/ host.port # "free")
          /\ host.port # "free" => how = "not bound"
          /\ IF how = "not bound"
             THEN UNCHANGED <<self, host>>
             ELSE /\ self' = [self EXCEPT !.proxy = TRUE]
                  /\ host' = [host EXCEPT !.port = "proxy"]
          /\ IF how = "verified" THEN Shows({"proxy"}) ELSE UNCHANGED receipt
          /\ Expect(how = "verified" /\ SnapshotHolds, "sync")
    /\ UNCHANGED <<ledger, docker, shell>>

Execute ==
    \/ ValidateArguments \/ PrepareHostImage \/ TakePreimage \/ CreateCgroup \/ CreateNetns
    \/ StartContainerd \/ WaitForContainerdSocket
    \/ \E index \in 0..1: CreateContainerdNamespace(index)
    \/ VerifyContainerdNamespaces \/ StartDockerd \/ WaitForDockerd \/ VerifyBoundaries
    \/ LoadImage \/ CreatePrivateNetwork \/ StartService \/ StartClient
    \/ VerifyContainers \/ RunNetworkCanaries \/ VerifyLoopbackProxy

-----------------------------------------------------------------------------
(* cleanup() *)

(* An operation of the ledger: "done", "failed" when it was attempted, or  *)
(* "owed" when there was no way to attempt it.                             *)
Note(op, how) ==
    ledger' = [ledger EXCEPT
                 !.required = @ \cup {op},
                 !.attempted = IF how = "owed" THEN @ ELSE @ \cup {op},
                 !.succeeded = IF how = "done" THEN @ \cup {op} ELSE @,
                 !.failures = IF how = "done" THEN @ ELSE @ \cup {op}]

Outcome(op, ok) == Note(op, IF ok THEN "done" ELSE "failed")
Counts(counter, zero) == receipt' = [receipt EXCEPT !.nonzero = IF zero THEN @ ELSE @ \cup {counter}]

(* What execute() knows of is owed, in case it was not latched; then the   *)
(* proxy is closed, which may leave connections in TIME_WAIT on its port.  *)
Synchronize ==
    /\ pc = "sync"
    /\ receipt' = [receipt EXCEPT !.attempted = TRUE]
    /\ LET owed == self.owed \cup self.known
                   \cup (IF self.known \subseteq {"IMAGE"} THEN {} ELSE {"NETWORK"})
           latched == self.latched \/ docker.dockerd # "none" \/ owed # {}
       IN /\ self' = [self EXCEPT !.owed = owed, !.latched = latched,
                                  !.proxy = FALSE, !.item = 1,
                                  !.reachable = docker.socket]
          /\ pc' = IF latched THEN "docker" ELSE "stop dockerd"
    /\ IF self.proxy
       THEN \E ok \in BOOLEAN:
               /\ Charge(ok)
               /\ Outcome("STOP_PROXY", ok)
               /\ \E port \in IF ok THEN {"free", "time wait"} ELSE {"proxy"}:
                     host' = [host EXCEPT !.port = port]
       ELSE UNCHANGED <<ledger, host, faults>>
    /\ UNCHANGED <<code, docker, shell>>

(* The daemon refuses to remove what a container uses. *)
Removable(object) == object \in Containers \/ docker.objects \cap Containers = {}

(* cleanup_private_docker_action: look, and remove what is there.  A       *)
(* removal that is not confirmed may have happened.                        *)
RemoveObject(op, object) ==
    \/ /\ Up("dockerd") /\ (object \in docker.objects => Removable(object))
       /\ docker' = [docker EXCEPT !.objects = @ \ {object}]
       /\ host' = [host EXCEPT !.running = @ \ {object}]
       /\ Outcome(op, TRUE)
       /\ UNCHANGED faults
    \/ /\ Charge(~Up("dockerd") \/ ~Removable(object))
       /\ Outcome(op, FALSE)
       /\ \/ UNCHANGED <<docker, host>>
          \/ /\ Up("dockerd") /\ Removable(object)
             /\ docker' = [docker EXCEPT !.objects = @ \ {object}]
             /\ host' = [host EXCEPT !.running = @ \ {object}]

(* private_query_count: a query without an answer counts one. *)
CountObjects(op) ==
    \E ok \in BOOLEAN:
       /\ Charge(ok \/ ~Up("dockerd"))
       /\ ok => Up("dockerd")
       /\ Outcome(op, ok)
       /\ Counts(op, ok /\ About[op] \cap docker.objects = {})

(* Mutant of LastItem: one operation too many. *)
LastItemMissed == self.item > 8

LastItem == self.item = 8

CleanDocker ==
    /\ pc = "docker"
    /\ LET op == DockerOps[self.item] IN
       IF op \in Actions /\ About[op] \cap self.owed = {}
       THEN UNCHANGED <<ledger, receipt, docker, host, faults>>
       ELSE IF ~self.reachable
       THEN Note(op, "owed") /\ UNCHANGED <<receipt, docker, host, faults>>
       ELSE \/ /\ op \in Queries
               /\ CountObjects(op)
               /\ UNCHANGED <<docker, host>>
            \/ /\ op \in Actions
               /\ \E object \in About[op]: RemoveObject(op, object)
               /\ UNCHANGED receipt
    /\ self' = [self EXCEPT !.item = IF LastItem THEN 1 ELSE @ + 1]
    /\ pc' = IF LastItem THEN "stop dockerd" ELSE pc
    /\ UNCHANGED <<code, shell>>

(* stop_process: TERM and ten seconds, else KILL and a failure.  A dockerd *)
(* that ends on TERM stops its containers; what serves a container may     *)
(* outlive either daemon.                                                  *)
StopProcess(step, d, op, next) ==
    /\ pc = step
    /\ IF ~Up(d)
       THEN UNCHANGED <<ledger, docker, host, faults>>
       ELSE \/ /\ Outcome(op, TRUE)
               /\ docker' = [docker EXCEPT ![d] = "gone",
                                           !.late = IF d = "dockerd" THEN {} ELSE @]
               /\ \E left \in IF d = "dockerd" THEN SUBSET host.running ELSE {host.running}:
                     host' = [host EXCEPT !.running = left]
               /\ UNCHANGED faults
            \/ /\ Charge(FALSE)
               /\ Outcome(op, FALSE)
               /\ docker' \in {docker, [docker EXCEPT ![d] = "gone"]}
               /\ UNCHANGED host
    /\ Advance(next)
    /\ UNCHANGED <<self, receipt, shell>>

StopDockerd == StopProcess("stop dockerd", "dockerd", "STOP_DOCKERD", "stop containerd")
StopContainerd == StopProcess("stop containerd", "containerd", "STOP_CONTAINERD", "delete netns")

DeleteNetns ==
    /\ pc = "delete netns"
    /\ Counts("processes", \A d \in Daemons: ~Up(d))
    /\ IF ~self.netns
       THEN UNCHANGED <<ledger, host, faults>>
       ELSE \E ok, gone \in BOOLEAN:
               /\ Charge(ok)
               /\ ok => gone
               /\ Outcome("DELETE_NETNS", ok)
               /\ host' = IF gone THEN [host EXCEPT !.netns = "none"] ELSE host
    /\ Advance("query netns")
    /\ UNCHANGED <<self, docker, shell>>

QueryNetns ==
    /\ pc = "query netns"
    /\ \E ok \in BOOLEAN:
          /\ Charge(ok)
          /\ Outcome("QUERY_NETNS", ok)
          /\ Counts("namespaces", ok /\ host.netns = "none")
    /\ Advance("remove cgroup")
    /\ UNCHANGED <<self, docker, host, shell>>

(* A control group that still has a process in it cannot be removed. *)
CgroupEmpty == host.running = {} /\ \A d \in Daemons: ~Up(d)

(* Mutant of RemoveCgroup: the OSError is dropped, and with it the count. *)
RemoveCgroupBestEffort ==
    /\ pc = "remove cgroup"
    /\ IF ~self.cgroup
       THEN UNCHANGED <<ledger, host, faults>>
       ELSE \E ok \in BOOLEAN:
               /\ ok => CgroupEmpty
               /\ Charge(ok \/ ~CgroupEmpty)
               /\ Outcome("REMOVE_CGROUP", TRUE)
               /\ host' = IF ok THEN [host EXCEPT !.cgroup = "none"] ELSE host
    /\ Advance("remove runtime")
    /\ UNCHANGED <<self, receipt, docker, shell>>

RemoveCgroup ==
    /\ pc = "remove cgroup"
    /\ IF ~self.cgroup
       THEN /\ Counts("cgroups", host.cgroup = "none")
            /\ UNCHANGED <<ledger, host, faults>>
       ELSE \E ok \in BOOLEAN:
               /\ ok => CgroupEmpty
               /\ Charge(ok \/ ~CgroupEmpty)
               /\ Outcome("REMOVE_CGROUP", ok)
               /\ Counts("cgroups", ok)
               /\ host' = IF ok THEN [host EXCEPT !.cgroup = "none"] ELSE host
    /\ Advance("remove runtime")
    /\ UNCHANGED <<self, docker, shell>>

(* Whatever is at the packet's path goes. *)
RemoveRuntime ==
    /\ pc = "remove runtime"
    /\ IF host.runtime = "none"
       THEN UNCHANGED <<ledger, receipt, host, faults>>
       ELSE \E ok \in BOOLEAN:
               /\ Charge(ok)
               /\ Outcome("REMOVE_RUNTIME_ROOT", ok)
               /\ Counts("roots", ok)
               /\ host' = IF ok THEN [host EXCEPT !.runtime = "none"] ELSE host
    /\ Advance("query listener")
    /\ UNCHANGED <<self, docker, shell>>

(* The port is bound as a test, without SO_REUSEADDR. *)
QueryListener ==
    /\ pc = "query listener"
    /\ Outcome("QUERY_LISTENER", TRUE)
    /\ Counts("listeners", host.port = "free")
    /\ Advance("query firewall")
    /\ UNCHANGED <<self, docker, host, shell, faults>>

(* The firewall's last snapshot fails on a change; the links' does not. *)
QueryHost(step, h, op, next) ==
    /\ pc = step
    /\ \E ok \in BOOLEAN:
          /\ Charge(ok)
          /\ Outcome(op, ok /\ (h = "firewall" => SnapshotHolds))
          /\ LET restored == ok /\ self.preimage[h] /\ h \notin host.drifted IN
             receipt' = [receipt EXCEPT
                 !.restored = IF restored THEN @ \cup {h} ELSE @,
                 !.nonzero = IF h = "links" /\ (~restored \/ "namespaces" \in @)
                             THEN @ \cup {"veths"} ELSE @]
    /\ Advance(next)
    /\ UNCHANGED <<self, docker, host, shell>>

QueryFirewall == QueryHost("query firewall", "firewall", "QUERY_HOST_FIREWALL", "query links")
QueryLinks == QueryHost("query links", "links", "QUERY_HOST_LINKS", "finalize")

(* finalize_cleanup_completeness, for one category *)
Completeness(category) ==
    LET required == Cardinality(ledger.required \cap category)
        attempted == Cardinality(ledger.attempted \cap category)
        succeeded == Cardinality(ledger.succeeded \cap category)
    IN [required |-> required, attempted |-> attempted, succeeded |-> succeeded,
        failures |-> attempted - succeeded,
        complete |-> required = attempted /\ attempted = succeeded]

FinalizeCleanup ==
    /\ pc = "finalize"
    /\ LET query == Completeness(Queries)
           action == Completeness(Actions)
           proof == /\ ledger.failures = {} /\ query.complete /\ action.complete
                    /\ receipt.nonzero = {} /\ receipt.restored = Host
       IN receipt' = [receipt EXCEPT
                        !.query = query, !.action = action,
                        !.failures = Cardinality(ledger.failures),
                        !.finalized = TRUE, !.proof = proof, !.succeeded = proof]
    /\ Advance("report")
    /\ UNCHANGED <<self, ledger, docker, host, shell, faults>>

(* An exception nothing in cleanup() expects: the rest is skipped. *)
CleanupRaises ==
    /\ pc \in CleanupSteps
    /\ Charge(FALSE)
    /\ receipt' = [receipt EXCEPT !.attempted = TRUE,
                                  !.failures = Cardinality(ledger.failures) + 1]
    /\ Advance("report")
    /\ UNCHANGED <<self, ledger, docker, host, shell>>

Cleanup ==
    \/ Synchronize \/ CleanDocker \/ StopDockerd \/ StopContainerd \/ DeleteNetns \/ QueryNetns
    \/ RemoveCgroup \/ RemoveRuntime \/ QueryListener \/ QueryFirewall \/ QueryLinks
    \/ FinalizeCleanup \/ CleanupRaises

-----------------------------------------------------------------------------
(* The end of run_probe, and the shell *)

(* Cleanup never hides the first failure, and fails what had passed. *)
Classify ==
    /\ pc = "report"
    /\ code' = IF code # "PASS" THEN code
               ELSE IF ~receipt.proof THEN "PRIVATE_CLEANUP_FAILED"
               ELSE IF receipt.shown # Showings THEN "PRIVATE_RESIDUE" ELSE "PASS"
    /\ pc' = "write"
    /\ UNCHANGED <<self, ledger, receipt, docker, host, shell, faults>>

WriteReceipt ==
    /\ pc = "write"
    /\ shell' = IF ValidReceipt(receipt, code)
                THEN [shell EXCEPT !.file = "receipt", !.rc = IF code = "PASS" THEN 0 ELSE 1]
                ELSE [shell EXCEPT !.rc = 2]
    /\ pc' = "exited"
    /\ UNCHANGED <<code, self, ledger, receipt, docker, host, faults>>

(* A kill, or an exception that run_probe does not expect in execute():    *)
(* no cleanup, and of the receipt no more than what was already flushed.   *)
Die ==
    /\ pc \notin {"idle", "exited"}
    /\ Charge(FALSE)
    /\ pc' = "exited"
    /\ \E file \in {"torn"} \cup (IF pc = "write" /\ ValidReceipt(receipt, code)
                                  THEN {"receipt"} ELSE {}):
       \E rc \in {1, 137}:
          shell' = [shell EXCEPT !.file = file, !.rc = rc]
    /\ UNCHANGED <<code, self, ledger, receipt, docker, host>>

(* Mutant of StartProbe: only the receipt's file is looked for. *)
StartProbeUnchecked ==
    /\ shell.at = "start"
    /\ IF shell.file # "none"
       THEN /\ shell' = [shell EXCEPT !.at = "done", !.verdict = "packet-state-collision"]
            /\ UNCHANGED pc
       ELSE /\ shell' = [shell EXCEPT !.at = "wait", !.file = "torn"]
            /\ pc' = "validate"
    /\ UNCHANGED <<code, self, ledger, receipt, docker, host, faults>>

(* Neither the receipt's file nor the packet's root may exist before. *)
StartProbe ==
    /\ shell.at = "start"
    /\ IF shell.file # "none" \/ host.runtime # "none"
       THEN /\ shell' = [shell EXCEPT !.at = "done", !.verdict = "packet-state-collision"]
            /\ UNCHANGED pc
       ELSE /\ shell' = [shell EXCEPT !.at = "wait", !.file = "torn"]
            /\ pc' = "validate"
    /\ UNCHANGED <<code, self, ledger, receipt, docker, host, faults>>

(* Every verdict is one that blocks; "capability-pass" is the one that     *)
(* says the probe has passed.                                              *)
Judge ==
    /\ shell.at = "wait" /\ pc = "exited"
    /\ \E ok \in BOOLEAN:
          /\ Charge(ok)
          /\ shell' = [shell EXCEPT
               !.at = "done",
               !.file = IF ok /\ @ = "torn" THEN "none" ELSE @,
               !.verdict = CASE ~ok -> "runner-failed"
                             [] ok /\ shell.file = "torn" -> "evidence-invalid"
                             [] ok /\ shell.file = "receipt" /\ code = "PASS" /\ shell.rc = 0
                                    -> "capability-pass"
                             [] ok /\ shell.file = "receipt" /\ code # "PASS" /\ shell.rc = 1
                                    -> "rejected"
                             [] OTHER -> "evidence-exit-mismatch"]
    /\ UNCHANGED <<pc, code, self, ledger, receipt, docker, host>>

-----------------------------------------------------------------------------
(* The private daemons and the host *)

DockerdListens ==
    /\ Up("dockerd") /\ ~docker.socket
    /\ docker' = [docker EXCEPT !.socket = TRUE]
    /\ UNCHANGED <<pc, code, self, ledger, receipt, host, shell, faults>>

(* The socket's file may be left behind, and containers live on. *)
DaemonExits(d) ==
    /\ Up(d)
    /\ Charge(FALSE)
    /\ \E socket \in {docker.socket} \cup (IF d = "dockerd" THEN {FALSE} ELSE {}):
          docker' = [docker EXCEPT ![d] = "gone", !.socket = socket,
                                   !.late = IF d = "dockerd" THEN {} ELSE @]
    /\ UNCHANGED <<pc, code, self, ledger, receipt, host, shell>>

(* The daemon gets to a request whose client has gone. *)
ServeLate(object) ==
    /\ Up("dockerd") /\ object \in docker.late
    /\ docker' = [docker EXCEPT
                    !.late = @ \ {object},
                    !.objects = IF object \in Containers => {"NETWORK", "IMAGE"} \subseteq @
                                THEN @ \cup {object} ELSE @]
    /\ host' = [host EXCEPT !.running = IF object \in Containers /\ {"NETWORK", "IMAGE"} \subseteq docker.objects
                                        THEN @ \cup {object} ELSE @]
    /\ UNCHANGED <<pc, code, self, ledger, receipt, shell, faults>>

(* Between the probe's first look at a part of the host and its last. *)
Drift(h) ==
    /\ self.preimage[h]
    /\ (IF h = "firewall" THEN "QUERY_HOST_FIREWALL" ELSE "QUERY_HOST_LINKS") \notin ledger.attempted
    /\ Charge(FALSE)
    /\ host' = [host EXCEPT !.drifted = @ \cup {h}]
    /\ UNCHANGED <<pc, code, self, ledger, receipt, docker, shell>>

-----------------------------------------------------------------------------

Init ==
    /\ pc = "idle" /\ code = "PASS" /\ faults = 0
    /\ self = [latched |-> FALSE, owed |-> {}, known |-> {}, netns |-> FALSE, cgroup |-> FALSE,
               preimage |-> [h \in Host |-> FALSE], proxy |-> FALSE, reachable |-> FALSE,
               item |-> 1]
    /\ ledger = [required |-> {}, attempted |-> {}, succeeded |-> {}, failures |-> {}]
    /\ receipt = DefaultReceipt
    /\ docker = [containerd |-> "none", dockerd |-> "none", socket |-> FALSE,
                 objects |-> {}, late |-> {}]
    /\ host \in [runtime: {"none", "foreign"}, netns: {"none", "foreign"},
                 cgroup: {"none", "foreign"}, port: {"free", "foreign"},
                 running: {{}}, drifted: {{}}]
    /\ shell \in [at: {"start"}, file: {"none", "torn"}, rc: {0}, verdict: {"none"}]

Probe == Execute \/ Cleanup \/ Classify \/ WriteReceipt

Next ==
    \/ Probe
    \/ Die
    \/ StartProbe
    \/ Judge
    \/ DockerdListens
    \/ \E d \in Daemons: DaemonExits(d)
    \/ \E object \in Objects: ServeLate(object)
    \/ \E h \in Host: Drift(h)

Spec == Init /\ [][Next]_vars

(* The probe's calls all have a time limit, and so has its every wait.     *)
FairSpec == Spec /\ WF_vars(Probe) /\ WF_vars(StartProbe) /\ WF_vars(Judge)

-----------------------------------------------------------------------------
(* Properties *)

OpCounts == [required: 0..18, attempted: 0..18, succeeded: 0..18, failures: 0..18, complete: BOOLEAN]

(* Every variable keeps to its type. *)
TypeOK ==
    /\ pc \in Steps /\ code \in Codes /\ faults \in 0..MaxFaults
    /\ self \in [latched: BOOLEAN, owed: SUBSET Objects, known: SUBSET Objects, netns: BOOLEAN,
                 cgroup: BOOLEAN, preimage: [Host -> BOOLEAN], proxy: BOOLEAN,
                 reachable: BOOLEAN, item: 1..8]
    /\ ledger \in [required: SUBSET Ops, attempted: SUBSET Ops, succeeded: SUBSET Ops,
                   failures: SUBSET Ops]
    /\ receipt \in [startup: [substage: Substages, proof: BOOLEAN, started: BOOLEAN,
                              exit: BOOLEAN, socket: BOOLEAN, timeout: BOOLEAN,
                              attempted: 0..2, created: 0..2, readback: BOOLEAN,
                              confirmed: BOOLEAN, observed: 0..2],
                    shown: SUBSET Showings, attempted: BOOLEAN, nonzero: SUBSET Counters,
                    restored: SUBSET Host, query: OpCounts, action: OpCounts, failures: 0..19,
                    finalized: BOOLEAN, proof: BOOLEAN, succeeded: BOOLEAN]
    /\ docker \in [containerd: {"none", "up", "gone"}, dockerd: {"none", "up", "gone"},
                   socket: BOOLEAN, objects: SUBSET Objects, late: SUBSET Objects]
    /\ host \in [runtime: {"none", "own", "foreign"}, netns: {"none", "own", "foreign"},
                 cgroup: {"none", "own", "foreign"},
                 port: {"free", "proxy", "time wait", "foreign"},
                 running: SUBSET Containers, drifted: SUBSET Host]
    /\ shell \in [at: {"start", "wait", "done"}, file: {"none", "torn", "receipt"},
                  rc: {0, 1, 2, 137},
                  verdict: {"none", "packet-state-collision", "runner-failed", "evidence-invalid",
                            "capability-pass", "rejected", "evidence-exit-mismatch"}]

(* Nothing the probe made is left, and the host is as it found it. *)
NothingIsLeft ==
    /\ \A d \in Daemons: ~Up(d)
    /\ host.running = {} /\ docker.late = {}
    /\ host.runtime = "none" /\ host.netns = "none" /\ host.cgroup = "none"
    /\ host.port = "free" /\ host.drifted = {}

(* A receipt that claims the cleanup proven is right about the whole host, *)
(* whatever failed on the way: also about a container that was created     *)
(* after its client had given up and the container count had been taken,   *)
(* and about one that outlived its daemon.  The pass the shell reports     *)
(* rests on such a receipt.                                                *)
ProofIsReal ==
    receipt.proof \/ shell.verdict = "capability-pass" => receipt.proof /\ NothingIsLeft

(* Whatever way execute() and cleanup() ended, the receipt they leave is   *)
(* one the probe's own validator admits, so that a failure is always       *)
(* reported with its code and never as missing evidence.                   *)
ReceiptIsAdmitted == pc = "write" => ValidReceipt(receipt, code)

(* What the private daemon holds, or may yet come to hold for a client     *)
(* that gave up, cleanup() is obliged to remove.                           *)
LatchedBeforeMade ==
    pc \in ExecuteSteps \cup CleanupSteps => docker.objects \cup docker.late \subseteq self.owed

(* What was at the packet's paths before the probe is not its to remove.   *)
(* For the runtime root only the shell's look beforehand ensures it: the   *)
(* probe's own collision check ends in a cleanup() that deletes the root.  *)
ForeignIsKept ==
    [][\A resource \in {"runtime", "netns", "cgroup"}:
          host[resource] = "foreign" => host'[resource] = "foreign"]_vars

(* The shell gets to a verdict, whatever hangs, fails or dies. *)
VerdictIsReached == <>(shell.at = "done")

=============================================================================
