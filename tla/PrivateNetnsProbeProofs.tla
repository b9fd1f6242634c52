----------------------- MODULE PrivateNetnsProbeProofs -----------------------
(***************************************************************************)
(* Proofs about PrivateNetnsProbe, for any number of mishaps.              *)
(*                                                                         *)
(* First, what the private daemon's probe owes and what it must not touch: *)
(* LatchedBeforeMade and ForeignIsKept, from ProbeInv.                     *)
(*                                                                         *)
(* Then what the receipt of scripts/private_docker_netns_probe.py says:    *)
(* TypeOK, ReceiptIsAdmitted and ProofIsReal.  ReceiptInv relates the      *)
(* ledger, the receipt and the host at each step: how far the startup has  *)
(* got, what each counter that is still zero has found gone, that what was *)
(* called restored can no longer change, and that without the control      *)
(* group nothing runs.  It is inductive together with ProbeInv.            *)
(***************************************************************************)
EXTENDS PrivateNetnsProbe, FiniteSetTheorems, SequenceTheorems, TLAPS

(* The part of TypeOK the proofs need *)
Selves == [latched: BOOLEAN, owed: SUBSET Objects, known: SUBSET Objects, netns: BOOLEAN,
           cgroup: BOOLEAN, preimage: [Host -> BOOLEAN], proxy: BOOLEAN,
           reachable: BOOLEAN, item: 1..8]

SelfShape == self \in Selves

DockerShape ==
    docker \in [containerd: {"none", "up", "gone"}, dockerd: {"none", "up", "gone"},
                socket: BOOLEAN, objects: SUBSET Objects, late: SUBSET Objects]

HostShape ==
    host \in [runtime: {"none", "own", "foreign"}, netns: {"none", "own", "foreign"},
              cgroup: {"none", "own", "foreign"},
              port: {"free", "proxy", "time wait", "foreign"},
              running: SUBSET Containers, drifted: SUBSET Host]

Shapes == SelfShape /\ DockerShape /\ HostShape

(* Whatever the private daemon holds or may yet make is owed, at any step. *)
AllOwed == docker.objects \cup docker.late \subseteq self.owed

(* Once the probe runs the runtime root is its own, and so are the         *)
(* namespace and the control group it remembers to have made.              *)
OwnOnly ==
    /\ pc # "idle" => host.runtime # "foreign"
    /\ self.netns => host.netns # "foreign"
    /\ self.cgroup => host.cgroup # "foreign"

(* The inductive invariant *)
ProbeInv == Shapes /\ AllOwed /\ OwnOnly

(* What a step does not do to the paths of others *)
Kept ==
    \A resource \in {"runtime", "netns", "cgroup"}:
       host[resource] = "foreign" => host'[resource] = "foreign"

-----------------------------------------------------------------------------
(* Steps that change none of what the invariant speaks of but the step     *)
(* counter, which does not become "idle".                                  *)

LEMMA QuietStep ==
    ASSUME ProbeInv, UNCHANGED <<self, docker, host>>,
           pc # "idle" \/ pc' = "idle" \/ host.runtime # "foreign"
    PROVE  ProbeInv' /\ Kept
<1>1. self' = self /\ docker' = docker /\ host' = host
  OBVIOUS
<1>2. Shapes'
  BY <1>1 DEF ProbeInv, Shapes, SelfShape, Selves, DockerShape, HostShape
<1>3. AllOwed'
  BY <1>1 DEF ProbeInv, AllOwed
<1>4. OwnOnly'
  BY <1>1 DEF ProbeInv, OwnOnly
<1>5. Kept
  BY <1>1 DEF Kept
<1> QED
  BY <1>2, <1>3, <1>4, <1>5 DEF ProbeInv

(* Any values of their types may take the place of the probe's attributes. *)
LEMMA SelvesUpdate ==
    ASSUME NEW s \in Selves, NEW o \in SUBSET Objects, NEW l \in BOOLEAN, NEW p \in BOOLEAN,
           NEW i \in 1..8, NEW r \in BOOLEAN
    PROVE  [s EXCEPT !.owed = o, !.latched = l, !.proxy = p, !.item = i, !.reachable = r] \in Selves
  BY DEF Selves

(* execute() owes an object before it asks for it. *)
LEMMA ExecuteStep ==
    ASSUME ProbeInv, Execute
    PROVE  ProbeInv' /\ Kept
<1>1. CASE ValidateArguments
  BY <1>1, QuietStep DEF ValidateArguments
<1>2. CASE PrepareHostImage
  <2>1. Shapes'
    <3>1. SelfShape'
      BY <1>2 DEF PrepareHostImage, ProbeInv, Shapes, SelfShape, Selves
    <3>2. DockerShape'
      BY <1>2 DEF PrepareHostImage, ProbeInv, Shapes, DockerShape
    <3>3. HostShape'
      BY <1>2 DEF PrepareHostImage, ProbeInv, Shapes, HostShape
    <3> QED
      BY <3>1, <3>2, <3>3 DEF Shapes
  <2>2. AllOwed'
    BY <1>2 DEF PrepareHostImage, ProbeInv, Shapes, SelfShape, Selves, DockerShape, HostShape, AllOwed
  <2>3. OwnOnly' /\ Kept
    BY <1>2 DEF PrepareHostImage, ProbeInv, Shapes, SelfShape, Selves, DockerShape, HostShape, OwnOnly, Kept
  <2> QED
    BY <2>1, <2>2, <2>3 DEF ProbeInv
<1>3. CASE TakePreimage
  <2>1. PICK taken \in {{}, {"firewall"}, Host}:
           self' = [self EXCEPT !.preimage = [h \in Host |-> h \in taken]]
    BY <1>3 DEF TakePreimage
  <2>2. pc # "idle" /\ UNCHANGED <<docker, host>>
    BY <1>3 DEF TakePreimage
  <2>3. [h \in Host |-> h \in taken] \in [Host -> BOOLEAN]
    OBVIOUS
  <2>4. Shapes'
    <3>1. SelfShape'
      BY <2>1, <2>2, <2>3 DEF ProbeInv, Shapes, SelfShape, Selves
    <3>2. DockerShape'
      BY <2>1, <2>2, <2>3 DEF ProbeInv, Shapes, DockerShape
    <3>3. HostShape'
      BY <2>1, <2>2, <2>3 DEF ProbeInv, Shapes, HostShape
    <3> QED
      BY <3>1, <3>2, <3>3 DEF Shapes
  <2>5. AllOwed'
    BY <2>1, <2>2, <2>3 DEF ProbeInv, Shapes, SelfShape, Selves, DockerShape, HostShape, AllOwed
  <2>6. OwnOnly' /\ Kept
    BY <2>1, <2>2, <2>3 DEF ProbeInv, Shapes, SelfShape, Selves, DockerShape, HostShape, OwnOnly, Kept
  <2> QED
    BY <2>4, <2>5, <2>6 DEF ProbeInv
<1>4. CASE CreateCgroup
  <2>1. Shapes'
    <3>1. SelfShape'
      BY <1>4 DEF CreateCgroup, ProbeInv, Shapes, SelfShape, Selves
    <3>2. DockerShape'
      BY <1>4 DEF CreateCgroup, ProbeInv, Shapes, DockerShape
    <3>3. HostShape'
      BY <1>4 DEF CreateCgroup, ProbeInv, Shapes, HostShape
    <3> QED
      BY <3>1, <3>2, <3>3 DEF Shapes
  <2>2. AllOwed'
    BY <1>4 DEF CreateCgroup, ProbeInv, Shapes, SelfShape, Selves, DockerShape, HostShape, AllOwed
  <2>3. OwnOnly'
    BY <1>4 DEF CreateCgroup, ProbeInv, Shapes, SelfShape, Selves,
       HostShape, OwnOnly
  <2>4. Kept
    BY <1>4 DEF CreateCgroup, ProbeInv, Shapes, SelfShape, Selves,
       HostShape, OwnOnly, Kept
  <2> QED
    BY <2>1, <2>2, <2>3, <2>4 DEF ProbeInv
<1>5. CASE CreateNetns
  <2>1. Shapes'
    <3>1. SelfShape'
      BY <1>5 DEF CreateNetns, ProbeInv, Shapes, SelfShape, Selves
    <3>2. DockerShape'
      BY <1>5 DEF CreateNetns, ProbeInv, Shapes, DockerShape
    <3>3. HostShape'
      BY <1>5 DEF CreateNetns, ProbeInv, Shapes, HostShape
    <3> QED
      BY <3>1, <3>2, <3>3 DEF Shapes
  <2>2. AllOwed'
    BY <1>5 DEF CreateNetns, ProbeInv, Shapes, SelfShape, Selves, DockerShape, HostShape, AllOwed
  <2>3. OwnOnly'
    BY <1>5 DEF CreateNetns, ProbeInv, Shapes, SelfShape, Selves,
       HostShape, OwnOnly
  <2>4. Kept
    BY <1>5 DEF CreateNetns, ProbeInv, Shapes, SelfShape, Selves,
       HostShape, OwnOnly, Kept
  <2> QED
    BY <2>1, <2>2, <2>3, <2>4 DEF ProbeInv
<1>6. CASE StartContainerd
  <2>1. Shapes'
    <3>1. SelfShape'
      BY <1>6 DEF StartContainerd, ProbeInv, Shapes, SelfShape, Selves
    <3>2. DockerShape'
      BY <1>6 DEF StartContainerd, ProbeInv, Shapes, DockerShape
    <3>3. HostShape'
      BY <1>6 DEF StartContainerd, ProbeInv, Shapes, HostShape
    <3> QED
      BY <3>1, <3>2, <3>3 DEF Shapes
  <2>2. AllOwed'
    BY <1>6 DEF StartContainerd, ProbeInv, Shapes, SelfShape, Selves, DockerShape, HostShape, AllOwed
  <2>3. OwnOnly' /\ Kept
    BY <1>6 DEF StartContainerd, ProbeInv, Shapes, SelfShape, Selves, DockerShape, HostShape, OwnOnly, Kept
  <2> QED
    BY <2>1, <2>2, <2>3 DEF ProbeInv
<1>7. CASE WaitForContainerdSocket
  BY <1>7, QuietStep DEF WaitForContainerdSocket
<1>8. ASSUME NEW index \in 0..1, CreateContainerdNamespace(index)
      PROVE  ProbeInv' /\ Kept
  BY <1>8, QuietStep DEF CreateContainerdNamespace
<1>9. CASE VerifyContainerdNamespaces
  BY <1>9, QuietStep DEF VerifyContainerdNamespaces
<1>10. CASE StartDockerd
  <2>1. Shapes'
    <3>1. SelfShape'
      BY <1>10 DEF StartDockerd, ProbeInv, Shapes, SelfShape, Selves
    <3>2. DockerShape'
      BY <1>10 DEF StartDockerd, ProbeInv, Shapes, DockerShape
    <3>3. HostShape'
      BY <1>10 DEF StartDockerd, ProbeInv, Shapes, HostShape
    <3> QED
      BY <3>1, <3>2, <3>3 DEF Shapes
  <2>2. AllOwed'
    BY <1>10 DEF StartDockerd, ProbeInv, Shapes, SelfShape, Selves, DockerShape, HostShape, AllOwed
  <2>3. OwnOnly' /\ Kept
    BY <1>10 DEF StartDockerd, ProbeInv, Shapes, SelfShape, Selves, DockerShape, HostShape, OwnOnly, Kept
  <2> QED
    BY <2>1, <2>2, <2>3 DEF ProbeInv
<1>11. CASE WaitForDockerd
  BY <1>11, QuietStep DEF WaitForDockerd
<1>12. CASE VerifyBoundaries \/ VerifyContainers \/ RunNetworkCanaries
  BY <1>12, QuietStep DEF VerifyBoundaries, VerifyContainers, RunNetworkCanaries, Observe
<1>13. ASSUME NEW step \in {"load", "network", "service", "client"}, NEW object \in Objects,
              NEW what, NEW next, Make(step, object, what, next)
       PROVE  ProbeInv' /\ Kept
  <2>1. PICK how \in {"made", "left behind", "lost", "refused"}:
           /\ self' = Latched(object, how)
           /\ docker' = [docker EXCEPT
                           !.objects = IF how \in {"made", "left behind"} THEN @ \cup {object} ELSE @,
                           !.late = IF how = "lost" THEN @ \cup {object} ELSE @]
           /\ host' = [host EXCEPT !.running =
                           IF how = "made" /\ object \in Containers THEN @ \cup {object} ELSE @]
    BY <1>13 DEF Make
  <2>2. pc # "idle"
    BY <1>13 DEF Make
  <2>3. Shapes'
    <3>1. SelfShape'
      BY <2>1 DEF Latched, ProbeInv, Shapes, SelfShape, Selves
    <3>2. DockerShape'
      BY <2>1 DEF Latched, ProbeInv, Shapes, DockerShape
    <3>3. HostShape'
      BY <2>1 DEF Latched, ProbeInv, Shapes, HostShape
    <3> QED
      BY <3>1, <3>2, <3>3 DEF Shapes
  <2>4. AllOwed'
    BY <2>1 DEF ProbeInv, Shapes, SelfShape, Selves, DockerShape, HostShape, AllOwed, Latched
  <2>5. OwnOnly' /\ Kept
    BY <2>1, <2>2 DEF ProbeInv, Shapes, SelfShape, Selves, DockerShape, HostShape, OwnOnly, Kept, Latched
  <2> QED
    BY <2>3, <2>4, <2>5 DEF ProbeInv
<1>14. CASE VerifyLoopbackProxy
  <2>1. Shapes'
    <3>1. SelfShape'
      BY <1>14 DEF VerifyLoopbackProxy, ProbeInv, Shapes, SelfShape, Selves
    <3>2. DockerShape'
      BY <1>14 DEF VerifyLoopbackProxy, ProbeInv, Shapes, DockerShape
    <3>3. HostShape'
      BY <1>14 DEF VerifyLoopbackProxy, ProbeInv, Shapes, HostShape
    <3> QED
      BY <3>1, <3>2, <3>3 DEF Shapes
  <2>2. AllOwed'
    BY <1>14 DEF VerifyLoopbackProxy, ProbeInv, Shapes, SelfShape, Selves, DockerShape, HostShape, AllOwed
  <2>3. OwnOnly' /\ Kept
    BY <1>14 DEF VerifyLoopbackProxy, ProbeInv, Shapes, SelfShape, Selves, DockerShape, HostShape, OwnOnly, Kept
  <2> QED
    BY <2>1, <2>2, <2>3 DEF ProbeInv
<1> QED
  BY <1>1, <1>2, <1>3, <1>4, <1>5, <1>6, <1>7, <1>8, <1>9, <1>10, <1>11, <1>12, <1>13, <1>14
  DEF Execute, LoadImage, CreatePrivateNetwork, StartService, StartClient, Objects, Containers

(* cleanup() gives up objects, and what is the probe's own. *)
LEMMA CleanupStep ==
    ASSUME ProbeInv, Cleanup
    PROVE  ProbeInv' /\ Kept
<1>1. CASE Synchronize
  <2> DEFINE owed == self.owed \cup self.known
                     \cup (IF self.known \subseteq {"IMAGE"} THEN {} ELSE {"NETWORK"})
             latched == self.latched \/ docker.dockerd # "none" \/ owed # {}
  <2>1. self' = [self EXCEPT !.owed = owed, !.latched = latched, !.proxy = FALSE, !.item = 1,
                             !.reachable = docker.socket]
    BY <1>1 DEF Synchronize
  <2>2. owed \in SUBSET Objects /\ self.owed \subseteq owed /\ latched \in BOOLEAN
    BY DEF ProbeInv, Shapes, SelfShape, Selves, DockerShape, HostShape, Objects
  <2>3. docker' = docker /\ pc # "idle"
    BY <1>1 DEF Synchronize
  <2>4. \/ host' = host
        \/ \E port \in {"free", "time wait", "proxy"}: host' = [host EXCEPT !.port = port]
    BY <1>1 DEF Synchronize
  <2> HIDE DEF owed, latched
  <2>5. Shapes'
    <3>1. SelfShape'
      <4>1. docker.socket \in BOOLEAN
        BY DEF ProbeInv, Shapes, DockerShape
      <4>2. self \in Selves
        BY DEF ProbeInv, Shapes, SelfShape, Selves
      <4>3. 1 \in 1..8
        OBVIOUS
      <4> QED
        BY <2>1, <2>2, <4>1, <4>2, <4>3, SelvesUpdate, FALSE \in BOOLEAN DEF SelfShape
    <3>2. DockerShape'
      BY <2>1, <2>2, <2>3, <2>4 DEF ProbeInv, Shapes, DockerShape
    <3>3. HostShape'
      BY <2>1, <2>2, <2>3, <2>4 DEF ProbeInv, Shapes, HostShape
    <3> QED
      BY <3>1, <3>2, <3>3 DEF Shapes
  <2>6. AllOwed'
    BY <2>1, <2>2, <2>3 DEF ProbeInv, Shapes, SelfShape, Selves, DockerShape, HostShape, AllOwed
  <2>7. OwnOnly' /\ Kept
    BY <2>1, <2>3, <2>4 DEF ProbeInv, Shapes, SelfShape, Selves, DockerShape, HostShape, OwnOnly, Kept
  <2> QED
    BY <2>5, <2>6, <2>7 DEF ProbeInv
<1>2. CASE CleanDocker
  <2>1. self' = [self EXCEPT !.item = IF LastItem THEN 1 ELSE @ + 1] /\ pc # "idle"
    BY <1>2 DEF CleanDocker
  <2>2. (IF LastItem THEN 1 ELSE self.item + 1) \in 1..8
    <3>1. self.item \in 1..8
      BY DEF ProbeInv, Shapes, SelfShape, Selves, DockerShape, HostShape
    <3> QED
      BY <3>1 DEF LastItem
  <2>3. \/ UNCHANGED <<docker, host>>
        \/ \E object:
              /\ docker' = [docker EXCEPT !.objects = @ \ {object}]
              /\ host' = [host EXCEPT !.running = @ \ {object}]
    <3>1. ASSUME NEW op, NEW object, RemoveObject(op, object)
          PROVE  \/ UNCHANGED <<docker, host>>
                 \/ /\ docker' = [docker EXCEPT !.objects = @ \ {object}]
                    /\ host' = [host EXCEPT !.running = @ \ {object}]
      BY <3>1 DEF RemoveObject
    <3> QED
      BY <1>2, <3>1 DEF CleanDocker
  <2>4. Shapes'
    <3>1. SelfShape'
      BY <2>1, <2>2, <2>3 DEF ProbeInv, Shapes, SelfShape, Selves
    <3>2. DockerShape'
      BY <2>1, <2>2, <2>3 DEF ProbeInv, Shapes, DockerShape
    <3>3. HostShape'
      BY <2>1, <2>2, <2>3 DEF ProbeInv, Shapes, HostShape
    <3> QED
      BY <3>1, <3>2, <3>3 DEF Shapes
  <2>5. AllOwed'
    <3>1. self'.owed = self.owed
      BY <2>1, <2>2 DEF ProbeInv, Shapes, SelfShape, Selves
    <3>2. docker'.objects \subseteq docker.objects /\ docker'.late = docker.late
      BY <2>3 DEF ProbeInv, Shapes, DockerShape
    <3> QED
      BY <3>1, <3>2 DEF ProbeInv, AllOwed
  <2>6. OwnOnly' /\ Kept
    BY <2>1, <2>2, <2>3 DEF ProbeInv, Shapes, SelfShape, Selves, DockerShape, HostShape, OwnOnly, Kept
  <2> QED
    BY <2>4, <2>5, <2>6 DEF ProbeInv
<1>3. CASE StopDockerd \/ StopContainerd
  <2>1. Shapes'
    <3>1. SelfShape'
      BY <1>3 DEF StopDockerd, StopContainerd, StopProcess, Daemons, ProbeInv, Shapes, SelfShape, Selves
    <3>2. DockerShape'
      BY <1>3 DEF StopDockerd, StopContainerd, StopProcess, Daemons, ProbeInv, Shapes, DockerShape
    <3>3. HostShape'
      BY <1>3 DEF StopDockerd, StopContainerd, StopProcess, Daemons, ProbeInv, Shapes, HostShape
    <3> QED
      BY <3>1, <3>2, <3>3 DEF Shapes
  <2>2. AllOwed'
    BY <1>3 DEF StopDockerd, StopContainerd, StopProcess, Daemons, ProbeInv, Shapes, SelfShape, Selves, DockerShape, HostShape, AllOwed
  <2>3. OwnOnly'
    BY <1>3 DEF StopDockerd, StopContainerd, StopProcess, Daemons, ProbeInv, Shapes, SelfShape, Selves,
       HostShape, OwnOnly
  <2>4. Kept
    BY <1>3 DEF StopDockerd, StopContainerd, StopProcess, Daemons, ProbeInv, Shapes, SelfShape, Selves,
       HostShape, OwnOnly, Kept
  <2> QED
    BY <2>1, <2>2, <2>3, <2>4 DEF ProbeInv
<1>4. CASE DeleteNetns
  <2>1. Shapes'
    <3>1. SelfShape'
      BY <1>4 DEF DeleteNetns, ProbeInv, Shapes, SelfShape, Selves
    <3>2. DockerShape'
      BY <1>4 DEF DeleteNetns, ProbeInv, Shapes, DockerShape
    <3>3. HostShape'
      BY <1>4 DEF DeleteNetns, ProbeInv, Shapes, HostShape
    <3> QED
      BY <3>1, <3>2, <3>3 DEF Shapes
  <2>2. AllOwed'
    BY <1>4 DEF DeleteNetns, ProbeInv, Shapes, SelfShape, Selves, DockerShape, HostShape, AllOwed
  <2>3. OwnOnly' /\ Kept
    BY <1>4 DEF DeleteNetns, ProbeInv, Shapes, SelfShape, Selves, DockerShape, HostShape, OwnOnly, Kept
  <2> QED
    BY <2>1, <2>2, <2>3 DEF ProbeInv
<1>5. CASE QueryNetns \/ QueryListener \/ QueryFirewall \/ QueryLinks
  BY <1>5, QuietStep DEF QueryNetns, QueryListener, QueryFirewall, QueryLinks, QueryHost
<1>6. CASE RemoveCgroup
  <2>1. Shapes'
    <3>1. SelfShape'
      BY <1>6 DEF RemoveCgroup, ProbeInv, Shapes, SelfShape, Selves
    <3>2. DockerShape'
      BY <1>6 DEF RemoveCgroup, ProbeInv, Shapes, DockerShape
    <3>3. HostShape'
      BY <1>6 DEF RemoveCgroup, ProbeInv, Shapes, HostShape
    <3> QED
      BY <3>1, <3>2, <3>3 DEF Shapes
  <2>2. AllOwed'
    BY <1>6 DEF RemoveCgroup, ProbeInv, Shapes, SelfShape, Selves, DockerShape, HostShape, AllOwed
  <2>3. OwnOnly' /\ Kept
    BY <1>6 DEF RemoveCgroup, ProbeInv, Shapes, SelfShape, Selves, DockerShape, HostShape, OwnOnly, Kept
  <2> QED
    BY <2>1, <2>2, <2>3 DEF ProbeInv
<1>7. CASE RemoveRuntime
  <2>1. Shapes'
    <3>1. SelfShape'
      BY <1>7 DEF RemoveRuntime, ProbeInv, Shapes, SelfShape, Selves
    <3>2. DockerShape'
      BY <1>7 DEF RemoveRuntime, ProbeInv, Shapes, DockerShape
    <3>3. HostShape'
      BY <1>7 DEF RemoveRuntime, ProbeInv, Shapes, HostShape
    <3> QED
      BY <3>1, <3>2, <3>3 DEF Shapes
  <2>2. AllOwed'
    BY <1>7 DEF RemoveRuntime, ProbeInv, Shapes, SelfShape, Selves, DockerShape, HostShape, AllOwed
  <2>3. OwnOnly' /\ Kept
    BY <1>7 DEF RemoveRuntime, ProbeInv, Shapes, SelfShape, Selves, DockerShape, HostShape, OwnOnly, Kept
  <2> QED
    BY <2>1, <2>2, <2>3 DEF ProbeInv
<1>8. CASE FinalizeCleanup \/ CleanupRaises
  BY <1>8, QuietStep DEF FinalizeCleanup, CleanupRaises, CleanupSteps
<1> QED
  BY <1>1, <1>2, <1>3, <1>4, <1>5, <1>6, <1>7, <1>8 DEF Cleanup

(* The daemon only ever adds what was asked for, which is owed. *)
LEMMA WorldStep ==
    ASSUME ProbeInv,
           \/ DockerdListens
           \/ \E d \in Daemons: DaemonExits(d)
           \/ \E object \in Objects: ServeLate(object)
           \/ \E h \in Host: Drift(h)
    PROVE  ProbeInv' /\ Kept
<1>1. CASE DockerdListens
  <2>1. Shapes'
    <3>1. SelfShape'
      BY <1>1 DEF DockerdListens, ProbeInv, Shapes, SelfShape, Selves
    <3>2. DockerShape'
      BY <1>1 DEF DockerdListens, ProbeInv, Shapes, DockerShape
    <3>3. HostShape'
      BY <1>1 DEF DockerdListens, ProbeInv, Shapes, HostShape
    <3> QED
      BY <3>1, <3>2, <3>3 DEF Shapes
  <2>2. AllOwed'
    BY <1>1 DEF DockerdListens, ProbeInv, Shapes, SelfShape, Selves, DockerShape, HostShape, AllOwed
  <2>3. OwnOnly' /\ Kept
    BY <1>1 DEF DockerdListens, ProbeInv, Shapes, SelfShape, Selves, DockerShape, HostShape, OwnOnly, Kept
  <2> QED
    BY <2>1, <2>2, <2>3 DEF ProbeInv
<1>2. ASSUME NEW d \in Daemons, DaemonExits(d)
      PROVE  ProbeInv' /\ Kept
  <2>1. Shapes'
    <3>1. SelfShape'
      BY <1>2 DEF DaemonExits, Daemons, ProbeInv, Shapes, SelfShape, Selves
    <3>2. DockerShape'
      BY <1>2 DEF DaemonExits, Daemons, ProbeInv, Shapes, DockerShape
    <3>3. HostShape'
      BY <1>2 DEF DaemonExits, Daemons, ProbeInv, Shapes, HostShape
    <3> QED
      BY <3>1, <3>2, <3>3 DEF Shapes
  <2>2. AllOwed'
    BY <1>2 DEF DaemonExits, Daemons, ProbeInv, Shapes, SelfShape, Selves, DockerShape, HostShape, AllOwed
  <2>3. OwnOnly' /\ Kept
    BY <1>2 DEF DaemonExits, Daemons, ProbeInv, Shapes, SelfShape, Selves, DockerShape, HostShape, OwnOnly, Kept
  <2> QED
    BY <2>1, <2>2, <2>3 DEF ProbeInv
<1>3. ASSUME NEW object \in Objects, ServeLate(object)
      PROVE  ProbeInv' /\ Kept
  <2>1. Shapes'
    <3>1. SelfShape'
      BY <1>3 DEF ServeLate, ProbeInv, Shapes, SelfShape, Selves
    <3>2. DockerShape'
      BY <1>3 DEF ServeLate, ProbeInv, Shapes, DockerShape
    <3>3. HostShape'
      BY <1>3 DEF ServeLate, ProbeInv, Shapes, HostShape
    <3> QED
      BY <3>1, <3>2, <3>3 DEF Shapes
  <2>2. AllOwed'
    BY <1>3 DEF ServeLate, ProbeInv, Shapes, SelfShape, Selves, DockerShape, HostShape, AllOwed
  <2>3. OwnOnly' /\ Kept
    BY <1>3 DEF ServeLate, ProbeInv, Shapes, SelfShape, Selves, DockerShape, HostShape, OwnOnly, Kept
  <2> QED
    BY <2>1, <2>2, <2>3 DEF ProbeInv
<1>4. ASSUME NEW h \in Host, Drift(h)
      PROVE  ProbeInv' /\ Kept
  <2>1. Shapes'
    <3>1. SelfShape'
      BY <1>4 DEF Drift, ProbeInv, Shapes, SelfShape, Selves
    <3>2. DockerShape'
      BY <1>4 DEF Drift, ProbeInv, Shapes, DockerShape
    <3>3. HostShape'
      BY <1>4 DEF Drift, ProbeInv, Shapes, HostShape
    <3> QED
      BY <3>1, <3>2, <3>3 DEF Shapes
  <2>2. AllOwed'
    BY <1>4 DEF Drift, ProbeInv, Shapes, SelfShape, Selves, DockerShape, HostShape, AllOwed
  <2>3. OwnOnly' /\ Kept
    BY <1>4 DEF Drift, ProbeInv, Shapes, SelfShape, Selves, DockerShape, HostShape, OwnOnly, Kept
  <2> QED
    BY <2>1, <2>2, <2>3 DEF ProbeInv
<1> QED
  BY <1>1, <1>2, <1>3, <1>4

LEMMA InvStep ==
    ASSUME ProbeInv, [Next]_vars
    PROVE  ProbeInv' /\ Kept
<1>1. CASE Execute
  BY <1>1, ExecuteStep
<1>2. CASE Cleanup
  BY <1>2, CleanupStep
<1>3. CASE Classify \/ WriteReceipt \/ Die \/ StartProbe \/ Judge
  BY <1>3, QuietStep DEF Classify, WriteReceipt, Die, StartProbe, Judge
<1>4. CASE UNCHANGED vars
  BY <1>4, QuietStep DEF vars
<1> QED
  BY <1>1, <1>2, <1>3, <1>4, WorldStep DEF Next, Probe

(* The inductive invariant holds at every step, for any number of mishaps. *)
THEOREM Invariance == Spec => []ProbeInv
<1>1. Init => ProbeInv
  <2>1. ASSUME Init PROVE Shapes
    <3>1. SelfShape
      BY <2>1 DEF Init, SelfShape, Selves
    <3>2. DockerShape
      BY <2>1 DEF Init, DockerShape
    <3>3. HostShape
      BY <2>1 DEF Init, HostShape
    <3> QED
      BY <3>1, <3>2, <3>3 DEF Shapes
  <2> QED
    BY <2>1 DEF Init, ProbeInv, AllOwed, OwnOnly
<1>2. ProbeInv /\ [Next]_vars => ProbeInv'
  BY InvStep
<1> QED
  BY <1>1, <1>2, PTL DEF Spec

(* What the private daemon holds, or may yet come to hold, is owed to the  *)
(* cleanup, whatever fails and whoever gives up.                           *)
THEOREM MadeIsLatched == Spec => []LatchedBeforeMade
<1>1. ProbeInv => LatchedBeforeMade
  BY DEF ProbeInv, AllOwed, LatchedBeforeMade
<1> QED
  BY <1>1, Invariance, PTL

(* The probe never removes or replaces what was at its paths before it.    *)
THEOREM ForeignStays == Spec => ForeignIsKept
<1>1. ProbeInv /\ [Next]_vars => Kept
  BY InvStep
<1>2. Kept => [\A resource \in {"runtime", "netns", "cgroup"}:
                host[resource] = "foreign" => host'[resource] = "foreign"]_vars
  BY DEF Kept
<1> QED
  BY <1>1, <1>2, Invariance, PTL DEF Spec, ForeignIsKept

-----------------------------------------------------------------------------
(* The inductive invariant, part by part *)

(* The ledger's sets, and what they say of each other *)
LedgerKnows ==
    /\ ledger.succeeded \subseteq ledger.attempted
    /\ ledger.attempted \subseteq ledger.required
    /\ ledger.attempted \ ledger.succeeded \subseteq ledger.failures

(* Where main() is before the socket is awaited, and before it is READY *)
BeforeSocket == {"idle", "validate", "image", "preimage", "cgroup", "netns", "containerd"}
Starting == BeforeSocket \cup {"socket", "namespace0", "namespace1", "readback"}
Ends == {"report", "write", "exited"}

(* A startup of which the receipt claims nothing yet *)
Unproven(s, started, socket, n) ==
    /\ s.substage = "UNKNOWN_SANITIZED" /\ s.proof = FALSE /\ s.started = started
    /\ s.exit = FALSE /\ s.socket = socket /\ s.timeout = FALSE /\ s.attempted = n
    /\ s.created = n /\ s.readback = FALSE /\ s.confirmed = FALSE /\ s.observed = 0

(* The startup section stands where the steps of execute() have got to. *)
StartupKnown ==
    /\ ValidStartup(receipt.startup)
    /\ pc \in BeforeSocket => Unproven(receipt.startup, FALSE, FALSE, 0)
    /\ pc = "socket" => Unproven(receipt.startup, TRUE, FALSE, 0)
    /\ pc = "namespace0" => Unproven(receipt.startup, TRUE, TRUE, 0)
    /\ pc = "namespace1" => Unproven(receipt.startup, TRUE, TRUE, 1)
    /\ pc = "readback" => Unproven(receipt.startup, TRUE, TRUE, 2)
    /\ pc \in {"idle"} \cup ExecuteSteps => code = "PASS"
    /\ code = "PASS" /\ pc \notin Starting /\ pc # "exited" =>
          receipt.startup.substage = "READY"
    /\ code = "PRIVATE_CONTAINERD_START_FAILED" => receipt.startup.substage \in StartupFailures

(* Cleanup is finalized at its end only, and marked attempted throughout. *)
CompletenessKnown ==
    /\ ValidCompleteness(receipt)
    /\ receipt.finalized => pc \in Ends
    /\ pc \in CleanupSteps \ {"sync"} => receipt.attempted

(* What has been found when cleanup() is at a step *)
FromQueryLinks == {"query links", "finalize"}
FromQueryFirewall == {"query firewall"} \cup FromQueryLinks
FromQueryListener == {"query listener"} \cup FromQueryFirewall
FromRuntime == {"remove runtime"} \cup FromQueryListener
FromCgroup == {"remove cgroup"} \cup FromRuntime

(* Nothing is in the control group before it exists; a daemon runs or not. *)
BeforeCgroup == {"idle", "validate", "image", "preimage", "cgroup"}

Quiet == \A d \in Daemons: ~Up(d)

(* A step whose counter is still zero found its resource gone. *)
FoundGone ==
    /\ pc \in FromCgroup /\ receipt.nonzero = {} => host.netns = "none"
    /\ pc \in FromRuntime /\ receipt.nonzero = {} =>
          host.cgroup = "none" /\ host.running = {} /\ Quiet
    /\ pc \in FromQueryListener /\ receipt.nonzero = {} => host.runtime = "none"
    /\ pc \in FromQueryFirewall /\ receipt.nonzero = {} => host.port = "free"

(* What the receipt calls restored has been looked at, and is. *)
RestoredStands ==
    \A h \in receipt.restored:
       /\ h \notin host.drifted
       /\ (IF h = "firewall" THEN "QUERY_HOST_FIREWALL" ELSE "QUERY_HOST_LINKS")
            \in ledger.attempted

(* A dockerd that went with requests to serve was killed by cleanup(). *)
LateIsFailed == docker.late # {} /\ ~Up("dockerd") => "STOP_DOCKERD" \in ledger.failures

(* Processes live in the packet's control group. *)
InCgroup ==
    /\ ~self.cgroup => Quiet /\ host.running = {}
    /\ pc \in ExecuteSteps \ BeforeCgroup => self.cgroup

(* A proof of zero residue has been seen, and is still true. *)
ProofStands ==
    /\ receipt.proof =>
          /\ pc \in Ends /\ NothingIsLeft
          /\ {"QUERY_HOST_FIREWALL", "QUERY_HOST_LINKS"} \subseteq ledger.attempted

(* A verdict of pass goes back to a receipt that proves. *)
VerdictKnown ==
    /\ shell.at = "start" => pc = "idle"
    /\ shell.file = "receipt" => pc = "exited" /\ (code = "PASS" => receipt.proof)
    /\ pc = "write" /\ code = "PASS" => receipt.proof
    /\ shell.verdict = "capability-pass" => receipt.proof

-----------------------------------------------------------------------------
(* Lemmas on the ledger's operations and their counts *)

LEMMA DockerOpsAre ==
  \A i \in 1..8: DockerOps[i] \in IF i <= 4 THEN Actions ELSE DockerQueries
<1> DEFINE queries == <<"QUERY_CONTAINERS", "QUERY_IMAGES", "QUERY_VOLUMES", "QUERY_NETWORKS">>
<1>1. Removals \in Seq(Actions) /\ Len(Removals) = 4 /\ \A i \in 1..4: Removals[i] \in Actions
  BY DEF Removals, Actions
<1>2. queries \in Seq(DockerQueries) /\ Len(queries) = 4
      /\ \A i \in 1..4: queries[i] \in DockerQueries
  BY DEF DockerQueries
<1>3. DockerOps = Removals \o queries
  BY DEF DockerOps
<1> HIDE DEF queries
<1>4. Removals \in Seq(Ops) /\ queries \in Seq(Ops)
  BY <1>1, <1>2 DEF Ops, Queries
<1>5. \A i \in 1 .. Len(Removals) + Len(queries):
         (Removals \o queries)[i] = IF i <= Len(Removals) THEN Removals[i]
                                    ELSE queries[i - Len(Removals)]
  BY <1>4, ConcatProperties, Zenon
<1>6. ASSUME NEW i \in 1..8
      PROVE  DockerOps[i] \in IF i <= 4 THEN Actions ELSE DockerQueries
  <2>1. i \in 1 .. Len(Removals) + Len(queries)
    BY <1>1, <1>2
  <2>2. (Removals \o queries)[i] = IF i <= Len(Removals) THEN Removals[i]
                                   ELSE queries[i - Len(Removals)]
    BY <1>5, <2>1, Zenon
  <2>3. DockerOps[i] = IF i <= 4 THEN Removals[i] ELSE queries[i - 4]
    BY <1>1, <1>3, <2>2, Zenon
  <2> QED
    BY <1>1, <1>2, <2>3
<1> QED
  BY <1>6

LEMMA OpsAreFew == IsFiniteSet(Ops) /\ Cardinality(Ops) <= 18
<1> DEFINE f == <<"STOP_PROXY", "REMOVE_CLIENT", "REMOVE_SERVICE", "REMOVE_NETWORK", "REMOVE_IMAGE",
                  "STOP_DOCKERD", "STOP_CONTAINERD", "DELETE_NETNS", "REMOVE_CGROUP",
                  "REMOVE_RUNTIME_ROOT", "QUERY_CONTAINERS", "QUERY_IMAGES", "QUERY_VOLUMES",
                  "QUERY_NETWORKS", "QUERY_NETNS", "QUERY_LISTENER", "QUERY_HOST_FIREWALL",
                  "QUERY_HOST_LINKS">>
<1>1. f \in [1..18 -> Ops]
  BY DEF Ops, Actions, Queries, DockerQueries
<1>2. \A op \in Ops: \E i \in 1..18: f[i] = op
  <2>1. f[1] = "STOP_PROXY" /\ f[2] = "REMOVE_CLIENT" /\ f[3] = "REMOVE_SERVICE"
        /\ f[4] = "REMOVE_NETWORK"
        /\ f[5] = "REMOVE_IMAGE" /\ f[6] = "STOP_DOCKERD"
    OBVIOUS
  <2>2. f[7] = "STOP_CONTAINERD" /\ f[8] = "DELETE_NETNS" /\ f[9] = "REMOVE_CGROUP"
        /\ f[10] = "REMOVE_RUNTIME_ROOT" /\ f[11] = "QUERY_CONTAINERS" /\ f[12] = "QUERY_IMAGES"
    OBVIOUS
  <2>3. f[13] = "QUERY_VOLUMES" /\ f[14] = "QUERY_NETWORKS" /\ f[15] = "QUERY_NETNS"
        /\ f[16] = "QUERY_LISTENER" /\ f[17] = "QUERY_HOST_FIREWALL"
        /\ f[18] = "QUERY_HOST_LINKS"
    OBVIOUS
  <2> HIDE DEF f
  <2> QED BY <2>1, <2>2, <2>3 DEF Ops, Actions, Queries, DockerQueries
<1> HIDE DEF f
<1>3. f \in Surjection(1..18, Ops)
  BY <1>1, <1>2 DEF Surjection
<1>4. IsFiniteSet(1..18) /\ Cardinality(1..18) = 18
  <2>1. 1 \in Int /\ 18 \in Int
    OBVIOUS
  <2>2. IsFiniteSet(1..18) /\ Cardinality(1..18) = IF 1 > 18 THEN 0 ELSE 18 - 1 + 1
    BY <2>1, FS_Interval
  <2> QED
    BY <2>2
<1> QED BY <1>3, <1>4, FS_Surjection

(* In whatever order operations were noted, the counts of a category are   *)
(* ordered as its sets are.                                                *)
LEMMA CountsAre ==
  ASSUME NEW S \in SUBSET Ops, NEW T \in SUBSET S
  PROVE  /\ IsFiniteSet(S) /\ Cardinality(S) \in 0..18
         /\ Cardinality(T) \in 0..18 /\ Cardinality(T) <= Cardinality(S)
         /\ Cardinality(S) - Cardinality(T) = Cardinality(S \ T)
<1>1. IsFiniteSet(S) /\ Cardinality(S) <= Cardinality(Ops) /\ Cardinality(S) \in Nat
  BY OpsAreFew, FS_Subset, FS_CardinalityType
<1>2. IsFiniteSet(T) /\ Cardinality(T) <= Cardinality(S) /\ Cardinality(T) \in Nat
  BY <1>1, FS_Subset, FS_CardinalityType
<1>3. IsFiniteSet(S \ T) /\ Cardinality(S \ T) \in Nat
  BY <1>1, FS_Subset, FS_CardinalityType, S \ T \in SUBSET S
<1>4. Cardinality((S \ T) \cup T) =
        Cardinality(S \ T) + Cardinality(T) - Cardinality((S \ T) \cap T)
  BY <1>2, <1>3, FS_Union
<1>5. (S \ T) \cup T = S /\ (S \ T) \cap T = {}
  OBVIOUS
<1>6. Cardinality({}) = 0
  BY FS_EmptySet
<1>7. Cardinality(Ops) \in Nat
  BY OpsAreFew, FS_CardinalityType
<1> DEFINE all == Cardinality(Ops)
           s == Cardinality(S)
           t == Cardinality(T)
           rest == Cardinality(S \ T)
<1>8. all \in Nat /\ all <= 18 /\ s \in Nat /\ s <= all /\ t \in Nat /\ t <= s /\ rest \in Nat
  BY <1>1, <1>2, <1>3, <1>7, OpsAreFew
<1>9. s = rest + t - 0
  BY <1>4, <1>5, <1>6
<1> HIDE DEF all, s, t, rest
<1>10. s \in 0..18 /\ t \in 0..18 /\ t <= s /\ s - t = rest
  BY <1>8, <1>9
<1> QED BY <1>1, <1>10 DEF s, t, rest

-----------------------------------------------------------------------------
(* Types, the ledger, and what a step may write of the receipt *)

(* main()'s step and exception, and the mishaps so far *)
ControlShape == pc \in Steps /\ code \in Codes /\ faults \in 0..MaxFaults
(* CleanupLedger's four sets *)
LedgerShape ==
    ledger \in [required: SUBSET Ops, attempted: SUBSET Ops, succeeded: SUBSET Ops,
                failures: SUBSET Ops]
(* The receipt: its startup section, and the whole of it *)
Startups == [substage: Substages, proof: BOOLEAN, started: BOOLEAN, exit: BOOLEAN,
             socket: BOOLEAN, timeout: BOOLEAN, attempted: 0..2, created: 0..2,
             readback: BOOLEAN, confirmed: BOOLEAN, observed: 0..2]
Receipts == [startup: Startups, shown: SUBSET Showings, attempted: BOOLEAN,
             nonzero: SUBSET Counters, restored: SUBSET Host, query: OpCounts, action: OpCounts, failures: 0..19,
             finalized: BOOLEAN, proof: BOOLEAN, succeeded: BOOLEAN]
ReceiptShape == receipt \in Receipts
(* The shell that reads the receipt, and what it can make of it *)
Verdicts == {"none", "packet-state-collision", "runner-failed", "evidence-invalid",
             "capability-pass", "rejected", "evidence-exit-mismatch"}
ShellShape ==
    shell \in [at: {"start", "wait", "done"}, file: {"none", "torn", "receipt"},
               rc: {0, 1, 2, 137}, verdict: Verdicts]

LEMMA ChargeType ==
  ASSUME faults \in 0..MaxFaults, NEW ok, Charge(ok)
  PROVE  faults' \in 0..MaxFaults
BY MaxFaultsAssumption DEF Charge

LEMMA ControlExecute ==
  ASSUME ControlShape, Execute
  PROVE  ControlShape'
<1>1. CASE ValidateArguments
  BY <1>1, ChargeType DEF ValidateArguments, Raise, Advance, Expect, Steps, ExecuteSteps,
     CleanupSteps, Codes, ControlShape
<1>2. CASE PrepareHostImage
  BY <1>2, ChargeType DEF PrepareHostImage, Raise, Advance, Expect, Steps, ExecuteSteps,
     CleanupSteps, Codes, ControlShape
<1>3. CASE TakePreimage
  BY <1>3, ChargeType DEF TakePreimage, Raise, Advance, Expect, Steps, ExecuteSteps,
     CleanupSteps, Codes, ControlShape
<1>4. CASE CreateCgroup
  BY <1>4, ChargeType DEF CreateCgroup, Raise, Advance, Expect, Steps, ExecuteSteps,
     CleanupSteps, Codes, ControlShape
<1>5. CASE CreateNetns
  BY <1>5, ChargeType DEF CreateNetns, Raise, Advance, Expect, Steps, ExecuteSteps,
     CleanupSteps, Codes, ControlShape
<1>6. CASE StartContainerd
  BY <1>6, ChargeType DEF StartContainerd, Raise, Advance, Expect, Steps, ExecuteSteps,
     CleanupSteps, Codes, ControlShape
<1>7. CASE WaitForContainerdSocket
  BY <1>7, ChargeType DEF WaitForContainerdSocket, Raise, Advance, Expect, StartupFails,
     Steps, ExecuteSteps, CleanupSteps, Codes, ControlShape
<1>8. ASSUME NEW index \in 0..1, CreateContainerdNamespace(index)
      PROVE  ControlShape'
  BY <1>8, ChargeType DEF CreateContainerdNamespace, Raise, Advance, Expect, StartupFails,
     Steps, ExecuteSteps, CleanupSteps, Codes, ControlShape
<1>9. CASE VerifyContainerdNamespaces
  BY <1>9, ChargeType DEF VerifyContainerdNamespaces, Raise, Advance, Expect, StartupFails,
     Steps, ExecuteSteps, CleanupSteps, Codes, ControlShape
<1>10. CASE StartDockerd
  BY <1>10, ChargeType DEF StartDockerd, Raise, Advance, Expect, Steps, ExecuteSteps,
     CleanupSteps, Codes, ControlShape
<1>11. CASE WaitForDockerd
  BY <1>11, ChargeType DEF WaitForDockerd, Raise, Advance, Expect, Steps, ExecuteSteps,
     CleanupSteps, Codes, ControlShape
<1>12. CASE VerifyBoundaries
  BY <1>12, ChargeType DEF VerifyBoundaries, Raise, Advance, Expect, Observe, Shows, Steps,
     ExecuteSteps, CleanupSteps, Codes, ControlShape
<1>13. CASE LoadImage
  BY <1>13, ChargeType DEF LoadImage, Raise, Advance, Expect, Make, Shows, Steps,
     ExecuteSteps, CleanupSteps, Codes, ControlShape
<1>14. CASE CreatePrivateNetwork
  BY <1>14, ChargeType DEF CreatePrivateNetwork, Raise, Advance, Expect, Make, Shows, Steps,
     ExecuteSteps, CleanupSteps, Codes, ControlShape
<1>15. CASE StartService
  BY <1>15, ChargeType DEF StartService, Raise, Advance, Expect, Make, Shows, Steps,
     ExecuteSteps, CleanupSteps, Codes, ControlShape
<1>16. CASE StartClient
  BY <1>16, ChargeType DEF StartClient, Raise, Advance, Expect, Make, Shows, Steps,
     ExecuteSteps, CleanupSteps, Codes, ControlShape
<1>17. CASE VerifyContainers
  BY <1>17, ChargeType DEF VerifyContainers, Raise, Advance, Expect, Observe, Shows, Steps,
     ExecuteSteps, CleanupSteps, Codes, ControlShape
<1>18. CASE RunNetworkCanaries
  BY <1>18, ChargeType DEF RunNetworkCanaries, Raise, Advance, Expect, Observe, Shows, Steps,
     ExecuteSteps, CleanupSteps, Codes, ControlShape
<1>19. CASE VerifyLoopbackProxy
  BY <1>19, ChargeType DEF VerifyLoopbackProxy, Raise, Advance, Expect, Shows, Steps,
     ExecuteSteps, CleanupSteps, Codes, ControlShape
<1> QED
  BY <1>1, <1>2, <1>3, <1>4, <1>5, <1>6, <1>7, <1>8, <1>9, <1>10, <1>11, <1>12, <1>13, <1>14,
     <1>15, <1>16, <1>17, <1>18, <1>19 DEF Execute

LEMMA ControlCleanup ==
  ASSUME ControlShape, Cleanup
  PROVE  ControlShape'
<1>1. CASE Synchronize
  BY <1>1, ChargeType DEF Synchronize, Outcome, Steps, ExecuteSteps, CleanupSteps, Codes,
     ControlShape
<1>2. CASE CleanDocker
  BY <1>2, ChargeType DEF CleanDocker, CountObjects, RemoveObject, Outcome, Counts, Steps,
     ExecuteSteps, CleanupSteps, Codes, ControlShape
<1>3. CASE StopDockerd
  BY <1>3, ChargeType DEF StopDockerd, StopProcess, Advance, Outcome, Steps, ExecuteSteps,
     CleanupSteps, Codes, ControlShape
<1>4. CASE StopContainerd
  BY <1>4, ChargeType DEF StopContainerd, StopProcess, Advance, Outcome, Steps, ExecuteSteps,
     CleanupSteps, Codes, ControlShape
<1>5. CASE DeleteNetns
  BY <1>5, ChargeType DEF DeleteNetns, Counts, Outcome, Advance, Steps, ExecuteSteps,
     CleanupSteps, Codes, ControlShape
<1>6. CASE QueryNetns
  BY <1>6, ChargeType DEF QueryNetns, Counts, Outcome, Advance, Steps, ExecuteSteps,
     CleanupSteps, Codes, ControlShape
<1>7. CASE RemoveCgroup
  BY <1>7, ChargeType DEF RemoveCgroup, Counts, Outcome, Advance, Steps, ExecuteSteps,
     CleanupSteps, Codes, ControlShape
<1>8. CASE RemoveRuntime
  BY <1>8, ChargeType DEF RemoveRuntime, Counts, Outcome, Advance, Steps, ExecuteSteps,
     CleanupSteps, Codes, ControlShape
<1>9. CASE QueryListener
  BY <1>9, ChargeType DEF QueryListener, Counts, Outcome, Advance, Steps, ExecuteSteps,
     CleanupSteps, Codes, ControlShape
<1>10. CASE QueryFirewall
  BY <1>10, ChargeType DEF QueryFirewall, QueryHost, Outcome, Advance, Steps, ExecuteSteps,
     CleanupSteps, Codes, ControlShape
<1>11. CASE QueryLinks
  BY <1>11, ChargeType DEF QueryLinks, QueryHost, Outcome, Advance, Steps, ExecuteSteps,
     CleanupSteps, Codes, ControlShape
<1>12. CASE FinalizeCleanup
  BY <1>12, ChargeType DEF FinalizeCleanup, Advance, Steps, ExecuteSteps, CleanupSteps, Codes,
     ControlShape
<1>13. CASE CleanupRaises
  BY <1>13, ChargeType DEF CleanupRaises, Advance, Steps, ExecuteSteps, CleanupSteps, Codes,
     ControlShape
<1> QED
  BY <1>1, <1>2, <1>3, <1>4, <1>5, <1>6, <1>7, <1>8, <1>9, <1>10, <1>11,
     <1>12, <1>13 DEF Cleanup

LEMMA ControlWorld ==
  ASSUME ControlShape, Next, ~Execute, ~Cleanup
  PROVE  ControlShape'
<1>1. CASE Classify
  BY <1>1, ChargeType DEF Classify, Steps, ExecuteSteps, CleanupSteps, Codes, ControlShape
<1>2. CASE WriteReceipt
  BY <1>2, ChargeType DEF WriteReceipt, Steps, ExecuteSteps, CleanupSteps, Codes, ControlShape
<1>3. CASE Die
  BY <1>3, ChargeType DEF Die, Steps, ExecuteSteps, CleanupSteps, Codes, ControlShape
<1>4. CASE StartProbe
  BY <1>4, ChargeType DEF StartProbe, Steps, ExecuteSteps, CleanupSteps, Codes, ControlShape
<1>5. CASE Judge
  BY <1>5, ChargeType DEF Judge, Steps, ExecuteSteps, CleanupSteps, Codes, ControlShape
<1>6. CASE DockerdListens
  BY <1>6, ChargeType DEF DockerdListens, Steps, ExecuteSteps, CleanupSteps, Codes, ControlShape
<1>7. ASSUME NEW d \in Daemons, DaemonExits(d)
      PROVE  ControlShape'
  BY <1>7, ChargeType DEF DaemonExits, Steps, ExecuteSteps, CleanupSteps, Codes, ControlShape
<1>8. ASSUME NEW object \in Objects, ServeLate(object)
      PROVE  ControlShape'
  BY <1>8, ChargeType DEF ServeLate, Steps, ExecuteSteps, CleanupSteps, Codes, ControlShape
<1>9. ASSUME NEW h \in Host, Drift(h)
      PROVE  ControlShape'
  BY <1>9, ChargeType DEF Drift, Steps, ExecuteSteps, CleanupSteps, Codes, ControlShape
<1> QED
  BY <1>1, <1>2, <1>3, <1>4, <1>5, <1>6, <1>7, <1>8, <1>9 DEF Next, Probe

LEMMA OutcomeIsNoted ==
  ASSUME NEW op, NEW ok, Outcome(op, ok)
  PROVE  \E how \in {"done", "failed", "owed"}: Note(op, how)
BY DEF Outcome

LEMMA LedgerExecute ==
  ASSUME Execute
  PROVE  UNCHANGED ledger
<1>1. CASE ValidateArguments
  BY <1>1 DEF ValidateArguments, Raise, Advance, Expect
<1>2. CASE PrepareHostImage
  BY <1>2 DEF PrepareHostImage, Raise, Advance, Expect
<1>3. CASE TakePreimage
  BY <1>3 DEF TakePreimage, Raise, Advance, Expect
<1>4. CASE CreateCgroup
  BY <1>4 DEF CreateCgroup, Raise, Advance, Expect
<1>5. CASE CreateNetns
  BY <1>5 DEF CreateNetns, Raise, Advance, Expect
<1>6. CASE StartContainerd
  BY <1>6 DEF StartContainerd, Raise, Advance, Expect
<1>7. CASE WaitForContainerdSocket
  BY <1>7 DEF WaitForContainerdSocket, Raise, Advance, Expect, StartupFails
<1>8. ASSUME NEW index \in 0..1, CreateContainerdNamespace(index)
      PROVE  UNCHANGED ledger
  BY <1>8 DEF CreateContainerdNamespace, Raise, Advance, Expect, StartupFails
<1>9. CASE VerifyContainerdNamespaces
  BY <1>9 DEF VerifyContainerdNamespaces, Raise, Advance, Expect, StartupFails
<1>10. CASE StartDockerd
  BY <1>10 DEF StartDockerd, Raise, Advance, Expect
<1>11. CASE WaitForDockerd
  BY <1>11 DEF WaitForDockerd, Raise, Advance, Expect
<1>12. CASE VerifyBoundaries
  BY <1>12 DEF VerifyBoundaries, Raise, Advance, Expect, Observe, Shows
<1>13. CASE LoadImage
  BY <1>13 DEF LoadImage, Raise, Advance, Expect, Make, Shows
<1>14. CASE CreatePrivateNetwork
  BY <1>14 DEF CreatePrivateNetwork, Raise, Advance, Expect, Make, Shows
<1>15. CASE StartService
  BY <1>15 DEF StartService, Raise, Advance, Expect, Make, Shows
<1>16. CASE StartClient
  BY <1>16 DEF StartClient, Raise, Advance, Expect, Make, Shows
<1>17. CASE VerifyContainers
  BY <1>17 DEF VerifyContainers, Raise, Advance, Expect, Observe, Shows
<1>18. CASE RunNetworkCanaries
  BY <1>18 DEF RunNetworkCanaries, Raise, Advance, Expect, Observe, Shows
<1>19. CASE VerifyLoopbackProxy
  BY <1>19 DEF VerifyLoopbackProxy, Raise, Advance, Expect, Shows
<1> QED
  BY <1>1, <1>2, <1>3, <1>4, <1>5, <1>6, <1>7, <1>8, <1>9, <1>10, <1>11, <1>12, <1>13, <1>14,
     <1>15, <1>16, <1>17, <1>18, <1>19 DEF Execute

LEMMA LedgerWorld ==
  ASSUME Next, ~Execute, ~Cleanup
  PROVE  UNCHANGED ledger
<1>1. CASE Classify
  BY <1>1 DEF Classify
<1>2. CASE WriteReceipt
  BY <1>2 DEF WriteReceipt
<1>3. CASE Die
  BY <1>3 DEF Die
<1>4. CASE StartProbe
  BY <1>4 DEF StartProbe
<1>5. CASE Judge
  BY <1>5 DEF Judge
<1>6. CASE DockerdListens
  BY <1>6 DEF DockerdListens
<1>7. ASSUME NEW d \in Daemons, DaemonExits(d)
      PROVE  UNCHANGED ledger
  BY <1>7 DEF DaemonExits
<1>8. ASSUME NEW object \in Objects, ServeLate(object)
      PROVE  UNCHANGED ledger
  BY <1>8 DEF ServeLate
<1>9. ASSUME NEW h \in Host, Drift(h)
      PROVE  UNCHANGED ledger
  BY <1>9 DEF Drift
<1> QED
  BY <1>1, <1>2, <1>3, <1>4, <1>5, <1>6, <1>7, <1>8, <1>9 DEF Next, Probe

LEMMA LedgerCleanup ==
  ASSUME SelfShape, Cleanup
  PROVE  UNCHANGED ledger \/ \E op \in Ops, how \in {"done", "failed", "owed"}: Note(op, how)
<1>1. CASE Synchronize
  BY <1>1, OutcomeIsNoted DEF Synchronize, Ops, Actions, Queries
<1>2. CASE CleanDocker
  <2> DEFINE op == DockerOps[self.item]
  <2>1. op \in Ops
    <3>1. self.item \in 1..8
      BY DEF SelfShape, Selves
    <3> QED
      BY <3>1, DockerOpsAre DEF Ops, Queries
  <2> HIDE DEF op
  <2>2. \/ UNCHANGED ledger \/ Note(op, "owed") \/ \E ok: Outcome(op, ok)
    BY <1>2 DEF CleanDocker, CountObjects, RemoveObject, op
  <2> QED
    BY <2>1, <2>2, OutcomeIsNoted
<1>3. CASE StopDockerd
  BY <1>3, OutcomeIsNoted DEF StopDockerd, StopProcess, Ops, Actions, Queries
<1>4. CASE StopContainerd
  BY <1>4, OutcomeIsNoted DEF StopContainerd, StopProcess, Ops, Actions, Queries
<1>5. CASE DeleteNetns
  BY <1>5, OutcomeIsNoted DEF DeleteNetns, Ops, Actions, Queries
<1>6. CASE QueryNetns
  BY <1>6, OutcomeIsNoted DEF QueryNetns, Ops, Actions, Queries
<1>7. CASE RemoveCgroup
  BY <1>7, OutcomeIsNoted DEF RemoveCgroup, Ops, Actions, Queries
<1>8. CASE RemoveRuntime
  BY <1>8, OutcomeIsNoted DEF RemoveRuntime, Ops, Actions, Queries
<1>9. CASE QueryListener
  BY <1>9, OutcomeIsNoted DEF QueryListener, Ops, Actions, Queries
<1>10. CASE QueryFirewall
  BY <1>10, OutcomeIsNoted DEF QueryFirewall, QueryHost, Ops, Actions, Queries
<1>11. CASE QueryLinks
  BY <1>11, OutcomeIsNoted DEF QueryLinks, QueryHost, Ops, Actions, Queries
<1>12. CASE FinalizeCleanup
  BY <1>12, OutcomeIsNoted DEF FinalizeCleanup, Ops, Actions, Queries
<1>13. CASE CleanupRaises
  BY <1>13, OutcomeIsNoted DEF CleanupRaises, Ops, Actions, Queries
<1> QED
  BY <1>1, <1>2, <1>3, <1>4, <1>5, <1>6, <1>7, <1>8, <1>9, <1>10, <1>11,
     <1>12, <1>13 DEF Cleanup

LEMMA NoteKnows ==
  ASSUME LedgerShape, LedgerKnows, NEW op \in Ops, NEW how \in {"done", "failed", "owed"},
         Note(op, how)
  PROVE  /\ LedgerShape' /\ LedgerKnows'
         /\ ledger.attempted \subseteq ledger'.attempted
         /\ ledger.failures \subseteq ledger'.failures
BY DEF LedgerShape, LedgerKnows, Note

(* What the fields of the receipt that are about the cleanup say *)
SameCleanup ==
    /\ receipt'.attempted = receipt.attempted /\ receipt'.nonzero = receipt.nonzero
    /\ receipt'.restored = receipt.restored /\ receipt'.query = receipt.query
    /\ receipt'.action = receipt.action /\ receipt'.failures = receipt.failures
    /\ receipt'.finalized = receipt.finalized /\ receipt'.proof = receipt.proof
    /\ receipt'.succeeded = receipt.succeeded

LEMMA StartupSet ==
  ASSUME ReceiptShape, NEW s \in Startups, receipt' = [receipt EXCEPT !.startup = s]
  PROVE  ReceiptShape' /\ receipt'.startup = s /\ SameCleanup
BY DEF ReceiptShape, Receipts, SameCleanup

LEMMA ShowsMore ==
  ASSUME ReceiptShape, NEW what \in SUBSET Showings, Shows(what)
  PROVE  ReceiptShape' /\ receipt'.startup = receipt.startup /\ SameCleanup
<1> DEFINE shown == receipt.shown \cup what
<1>1. shown \in SUBSET Showings
  BY DEF ReceiptShape, Receipts
<1>2. receipt' = [receipt EXCEPT !.shown = shown]
  BY DEF Shows
<1> HIDE DEF shown
<1> QED
  BY <1>1, <1>2 DEF ReceiptShape, Receipts, SameCleanup

LEMMA ReceiptKept ==
  ASSUME ReceiptShape, UNCHANGED receipt
  PROVE  ReceiptShape' /\ receipt'.startup = receipt.startup /\ SameCleanup
BY DEF ReceiptShape, SameCleanup

(* What a count leaves alone *)
SameButCounts ==
    /\ receipt'.startup = receipt.startup /\ receipt'.attempted = receipt.attempted
    /\ receipt'.query = receipt.query /\ receipt'.action = receipt.action
    /\ receipt'.finalized = receipt.finalized /\ receipt'.proof = receipt.proof
    /\ receipt'.succeeded = receipt.succeeded

LEMMA Counted ==
  ASSUME ReceiptShape, NEW counter \in Counters, NEW zero \in BOOLEAN, Counts(counter, zero)
  PROVE  /\ ReceiptShape' /\ SameButCounts /\ receipt'.restored = receipt.restored
         /\ receipt'.nonzero = {} => zero /\ receipt.nonzero = {}
<1> DEFINE nonzero == IF zero THEN receipt.nonzero ELSE receipt.nonzero \cup {counter}
<1>1. nonzero \in SUBSET Counters /\ (nonzero = {} => zero /\ receipt.nonzero = {})
  BY DEF ReceiptShape, Receipts
<1>2. receipt' = [receipt EXCEPT !.nonzero = nonzero]
  BY DEF Counts
<1> HIDE DEF nonzero
<1> QED
  BY <1>1, <1>2 DEF ReceiptShape, Receipts, SameButCounts

LEMMA HostQueried ==
  ASSUME ReceiptShape, NEW restored \in SUBSET Host, NEW nonzero \in SUBSET Counters,
         receipt' = [receipt EXCEPT !.restored = restored, !.nonzero = nonzero]
  PROVE  ReceiptShape' /\ SameButCounts /\ receipt'.restored = restored
         /\ receipt'.nonzero = nonzero
BY DEF ReceiptShape, Receipts, SameButCounts

(* What finalize_cleanup_completeness writes *)
Finalizes(query, action, n, proof) ==
    receipt' = [receipt EXCEPT !.query = query, !.action = action, !.failures = n,
                               !.finalized = TRUE, !.proof = proof, !.succeeded = proof]

LEMMA Finalized ==
  ASSUME ReceiptShape, NEW query \in OpCounts, NEW action \in OpCounts, NEW n \in 0..19,
         NEW proof \in BOOLEAN,
         Finalizes(query, action, n, proof)
  PROVE  /\ ReceiptShape'
         /\ receipt'.startup = receipt.startup /\ receipt'.attempted = receipt.attempted
         /\ receipt'.query = query /\ receipt'.action = action /\ receipt'.failures = n
         /\ receipt'.finalized = TRUE /\ receipt'.proof = proof /\ receipt'.succeeded = proof
         /\ receipt'.nonzero = receipt.nonzero /\ receipt'.restored = receipt.restored
BY DEF ReceiptShape, Receipts, Finalizes

LEMMA Attempted ==
  ASSUME ReceiptShape, NEW n \in 0..19,
         \/ receipt' = [receipt EXCEPT !.attempted = TRUE]
         \/ receipt' = [receipt EXCEPT !.attempted = TRUE, !.failures = n]
  PROVE  /\ ReceiptShape'
         /\ receipt'.startup = receipt.startup /\ receipt'.attempted = TRUE
         /\ receipt'.query = receipt.query /\ receipt'.action = receipt.action
         /\ receipt'.finalized = receipt.finalized /\ receipt'.proof = receipt.proof
         /\ receipt'.succeeded = receipt.succeeded
         /\ receipt'.nonzero = receipt.nonzero /\ receipt'.restored = receipt.restored
BY DEF ReceiptShape, Receipts

-----------------------------------------------------------------------------
(* The startup *)

(* The startup of the receipt becomes s *)
SetsStartup(s) == receipt' = [receipt EXCEPT !.startup = s]

(* A startup that ended: in a substage, with what was shown until then *)
EndsAs(s, substage, exit, socket, timeout, n, created, readback, confirmed) ==
    /\ s.proof = TRUE /\ s.started = TRUE
    /\ s.substage = substage /\ s.exit = exit /\ s.socket = socket /\ s.timeout = timeout
    /\ s.attempted = n /\ s.created = created /\ s.readback = readback
    /\ s.confirmed = confirmed

LEMMA FreshIs == Unproven(DefaultReceipt.startup, FALSE, FALSE, 0)
BY DEF DefaultReceipt, Unproven

LEMMA UnprovenValid ==
  ASSUME NEW s, NEW n \in 0..2, NEW started \in BOOLEAN, NEW socket \in BOOLEAN,
         Unproven(s, started, socket, n)
  PROVE  ValidStartup(s)
BY DEF Unproven, ValidStartup

(* From one unproven startup to the next *)
LEMMA StepsOfStartup ==
  ASSUME NEW n \in 0..1, NEW s \in Startups
  PROVE  /\ LET t == [s EXCEPT !.started = TRUE]
            IN  t \in Startups /\ (Unproven(s, FALSE, FALSE, 0) => Unproven(t, TRUE, FALSE, 0))
         /\ LET t == [s EXCEPT !.socket = TRUE]
            IN  t \in Startups /\ (Unproven(s, TRUE, FALSE, 0) => Unproven(t, TRUE, TRUE, 0))
         /\ LET t == [[s EXCEPT !.attempted = n + 1] EXCEPT !.created = n + 1]
            IN  t \in Startups /\ (Unproven(s, TRUE, TRUE, n) => Unproven(t, TRUE, TRUE, n + 1))
<1>1. LET t == [s EXCEPT !.started = TRUE]
      IN  t \in Startups /\ (Unproven(s, FALSE, FALSE, 0) => Unproven(t, TRUE, FALSE, 0))
  BY DEF Unproven, Startups
<1>2. LET t == [s EXCEPT !.socket = TRUE]
      IN  t \in Startups /\ (Unproven(s, TRUE, FALSE, 0) => Unproven(t, TRUE, TRUE, 0))
  BY DEF Unproven, Startups
<1>3. LET t == [[s EXCEPT !.attempted = n + 1] EXCEPT !.created = n + 1]
      IN  t \in Startups /\ (Unproven(s, TRUE, TRUE, n) => Unproven(t, TRUE, TRUE, n + 1))
  <2>1. PICK i \in 0..2: i = n + 1
    OBVIOUS
  <2>2. LET t == [[s EXCEPT !.attempted = i] EXCEPT !.created = i]
        IN  t \in Startups /\ (Unproven(s, TRUE, TRUE, n) => Unproven(t, TRUE, TRUE, i))
    BY DEF Unproven, Startups
  <2> QED BY <2>1, <2>2, Zenon
<1> QED BY <1>1, <1>2, <1>3, Zenon

LEMMA Zero == 0 \in 0..1 /\ 1 \in 0..1 /\ 0 + 1 = 1 /\ 1 + 1 = 2
OBVIOUS

LEMMA ShapesOfStartups ==
  /\ StartupShape("PROCESS_EXIT_BEFORE_SOCKET") = <<TRUE, TRUE, FALSE, FALSE, 0, 0, FALSE, FALSE>>
  /\ StartupShape("SOCKET_READINESS_TIMEOUT") = <<TRUE, FALSE, FALSE, TRUE, 0, 0, FALSE, FALSE>>
  /\ StartupShape("NAMESPACE_CREATE_INITIAL_FAILED") = <<TRUE, FALSE, TRUE, FALSE, 1, 0, FALSE, FALSE>>
  /\ StartupShape("NAMESPACE_CREATE_RETRY_FAILED") = <<TRUE, FALSE, TRUE, FALSE, 2, 1, FALSE, FALSE>>
  /\ StartupShape("NAMESPACE_READBACK_FAILED") = <<TRUE, FALSE, TRUE, FALSE, 2, 2, TRUE, FALSE>>
  /\ StartupShape("READY") = <<TRUE, FALSE, TRUE, FALSE, 2, 2, TRUE, TRUE>>
BY DEF StartupShape

(* Each end has the shape its substage asks for. *)
LEMMA EndedValid ==
  ASSUME NEW s \in Startups,
         \/ EndsAs(s, "PROCESS_EXIT_BEFORE_SOCKET", TRUE, FALSE, FALSE, 0, 0, FALSE, FALSE)
            /\ s.observed = 0
         \/ EndsAs(s, "SOCKET_READINESS_TIMEOUT", FALSE, FALSE, TRUE, 0, 0, FALSE, FALSE)
            /\ s.observed = 0
         \/ EndsAs(s, "NAMESPACE_CREATE_INITIAL_FAILED", FALSE, TRUE, FALSE, 1, 0, FALSE, FALSE)
            /\ s.observed = 0
         \/ EndsAs(s, "NAMESPACE_CREATE_RETRY_FAILED", FALSE, TRUE, FALSE, 2, 1, FALSE, FALSE)
            /\ s.observed = 0
         \/ EndsAs(s, "NAMESPACE_READBACK_FAILED", FALSE, TRUE, FALSE, 2, 2, TRUE, FALSE)
         \/ EndsAs(s, "READY", FALSE, TRUE, FALSE, 2, 2, TRUE, TRUE) /\ s.observed = 2
  PROVE  /\ ValidStartup(s)
         /\ s.substage \in StartupFailures \cup {"READY"}
<1>1. s.proof = TRUE /\ s.substage \in StartupFailures \cup {"READY"}
  BY DEF EndsAs, StartupFailures
<1>2. s.created <= s.attempted /\ s.attempted <= 2 /\ s.observed <= 2
  <2>1. s.observed <= 2
    BY <1>1 DEF Startups
  <2> QED BY <2>1 DEF EndsAs
<1>3. StartupShape(s.substage) =
         <<s.started, s.exit, s.socket, s.timeout, s.attempted, s.created, s.readback, s.confirmed>>
  BY ShapesOfStartups, Zenon DEF EndsAs
<1>4. /\ s.substage = "READY" => s.observed = 2
      /\ s.substage # "NAMESPACE_READBACK_FAILED" /\ s.substage # "READY" => s.observed = 0
  BY DEF EndsAs
<1>5. ValidStartup(s)
  BY <1>1, <1>2, <1>3, <1>4, Zenon DEF ValidStartup
<1> QED BY <1>1, <1>5

(* A step of the startup that fails, and one that goes on *)
LEMMA StartupFailed ==
  ASSUME ReceiptShape, NEW s \in Startups, ValidStartup(s), s.substage \in StartupFailures,
         SetsStartup(s), Raise("PRIVATE_CONTAINERD_START_FAILED")
  PROVE  ReceiptShape' /\ StartupKnown' /\ SameCleanup
<1>1. ReceiptShape' /\ receipt'.startup = s /\ SameCleanup
  BY StartupSet DEF SetsStartup
<1>2. pc' = "sync" /\ code' = "PRIVATE_CONTAINERD_START_FAILED"
  BY DEF Raise
<1>3. ValidStartup(receipt'.startup) /\ receipt'.startup.substage \in StartupFailures
  BY <1>1, Zenon
<1>4. StartupKnown'
  BY <1>2, <1>3 DEF StartupKnown, BeforeSocket, Starting, ExecuteSteps
<1> QED BY <1>1, <1>4

LEMMA StartupGoesOn ==
  ASSUME ReceiptShape, code = "PASS", NEW s \in Startups, SetsStartup(s),
         \/ Unproven(s, TRUE, FALSE, 0) /\ (Advance("socket") \/ Raise("CHECK_FAILED"))
         \/ Unproven(s, TRUE, TRUE, 0) /\ Advance("namespace0")
         \/ Unproven(s, TRUE, TRUE, 1) /\ Advance("namespace1")
         \/ Unproven(s, TRUE, TRUE, 2) /\ Advance("readback")
         \/ s.substage = "READY" /\ ValidStartup(s) /\ Advance("dockerd")
  PROVE  ReceiptShape' /\ StartupKnown' /\ SameCleanup
<1>1. ReceiptShape' /\ receipt'.startup = s /\ SameCleanup
  BY StartupSet DEF SetsStartup
<1>2. ValidStartup(s)
  BY DEF Unproven, ValidStartup
<1>3. /\ \/ Unproven(s, TRUE, FALSE, 0) /\ pc' = "socket" /\ code' = "PASS"
         \/ Unproven(s, TRUE, TRUE, 0) /\ pc' = "namespace0" /\ code' = "PASS"
         \/ Unproven(s, TRUE, TRUE, 1) /\ pc' = "namespace1" /\ code' = "PASS"
         \/ Unproven(s, TRUE, TRUE, 2) /\ pc' = "readback" /\ code' = "PASS"
         \/ s.substage = "READY" /\ pc' = "dockerd" /\ code' = "PASS"
         \/ pc' = "sync" /\ code' = "CHECK_FAILED"
  BY DEF Advance, Raise
<1>4. StartupKnown'
  BY <1>1, <1>2, <1>3 DEF StartupKnown, BeforeSocket, Starting, ExecuteSteps
<1> QED BY <1>1, <1>4

LEMMA StartupExecute ==
  ASSUME ControlShape, ReceiptShape, StartupKnown, Execute
  PROVE  ReceiptShape' /\ StartupKnown' /\ SameCleanup
<1>1. CASE ValidateArguments
  <2>1. ReceiptShape' /\ receipt'.startup = receipt.startup /\ SameCleanup
    BY <1>1, ReceiptKept DEF ValidateArguments
  <2> QED
    BY <1>1, <2>1 DEF ValidateArguments, Raise, Advance, Expect, BeforeSocket, Starting,
       ExecuteSteps, StartupKnown
<1>2. CASE PrepareHostImage
  <2>1. ReceiptShape' /\ receipt'.startup = receipt.startup /\ SameCleanup
    BY <1>2, ReceiptKept DEF PrepareHostImage
  <2> QED
    BY <1>2, <2>1 DEF PrepareHostImage, Raise, Advance, Expect, BeforeSocket, Starting,
       ExecuteSteps, StartupKnown
<1>3. CASE TakePreimage
  <2>1. ReceiptShape' /\ receipt'.startup = receipt.startup /\ SameCleanup
    BY <1>3, ReceiptKept DEF TakePreimage
  <2> QED
    BY <1>3, <2>1 DEF TakePreimage, Raise, Advance, Expect, BeforeSocket, Starting,
       ExecuteSteps, StartupKnown
<1>4. CASE CreateCgroup
  <2>1. ReceiptShape' /\ receipt'.startup = receipt.startup /\ SameCleanup
    BY <1>4, ReceiptKept DEF CreateCgroup
  <2> QED
    BY <1>4, <2>1 DEF CreateCgroup, Raise, Advance, Expect, BeforeSocket, Starting,
       ExecuteSteps, StartupKnown
<1>5. CASE CreateNetns
  <2>1. ReceiptShape' /\ receipt'.startup = receipt.startup /\ SameCleanup
    BY <1>5, ReceiptKept DEF CreateNetns
  <2> QED
    BY <1>5, <2>1 DEF CreateNetns, Raise, Advance, Expect, BeforeSocket, Starting,
       ExecuteSteps, StartupKnown
<1>6. CASE StartContainerd
  <2>1. pc = "containerd" /\ code = "PASS" /\ Unproven(receipt.startup, FALSE, FALSE, 0)
    <3>1. pc = "containerd"
      BY <1>6 DEF StartContainerd
    <3> QED
      BY <3>1 DEF StartupKnown, BeforeSocket, ExecuteSteps
  <2>2. CASE UNCHANGED receipt /\ Raise("CHECK_FAILED")
    <3>1. ReceiptShape' /\ receipt'.startup = receipt.startup /\ SameCleanup
      BY <2>2, ReceiptKept
    <3> QED
      BY <2>1, <2>2, <3>1 DEF Raise, BeforeSocket, Starting, ExecuteSteps, StartupKnown
  <2> DEFINE s == [receipt.startup EXCEPT !.started = TRUE]
  <2>3. CASE SetsStartup(s) /\ (Advance("socket") \/ Raise("CHECK_FAILED"))
    <3>1. receipt.startup \in Startups
      BY DEF ReceiptShape, Receipts
    <3>2. s \in Startups /\ Unproven(s, TRUE, FALSE, 0)
      BY <2>1, <3>1, StepsOfStartup, Zero
    <3> HIDE DEF s
    <3> QED
      BY <2>1, <2>3, <3>2, StartupGoesOn
  <2>4. \/ UNCHANGED receipt /\ Raise("CHECK_FAILED")
        \/ SetsStartup(s) /\ (Advance("socket") \/ Raise("CHECK_FAILED"))
    BY <1>6 DEF StartContainerd, Expect, SetsStartup
  <2> QED
    BY <2>2, <2>3, <2>4
<1>7. CASE WaitForContainerdSocket
  <2>1. Unproven(receipt.startup, TRUE, FALSE, 0) /\ code = "PASS"
        /\ receipt.startup \in Startups
    <3>1. pc = "socket"
      BY <1>7 DEF WaitForContainerdSocket
    <3> QED
      BY <3>1 DEF StartupKnown, ExecuteSteps, ReceiptShape, Receipts
  <2> DEFINE start == receipt.startup
             dead == [[start EXCEPT !.exit = TRUE]
                      EXCEPT !.substage = "PROCESS_EXIT_BEFORE_SOCKET", !.proof = TRUE]
             late == [[start EXCEPT !.timeout = TRUE]
                      EXCEPT !.substage = "SOCKET_READINESS_TIMEOUT", !.proof = TRUE]
             made == [start EXCEPT !.socket = TRUE]
  <2>2. \/ SetsStartup(dead) /\ Raise("PRIVATE_CONTAINERD_START_FAILED")
        \/ SetsStartup(late) /\ Raise("PRIVATE_CONTAINERD_START_FAILED")
        \/ SetsStartup(made) /\ Advance("namespace0")
    BY <1>7 DEF WaitForContainerdSocket, StartupFails, SetsStartup
  <2>3. made \in Startups /\ Unproven(made, TRUE, TRUE, 0)
    BY <2>1, StepsOfStartup, Zero
  <2>4. dead \in Startups
        /\ EndsAs(dead, "PROCESS_EXIT_BEFORE_SOCKET", TRUE, FALSE, FALSE, 0, 0, FALSE, FALSE)
        /\ dead.observed = 0
    <3>1. start \in Startups /\ start.started = TRUE /\ start.exit = FALSE
          /\ start.socket = FALSE /\ start.timeout = FALSE
          /\ start.attempted = 0 /\ start.created = 0 /\ start.readback = FALSE
          /\ start.confirmed = FALSE /\ start.observed = 0
      BY <2>1 DEF Unproven
    <3> HIDE DEF start
    <3> QED BY <3>1 DEF EndsAs, Startups, Substages, StartupFailures
  <2>5. late \in Startups
        /\ EndsAs(late, "SOCKET_READINESS_TIMEOUT", FALSE, FALSE, TRUE, 0, 0, FALSE, FALSE)
        /\ late.observed = 0
    <3>1. start \in Startups /\ start.started = TRUE /\ start.exit = FALSE
          /\ start.socket = FALSE /\ start.timeout = FALSE
          /\ start.attempted = 0 /\ start.created = 0 /\ start.readback = FALSE
          /\ start.confirmed = FALSE /\ start.observed = 0
      BY <2>1 DEF Unproven
    <3> HIDE DEF start
    <3> QED BY <3>1 DEF EndsAs, Startups, Substages, StartupFailures
  <2> HIDE DEF start, dead, late, made
  <2>6. CASE SetsStartup(dead) /\ Raise("PRIVATE_CONTAINERD_START_FAILED")
    <3>1. dead \in Startups /\ ValidStartup(dead) /\ dead.substage \in StartupFailures
      BY <2>4, EndedValid DEF EndsAs, StartupFailures
    <3> QED BY <2>6, <3>1, StartupFailed
  <2>7. CASE SetsStartup(late) /\ Raise("PRIVATE_CONTAINERD_START_FAILED")
    <3>1. late \in Startups /\ ValidStartup(late) /\ late.substage \in StartupFailures
      BY <2>5, EndedValid DEF EndsAs, StartupFailures
    <3> QED BY <2>7, <3>1, StartupFailed
  <2>8. CASE SetsStartup(made) /\ Advance("namespace0")
    BY <2>1, <2>3, <2>8, StartupGoesOn
  <2> QED
    BY <2>2, <2>6, <2>7, <2>8
<1>8. ASSUME NEW index \in 0..1, CreateContainerdNamespace(index)
      PROVE  ReceiptShape' /\ StartupKnown' /\ SameCleanup
  <2>1. CASE index = 0
    <3>1. Unproven(receipt.startup, TRUE, TRUE, 0) /\ code = "PASS"
          /\ receipt.startup \in Startups
      <4>1. pc = "namespace0"
        BY <1>8, <2>1 DEF CreateContainerdNamespace
      <4> QED
        BY <4>1 DEF StartupKnown, ExecuteSteps, ReceiptShape, Receipts
    <3> DEFINE start == receipt.startup
               tried == [start EXCEPT !.attempted = 1]
               made == [tried EXCEPT !.created = 1]
               ended == [tried EXCEPT !.substage = "NAMESPACE_CREATE_INITIAL_FAILED",
                                !.proof = TRUE]
    <3>2. \/ SetsStartup(ended) /\ Raise("PRIVATE_CONTAINERD_START_FAILED")
          \/ SetsStartup(made) /\ Advance("namespace1")
      <4>1. index + 1 = 1
        BY <2>1
      <4> QED
        BY <1>8, <2>1, <4>1 DEF CreateContainerdNamespace, StartupFails, SetsStartup
    <3>3. made \in Startups /\ Unproven(made, TRUE, TRUE, 1)
      BY <3>1, StepsOfStartup, Zero
    <3>4. ended \in Startups
          /\ EndsAs(ended, "NAMESPACE_CREATE_INITIAL_FAILED", FALSE, TRUE, FALSE, 1, 0, FALSE, FALSE)
          /\ ended.observed = 0
      <4>1. start \in Startups /\ start.started = TRUE /\ start.exit = FALSE
            /\ start.socket = TRUE /\ start.timeout = FALSE
            /\ start.attempted = 0 /\ start.created = 0 /\ start.readback = FALSE
            /\ start.confirmed = FALSE /\ start.observed = 0
        BY <3>1 DEF Unproven
      <4> HIDE DEF start
      <4>2. PICK i \in 0..2: i = 1
        OBVIOUS
      <4>3. LET t == [[start EXCEPT !.attempted = i]
                      EXCEPT !.substage = "NAMESPACE_CREATE_INITIAL_FAILED", !.proof = TRUE]
            IN  t \in Startups
                /\ EndsAs(t, "NAMESPACE_CREATE_INITIAL_FAILED", FALSE, TRUE, FALSE, i, 0, FALSE, FALSE)
                /\ t.observed = 0
        BY <4>1 DEF EndsAs, Startups, Substages, StartupFailures
      <4> QED BY <4>2, <4>3, Zenon
    <3> HIDE DEF start, tried, made, ended
    <3>5. CASE SetsStartup(ended) /\ Raise("PRIVATE_CONTAINERD_START_FAILED")
      <4>1. ended \in Startups /\ ValidStartup(ended) /\ ended.substage \in StartupFailures
        BY <3>4, EndedValid DEF EndsAs, StartupFailures
      <4> QED BY <3>5, <4>1, StartupFailed
    <3>6. CASE SetsStartup(made) /\ Advance("namespace1")
      BY <3>1, <3>3, <3>6, StartupGoesOn
    <3> QED
      BY <3>2, <3>5, <3>6
  <2>2. CASE index = 1
    <3>1. Unproven(receipt.startup, TRUE, TRUE, 1) /\ code = "PASS"
          /\ receipt.startup \in Startups
      <4>1. pc = "namespace1"
        BY <1>8, <2>2 DEF CreateContainerdNamespace
      <4> QED
        BY <4>1 DEF StartupKnown, ExecuteSteps, ReceiptShape, Receipts
    <3> DEFINE start == receipt.startup
               tried == [start EXCEPT !.attempted = 2]
               made == [tried EXCEPT !.created = 2]
               ended == [tried EXCEPT !.substage = "NAMESPACE_CREATE_RETRY_FAILED",
                                !.proof = TRUE]
    <3>2. \/ SetsStartup(ended) /\ Raise("PRIVATE_CONTAINERD_START_FAILED")
          \/ SetsStartup(made) /\ Advance("readback")
      <4>1. index + 1 = 2
        BY <2>2
      <4> QED
        BY <1>8, <2>2, <4>1 DEF CreateContainerdNamespace, StartupFails, SetsStartup
    <3>3. made \in Startups /\ Unproven(made, TRUE, TRUE, 2)
      BY <3>1, StepsOfStartup, Zero
    <3>4. ended \in Startups
          /\ EndsAs(ended, "NAMESPACE_CREATE_RETRY_FAILED", FALSE, TRUE, FALSE, 2, 1, FALSE, FALSE)
          /\ ended.observed = 0
      <4>1. start \in Startups /\ start.started = TRUE /\ start.exit = FALSE
            /\ start.socket = TRUE /\ start.timeout = FALSE
            /\ start.attempted = 1 /\ start.created = 1 /\ start.readback = FALSE
            /\ start.confirmed = FALSE /\ start.observed = 0
        BY <3>1 DEF Unproven
      <4> HIDE DEF start
      <4>2. PICK i \in 0..2: i = 2
        OBVIOUS
      <4>3. LET t == [[start EXCEPT !.attempted = i]
                      EXCEPT !.substage = "NAMESPACE_CREATE_RETRY_FAILED", !.proof = TRUE]
            IN  t \in Startups
                /\ EndsAs(t, "NAMESPACE_CREATE_RETRY_FAILED", FALSE, TRUE, FALSE, i, 1, FALSE, FALSE)
                /\ t.observed = 0
        BY <4>1 DEF EndsAs, Startups, Substages, StartupFailures
      <4> QED BY <4>2, <4>3, Zenon
    <3> HIDE DEF start, tried, made, ended
    <3>5. CASE SetsStartup(ended) /\ Raise("PRIVATE_CONTAINERD_START_FAILED")
      <4>1. ended \in Startups /\ ValidStartup(ended) /\ ended.substage \in StartupFailures
        BY <3>4, EndedValid DEF EndsAs, StartupFailures
      <4> QED BY <3>5, <4>1, StartupFailed
    <3>6. CASE SetsStartup(made) /\ Advance("readback")
      BY <3>1, <3>3, <3>6, StartupGoesOn
    <3> QED
      BY <3>2, <3>5, <3>6
  <2> QED
    BY <1>8, <2>1, <2>2
<1>9. CASE VerifyContainerdNamespaces
  <2>1. Unproven(receipt.startup, TRUE, TRUE, 2) /\ code = "PASS"
        /\ receipt.startup \in Startups
    <3>1. pc = "readback"
      BY <1>9 DEF VerifyContainerdNamespaces
    <3> QED
      BY <3>1 DEF StartupKnown, ExecuteSteps, ReceiptShape, Receipts
  <2> DEFINE start == receipt.startup
             read(n) == [start EXCEPT !.readback = TRUE, !.observed = n]
             ready == [read(2) EXCEPT !.confirmed = TRUE, !.substage = "READY", !.proof = TRUE]
             ended(n) == [read(n) EXCEPT !.substage = "NAMESPACE_READBACK_FAILED",
                                 !.proof = TRUE]
  <2>2. PICK n \in 0..2: \/ SetsStartup(ready) /\ Advance("dockerd")
                         \/ SetsStartup(ended(n)) /\ Raise("PRIVATE_CONTAINERD_START_FAILED")
    BY <1>9 DEF VerifyContainerdNamespaces, StartupFails, SetsStartup
  <2>3. start \in Startups /\ start.started = TRUE /\ start.exit = FALSE
        /\ start.socket = TRUE /\ start.timeout = FALSE
        /\ start.attempted = 2 /\ start.created = 2 /\ start.confirmed = FALSE
    BY <2>1 DEF Unproven
  <2> HIDE DEF start
  <2>4. ready \in Startups /\ EndsAs(ready, "READY", FALSE, TRUE, FALSE, 2, 2, TRUE, TRUE)
        /\ ready.observed = 2
    BY <2>3 DEF EndsAs, Startups, Substages, StartupFailures
  <2>5. ended(n) \in Startups
        /\ EndsAs(ended(n), "NAMESPACE_READBACK_FAILED", FALSE, TRUE, FALSE, 2, 2, TRUE, FALSE)
    BY <2>3 DEF EndsAs, Startups, Substages, StartupFailures
  <2> HIDE DEF read, ready, ended
  <2>6. CASE SetsStartup(ready) /\ Advance("dockerd")
    <3>1. ready \in Startups /\ ValidStartup(ready) /\ ready.substage = "READY"
      BY <2>4, EndedValid DEF EndsAs
    <3> QED BY <2>1, <2>6, <3>1, StartupGoesOn
  <2>7. CASE SetsStartup(ended(n)) /\ Raise("PRIVATE_CONTAINERD_START_FAILED")
    <3>1. ended(n) \in Startups /\ ValidStartup(ended(n))
          /\ ended(n).substage \in StartupFailures
      BY <2>5, EndedValid DEF EndsAs, StartupFailures
    <3> QED BY <2>7, <3>1, StartupFailed
  <2> QED
    BY <2>2, <2>6, <2>7
<1>10. CASE StartDockerd
  <2>1. ReceiptShape' /\ receipt'.startup = receipt.startup /\ SameCleanup
    BY <1>10, ReceiptKept DEF StartDockerd
  <2> QED
    BY <1>10, <2>1 DEF StartDockerd, Raise, Advance, Expect, BeforeSocket, Starting,
       ExecuteSteps, StartupKnown
<1>11. CASE WaitForDockerd
  <2>1. ReceiptShape' /\ receipt'.startup = receipt.startup /\ SameCleanup
    BY <1>11, ReceiptKept DEF WaitForDockerd
  <2> QED
    BY <1>11, <2>1 DEF WaitForDockerd, Raise, Advance, Expect, BeforeSocket, Starting,
       ExecuteSteps, StartupKnown
<1>12. CASE VerifyBoundaries
  <2>1. ReceiptShape' /\ receipt'.startup = receipt.startup /\ SameCleanup
    BY <1>12, ReceiptKept, ShowsMore DEF VerifyBoundaries, Observe, Showings
  <2> QED
    BY <1>12, <2>1 DEF VerifyBoundaries, Raise, Advance, Expect, Observe, BeforeSocket,
       Starting, ExecuteSteps, StartupKnown
<1>13. CASE LoadImage
  <2>1. ReceiptShape' /\ receipt'.startup = receipt.startup /\ SameCleanup
    BY <1>13, ReceiptKept, ShowsMore DEF LoadImage, Make, Showings
  <2> QED
    BY <1>13, <2>1 DEF LoadImage, Raise, Advance, Expect, Make, BeforeSocket, Starting,
       ExecuteSteps, StartupKnown
<1>14. CASE CreatePrivateNetwork
  <2>1. ReceiptShape' /\ receipt'.startup = receipt.startup /\ SameCleanup
    BY <1>14, ReceiptKept, ShowsMore DEF CreatePrivateNetwork, Make, Showings
  <2> QED
    BY <1>14, <2>1 DEF CreatePrivateNetwork, Raise, Advance, Expect, Make, BeforeSocket,
       Starting, ExecuteSteps, StartupKnown
<1>15. CASE StartService
  <2>1. ReceiptShape' /\ receipt'.startup = receipt.startup /\ SameCleanup
    BY <1>15, ReceiptKept, ShowsMore DEF StartService, Make, Showings
  <2> QED
    BY <1>15, <2>1 DEF StartService, Raise, Advance, Expect, Make, BeforeSocket, Starting,
       ExecuteSteps, StartupKnown
<1>16. CASE StartClient
  <2>1. ReceiptShape' /\ receipt'.startup = receipt.startup /\ SameCleanup
    BY <1>16, ReceiptKept, ShowsMore DEF StartClient, Make, Showings
  <2> QED
    BY <1>16, <2>1 DEF StartClient, Raise, Advance, Expect, Make, BeforeSocket, Starting,
       ExecuteSteps, StartupKnown
<1>17. CASE VerifyContainers
  <2>1. ReceiptShape' /\ receipt'.startup = receipt.startup /\ SameCleanup
    BY <1>17, ReceiptKept, ShowsMore DEF VerifyContainers, Observe, Showings
  <2> QED
    BY <1>17, <2>1 DEF VerifyContainers, Raise, Advance, Expect, Observe, BeforeSocket,
       Starting, ExecuteSteps, StartupKnown
<1>18. CASE RunNetworkCanaries
  <2>1. ReceiptShape' /\ receipt'.startup = receipt.startup /\ SameCleanup
    BY <1>18, ReceiptKept, ShowsMore DEF RunNetworkCanaries, Observe, Showings
  <2> QED
    BY <1>18, <2>1 DEF RunNetworkCanaries, Raise, Advance, Expect, Observe, BeforeSocket,
       Starting, ExecuteSteps, StartupKnown
<1>19. CASE VerifyLoopbackProxy
  <2>1. ReceiptShape' /\ receipt'.startup = receipt.startup /\ SameCleanup
    BY <1>19, ReceiptKept, ShowsMore DEF VerifyLoopbackProxy, Showings
  <2> QED
    BY <1>19, <2>1 DEF VerifyLoopbackProxy, Raise, Advance, Expect, BeforeSocket, Starting,
       ExecuteSteps, StartupKnown
<1> QED
  BY <1>1, <1>2, <1>3, <1>4, <1>5, <1>6, <1>7, <1>8, <1>9, <1>10, <1>11, <1>12, <1>13, <1>14,
     <1>15, <1>16, <1>17, <1>18, <1>19 DEF Execute

-----------------------------------------------------------------------------
(* What a step of execute() or cleanup() leaves alone *)

(* execute() goes on to its next step or to cleanup(). *)
LEMMA ExecuteGoesOn ==
  ASSUME Execute
  PROVE  pc \in ExecuteSteps /\ pc' \in ExecuteSteps \cup {"sync"} /\ UNCHANGED shell
<1>1. CASE ValidateArguments
  BY <1>1 DEF ValidateArguments, Raise, Advance, Expect, ExecuteSteps
<1>2. CASE PrepareHostImage
  BY <1>2 DEF PrepareHostImage, Raise, Advance, Expect, ExecuteSteps
<1>3. CASE TakePreimage
  BY <1>3 DEF TakePreimage, Raise, Advance, Expect, ExecuteSteps
<1>4. CASE CreateCgroup
  BY <1>4 DEF CreateCgroup, Raise, Advance, Expect, ExecuteSteps
<1>5. CASE CreateNetns
  BY <1>5 DEF CreateNetns, Raise, Advance, Expect, ExecuteSteps
<1>6. CASE StartContainerd
  BY <1>6 DEF StartContainerd, Raise, Advance, Expect, ExecuteSteps
<1>7. CASE WaitForContainerdSocket
  BY <1>7 DEF WaitForContainerdSocket, Raise, Advance, Expect, StartupFails, ExecuteSteps
<1>8. ASSUME NEW index \in 0..1, CreateContainerdNamespace(index)
      PROVE  pc \in ExecuteSteps /\ pc' \in ExecuteSteps \cup {"sync"} /\ UNCHANGED shell
  BY <1>8 DEF CreateContainerdNamespace, Raise, Advance, Expect, StartupFails, ExecuteSteps
<1>9. CASE VerifyContainerdNamespaces
  BY <1>9 DEF VerifyContainerdNamespaces, Raise, Advance, Expect, StartupFails, ExecuteSteps
<1>10. CASE StartDockerd
  BY <1>10 DEF StartDockerd, Raise, Advance, Expect, ExecuteSteps
<1>11. CASE WaitForDockerd
  BY <1>11 DEF WaitForDockerd, Raise, Advance, Expect, ExecuteSteps
<1>12. CASE VerifyBoundaries
  BY <1>12 DEF VerifyBoundaries, Raise, Advance, Expect, Observe, Shows, ExecuteSteps
<1>13. CASE LoadImage
  BY <1>13 DEF LoadImage, Raise, Advance, Expect, Make, Shows, ExecuteSteps
<1>14. CASE CreatePrivateNetwork
  BY <1>14 DEF CreatePrivateNetwork, Raise, Advance, Expect, Make, Shows, ExecuteSteps
<1>15. CASE StartService
  BY <1>15 DEF StartService, Raise, Advance, Expect, Make, Shows, ExecuteSteps
<1>16. CASE StartClient
  BY <1>16 DEF StartClient, Raise, Advance, Expect, Make, Shows, ExecuteSteps
<1>17. CASE VerifyContainers
  BY <1>17 DEF VerifyContainers, Raise, Advance, Expect, Observe, Shows, ExecuteSteps
<1>18. CASE RunNetworkCanaries
  BY <1>18 DEF RunNetworkCanaries, Raise, Advance, Expect, Observe, Shows, ExecuteSteps
<1>19. CASE VerifyLoopbackProxy
  BY <1>19 DEF VerifyLoopbackProxy, Raise, Advance, Expect, Shows, ExecuteSteps
<1> QED
  BY <1>1, <1>2, <1>3, <1>4, <1>5, <1>6, <1>7, <1>8, <1>9, <1>10, <1>11, <1>12, <1>13, <1>14,
     <1>15, <1>16, <1>17, <1>18, <1>19 DEF Execute

LEMMA ExecuteKeepsHost ==
  ASSUME HostShape, Execute
  PROVE  host'.drifted = host.drifted
<1>1. CASE ValidateArguments
  BY <1>1 DEF ValidateArguments, Raise, Advance, Expect, HostShape
<1>2. CASE PrepareHostImage
  BY <1>2 DEF PrepareHostImage, Raise, Advance, Expect, HostShape
<1>3. CASE TakePreimage
  BY <1>3 DEF TakePreimage, Raise, Advance, Expect, HostShape
<1>4. CASE CreateCgroup
  BY <1>4 DEF CreateCgroup, Raise, Advance, Expect, HostShape
<1>5. CASE CreateNetns
  BY <1>5 DEF CreateNetns, Raise, Advance, Expect, HostShape
<1>6. CASE StartContainerd
  BY <1>6 DEF StartContainerd, Raise, Advance, Expect, HostShape
<1>7. CASE WaitForContainerdSocket
  BY <1>7 DEF WaitForContainerdSocket, Raise, Advance, Expect, StartupFails, HostShape
<1>8. ASSUME NEW index \in 0..1, CreateContainerdNamespace(index)
      PROVE  host'.drifted = host.drifted
  BY <1>8 DEF CreateContainerdNamespace, Raise, Advance, Expect, StartupFails, HostShape
<1>9. CASE VerifyContainerdNamespaces
  BY <1>9 DEF VerifyContainerdNamespaces, Raise, Advance, Expect, StartupFails, HostShape
<1>10. CASE StartDockerd
  BY <1>10 DEF StartDockerd, Raise, Advance, Expect, HostShape
<1>11. CASE WaitForDockerd
  BY <1>11 DEF WaitForDockerd, Raise, Advance, Expect, HostShape
<1>12. CASE VerifyBoundaries
  BY <1>12 DEF VerifyBoundaries, Raise, Advance, Expect, Observe, Shows, HostShape
<1>13. CASE LoadImage
  BY <1>13 DEF LoadImage, Raise, Advance, Expect, Make, Shows, HostShape
<1>14. CASE CreatePrivateNetwork
  BY <1>14 DEF CreatePrivateNetwork, Raise, Advance, Expect, Make, Shows, HostShape
<1>15. CASE StartService
  BY <1>15 DEF StartService, Raise, Advance, Expect, Make, Shows, HostShape
<1>16. CASE StartClient
  BY <1>16 DEF StartClient, Raise, Advance, Expect, Make, Shows, HostShape
<1>17. CASE VerifyContainers
  BY <1>17 DEF VerifyContainers, Raise, Advance, Expect, Observe, Shows, HostShape
<1>18. CASE RunNetworkCanaries
  BY <1>18 DEF RunNetworkCanaries, Raise, Advance, Expect, Observe, Shows, HostShape
<1>19. CASE VerifyLoopbackProxy
  BY <1>19 DEF VerifyLoopbackProxy, Raise, Advance, Expect, Shows, HostShape
<1> QED
  BY <1>1, <1>2, <1>3, <1>4, <1>5, <1>6, <1>7, <1>8, <1>9, <1>10, <1>11, <1>12, <1>13, <1>14,
     <1>15, <1>16, <1>17, <1>18, <1>19 DEF Execute

LEMMA ExecuteKeepsLate ==
  ASSUME DockerShape, Execute
  PROVE  docker'.late # {} /\ docker'.dockerd # "up"
           => docker.late # {} /\ docker.dockerd # "up"
<1>1. CASE ValidateArguments
  BY <1>1 DEF ValidateArguments, Raise, Advance, Expect, DockerShape, Up
<1>2. CASE PrepareHostImage
  BY <1>2 DEF PrepareHostImage, Raise, Advance, Expect, DockerShape, Up
<1>3. CASE TakePreimage
  BY <1>3 DEF TakePreimage, Raise, Advance, Expect, DockerShape, Up
<1>4. CASE CreateCgroup
  BY <1>4 DEF CreateCgroup, Raise, Advance, Expect, DockerShape, Up
<1>5. CASE CreateNetns
  BY <1>5 DEF CreateNetns, Raise, Advance, Expect, DockerShape, Up
<1>6. CASE StartContainerd
  BY <1>6 DEF StartContainerd, Raise, Advance, Expect, DockerShape, Up
<1>7. CASE WaitForContainerdSocket
  BY <1>7 DEF WaitForContainerdSocket, Raise, Advance, Expect, StartupFails, DockerShape, Up
<1>8. ASSUME NEW index \in 0..1, CreateContainerdNamespace(index)
      PROVE  docker'.late # {} /\ docker'.dockerd # "up"
               => docker.late # {} /\ docker.dockerd # "up"
  BY <1>8 DEF CreateContainerdNamespace, Raise, Advance, Expect, StartupFails, DockerShape, Up
<1>9. CASE VerifyContainerdNamespaces
  BY <1>9 DEF VerifyContainerdNamespaces, Raise, Advance, Expect, StartupFails, DockerShape, Up
<1>10. CASE StartDockerd
  BY <1>10 DEF StartDockerd, Raise, Advance, Expect, DockerShape, Up
<1>11. CASE WaitForDockerd
  BY <1>11 DEF WaitForDockerd, Raise, Advance, Expect, DockerShape, Up
<1>12. CASE VerifyBoundaries
  BY <1>12 DEF VerifyBoundaries, Raise, Advance, Expect, Observe, Shows, DockerShape, Up
<1>13. CASE LoadImage
  BY <1>13 DEF LoadImage, Raise, Advance, Expect, Make, Shows, DockerShape, Up
<1>14. CASE CreatePrivateNetwork
  BY <1>14 DEF CreatePrivateNetwork, Raise, Advance, Expect, Make, Shows, DockerShape, Up
<1>15. CASE StartService
  BY <1>15 DEF StartService, Raise, Advance, Expect, Make, Shows, DockerShape, Up
<1>16. CASE StartClient
  BY <1>16 DEF StartClient, Raise, Advance, Expect, Make, Shows, DockerShape, Up
<1>17. CASE VerifyContainers
  BY <1>17 DEF VerifyContainers, Raise, Advance, Expect, Observe, Shows, DockerShape, Up
<1>18. CASE RunNetworkCanaries
  BY <1>18 DEF RunNetworkCanaries, Raise, Advance, Expect, Observe, Shows, DockerShape, Up
<1>19. CASE VerifyLoopbackProxy
  BY <1>19 DEF VerifyLoopbackProxy, Raise, Advance, Expect, Shows, DockerShape, Up
<1> QED
  BY <1>1, <1>2, <1>3, <1>4, <1>5, <1>6, <1>7, <1>8, <1>9, <1>10, <1>11, <1>12, <1>13, <1>14,
     <1>15, <1>16, <1>17, <1>18, <1>19 DEF Execute

LEMMA ExecuteInCgroup ==
  ASSUME SelfShape, DockerShape, HostShape, InCgroup, Execute
  PROVE  InCgroup'
<1>1. CASE ValidateArguments
  BY <1>1 DEF ValidateArguments, Raise, Advance, Expect, SelfShape, Selves, DockerShape,
     HostShape, InCgroup, Quiet, Up, Daemons, BeforeCgroup, ExecuteSteps, Latched
<1>2. CASE PrepareHostImage
  BY <1>2 DEF PrepareHostImage, Raise, Advance, Expect, SelfShape, Selves, DockerShape,
     HostShape, InCgroup, Quiet, Up, Daemons, BeforeCgroup, ExecuteSteps, Latched
<1>3. CASE TakePreimage
  BY <1>3 DEF TakePreimage, Raise, Advance, Expect, SelfShape, Selves, DockerShape, HostShape,
     InCgroup, Quiet, Up, Daemons, BeforeCgroup, ExecuteSteps, Latched
<1>4. CASE CreateCgroup
  BY <1>4 DEF CreateCgroup, Raise, Advance, Expect, SelfShape, Selves, DockerShape, HostShape,
     InCgroup, Quiet, Up, Daemons, BeforeCgroup, ExecuteSteps, Latched
<1>5. CASE CreateNetns
  <2>1. self.cgroup /\ pc \in ExecuteSteps \ BeforeCgroup
    BY <1>5 DEF CreateNetns, InCgroup, BeforeCgroup, ExecuteSteps
  <2>2. self'.cgroup = self.cgroup
    BY <1>5 DEF CreateNetns, SelfShape, Selves
  <2> QED
    BY <2>1, <2>2 DEF InCgroup
<1>6. CASE StartContainerd
  <2>1. self.cgroup /\ pc \in ExecuteSteps \ BeforeCgroup
    BY <1>6 DEF StartContainerd, InCgroup, BeforeCgroup, ExecuteSteps
  <2>2. self'.cgroup = self.cgroup
    BY <1>6 DEF StartContainerd, SelfShape, Selves
  <2> QED
    BY <2>1, <2>2 DEF InCgroup
<1>7. CASE WaitForContainerdSocket
  <2>1. self.cgroup /\ pc \in ExecuteSteps \ BeforeCgroup
    BY <1>7 DEF WaitForContainerdSocket, InCgroup, BeforeCgroup, ExecuteSteps
  <2>2. self'.cgroup = self.cgroup
    BY <1>7 DEF WaitForContainerdSocket, SelfShape, Selves
  <2> QED
    BY <2>1, <2>2 DEF InCgroup
<1>8. ASSUME NEW index \in 0..1, CreateContainerdNamespace(index)
      PROVE  InCgroup'
  BY <1>8 DEF CreateContainerdNamespace, Raise, Advance, Expect, StartupFails, SelfShape,
     Selves, DockerShape, HostShape, InCgroup, Quiet, Up, Daemons, BeforeCgroup, ExecuteSteps,
     Latched
<1>9. CASE VerifyContainerdNamespaces
  <2>1. self.cgroup /\ pc \in ExecuteSteps \ BeforeCgroup
    BY <1>9 DEF VerifyContainerdNamespaces, InCgroup, BeforeCgroup, ExecuteSteps
  <2>2. self'.cgroup = self.cgroup
    BY <1>9 DEF VerifyContainerdNamespaces, SelfShape, Selves
  <2> QED
    BY <2>1, <2>2 DEF InCgroup
<1>10. CASE StartDockerd
  <2>1. self.cgroup /\ pc \in ExecuteSteps \ BeforeCgroup
    BY <1>10 DEF StartDockerd, InCgroup, BeforeCgroup, ExecuteSteps
  <2>2. self'.cgroup = self.cgroup
    BY <1>10 DEF StartDockerd, SelfShape, Selves
  <2> QED
    BY <2>1, <2>2 DEF InCgroup
<1>11. CASE WaitForDockerd
  <2>1. self.cgroup /\ pc \in ExecuteSteps \ BeforeCgroup
    BY <1>11 DEF WaitForDockerd, InCgroup, BeforeCgroup, ExecuteSteps
  <2>2. self'.cgroup = self.cgroup
    BY <1>11 DEF WaitForDockerd, SelfShape, Selves
  <2> QED
    BY <2>1, <2>2 DEF InCgroup
<1>12. CASE VerifyBoundaries
  <2>1. self.cgroup /\ pc \in ExecuteSteps \ BeforeCgroup
    BY <1>12 DEF VerifyBoundaries, Observe, InCgroup, BeforeCgroup, ExecuteSteps
  <2>2. self'.cgroup = self.cgroup
    BY <1>12 DEF VerifyBoundaries, Observe, SelfShape, Selves
  <2> QED
    BY <2>1, <2>2 DEF InCgroup
<1>13. CASE LoadImage
  <2>1. self.cgroup /\ pc \in ExecuteSteps \ BeforeCgroup
    BY <1>13 DEF LoadImage, Make, InCgroup, BeforeCgroup, ExecuteSteps
  <2>2. self'.cgroup = self.cgroup
    BY <1>13 DEF LoadImage, Make, Latched, SelfShape, Selves
  <2> QED
    BY <2>1, <2>2 DEF InCgroup
<1>14. CASE CreatePrivateNetwork
  <2>1. self.cgroup /\ pc \in ExecuteSteps \ BeforeCgroup
    BY <1>14 DEF CreatePrivateNetwork, Make, InCgroup, BeforeCgroup, ExecuteSteps
  <2>2. self'.cgroup = self.cgroup
    BY <1>14 DEF CreatePrivateNetwork, Make, Latched, SelfShape, Selves
  <2> QED
    BY <2>1, <2>2 DEF InCgroup
<1>15. CASE StartService
  <2>1. self.cgroup /\ pc \in ExecuteSteps \ BeforeCgroup
    BY <1>15 DEF StartService, Make, InCgroup, BeforeCgroup, ExecuteSteps
  <2>2. self'.cgroup = self.cgroup
    BY <1>15 DEF StartService, Make, Latched, SelfShape, Selves
  <2> QED
    BY <2>1, <2>2 DEF InCgroup
<1>16. CASE StartClient
  <2>1. self.cgroup /\ pc \in ExecuteSteps \ BeforeCgroup
    BY <1>16 DEF StartClient, Make, InCgroup, BeforeCgroup, ExecuteSteps
  <2>2. self'.cgroup = self.cgroup
    BY <1>16 DEF StartClient, Make, Latched, SelfShape, Selves
  <2> QED
    BY <2>1, <2>2 DEF InCgroup
<1>17. CASE VerifyContainers
  <2>1. self.cgroup /\ pc \in ExecuteSteps \ BeforeCgroup
    BY <1>17 DEF VerifyContainers, Observe, InCgroup, BeforeCgroup, ExecuteSteps
  <2>2. self'.cgroup = self.cgroup
    BY <1>17 DEF VerifyContainers, Observe, SelfShape, Selves
  <2> QED
    BY <2>1, <2>2 DEF InCgroup
<1>18. CASE RunNetworkCanaries
  <2>1. self.cgroup /\ pc \in ExecuteSteps \ BeforeCgroup
    BY <1>18 DEF RunNetworkCanaries, Observe, InCgroup, BeforeCgroup, ExecuteSteps
  <2>2. self'.cgroup = self.cgroup
    BY <1>18 DEF RunNetworkCanaries, Observe, SelfShape, Selves
  <2> QED
    BY <2>1, <2>2 DEF InCgroup
<1>19. CASE VerifyLoopbackProxy
  <2>1. self.cgroup /\ pc \in ExecuteSteps \ BeforeCgroup
    BY <1>19 DEF VerifyLoopbackProxy, InCgroup, BeforeCgroup, ExecuteSteps
  <2>2. self'.cgroup = self.cgroup
    BY <1>19 DEF VerifyLoopbackProxy, SelfShape, Selves
  <2> QED
    BY <2>1, <2>2 DEF InCgroup
<1> QED
  BY <1>1, <1>2, <1>3, <1>4, <1>5, <1>6, <1>7, <1>8, <1>9, <1>10, <1>11, <1>12, <1>13, <1>14,
     <1>15, <1>16, <1>17, <1>18, <1>19 DEF Execute

(* cleanup() goes on to its next step, or out of it. *)
LEMMA CleanupGoesOn ==
  ASSUME Cleanup
  PROVE  pc \in CleanupSteps /\ pc' \in (CleanupSteps \ {"sync"}) \cup {"report"}
         /\ UNCHANGED <<code, shell>>
<1>1. CASE Synchronize
  BY <1>1 DEF Synchronize, Outcome, CleanupSteps
<1>2. CASE CleanDocker
  BY <1>2 DEF CleanDocker, CountObjects, RemoveObject, Outcome, Counts, CleanupSteps
<1>3. CASE StopDockerd
  BY <1>3 DEF StopDockerd, StopProcess, Advance, Outcome, CleanupSteps
<1>4. CASE StopContainerd
  BY <1>4 DEF StopContainerd, StopProcess, Advance, Outcome, CleanupSteps
<1>5. CASE DeleteNetns
  BY <1>5 DEF DeleteNetns, Counts, Outcome, Advance, CleanupSteps
<1>6. CASE QueryNetns
  BY <1>6 DEF QueryNetns, Counts, Outcome, Advance, CleanupSteps
<1>7. CASE RemoveCgroup
  BY <1>7 DEF RemoveCgroup, Counts, Outcome, Advance, CleanupSteps
<1>8. CASE RemoveRuntime
  BY <1>8 DEF RemoveRuntime, Counts, Outcome, Advance, CleanupSteps
<1>9. CASE QueryListener
  BY <1>9 DEF QueryListener, Counts, Outcome, Advance, CleanupSteps
<1>10. CASE QueryFirewall
  BY <1>10 DEF QueryFirewall, QueryHost, Outcome, Advance, CleanupSteps
<1>11. CASE QueryLinks
  BY <1>11 DEF QueryLinks, QueryHost, Outcome, Advance, CleanupSteps
<1>12. CASE FinalizeCleanup
  BY <1>12 DEF FinalizeCleanup, Advance, CleanupSteps
<1>13. CASE CleanupRaises
  BY <1>13 DEF CleanupRaises, Advance, CleanupSteps
<1> QED
  BY <1>1, <1>2, <1>3, <1>4, <1>5, <1>6, <1>7, <1>8, <1>9, <1>10, <1>11,
     <1>12, <1>13 DEF Cleanup

LEMMA CleanupKeepsHost ==
  ASSUME HostShape, Cleanup
  PROVE  host'.drifted = host.drifted
<1>1. CASE Synchronize
  BY <1>1 DEF Synchronize, Outcome, HostShape
<1>2. CASE CleanDocker
  BY <1>2 DEF CleanDocker, CountObjects, RemoveObject, Outcome, Counts, HostShape
<1>3. CASE StopDockerd
  BY <1>3 DEF StopDockerd, StopProcess, Advance, Outcome, HostShape
<1>4. CASE StopContainerd
  BY <1>4 DEF StopContainerd, StopProcess, Advance, Outcome, HostShape
<1>5. CASE DeleteNetns
  BY <1>5 DEF DeleteNetns, Counts, Outcome, Advance, HostShape
<1>6. CASE QueryNetns
  BY <1>6 DEF QueryNetns, Counts, Outcome, Advance, HostShape
<1>7. CASE RemoveCgroup
  BY <1>7 DEF RemoveCgroup, Counts, Outcome, Advance, HostShape
<1>8. CASE RemoveRuntime
  BY <1>8 DEF RemoveRuntime, Counts, Outcome, Advance, HostShape
<1>9. CASE QueryListener
  BY <1>9 DEF QueryListener, Counts, Outcome, Advance, HostShape
<1>10. CASE QueryFirewall
  BY <1>10 DEF QueryFirewall, QueryHost, Outcome, Advance, HostShape
<1>11. CASE QueryLinks
  BY <1>11 DEF QueryLinks, QueryHost, Outcome, Advance, HostShape
<1>12. CASE FinalizeCleanup
  BY <1>12 DEF FinalizeCleanup, Advance, HostShape
<1>13. CASE CleanupRaises
  BY <1>13 DEF CleanupRaises, Advance, HostShape
<1> QED
  BY <1>1, <1>2, <1>3, <1>4, <1>5, <1>6, <1>7, <1>8, <1>9, <1>10, <1>11,
     <1>12, <1>13 DEF Cleanup

LEMMA CleanupKeepsLate ==
  ASSUME DockerShape, LedgerShape, Cleanup
  PROVE  docker'.late # {} /\ docker'.dockerd # "up" =>
            (docker.late # {} /\ docker.dockerd # "up") \/ "STOP_DOCKERD" \in ledger'.failures
<1>1. CASE Synchronize
  BY <1>1 DEF Synchronize, Outcome, DockerShape, LedgerShape, Up, Note
<1>2. CASE CleanDocker
  BY <1>2 DEF CleanDocker, CountObjects, RemoveObject, Outcome, Counts, DockerShape,
     LedgerShape, Up, Note
<1>3. CASE StopDockerd
  <2>1. CASE UNCHANGED docker
    BY <2>1
  <2>2. CASE docker' = [docker EXCEPT !["dockerd"] = "gone", !.late = {}]
    BY <2>2 DEF DockerShape
  <2>3. CASE Outcome("STOP_DOCKERD", FALSE)
    BY <2>3 DEF Outcome, Note, LedgerShape
  <2> QED
    BY <1>3, <2>1, <2>2, <2>3 DEF StopDockerd, StopProcess, Up
<1>4. CASE StopContainerd
  BY <1>4 DEF StopContainerd, StopProcess, Advance, Outcome, DockerShape, LedgerShape, Up, Note
<1>5. CASE DeleteNetns
  BY <1>5 DEF DeleteNetns, Counts, Outcome, Advance, DockerShape, LedgerShape, Up, Note
<1>6. CASE QueryNetns
  BY <1>6 DEF QueryNetns, Counts, Outcome, Advance, DockerShape, LedgerShape, Up, Note
<1>7. CASE RemoveCgroup
  BY <1>7 DEF RemoveCgroup, Counts, Outcome, Advance, DockerShape, LedgerShape, Up, Note
<1>8. CASE RemoveRuntime
  BY <1>8 DEF RemoveRuntime, Counts, Outcome, Advance, DockerShape, LedgerShape, Up, Note
<1>9. CASE QueryListener
  BY <1>9 DEF QueryListener, Counts, Outcome, Advance, DockerShape, LedgerShape, Up, Note
<1>10. CASE QueryFirewall
  BY <1>10 DEF QueryFirewall, QueryHost, Outcome, Advance, DockerShape, LedgerShape, Up, Note
<1>11. CASE QueryLinks
  BY <1>11 DEF QueryLinks, QueryHost, Outcome, Advance, DockerShape, LedgerShape, Up, Note
<1>12. CASE FinalizeCleanup
  BY <1>12 DEF FinalizeCleanup, Advance, DockerShape, LedgerShape, Up, Note
<1>13. CASE CleanupRaises
  BY <1>13 DEF CleanupRaises, Advance, DockerShape, LedgerShape, Up, Note
<1> QED
  BY <1>1, <1>2, <1>3, <1>4, <1>5, <1>6, <1>7, <1>8, <1>9, <1>10, <1>11,
     <1>12, <1>13 DEF Cleanup

LEMMA CleanupInCgroup ==
  ASSUME SelfShape, DockerShape, HostShape, InCgroup, Cleanup
  PROVE  InCgroup'
<1>1. CASE Synchronize
  BY <1>1 DEF Synchronize, Outcome, SelfShape, Selves, DockerShape, HostShape, InCgroup,
     Quiet, Up, Daemons, ExecuteSteps
<1>2. CASE CleanDocker
  BY <1>2 DEF CleanDocker, CountObjects, RemoveObject, Outcome, Counts, SelfShape, Selves,
     DockerShape, HostShape, InCgroup, Quiet, Up, Daemons, ExecuteSteps
<1>3. CASE StopDockerd
  BY <1>3 DEF StopDockerd, StopProcess, Advance, Outcome, SelfShape, Selves, DockerShape,
     HostShape, InCgroup, Quiet, Up, Daemons, ExecuteSteps
<1>4. CASE StopContainerd
  BY <1>4 DEF StopContainerd, StopProcess, Advance, Outcome, SelfShape, Selves, DockerShape,
     HostShape, InCgroup, Quiet, Up, Daemons, ExecuteSteps
<1>5. CASE DeleteNetns
  BY <1>5 DEF DeleteNetns, Counts, Outcome, Advance, SelfShape, Selves, DockerShape,
     HostShape, InCgroup, Quiet, Up, Daemons, ExecuteSteps
<1>6. CASE QueryNetns
  BY <1>6 DEF QueryNetns, Counts, Outcome, Advance, SelfShape, Selves, DockerShape, HostShape,
     InCgroup, Quiet, Up, Daemons, ExecuteSteps
<1>7. CASE RemoveCgroup
  BY <1>7 DEF RemoveCgroup, Counts, Outcome, Advance, SelfShape, Selves, DockerShape,
     HostShape, InCgroup, Quiet, Up, Daemons, ExecuteSteps
<1>8. CASE RemoveRuntime
  BY <1>8 DEF RemoveRuntime, Counts, Outcome, Advance, SelfShape, Selves, DockerShape,
     HostShape, InCgroup, Quiet, Up, Daemons, ExecuteSteps
<1>9. CASE QueryListener
  BY <1>9 DEF QueryListener, Counts, Outcome, Advance, SelfShape, Selves, DockerShape,
     HostShape, InCgroup, Quiet, Up, Daemons, ExecuteSteps
<1>10. CASE QueryFirewall
  BY <1>10 DEF QueryFirewall, QueryHost, Outcome, Advance, SelfShape, Selves, DockerShape,
     HostShape, InCgroup, Quiet, Up, Daemons, ExecuteSteps
<1>11. CASE QueryLinks
  BY <1>11 DEF QueryLinks, QueryHost, Outcome, Advance, SelfShape, Selves, DockerShape,
     HostShape, InCgroup, Quiet, Up, Daemons, ExecuteSteps
<1>12. CASE FinalizeCleanup
  BY <1>12 DEF FinalizeCleanup, Advance, SelfShape, Selves, DockerShape, HostShape, InCgroup,
     Quiet, Up, Daemons, ExecuteSteps
<1>13. CASE CleanupRaises
  BY <1>13 DEF CleanupRaises, Advance, SelfShape, Selves, DockerShape, HostShape, InCgroup,
     Quiet, Up, Daemons, ExecuteSteps
<1> QED
  BY <1>1, <1>2, <1>3, <1>4, <1>5, <1>6, <1>7, <1>8, <1>9, <1>10, <1>11,
     <1>12, <1>13 DEF Cleanup

-----------------------------------------------------------------------------
(* The receipt in cleanup() *)

(* What only finalize_cleanup_completeness changes *)
SameClaim ==
    /\ receipt'.startup = receipt.startup
    /\ receipt'.query = receipt.query /\ receipt'.action = receipt.action
    /\ receipt'.finalized = receipt.finalized /\ receipt'.proof = receipt.proof
    /\ receipt'.succeeded = receipt.succeeded
    /\ pc # "sync" => receipt'.attempted = receipt.attempted
    /\ pc = "sync" => receipt'.attempted = TRUE

LEMMA CountersAre ==
  /\ DockerQueries \subseteq Counters
  /\ {"processes", "namespaces", "cgroups", "roots", "listeners", "veths"} \subseteq Counters
BY DEF Counters

LEMMA ReceiptStands ==
  ASSUME ReceiptShape, UNCHANGED receipt, pc # "sync"
  PROVE  ReceiptShape' /\ SameClaim
BY DEF ReceiptShape, SameClaim

LEMMA CountedClaim ==
  ASSUME ReceiptShape, NEW counter \in Counters, NEW zero \in BOOLEAN, Counts(counter, zero),
         pc # "sync"
  PROVE  ReceiptShape' /\ SameClaim
BY Counted DEF SameButCounts, SameClaim

(* A step of cleanup() before the last leaves the claims of the receipt alone. *)
LEMMA CleanupReceipt ==
  ASSUME SelfShape, LedgerShape, ReceiptShape, CompletenessKnown, Cleanup, ~FinalizeCleanup
  PROVE  ReceiptShape' /\ SameClaim
<1>1. CASE Synchronize
  <2>1. receipt' = [receipt EXCEPT !.attempted = TRUE] /\ pc = "sync"
    BY <1>1 DEF Synchronize
  <2>2. 0 \in 0..19
    OBVIOUS
  <2> QED
    BY <2>1, <2>2, Attempted DEF SameClaim
<1>2. CASE CleanDocker
  <2> DEFINE op == DockerOps[self.item]
  <2>1. op \in Actions \/ op \in DockerQueries
    <3>1. self.item \in 1..8
      BY DEF SelfShape, Selves
    <3> QED
      BY <3>1, DockerOpsAre
  <2>2. op \in Queries => op \in Counters
    <3>1. op \in Actions => op \notin Queries
      BY DEF Actions, Queries, DockerQueries
    <3> QED
      BY <2>1, <3>1, CountersAre
  <2> HIDE DEF op
  <2>3. pc = "docker" /\ (UNCHANGED receipt \/ (op \in Queries /\ CountObjects(op)))
    BY <1>2 DEF CleanDocker, op
  <2>4. ASSUME op \in Queries, CountObjects(op)
        PROVE  \E zero \in BOOLEAN: Counts(op, zero)
    BY <2>4 DEF CountObjects
  <2> QED
    BY <2>2, <2>3, <2>4, ReceiptStands, CountedClaim
<1>3. CASE StopDockerd
  BY <1>3, ReceiptStands DEF StopDockerd, StopProcess
<1>4. CASE StopContainerd
  BY <1>4, ReceiptStands DEF StopContainerd, StopProcess
<1>5. CASE DeleteNetns
  <2>1. pc = "delete netns"
        /\ (UNCHANGED receipt \/ \E zero \in BOOLEAN: Counts("processes", zero))
    BY <1>5 DEF DeleteNetns
  <2> QED
    BY <2>1, CountersAre, ReceiptStands, CountedClaim
<1>6. CASE QueryNetns
  <2>1. pc = "query netns"
        /\ (UNCHANGED receipt \/ \E zero \in BOOLEAN: Counts("namespaces", zero))
    BY <1>6 DEF QueryNetns
  <2> QED
    BY <2>1, CountersAre, ReceiptStands, CountedClaim
<1>7. CASE RemoveCgroup
  <2>1. pc = "remove cgroup"
        /\ (UNCHANGED receipt \/ \E zero \in BOOLEAN: Counts("cgroups", zero))
    BY <1>7 DEF RemoveCgroup
  <2> QED
    BY <2>1, CountersAre, ReceiptStands, CountedClaim
<1>8. CASE RemoveRuntime
  <2>1. pc = "remove runtime"
        /\ (UNCHANGED receipt \/ \E zero \in BOOLEAN: Counts("roots", zero))
    BY <1>8 DEF RemoveRuntime
  <2> QED
    BY <2>1, CountersAre, ReceiptStands, CountedClaim
<1>9. CASE QueryListener
  <2>1. pc = "query listener"
        /\ (UNCHANGED receipt \/ \E zero \in BOOLEAN: Counts("listeners", zero))
    BY <1>9 DEF QueryListener
  <2> QED
    BY <2>1, CountersAre, ReceiptStands, CountedClaim
<1>10. CASE QueryFirewall
  <2>1. PICK ok \in BOOLEAN:
           LET restored == ok /\ self.preimage["firewall"] /\ "firewall" \notin host.drifted IN
           receipt' = [receipt EXCEPT
                 !.restored = IF restored THEN @ \cup {"firewall"} ELSE @,
                 !.nonzero = IF "firewall" = "links" /\ (~restored \/ "namespaces" \in @)
                             THEN @ \cup {"veths"} ELSE @]
    BY <1>10 DEF QueryFirewall, QueryHost
  <2> DEFINE r == ok /\ self.preimage["firewall"] /\ "firewall" \notin host.drifted
             restored == IF r THEN receipt.restored \cup {"firewall"} ELSE receipt.restored
             nonzero == IF "firewall" = "links" /\ (~r \/ "namespaces" \in receipt.nonzero)
                        THEN receipt.nonzero \cup {"veths"} ELSE receipt.nonzero
  <2>2. receipt' = [receipt EXCEPT !.restored = restored, !.nonzero = nonzero]
    BY <2>1
  <2> HIDE DEF r
  <2>3. restored \in SUBSET Host /\ nonzero \in SUBSET Counters
    BY CountersAre DEF ReceiptShape, Receipts, Host
  <2>4. pc # "sync"
    BY <1>10 DEF QueryFirewall, QueryHost
  <2> HIDE DEF restored, nonzero
  <2> QED
    BY <2>2, <2>3, <2>4, HostQueried DEF SameButCounts, SameClaim
<1>11. CASE QueryLinks
  <2>1. PICK ok \in BOOLEAN:
           LET restored == ok /\ self.preimage["links"] /\ "links" \notin host.drifted IN
           receipt' = [receipt EXCEPT
                 !.restored = IF restored THEN @ \cup {"links"} ELSE @,
                 !.nonzero = IF "links" = "links" /\ (~restored \/ "namespaces" \in @)
                             THEN @ \cup {"veths"} ELSE @]
    BY <1>11 DEF QueryLinks, QueryHost
  <2> DEFINE r == ok /\ self.preimage["links"] /\ "links" \notin host.drifted
             restored == IF r THEN receipt.restored \cup {"links"} ELSE receipt.restored
             nonzero == IF "links" = "links" /\ (~r \/ "namespaces" \in receipt.nonzero)
                        THEN receipt.nonzero \cup {"veths"} ELSE receipt.nonzero
  <2>2. receipt' = [receipt EXCEPT !.restored = restored, !.nonzero = nonzero]
    BY <2>1
  <2> HIDE DEF r
  <2>3. restored \in SUBSET Host /\ nonzero \in SUBSET Counters
    BY CountersAre DEF ReceiptShape, Receipts, Host
  <2>4. pc # "sync"
    BY <1>11 DEF QueryLinks, QueryHost
  <2> HIDE DEF restored, nonzero
  <2> QED
    BY <2>2, <2>3, <2>4, HostQueried DEF SameButCounts, SameClaim
<1>12. CASE CleanupRaises
  <2> DEFINE n == Cardinality(ledger.failures) + 1
  <2>1. n \in 0..19
    <3>1. ledger.failures \in SUBSET Ops
      BY DEF LedgerShape
    <3>2. Cardinality(ledger.failures) \in 0..18
      BY <3>1, CountsAre
    <3> QED BY <3>2
  <2>2. receipt' = [receipt EXCEPT !.attempted = TRUE, !.failures = n]
    BY <1>12 DEF CleanupRaises
  <2> HIDE DEF n
  <2>3. /\ ReceiptShape' /\ receipt'.attempted = TRUE
        /\ receipt'.startup = receipt.startup
        /\ receipt'.query = receipt.query /\ receipt'.action = receipt.action
        /\ receipt'.finalized = receipt.finalized /\ receipt'.proof = receipt.proof
        /\ receipt'.succeeded = receipt.succeeded
    BY <2>1, <2>2, Attempted
  <2>4. pc # "sync" => receipt.attempted = TRUE
    BY <1>12 DEF CleanupRaises, CompletenessKnown, ReceiptShape, Receipts
  <2> QED
    BY <2>3, <2>4 DEF SameClaim
<1> QED
  BY <1>1, <1>2, <1>3, <1>4, <1>5, <1>6, <1>7, <1>8, <1>9, <1>10, <1>11, <1>12 DEF Cleanup

-----------------------------------------------------------------------------
(* finalize_cleanup_completeness *)

LEMMA CompletenessStays ==
  ASSUME CompletenessKnown, pc \in CleanupSteps,
         pc' \in (CleanupSteps \ {"sync"}) \cup {"report"},
         SameClaim
  PROVE  CompletenessKnown' /\ receipt'.proof = receipt.proof
<1>1. ~receipt.finalized /\ (pc # "sync" => receipt.attempted)
  BY DEF CompletenessKnown, CleanupSteps, Ends
<1>2. ~receipt'.finalized /\ (pc' # "report" => receipt'.attempted)
  BY <1>1 DEF SameClaim
<1>3. ~receipt'.proof /\ ~receipt'.succeeded /\ receipt'.query = NoCounts
      /\ receipt'.action = NoCounts
  BY <1>1 DEF SameClaim, CompletenessKnown, ValidCompleteness
<1>4. ValidCompleteness(receipt')
  BY <1>2, <1>3 DEF ValidCompleteness
<1> QED
  BY <1>2, <1>4 DEF CompletenessKnown, CleanupSteps, SameClaim

LEMMA CompletenessExecute ==
  ASSUME CompletenessKnown, pc \in ExecuteSteps, pc' \in ExecuteSteps \cup {"sync"}, SameCleanup
  PROVE  CompletenessKnown'
<1>1. ~receipt.finalized
  BY DEF CompletenessKnown, ExecuteSteps, Ends
<1>2. ~receipt'.finalized
  BY <1>1 DEF SameCleanup
<1>3. ~receipt'.proof /\ ~receipt'.succeeded /\ receipt'.query = NoCounts
      /\ receipt'.action = NoCounts
  BY <1>1 DEF SameCleanup, CompletenessKnown, ValidCompleteness
<1>4. ValidCompleteness(receipt')
  BY <1>2, <1>3 DEF ValidCompleteness
<1>5. pc' \notin CleanupSteps \ {"sync"}
  BY DEF ExecuteSteps, CleanupSteps
<1> QED
  BY <1>2, <1>4, <1>5 DEF CompletenessKnown

(* The counts of one category *)
LEMMA CountsOfCategory ==
  ASSUME LedgerShape, LedgerKnows, NEW category \in SUBSET Ops
  PROVE  LET c == Completeness(category)
             failed == (ledger.attempted \ ledger.succeeded) \cap category
         IN  /\ c \in OpCounts
             /\ c.succeeded <= c.attempted /\ c.attempted <= c.required
             /\ c.failures = c.attempted - c.succeeded
             /\ c.complete = (c.required = c.attempted /\ c.attempted = c.succeeded)
             /\ c.failures = Cardinality(failed)
<1> DEFINE R == ledger.required \cap category
           A == ledger.attempted \cap category
           S == ledger.succeeded \cap category
           r == Cardinality(R)
           a == Cardinality(A)
           s == Cardinality(S)
           c == Completeness(category)
<1>1. R \in SUBSET Ops /\ A \in SUBSET Ops /\ A \in SUBSET R /\ S \in SUBSET A
  BY DEF LedgerShape, LedgerKnows
<1>2. A \ S = (ledger.attempted \ ledger.succeeded) \cap category
  OBVIOUS
<1> HIDE DEF R, A, S
<1>3. Cardinality(A) \in 0..18 /\ Cardinality(R) \in 0..18 /\ Cardinality(A) <= Cardinality(R)
  BY <1>1, CountsAre
<1>4. /\ Cardinality(S) \in 0..18 /\ Cardinality(S) <= Cardinality(A)
      /\ Cardinality(A) - Cardinality(S) = Cardinality(A \ S)
  BY <1>1, CountsAre
<1>5. c = [required |-> r, attempted |-> a, succeeded |-> s, failures |-> a - s,
           complete |-> r = a /\ a = s]
  BY DEF Completeness, R, A, S
<1> HIDE DEF r, a, s, c
<1>6. r \in 0..18 /\ a \in 0..18 /\ s \in 0..18 /\ s <= a /\ a <= r /\ a - s \in 0..18
  BY <1>3, <1>4 DEF r, a, s
<1>7. (r = a /\ a = s) \in BOOLEAN
  OBVIOUS
<1>8. /\ c.required = r /\ c.attempted = a /\ c.succeeded = s /\ c.failures = a - s
      /\ c.complete = (r = a /\ a = s)
  BY <1>5
<1>9. c \in OpCounts
  BY <1>5, <1>6 DEF OpCounts
<1>10. a - s = Cardinality((ledger.attempted \ ledger.succeeded) \cap category)
  BY <1>2, <1>4 DEF a, s
<1> QED
  BY <1>6, <1>8, <1>9, <1>10 DEF c

(* Every operation that failed, of either kind, is a failure. *)
LEMMA FailuresAreCounted ==
  ASSUME LedgerShape, LedgerKnows
  PROVE  /\ Cardinality(ledger.failures) \in 0..19
         /\ Completeness(Queries).failures + Completeness(Actions).failures
               <= Cardinality(ledger.failures)
<1> DEFINE F == ledger.attempted \ ledger.succeeded
           Q == F \cap Queries
           A == F \cap Actions
<1>1. F \in SUBSET Ops /\ Q \in SUBSET Ops /\ A \in SUBSET Ops /\ Q \cup A \in SUBSET Ops
      /\ ledger.failures \in SUBSET Ops /\ Q \cup A \in SUBSET ledger.failures
  BY DEF LedgerShape, LedgerKnows
<1>2. Q \cap A = {}
  BY DEF Queries, Actions, DockerQueries
<1>3. /\ Completeness(Queries).failures = Cardinality(Q)
      /\ Completeness(Actions).failures = Cardinality(A)
  BY CountsOfCategory DEF Ops
<1> HIDE DEF F, Q, A
<1>4. /\ IsFiniteSet(Q) /\ IsFiniteSet(A) /\ Cardinality(Q) \in 0..18
         /\ Cardinality(A) \in 0..18
      /\ Cardinality(ledger.failures) \in 0..18
      /\ Cardinality(Q \cup A) \in 0..18
      /\ Cardinality(Q \cup A) <= Cardinality(ledger.failures)
  BY <1>1, CountsAre
<1>5. Cardinality(Q \cup A) = Cardinality(Q) + Cardinality(A) - Cardinality(Q \cap A)
  BY <1>4, FS_Union
<1>6. Cardinality(Q \cap A) = 0
  BY <1>2, FS_EmptySet
<1> QED
  BY <1>3, <1>4, <1>5, <1>6

LEMMA FinalReceipt ==
  ASSUME LedgerShape, LedgerKnows, ReceiptShape, CompletenessKnown, FinalizeCleanup
  PROVE  /\ ReceiptShape' /\ receipt'.startup = receipt.startup /\ CompletenessKnown'
         /\ receipt'.proof =>
              ledger.failures = {} /\ receipt.nonzero = {} /\ receipt.restored = Host
         /\ receipt'.restored = receipt.restored
<1> DEFINE query == Completeness(Queries)
           action == Completeness(Actions)
           n == Cardinality(ledger.failures)
           proof == /\ ledger.failures = {} /\ query.complete /\ action.complete
                    /\ receipt.nonzero = {} /\ receipt.restored = Host
<1>1. /\ query \in OpCounts /\ query.succeeded <= query.attempted
         /\ query.attempted <= query.required
      /\ query.failures = query.attempted - query.succeeded
      /\ query.complete = (query.required = query.attempted /\ query.attempted = query.succeeded)
  BY CountsOfCategory DEF Ops
<1>2. /\ action \in OpCounts /\ action.succeeded <= action.attempted
         /\ action.attempted <= action.required
      /\ action.failures = action.attempted - action.succeeded
      /\ action.complete = (action.required = action.attempted /\ action.attempted = action.succeeded)
  BY CountsOfCategory DEF Ops
<1>3. n \in 0..19 /\ query.failures + action.failures <= n
  BY FailuresAreCounted
<1>4. proof => n = 0
  BY FS_EmptySet
<1>5. Finalizes(query, action, n, proof)
  BY DEF FinalizeCleanup, Finalizes
<1>6. proof => /\ ledger.failures = {} /\ query.complete /\ action.complete
               /\ receipt.nonzero = {} /\ receipt.restored = Host
  OBVIOUS
<1>7. proof \in BOOLEAN
  OBVIOUS
<1> HIDE DEF query, action, n, proof
<1>8. /\ ReceiptShape'
      /\ receipt'.startup = receipt.startup /\ receipt'.attempted = receipt.attempted
      /\ receipt'.query = query /\ receipt'.action = action /\ receipt'.failures = n
      /\ receipt'.finalized = TRUE /\ receipt'.proof = proof /\ receipt'.succeeded = proof
      /\ receipt'.nonzero = receipt.nonzero /\ receipt'.restored = receipt.restored
  BY <1>1, <1>2, <1>3, <1>5, <1>7, Finalized
<1>9. receipt.attempted = TRUE /\ pc' = "report"
  BY DEF FinalizeCleanup, Advance, CompletenessKnown, CleanupSteps, ReceiptShape, Receipts
<1>10. ValidCompleteness(receipt')
  <2>1. receipt'.attempted = TRUE
    BY <1>8, <1>9
  <2>2. \A c \in {query, action}:
               /\ c.succeeded <= c.attempted /\ c.attempted <= c.required
               /\ c.failures = c.attempted - c.succeeded
               /\ c.complete = (/\ receipt'.attempted
                                /\ c.required = c.attempted /\ c.attempted = c.succeeded)
    BY <1>1, <1>2, <2>1
  <2>3. n >= query.failures + action.failures
    BY <1>1, <1>2, <1>3 DEF OpCounts
  <2> QED
    BY <1>4, <1>6, <1>8, <2>1, <2>2, <2>3 DEF ValidCompleteness
<1>11. CompletenessKnown'
  BY <1>8, <1>9, <1>10 DEF CompletenessKnown, Ends, CleanupSteps
<1> QED
  BY <1>6, <1>8, <1>11

-----------------------------------------------------------------------------
(* The end of run_probe, the shell, the daemons and the host *)

LEMMA StartupCleanup ==
  ASSUME StartupKnown, receipt'.startup = receipt.startup, pc \in CleanupSteps,
         pc' \in (CleanupSteps \ {"sync"}) \cup {"report"}, code' = code
  PROVE  StartupKnown'
BY DEF StartupKnown, CleanupSteps, BeforeSocket, Starting, ExecuteSteps

LEMMA ReceiptWorld ==
  ASSUME Next, ~Execute, ~Cleanup
  PROVE  UNCHANGED receipt
<1>1. CASE Classify
  BY <1>1 DEF Classify
<1>2. CASE WriteReceipt
  BY <1>2 DEF WriteReceipt
<1>3. CASE Die
  BY <1>3 DEF Die
<1>4. CASE StartProbe
  BY <1>4 DEF StartProbe
<1>5. CASE Judge
  BY <1>5 DEF Judge
<1>6. CASE DockerdListens
  BY <1>6 DEF DockerdListens
<1>7. ASSUME NEW d \in Daemons, DaemonExits(d)
      PROVE  UNCHANGED receipt
  BY <1>7 DEF DaemonExits
<1>8. ASSUME NEW object \in Objects, ServeLate(object)
      PROVE  UNCHANGED receipt
  BY <1>8 DEF ServeLate
<1>9. ASSUME NEW h \in Host, Drift(h)
      PROVE  UNCHANGED receipt
  BY <1>9 DEF Drift
<1> QED
  BY <1>1, <1>2, <1>3, <1>4, <1>5, <1>6, <1>7, <1>8, <1>9 DEF Next, Probe

LEMMA ShellWorld ==
  ASSUME ShellShape, Next, ~Execute, ~Cleanup
  PROVE  ShellShape'
<1>1. CASE Classify
  BY <1>1 DEF Classify, ShellShape
<1>2. CASE WriteReceipt
  BY <1>2 DEF WriteReceipt, ShellShape
<1>3. CASE Die
  <2>1. PICK file \in {"none", "torn", "receipt"}, rc \in {0, 1, 2, 137}:
           shell' = [shell EXCEPT !.file = file, !.rc = rc]
    BY <1>3 DEF Die
  <2> QED BY <2>1 DEF ShellShape
<1>4. CASE StartProbe
  <2>1. CASE shell.file # "none" \/ host.runtime # "none"
    <3>1. PICK at \in {"start", "wait", "done"}, verdict \in Verdicts:
             shell' = [shell EXCEPT !.at = at, !.verdict = verdict]
      BY <1>4, <2>1 DEF StartProbe, Verdicts
    <3> QED BY <3>1 DEF ShellShape
  <2>2. CASE ~(shell.file # "none" \/ host.runtime # "none")
    <3>1. PICK at \in {"start", "wait", "done"}, file \in {"none", "torn", "receipt"}:
             shell' = [shell EXCEPT !.at = at, !.file = file]
      BY <1>4, <2>2 DEF StartProbe
    <3> QED BY <3>1 DEF ShellShape
  <2> QED BY <2>1, <2>2
<1>5. CASE Judge
  <2>1. PICK ok \in BOOLEAN: shell' = [shell EXCEPT
               !.at = "done",
               !.file = IF ok /\ @ = "torn" THEN "none" ELSE @,
               !.verdict = CASE ~ok -> "runner-failed"
                             [] ok /\ shell.file = "torn" -> "evidence-invalid"
                             [] ok /\ shell.file = "receipt" /\ code = "PASS" /\ shell.rc = 0
                                    -> "capability-pass"
                             [] ok /\ shell.file = "receipt" /\ code # "PASS" /\ shell.rc = 1
                                    -> "rejected"
                             [] OTHER -> "evidence-exit-mismatch"]
    BY <1>5 DEF Judge
  <2> DEFINE file == IF ok /\ shell.file = "torn" THEN "none" ELSE shell.file
             verdict == CASE ~ok -> "runner-failed"
                             [] ok /\ shell.file = "torn" -> "evidence-invalid"
                             [] ok /\ shell.file = "receipt" /\ code = "PASS" /\ shell.rc = 0
                                    -> "capability-pass"
                             [] ok /\ shell.file = "receipt" /\ code # "PASS" /\ shell.rc = 1
                                    -> "rejected"
                             [] OTHER -> "evidence-exit-mismatch"
  <2>2. file \in {"none", "torn", "receipt"}
    BY DEF ShellShape
  <2>3. verdict \in Verdicts
    BY DEF Verdicts
  <2>4. PICK at \in {"start", "wait", "done"}: at = "done"
    OBVIOUS
  <2>5. shell' = [shell EXCEPT !.at = at, !.file = file, !.verdict = verdict]
    BY <2>1, <2>4
  <2> HIDE DEF file, verdict
  <2> QED BY <2>2, <2>3, <2>4, <2>5 DEF ShellShape
<1>6. CASE DockerdListens
  BY <1>6 DEF DockerdListens, ShellShape
<1>7. ASSUME NEW d \in Daemons, DaemonExits(d)
      PROVE  ShellShape'
  BY <1>7 DEF DaemonExits, ShellShape
<1>8. ASSUME NEW object \in Objects, ServeLate(object)
      PROVE  ShellShape'
  BY <1>8 DEF ServeLate, ShellShape
<1>9. ASSUME NEW h \in Host, Drift(h)
      PROVE  ShellShape'
  BY <1>9 DEF Drift, ShellShape
<1> QED
  BY <1>1, <1>2, <1>3, <1>4, <1>5, <1>6, <1>7, <1>8, <1>9 DEF Next, Probe

LEMMA StartupWorld ==
  ASSUME StartupKnown, VerdictKnown, UNCHANGED receipt, Next, ~Execute, ~Cleanup
  PROVE  StartupKnown'
<1>1. CASE Classify
  BY <1>1 DEF Classify, StartupKnown, VerdictKnown, CleanupSteps, BeforeSocket, Starting,
     ExecuteSteps
<1>2. CASE WriteReceipt
  BY <1>2 DEF WriteReceipt, StartupKnown, VerdictKnown, CleanupSteps, BeforeSocket, Starting,
     ExecuteSteps
<1>3. CASE Die
  BY <1>3 DEF Die, StartupKnown, VerdictKnown, CleanupSteps,
     BeforeSocket, Starting, ExecuteSteps
<1>4. CASE StartProbe
  BY <1>4 DEF StartProbe, StartupKnown, VerdictKnown, CleanupSteps, BeforeSocket, Starting,
     ExecuteSteps
<1>5. CASE Judge
  BY <1>5 DEF Judge, StartupKnown, VerdictKnown, CleanupSteps,
     BeforeSocket, Starting, ExecuteSteps
<1>6. CASE DockerdListens
  BY <1>6 DEF DockerdListens, StartupKnown, VerdictKnown, CleanupSteps, BeforeSocket,
     Starting, ExecuteSteps
<1>7. ASSUME NEW d \in Daemons, DaemonExits(d)
      PROVE  StartupKnown'
  BY <1>7 DEF DaemonExits, StartupKnown, VerdictKnown, CleanupSteps, BeforeSocket, Starting,
     ExecuteSteps
<1>8. ASSUME NEW object \in Objects, ServeLate(object)
      PROVE  StartupKnown'
  BY <1>8 DEF ServeLate, StartupKnown, VerdictKnown, CleanupSteps, BeforeSocket, Starting,
     ExecuteSteps
<1>9. ASSUME NEW h \in Host, Drift(h)
      PROVE  StartupKnown'
  BY <1>9 DEF Drift, StartupKnown, VerdictKnown, CleanupSteps,
     BeforeSocket, Starting, ExecuteSteps
<1> QED
  BY <1>1, <1>2, <1>3, <1>4, <1>5, <1>6, <1>7, <1>8, <1>9 DEF Next, Probe

LEMMA CompletenessWorld ==
  ASSUME CompletenessKnown, VerdictKnown, UNCHANGED receipt, Next, ~Execute, ~Cleanup
  PROVE  CompletenessKnown'
<1>1. CASE Classify
  BY <1>1 DEF Classify, CompletenessKnown, VerdictKnown, CleanupSteps, Ends
<1>2. CASE WriteReceipt
  BY <1>2 DEF WriteReceipt, CompletenessKnown, VerdictKnown, CleanupSteps, Ends
<1>3. CASE Die
  BY <1>3 DEF Die, CompletenessKnown, VerdictKnown, CleanupSteps, Ends
<1>4. CASE StartProbe
  BY <1>4 DEF StartProbe, CompletenessKnown, VerdictKnown, CleanupSteps, Ends
<1>5. CASE Judge
  BY <1>5 DEF Judge, CompletenessKnown, VerdictKnown, CleanupSteps, Ends
<1>6. CASE DockerdListens
  BY <1>6 DEF DockerdListens, CompletenessKnown, VerdictKnown, CleanupSteps, Ends
<1>7. ASSUME NEW d \in Daemons, DaemonExits(d)
      PROVE  CompletenessKnown'
  BY <1>7 DEF DaemonExits, CompletenessKnown, VerdictKnown, CleanupSteps, Ends
<1>8. ASSUME NEW object \in Objects, ServeLate(object)
      PROVE  CompletenessKnown'
  BY <1>8 DEF ServeLate, CompletenessKnown, VerdictKnown, CleanupSteps, Ends
<1>9. ASSUME NEW h \in Host, Drift(h)
      PROVE  CompletenessKnown'
  BY <1>9 DEF Drift, CompletenessKnown, VerdictKnown, CleanupSteps, Ends
<1> QED
  BY <1>1, <1>2, <1>3, <1>4, <1>5, <1>6, <1>7, <1>8, <1>9 DEF Next, Probe

LEMMA InCgroupWorld ==
  ASSUME DockerShape, HostShape, InCgroup, VerdictKnown, Next, ~Execute, ~Cleanup
  PROVE  InCgroup'
<1>1. CASE Classify
  BY <1>1 DEF Classify, InCgroup, VerdictKnown, BeforeCgroup, ExecuteSteps, DockerShape,
     HostShape, Quiet, Up, Daemons
<1>2. CASE WriteReceipt
  BY <1>2 DEF WriteReceipt, InCgroup, VerdictKnown, BeforeCgroup, ExecuteSteps, DockerShape,
     HostShape, Quiet, Up, Daemons
<1>3. CASE Die
  BY <1>3 DEF Die, InCgroup, VerdictKnown, BeforeCgroup, ExecuteSteps, DockerShape, HostShape,
     Quiet, Up, Daemons
<1>4. CASE StartProbe
  BY <1>4 DEF StartProbe, InCgroup, VerdictKnown, BeforeCgroup, ExecuteSteps, DockerShape,
     HostShape, Quiet, Up, Daemons
<1>5. CASE Judge
  BY <1>5 DEF Judge, InCgroup, VerdictKnown, BeforeCgroup, ExecuteSteps, DockerShape,
     HostShape, Quiet, Up, Daemons
<1>6. CASE DockerdListens
  BY <1>6 DEF DockerdListens, InCgroup, VerdictKnown, BeforeCgroup, ExecuteSteps, DockerShape,
     HostShape, Quiet, Up, Daemons
<1>7. ASSUME NEW d \in Daemons, DaemonExits(d)
      PROVE  InCgroup'
  BY <1>7 DEF DaemonExits, InCgroup, VerdictKnown, BeforeCgroup, ExecuteSteps, DockerShape,
     HostShape, Quiet, Up, Daemons
<1>8. ASSUME NEW object \in Objects, ServeLate(object)
      PROVE  InCgroup'
  BY <1>8 DEF ServeLate, InCgroup, VerdictKnown, BeforeCgroup, ExecuteSteps, DockerShape,
     HostShape, Quiet, Up, Daemons
<1>9. ASSUME NEW h \in Host, Drift(h)
      PROVE  InCgroup'
  BY <1>9 DEF Drift, InCgroup, VerdictKnown, BeforeCgroup, ExecuteSteps, DockerShape,
     HostShape, Quiet, Up, Daemons
<1> QED
  BY <1>1, <1>2, <1>3, <1>4, <1>5, <1>6, <1>7, <1>8, <1>9 DEF Next, Probe

LEMMA VerdictWorld ==
  ASSUME CompletenessKnown, ProofStands, VerdictKnown, UNCHANGED receipt, ShellShape, Next,
         ~Execute, ~Cleanup
  PROVE  VerdictKnown'
<1>1. CASE Classify
  BY <1>1 DEF Classify, VerdictKnown, ShellShape, Verdicts
<1>2. CASE WriteReceipt
  BY <1>2 DEF WriteReceipt, VerdictKnown, ShellShape, Verdicts
<1>3. CASE Die
  <2>1. /\ pc # "idle" /\ pc' = "exited" /\ UNCHANGED <<code, receipt>>
        /\ shell'.at = shell.at /\ shell'.verdict = shell.verdict
        /\ shell'.file = "receipt" => pc = "write"
    BY <1>3 DEF Die, ShellShape
  <2> QED
    BY <2>1 DEF VerdictKnown
<1>4. CASE StartProbe
  BY <1>4, ZenonT(40) DEF StartProbe, VerdictKnown, ShellShape
<1>5. CASE Judge
  BY <1>5 DEF Judge, VerdictKnown, ShellShape, Verdicts
<1>6. CASE DockerdListens
  BY <1>6 DEF DockerdListens, VerdictKnown, ShellShape, Verdicts
<1>7. ASSUME NEW d \in Daemons, DaemonExits(d)
      PROVE  VerdictKnown'
  BY <1>7 DEF DaemonExits, VerdictKnown, ShellShape, Verdicts
<1>8. ASSUME NEW object \in Objects, ServeLate(object)
      PROVE  VerdictKnown'
  BY <1>8 DEF ServeLate, VerdictKnown, ShellShape, Verdicts
<1>9. ASSUME NEW h \in Host, Drift(h)
      PROVE  VerdictKnown'
  BY <1>9 DEF Drift, VerdictKnown, ShellShape, Verdicts
<1> QED
  BY <1>1, <1>2, <1>3, <1>4, <1>5, <1>6, <1>7, <1>8, <1>9 DEF Next, Probe

LEMMA FindingsWorld ==
  ASSUME DockerShape, HostShape, FoundGone, RestoredStands, LateIsFailed,
         UNCHANGED <<receipt, ledger>>, Next, ~Execute, ~Cleanup
  PROVE  FoundGone' /\ RestoredStands' /\ LateIsFailed'
<1>1. CASE Classify
  BY <1>1 DEF Classify, FoundGone, RestoredStands, LateIsFailed, Quiet, Up, Daemons,
     DockerShape, HostShape, Host, FromQueryLinks, FromQueryFirewall, FromQueryListener,
     FromRuntime, FromCgroup
<1>2. CASE WriteReceipt
  BY <1>2 DEF WriteReceipt, FoundGone, RestoredStands, LateIsFailed, Quiet, Up, Daemons,
     DockerShape, HostShape, Host, FromQueryLinks, FromQueryFirewall, FromQueryListener,
     FromRuntime, FromCgroup
<1>3. CASE Die
  BY <1>3 DEF Die, FoundGone, RestoredStands, LateIsFailed, Quiet, Up, Daemons, DockerShape,
     HostShape, Host, FromQueryLinks, FromQueryFirewall, FromQueryListener, FromRuntime,
     FromCgroup
<1>4. CASE StartProbe
  BY <1>4 DEF StartProbe, FoundGone, RestoredStands, LateIsFailed, Quiet, Up, Daemons,
     DockerShape, HostShape, Host, FromQueryLinks, FromQueryFirewall, FromQueryListener,
     FromRuntime, FromCgroup
<1>5. CASE Judge
  BY <1>5 DEF Judge, FoundGone, RestoredStands, LateIsFailed, Quiet, Up, Daemons, DockerShape,
     HostShape, Host, FromQueryLinks, FromQueryFirewall, FromQueryListener, FromRuntime,
     FromCgroup
<1>6. CASE DockerdListens
  BY <1>6 DEF DockerdListens, FoundGone, RestoredStands, LateIsFailed, Quiet, Up, Daemons,
     DockerShape, HostShape, Host, FromQueryLinks, FromQueryFirewall, FromQueryListener,
     FromRuntime, FromCgroup
<1>7. ASSUME NEW d \in Daemons, DaemonExits(d)
      PROVE  FoundGone' /\ RestoredStands' /\ LateIsFailed'
  BY <1>7 DEF DaemonExits, FoundGone, RestoredStands, LateIsFailed, Quiet, Up, Daemons,
     DockerShape, HostShape, Host, FromQueryLinks, FromQueryFirewall, FromQueryListener,
     FromRuntime, FromCgroup
<1>8. ASSUME NEW object \in Objects, ServeLate(object)
      PROVE  FoundGone' /\ RestoredStands' /\ LateIsFailed'
  BY <1>8 DEF ServeLate, FoundGone, RestoredStands, LateIsFailed, Quiet, Up, Daemons,
     DockerShape, HostShape, Host, FromQueryLinks, FromQueryFirewall, FromQueryListener,
     FromRuntime, FromCgroup
<1>9. ASSUME NEW h \in Host, Drift(h)
      PROVE  FoundGone' /\ RestoredStands' /\ LateIsFailed'
  <2>1. /\ UNCHANGED <<pc, ledger, receipt, docker>>
        /\ host'.netns = host.netns /\ host'.cgroup = host.cgroup
        /\ host'.running = host.running /\ host'.runtime = host.runtime
        /\ host'.port = host.port
    BY <1>9 DEF Drift, HostShape
  <2>2. FoundGone' /\ LateIsFailed'
    BY <2>1 DEF FoundGone, LateIsFailed, Quiet, Up
  <2>3. RestoredStands'
    BY <1>9 DEF Drift, RestoredStands, HostShape, Host
  <2> QED
    BY <2>2, <2>3
<1> QED
  BY <1>1, <1>2, <1>3, <1>4, <1>5, <1>6, <1>7, <1>8, <1>9 DEF Next, Probe

LEMMA ProofWorld ==
  ASSUME DockerShape, HostShape, ProofStands, VerdictKnown,
         UNCHANGED <<receipt, ledger>>, Next, ~Execute, ~Cleanup
  PROVE  ProofStands'
<1>1. CASE Classify
  BY <1>1 DEF Classify, ProofStands, NothingIsLeft, VerdictKnown, Up, Daemons, Ends,
     DockerShape, HostShape, Host
<1>2. CASE WriteReceipt
  BY <1>2 DEF WriteReceipt, ProofStands, NothingIsLeft, VerdictKnown, Up, Daemons, Ends,
     DockerShape, HostShape, Host
<1>3. CASE Die
  <2>1. pc' = "exited" /\ UNCHANGED <<receipt, ledger, docker, host>>
    BY <1>3 DEF Die
  <2> QED
    BY <2>1 DEF ProofStands, NothingIsLeft, Up, Ends
<1>4. CASE StartProbe
  BY <1>4 DEF StartProbe, ProofStands, NothingIsLeft, VerdictKnown, Up, Daemons, Ends,
     DockerShape, HostShape, Host
<1>5. CASE Judge
  BY <1>5 DEF Judge, ProofStands, NothingIsLeft, VerdictKnown, Up, Daemons, Ends, DockerShape,
     HostShape, Host
<1>6. CASE DockerdListens
  BY <1>6 DEF DockerdListens, ProofStands, NothingIsLeft, VerdictKnown, Up, Daemons, Ends,
     DockerShape, HostShape, Host
<1>7. ASSUME NEW d \in Daemons, DaemonExits(d)
      PROVE  ProofStands'
  BY <1>7 DEF DaemonExits, ProofStands, NothingIsLeft, VerdictKnown, Up, Daemons, Ends,
     DockerShape, HostShape, Host
<1>8. ASSUME NEW object \in Objects, ServeLate(object)
      PROVE  ProofStands'
  BY <1>8 DEF ServeLate, ProofStands, NothingIsLeft, VerdictKnown, Up, Daemons, Ends,
     DockerShape, HostShape, Host
<1>9. ASSUME NEW h \in Host, Drift(h)
      PROVE  ProofStands'
  BY <1>9 DEF Drift, ProofStands, NothingIsLeft, VerdictKnown, Up, Daemons, Ends, DockerShape,
     HostShape, Host
<1> QED
  BY <1>1, <1>2, <1>3, <1>4, <1>5, <1>6, <1>7, <1>8, <1>9 DEF Next, Probe

-----------------------------------------------------------------------------
(* What cleanup() finds *)

LEMMA FindingsExecute ==
  ASSUME SelfShape, DockerShape, HostShape, RestoredStands, LateIsFailed, Execute, SameCleanup
  PROVE  FoundGone' /\ RestoredStands' /\ LateIsFailed'
<1>1. pc' \in ExecuteSteps \cup {"sync"} /\ host'.drifted = host.drifted /\ UNCHANGED ledger
  BY ExecuteGoesOn, ExecuteKeepsHost, LedgerExecute
<1>2. docker'.late # {} /\ docker'.dockerd # "up" => docker.late # {} /\ docker.dockerd # "up"
  BY ExecuteKeepsLate
<1>3. FoundGone'
  BY <1>1 DEF FoundGone, FromQueryLinks, FromQueryFirewall, FromQueryListener, FromRuntime,
     FromCgroup, ExecuteSteps
<1>4. RestoredStands'
  BY <1>1 DEF RestoredStands, SameCleanup
<1>5. LateIsFailed'
  BY <1>1, <1>2 DEF LateIsFailed, Up
<1> QED BY <1>3, <1>4, <1>5

LEMMA FoundCleanup ==
  ASSUME SelfShape, HostShape, ReceiptShape, InCgroup, FoundGone, Cleanup
  PROVE  FoundGone'
<1>1. CASE Synchronize
  BY <1>1 DEF Synchronize, Outcome, FoundGone, FromQueryLinks, FromQueryFirewall,
     FromQueryListener, FromRuntime, FromCgroup
<1>2. CASE CleanDocker
  BY <1>2 DEF CleanDocker, CountObjects, RemoveObject, Outcome, Counts, FoundGone,
     FromQueryLinks, FromQueryFirewall, FromQueryListener, FromRuntime, FromCgroup
<1>3. CASE StopDockerd
  BY <1>3 DEF StopDockerd, StopProcess, Advance, Outcome, FoundGone, FromQueryLinks,
     FromQueryFirewall, FromQueryListener, FromRuntime, FromCgroup
<1>4. CASE StopContainerd
  BY <1>4 DEF StopContainerd, StopProcess, Advance, Outcome, FoundGone, FromQueryLinks,
     FromQueryFirewall, FromQueryListener, FromRuntime, FromCgroup
<1>5. CASE DeleteNetns
  BY <1>5 DEF DeleteNetns, Counts, Outcome, Advance, FoundGone, FromQueryLinks,
     FromQueryFirewall, FromQueryListener, FromRuntime, FromCgroup
<1>6. CASE QueryNetns
  <2>1. pc' = "remove cgroup" /\ UNCHANGED host
    BY <1>6 DEF QueryNetns, Advance
  <2>2. \E zero \in BOOLEAN: Counts("namespaces", zero) /\ (zero => host.netns = "none")
    BY <1>6 DEF QueryNetns
  <2>3. receipt'.nonzero = {} => host.netns = "none"
    BY <2>2, Counted, CountersAre
  <2> QED
    BY <2>1, <2>3 DEF FoundGone, FromQueryLinks, FromQueryFirewall, FromQueryListener,
       FromRuntime, FromCgroup
<1>7. CASE RemoveCgroup
  <2>1. pc = "remove cgroup" /\ pc' = "remove runtime" /\ UNCHANGED docker
    BY <1>7 DEF RemoveCgroup, Advance
  <2>2. host'.netns = host.netns /\ host'.running = host.running
    BY <1>7 DEF RemoveCgroup, HostShape
  <2>3. CASE ~self.cgroup
    <3>1. Counts("cgroups", host.cgroup = "none") /\ UNCHANGED host
      BY <1>7, <2>3 DEF RemoveCgroup
    <3>2. receipt'.nonzero = {} => host.cgroup = "none" /\ receipt.nonzero = {}
      BY <3>1, Counted, CountersAre
    <3>3. Quiet /\ host.running = {}
      BY <2>3 DEF InCgroup
    <3> QED
      BY <2>1, <2>2, <3>1, <3>2, <3>3 DEF FoundGone, Quiet, Up, FromQueryLinks,
         FromQueryFirewall, FromQueryListener, FromRuntime, FromCgroup
  <2>4. CASE self.cgroup
    <3>1. PICK ok \in BOOLEAN: /\ ok => CgroupEmpty
                               /\ Counts("cgroups", ok)
                               /\ host' = IF ok THEN [host EXCEPT !.cgroup = "none"] ELSE host
      BY <1>7, <2>4 DEF RemoveCgroup
    <3>2. receipt'.nonzero = {} => ok /\ receipt.nonzero = {}
      BY <3>1, Counted, CountersAre
    <3>3. ok => host'.cgroup = "none" /\ host.running = {} /\ Quiet
      BY <3>1 DEF HostShape, CgroupEmpty, Quiet
    <3> QED
      BY <2>1, <2>2, <3>2, <3>3 DEF FoundGone, Quiet, Up, FromQueryLinks,
         FromQueryFirewall, FromQueryListener, FromRuntime, FromCgroup
  <2> QED
    BY <2>3, <2>4
<1>8. CASE RemoveRuntime
  <2>1. pc = "remove runtime" /\ pc' = "query listener" /\ UNCHANGED docker
    BY <1>8 DEF RemoveRuntime, Advance
  <2>2. host'.netns = host.netns /\ host'.running = host.running /\ host'.cgroup = host.cgroup
    BY <1>8 DEF RemoveRuntime, HostShape
  <2>3. receipt'.nonzero = {} => receipt.nonzero = {} /\ host'.runtime = "none"
    <3>1. CASE UNCHANGED <<receipt, host>> /\ host.runtime = "none"
      BY <3>1
    <3>2. CASE \E ok \in BOOLEAN: /\ Counts("roots", ok)
                                  /\ host' = IF ok THEN [host EXCEPT !.runtime = "none"] ELSE host
      <4>1. PICK ok \in BOOLEAN: /\ Counts("roots", ok)
                                 /\ host' = IF ok THEN [host EXCEPT !.runtime = "none"] ELSE host
        BY <3>2
      <4>2. receipt'.nonzero = {} => ok /\ receipt.nonzero = {}
        BY <4>1, Counted, CountersAre
      <4>3. ok => host'.runtime = "none"
        BY <4>1 DEF HostShape
      <4> QED BY <4>2, <4>3
    <3> QED
      BY <1>8, <3>1, <3>2 DEF RemoveRuntime
  <2> QED
    BY <2>1, <2>2, <2>3 DEF FoundGone, Quiet, Up, FromQueryLinks, FromQueryFirewall,
       FromQueryListener, FromRuntime, FromCgroup
<1>9. CASE QueryListener
  <2>1. pc = "query listener" /\ pc' = "query firewall" /\ UNCHANGED <<docker, host>>
    BY <1>9 DEF QueryListener, Advance
  <2>2. Counts("listeners", host.port = "free")
    BY <1>9 DEF QueryListener
  <2>3. receipt'.nonzero = {} => receipt.nonzero = {} /\ host.port = "free"
    BY <2>2, Counted, CountersAre
  <2> QED
    BY <2>1, <2>3 DEF FoundGone, Quiet, Up, FromQueryLinks, FromQueryFirewall,
       FromQueryListener, FromRuntime, FromCgroup
<1>10. CASE QueryFirewall
  <2>1. pc = "query firewall" /\ pc' = "query links" /\ UNCHANGED <<docker, host>>
    BY <1>10 DEF QueryFirewall, QueryHost, Advance
  <2>2. receipt'.nonzero = {} => receipt.nonzero = {}
    BY <1>10 DEF QueryFirewall, QueryHost, ReceiptShape, Receipts
  <2> QED
    BY <2>1, <2>2 DEF FoundGone, Quiet, Up, FromQueryLinks, FromQueryFirewall,
       FromQueryListener, FromRuntime, FromCgroup
<1>11. CASE QueryLinks
  <2>1. pc = "query links" /\ pc' = "finalize" /\ UNCHANGED <<docker, host>>
    BY <1>11 DEF QueryLinks, QueryHost, Advance
  <2>2. receipt'.nonzero = {} => receipt.nonzero = {}
    BY <1>11 DEF QueryLinks, QueryHost, ReceiptShape, Receipts
  <2> QED
    BY <2>1, <2>2 DEF FoundGone, Quiet, Up, FromQueryLinks, FromQueryFirewall,
       FromQueryListener, FromRuntime, FromCgroup
<1>12. CASE FinalizeCleanup
  BY <1>12 DEF FinalizeCleanup, Advance, FoundGone, FromQueryLinks, FromQueryFirewall,
     FromQueryListener, FromRuntime, FromCgroup
<1>13. CASE CleanupRaises
  BY <1>13 DEF CleanupRaises, Advance, FoundGone, FromQueryLinks, FromQueryFirewall,
     FromQueryListener, FromRuntime, FromCgroup
<1> QED
  BY <1>1, <1>2, <1>3, <1>4, <1>5, <1>6, <1>7, <1>8, <1>9, <1>10, <1>11,
     <1>12, <1>13 DEF Cleanup

LEMMA LedgerGrows ==
  ASSUME SelfShape, LedgerShape, LedgerKnows, Cleanup
  PROVE  /\ LedgerShape' /\ LedgerKnows'
         /\ ledger.attempted \subseteq ledger'.attempted
         /\ ledger.failures \subseteq ledger'.failures
<1>1. CASE UNCHANGED ledger
  BY <1>1 DEF LedgerShape, LedgerKnows
<1>2. CASE \E op \in Ops, how \in {"done", "failed", "owed"}: Note(op, how)
  BY <1>2, NoteKnows
<1> QED BY <1>1, <1>2, LedgerCleanup

LEMMA RestoredCleanup ==
  ASSUME SelfShape, HostShape, ReceiptShape, LedgerShape, LedgerKnows, RestoredStands, Cleanup
  PROVE  RestoredStands'
<1>1. CASE Synchronize
  <2>1. receipt'.restored = receipt.restored
    BY <1>1 DEF Synchronize, ReceiptShape, Receipts
  <2> QED
    BY <2>1, CleanupKeepsHost, LedgerGrows DEF RestoredStands
<1>2. CASE CleanDocker
  <2>1. receipt'.restored = receipt.restored
    <3>1. UNCHANGED receipt \/ CountObjects(DockerOps[self.item])
      BY <1>2 DEF CleanDocker
    <3> QED
      BY <3>1 DEF CountObjects, Counts, ReceiptShape, Receipts
  <2> QED
    BY <2>1, CleanupKeepsHost, LedgerGrows DEF RestoredStands
<1>3. CASE StopDockerd
  <2>1. receipt'.restored = receipt.restored
    BY <1>3 DEF StopDockerd, StopProcess, ReceiptShape, Receipts
  <2> QED
    BY <2>1, CleanupKeepsHost, LedgerGrows DEF RestoredStands
<1>4. CASE StopContainerd
  <2>1. receipt'.restored = receipt.restored
    BY <1>4 DEF StopContainerd, StopProcess, ReceiptShape, Receipts
  <2> QED
    BY <2>1, CleanupKeepsHost, LedgerGrows DEF RestoredStands
<1>5. CASE DeleteNetns
  <2>1. receipt'.restored = receipt.restored
    BY <1>5 DEF DeleteNetns, Counts, ReceiptShape, Receipts
  <2> QED
    BY <2>1, CleanupKeepsHost, LedgerGrows DEF RestoredStands
<1>6. CASE QueryNetns
  <2>1. receipt'.restored = receipt.restored
    BY <1>6 DEF QueryNetns, Counts, ReceiptShape, Receipts
  <2> QED
    BY <2>1, CleanupKeepsHost, LedgerGrows DEF RestoredStands
<1>7. CASE RemoveCgroup
  <2>1. receipt'.restored = receipt.restored
    BY <1>7 DEF RemoveCgroup, Counts, ReceiptShape, Receipts
  <2> QED
    BY <2>1, CleanupKeepsHost, LedgerGrows DEF RestoredStands
<1>8. CASE RemoveRuntime
  <2>1. receipt'.restored = receipt.restored
    BY <1>8 DEF RemoveRuntime, Counts, ReceiptShape, Receipts
  <2> QED
    BY <2>1, CleanupKeepsHost, LedgerGrows DEF RestoredStands
<1>9. CASE QueryListener
  <2>1. receipt'.restored = receipt.restored
    BY <1>9 DEF QueryListener, Counts, ReceiptShape, Receipts
  <2> QED
    BY <2>1, CleanupKeepsHost, LedgerGrows DEF RestoredStands
<1>10. CASE QueryFirewall
  <2>1. UNCHANGED host /\ \E ok \in BOOLEAN: Outcome("QUERY_HOST_FIREWALL", ok)
    BY <1>10 DEF QueryFirewall, QueryHost
  <2>2. receipt'.restored \subseteq
         receipt.restored \cup (IF "firewall" \in host.drifted THEN {} ELSE {"firewall"})
    BY <1>10 DEF QueryFirewall, QueryHost, ReceiptShape, Receipts
  <2>3. "QUERY_HOST_FIREWALL" \in ledger'.attempted
        /\ ledger.attempted \subseteq ledger'.attempted
    BY <2>1 DEF Outcome, Note, LedgerShape
  <2> QED
    BY <2>1, <2>2, <2>3 DEF RestoredStands
<1>11. CASE QueryLinks
  <2>1. UNCHANGED host /\ \E ok \in BOOLEAN: Outcome("QUERY_HOST_LINKS", ok)
    BY <1>11 DEF QueryLinks, QueryHost
  <2>2. receipt'.restored \subseteq
         receipt.restored \cup (IF "links" \in host.drifted THEN {} ELSE {"links"})
    BY <1>11 DEF QueryLinks, QueryHost, ReceiptShape, Receipts
  <2>3. "QUERY_HOST_LINKS" \in ledger'.attempted /\ ledger.attempted \subseteq ledger'.attempted
    BY <2>1 DEF Outcome, Note, LedgerShape
  <2> QED
    BY <2>1, <2>2, <2>3 DEF RestoredStands
<1>12. CASE FinalizeCleanup
  <2>1. receipt'.restored = receipt.restored
    BY <1>12 DEF FinalizeCleanup, ReceiptShape, Receipts
  <2> QED
    BY <2>1, CleanupKeepsHost, LedgerGrows DEF RestoredStands
<1>13. CASE CleanupRaises
  <2>1. receipt'.restored = receipt.restored
    BY <1>13 DEF CleanupRaises, ReceiptShape, Receipts
  <2> QED
    BY <2>1, CleanupKeepsHost, LedgerGrows DEF RestoredStands
<1> QED
  BY <1>1, <1>2, <1>3, <1>4, <1>5, <1>6, <1>7, <1>8, <1>9, <1>10, <1>11,
     <1>12, <1>13 DEF Cleanup

LEMMA LateCleanup ==
  ASSUME SelfShape, DockerShape, LedgerShape, LedgerKnows, LateIsFailed, Cleanup
  PROVE  LateIsFailed'
BY CleanupKeepsLate, LedgerGrows DEF LateIsFailed, Up

-----------------------------------------------------------------------------
(* The invariant is inductive. *)

ReceiptInv ==
    /\ ControlShape /\ LedgerShape /\ ReceiptShape /\ ShellShape
    /\ LedgerKnows /\ StartupKnown /\ CompletenessKnown
    /\ FoundGone /\ RestoredStands /\ LateIsFailed /\ InCgroup
    /\ ProofStands /\ VerdictKnown

LEMMA InitReceipt == Init => ReceiptInv
<1> SUFFICES ASSUME Init PROVE ReceiptInv
  OBVIOUS
<1>1. ControlShape /\ LedgerShape
  BY MaxFaultsAssumption DEF Init, ControlShape, LedgerShape, Steps, Codes
<1>2. ReceiptShape
  <2>1. receipt = DefaultReceipt
    BY DEF Init
  <2>2. NoCounts \in OpCounts
    BY DEF NoCounts, OpCounts
  <2>3. DefaultReceipt \in Receipts
    BY <2>2 DEF DefaultReceipt, Receipts, Startups, Substages
  <2> QED BY <2>1, <2>3 DEF ReceiptShape
<1>3. ShellShape
  BY DEF Init, ShellShape, Verdicts
<1>4. LedgerKnows /\ FoundGone /\ RestoredStands /\ LateIsFailed
  <2>1. pc = "idle" /\ receipt.restored = {} /\ docker.late = {}
        /\ ledger = [required |-> {}, attempted |-> {}, succeeded |-> {}, failures |-> {}]
    BY DEF Init, DefaultReceipt
  <2> QED
    BY <2>1 DEF LedgerKnows, FoundGone, RestoredStands, LateIsFailed,
         FromQueryLinks, FromQueryFirewall, FromQueryListener, FromRuntime, FromCgroup
<1>5. StartupKnown
  <2>1. pc = "idle" /\ code = "PASS" /\ receipt.startup = DefaultReceipt.startup
    BY DEF Init
  <2>2. Unproven(receipt.startup, FALSE, FALSE, 0)
    BY <2>1, FreshIs
  <2>3. ValidStartup(receipt.startup)
    BY <2>2 DEF ValidStartup, Unproven
  <2> QED
    BY <2>1, <2>2, <2>3 DEF StartupKnown, BeforeSocket, Starting
<1>6. CompletenessKnown /\ ~receipt.proof
  <2>1. pc = "idle" /\ receipt.finalized = FALSE /\ receipt.proof = FALSE
        /\ receipt.succeeded = FALSE
        /\ receipt.query = NoCounts /\ receipt.action = NoCounts
    BY DEF Init, DefaultReceipt
  <2> QED
    BY <2>1 DEF CompletenessKnown, ValidCompleteness, CleanupSteps
<1>7. InCgroup
  BY DEF Init, InCgroup, Quiet, Up, Daemons, ExecuteSteps
<1>8. VerdictKnown
  BY DEF Init, VerdictKnown
<1> QED
  BY <1>1, <1>2, <1>3, <1>4, <1>5, <1>6, <1>7, <1>8 DEF ReceiptInv, ProofStands

LEMMA ReceiptExecute ==
  ASSUME ReceiptInv, SelfShape, DockerShape, HostShape, Execute
  PROVE  ReceiptInv'
<1> USE DEF ReceiptInv
<1>1. ControlShape'
  BY ControlExecute
<1>2. pc \in ExecuteSteps /\ pc' \in ExecuteSteps \cup {"sync"} /\ UNCHANGED <<shell, ledger>>
  BY ExecuteGoesOn, LedgerExecute
<1>3. ReceiptShape' /\ StartupKnown' /\ SameCleanup
  BY StartupExecute
<1>4. LedgerShape' /\ LedgerKnows' /\ ShellShape'
  BY <1>2 DEF LedgerShape, LedgerKnows, ShellShape
<1>5. CompletenessKnown'
  BY <1>2, <1>3, CompletenessExecute
<1>6. FoundGone' /\ RestoredStands' /\ LateIsFailed'
  BY <1>3, FindingsExecute
<1>7. InCgroup'
  BY ExecuteInCgroup
<1>8. ProofStands'
  <2>1. ~receipt.proof
    BY <1>2 DEF ProofStands, ExecuteSteps, Ends
  <2> QED
    BY <1>3, <2>1 DEF ProofStands, SameCleanup
<1>9. VerdictKnown'
  BY <1>2, <1>3 DEF VerdictKnown, ExecuteSteps, SameCleanup
<1> QED
  BY <1>1, <1>3, <1>4, <1>5, <1>6, <1>7, <1>8, <1>9

LEMMA ReceiptOfCleanup ==
  ASSUME ReceiptInv, SelfShape, DockerShape, HostShape, Cleanup
  PROVE  ReceiptInv'
<1> USE DEF ReceiptInv
<1>1. ControlShape'
  BY ControlCleanup
<1>2. /\ pc \in CleanupSteps /\ pc' \in (CleanupSteps \ {"sync"}) \cup {"report"}
      /\ UNCHANGED <<code, shell>>
  BY CleanupGoesOn
<1>3. LedgerShape' /\ LedgerKnows'
  BY LedgerGrows
<1>4. ShellShape'
  BY <1>2 DEF ShellShape
<1>5. ~receipt.proof
  BY <1>2 DEF ProofStands, CleanupSteps, Ends
<1>6. CASE FinalizeCleanup
  <2>1. /\ ReceiptShape' /\ receipt'.startup = receipt.startup /\ CompletenessKnown'
        /\ receipt'.proof =>
             ledger.failures = {} /\ receipt.nonzero = {} /\ receipt.restored = Host
    BY <1>6, FinalReceipt
  <2>2. pc = "finalize" /\ pc' = "report" /\ UNCHANGED <<ledger, docker, host>>
    BY <1>6 DEF FinalizeCleanup, Advance
  <2>3. ASSUME receipt'.proof
        PROVE  /\ NothingIsLeft'
               /\ {"QUERY_HOST_FIREWALL", "QUERY_HOST_LINKS"} \subseteq ledger'.attempted
    <3>1. ledger.failures = {} /\ receipt.nonzero = {} /\ receipt.restored = Host
      BY <2>1, <2>3
    <3>2. /\ host.netns = "none" /\ host.cgroup = "none" /\ host.running = {} /\ Quiet
          /\ host.runtime = "none" /\ host.port = "free"
      BY <2>2, <3>1 DEF FoundGone, FromQueryLinks, FromQueryFirewall, FromQueryListener,
                        FromRuntime, FromCgroup
    <3>3. host.drifted = {}
      BY <3>1 DEF RestoredStands, HostShape
    <3>4. docker.late = {}
      BY <3>1, <3>2 DEF LateIsFailed, Quiet, Daemons
    <3>5. {"QUERY_HOST_FIREWALL", "QUERY_HOST_LINKS"} \subseteq ledger.attempted
      BY <3>1 DEF RestoredStands, Host
    <3> QED
      BY <2>2, <3>2, <3>3, <3>4, <3>5 DEF NothingIsLeft, Quiet, Up
  <2>4. ProofStands'
    BY <2>2, <2>3 DEF ProofStands, Ends
  <2>5. VerdictKnown'
    BY <1>2, <1>5, <2>2 DEF VerdictKnown
  <2>6. StartupKnown'
    BY <1>2, <2>1, StartupCleanup
  <2> QED
    BY <1>1, <1>3, <1>4, <2>1, <2>4, <2>5, <2>6, FoundCleanup, RestoredCleanup, LateCleanup,
       CleanupInCgroup
<1>7. CASE ~FinalizeCleanup
  <2>1. ReceiptShape' /\ SameClaim
    BY <1>7, CleanupReceipt
  <2>2. CompletenessKnown' /\ receipt'.proof = receipt.proof
    BY <1>2, <2>1, CompletenessStays
  <2>3. StartupKnown'
    BY <1>2, <2>1, StartupCleanup DEF SameClaim
  <2>4. ProofStands'
    BY <1>5, <2>2 DEF ProofStands
  <2>5. VerdictKnown'
    BY <1>2, <1>5, <2>2 DEF VerdictKnown, CleanupSteps
  <2> QED
    BY <1>1, <1>3, <1>4, <2>1, <2>2, <2>3, <2>4, <2>5, FoundCleanup, RestoredCleanup, LateCleanup,
       CleanupInCgroup
<1> QED
  BY <1>6, <1>7

LEMMA ReceiptOfWorld ==
  ASSUME ReceiptInv, DockerShape, HostShape, Next, ~Execute, ~Cleanup
  PROVE  ReceiptInv'
<1> USE DEF ReceiptInv
<1>1. UNCHANGED <<receipt, ledger>>
  BY ReceiptWorld, LedgerWorld
<1>2. ControlShape' /\ ShellShape'
  BY ControlWorld, ShellWorld
<1>3. LedgerShape' /\ LedgerKnows' /\ ReceiptShape'
  BY <1>1 DEF LedgerShape, LedgerKnows, ReceiptShape
<1>4. StartupKnown' /\ CompletenessKnown'
  BY <1>1, StartupWorld, CompletenessWorld
<1>5. FoundGone' /\ RestoredStands' /\ LateIsFailed'
  BY <1>1, FindingsWorld
<1>6. InCgroup' /\ ProofStands' /\ VerdictKnown'
  BY <1>1, InCgroupWorld, ProofWorld, VerdictWorld
<1> QED
  BY <1>2, <1>3, <1>4, <1>5, <1>6

LEMMA ReceiptStep ==
  ASSUME ReceiptInv, SelfShape, DockerShape, HostShape, [Next]_vars
  PROVE  ReceiptInv'
<1>1. CASE UNCHANGED vars
  <2>1. /\ pc' = pc /\ code' = code /\ self' = self /\ ledger' = ledger /\ receipt' = receipt
        /\ docker' = docker /\ host' = host /\ shell' = shell /\ faults' = faults
    BY <1>1 DEF vars
  <2> USE DEF ReceiptInv
  <2>2. ControlShape' /\ LedgerShape' /\ ReceiptShape' /\ ShellShape' /\ LedgerKnows'
    BY <2>1 DEF ControlShape, LedgerShape, ReceiptShape, ShellShape, LedgerKnows
  <2>3. StartupKnown'
    BY <2>1 DEF StartupKnown
  <2>4. CompletenessKnown'
    BY <2>1 DEF CompletenessKnown
  <2>5. FoundGone' /\ LateIsFailed' /\ InCgroup'
    BY <2>1 DEF FoundGone, LateIsFailed, InCgroup, Quiet, Up
  <2>6. RestoredStands' /\ ProofStands' /\ VerdictKnown'
    BY <2>1 DEF RestoredStands, ProofStands, VerdictKnown, NothingIsLeft, Up
  <2> QED
    BY <2>2, <2>3, <2>4, <2>5, <2>6
<1> QED
  BY <1>1, ReceiptExecute, ReceiptOfCleanup, ReceiptOfWorld

LEMMA TypesOfParts == ReceiptInv /\ SelfShape /\ DockerShape /\ HostShape => TypeOK
BY DEF ReceiptInv, ControlShape, LedgerShape, ReceiptShape, Receipts, Startups, ShellShape,
   Verdicts,
       SelfShape, Selves, DockerShape, HostShape, TypeOK

LEMMA ProofParts == ReceiptInv => ProofIsReal
BY DEF ReceiptInv, ProofStands, VerdictKnown, ProofIsReal

LEMMA AdmittedParts == ReceiptInv => ReceiptIsAdmitted
BY DEF ReceiptInv, StartupKnown, CompletenessKnown, ReceiptIsAdmitted, ValidReceipt, Starting,
   BeforeSocket

(* The invariant holds at every step. *)
THEOREM ReceiptInvariance == Spec => []ReceiptInv
<1>1. Init => ReceiptInv
  BY InitReceipt
<1>2. ProbeInv => SelfShape /\ DockerShape /\ HostShape
  BY DEF ProbeInv, Shapes
<1>3. ReceiptInv /\ ProbeInv /\ [Next]_vars => ReceiptInv'
  BY <1>2, ReceiptStep
<1> QED
  BY <1>1, <1>3, Invariance, PTL DEF Spec

(* Every variable of the probe keeps its type; in particular the counts of *)
(* the ledger stay in what the receipt's fields hold.                      *)
THEOREM TypeCorrect == Spec => []TypeOK
<1>1. ProbeInv => SelfShape /\ DockerShape /\ HostShape
  BY DEF ProbeInv, Shapes
<1> QED
  BY <1>1, TypesOfParts, Invariance, ReceiptInvariance, PTL

(* Whatever failed on the way, run_probe ends with a receipt that its own  *)
(* validate_receipt admits.                                                *)
THEOREM ReceiptAdmitted == Spec => []ReceiptIsAdmitted
BY AdmittedParts, ReceiptInvariance, PTL

(* A receipt that claims the cleanup proven, and a pass of the shell, mean *)
(* that nothing the probe made is left and that the host is as it was.     *)
THEOREM ProofReal == Spec => []ProofIsReal
BY ProofParts, ReceiptInvariance, PTL

=============================================================================
