--------------------------- MODULE DiagnosticModes ---------------------------
(***************************************************************************)
(* The diagnostics of scripts/run-containment-smoke.sh: an invocation runs *)
(* one of them, in the place of the Supabase CLI's replay, and ends with   *)
(* its verdict.                                                            *)
(*   private-netns-probe  run_private_docker_netns_probe, the default mode *)
(*   direct-port          run_direct_port_probe                            *)
(*   services split       run_loadconfig_services_split, which stands in   *)
(*                        the script but which no mode calls any more      *)
(***************************************************************************)
EXTENDS PrivateNetnsProbe

CONSTANTS HealthTimeout, StableSeconds, Horizon, MaxMishaps,    \* of DirectPortProbe
          Connections, MaxPieces                                \* of CountingRelay

ASSUME ModesAssumption ==
    {HealthTimeout, StableSeconds, Horizon, MaxMishaps, MaxPieces} \subseteq Nat

VARIABLES
    mode,
    step, clock, wake, since, answer, envelope, container, addresses, soundSince, outcome, mishaps,
    stage, conn, counts, stateFile, gate

DirectPort == INSTANCE DirectPortProbe
Split == INSTANCE CountingRelay

privateVars == vars
directVars == <<step, clock, wake, since, answer, envelope, container, addresses, soundSince,
                outcome, mishaps>>
relayVars == <<stage, conn, counts, stateFile, gate>>
modesVars == <<mode, privateVars, directVars, relayVars>>

(* What a diagnostic would find that does not run makes no difference. *)
ModesInit ==
    /\ mode \in {"private-netns-probe", "direct-port", "services split"}
    /\ Init /\ DirectPort!DirectInit /\ Split!RelayInit
    /\ mode # "private-netns-probe" => "foreign" \notin {host.runtime, host.netns, host.cgroup, host.port}
                                       /\ shell.file = "none"
    /\ mode # "direct-port" => addresses

PrivateProbeRuns ==
    /\ mode = "private-netns-probe"
    /\ Next
    /\ UNCHANGED <<mode, directVars, relayVars>>

DirectProbeRuns ==
    /\ mode = "direct-port"
    /\ DirectPort!DirectNext
    /\ UNCHANGED <<mode, privateVars, relayVars>>

SplitRuns ==
    /\ mode = "services split"
    /\ Split!RelayNext
    /\ UNCHANGED <<mode, privateVars, directVars>>

ModesNext == PrivateProbeRuns \/ DirectProbeRuns \/ SplitRuns

(* The fairness of PrivateNetnsProbe; the other two have waits without a   *)
(* limit.                                                                  *)
ModesSpec ==
    /\ ModesInit /\ [][ModesNext]_modesVars
    /\ WF_modesVars(PrivateProbeRuns /\ Probe)
    /\ WF_modesVars(PrivateProbeRuns /\ StartProbe)
    /\ WF_modesVars(PrivateProbeRuns /\ Judge)

-----------------------------------------------------------------------------
(* Properties; the others are those of PrivateNetnsProbe. *)

(* Every variable keeps to its type. *)
ModesTypeOK == TypeOK /\ DirectPort!DirectTypeOK /\ Split!RelayTypeOK

(* VerdictIsReached of PrivateNetnsProbe, in its mode: the shell gets to a *)
(* verdict, whatever hangs, fails or dies.                                 *)
PrivateVerdictIsReached == mode = "private-netns-probe" => VerdictIsReached

(* DirectPortProbe's PassIsSound: a PASS of the direct probe rests on a    *)
(* container seen healthy, throughout, for long enough.                    *)
DirectPassIsSound == DirectPort!PassIsSound

(* DirectPortProbe's FailureIsNamed: no failure is lost because the        *)
(* probe's own validator throws out its diagnostic.                        *)
DirectFailureIsNamed == DirectPort!FailureIsNamed

(* CountingRelay's WritesAreHeld: the daemon serves no request that        *)
(* changes anything, however the client cuts its chunks.                   *)
WritesAreHeld == Split!WritesAreHeld

(* CountingRelay's SilenceIsReal: the shell says that the CLI left Docker  *)
(* alone only if no request of it was served.                              *)
SilenceIsReal == Split!SilenceIsReal

=============================================================================
