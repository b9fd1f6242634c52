# A verification project for hosted-replay-harness

The harness runs one *packet*: it makes a contained Docker network, starts a
pinned Supabase database in it through a policy proxy, proves that nothing gets
out, and removes everything again. What it publishes is one small receipt whose
claims (`*_PASS`, `EXACT_ZERO`, a closed failure code) other people rely on.
The TLA+ modules here model the parts of the harness on which the truth of
that receipt depends, and the Fitness replay, which publishes a receipt of its
own; TLC checks them on small instances, and TLAPS proves what matters most
about them for every value of their constants.

Paths below are relative to the repository. `sh:N` is line N of
`scripts/run-containment-smoke.sh`, `fb:N` of `scripts/firewall_boundary.py`,
`api:N` of `scripts/docker_api_boundary.py`, `cw:N` of
`scripts/container_watch.py`, `ev:N` of `scripts/classify_docker_events.py`,
`np:N` of `scripts/private_docker_netns_probe.py`, `dp:N` of
`scripts/direct_port_probe.py` and `fr:N` of
`scripts/fitness_full_chain_replay.py`.

## 1. Inventory

| part | state it keeps | operations | what makes it correct | modelled in |
|---|---|---|---|---|
| packet lifecycle (`run-containment-smoke.sh`, `write_result.py`) | mode contract, two state files of typed rows, public receipt and its stage, scratch root, scratch audit and proof stages, shell variables | four normal modes, EXIT trap `finalize`, `cleanup-only` | a PASS is proven; BLOCKED is terminal; the first failure is kept; evidence is never lost; the mode contract outlives the teardown; EXACT_ZERO is true | `ContainmentLifecycle` |
| host firewall boundary (`firewall_boundary.py`) | one nftables table; ledger, marker intent, marker installed record, completion record, their stages | `prepare`, `install`, `install-markers`, `counters`, `marker-counters`, `remove` | the table is always accounted for; the restoration target is the ruleset from before the network; a completion record is true; `remove` can be retried after any kill | `FirewallBoundary` |
| live container watcher (`container_watch.py`) | audit and violation files, readiness file, an event pipe | subscribe, inspect on event, periodic network check, stop | no packet container escapes inspection | `ContainerWatch` |
| event history classification (`classify_docker_events.py`) | none | `analyze` | coverage gaps of the watcher are found, and only real ones | `ContainerWatch` |
| Docker API policy proxy (`docker_api_boundary.py`) | policy ledger, counters, per-connection framing state | accept, parse, admit or reject, relay, shut down | only the one admitted sequence of writes reaches the daemon; a PASS means all of it | `DockerApiPolicy`, `DbStartScript` |
| Docker API counting relay (same file, no policy) | counters, a parser per connection | accept, relay chunks, cut at a write, write the counters | no write passes; zero requests means zero | `CountingRelay` |
| private daemon probe (`private_docker_netns_probe.py`) | cgroup, network namespace, a private containerd and dockerd, their objects, a proxy; a ledger of cleanup obligations; one receipt | start, probe, clean up, judge | a proven cleanup is a clean host; what may exist is owed; every end leaves an admissible receipt; foreign things are kept | `PrivateNetnsProbe` |
| direct port probe (`direct_port_probe.py`) | the start of the healthy span, one composed sample | sample, fall back to groups, validate, connect | a PASS saw the container healthy throughout the span, bound to loopback; every failure keeps its name | `DirectPortProbe` |
| Fitness replay (`fitness_full_chain_replay.py`, `verify_fitness_replay_receipt.py`, its workflow) | private containers, a database, staged source, its receipt | `run`, `cleanup-only`, `verify-receipt` | a PASS candidate is right and nothing is left; BLOCKED stays; recovery restores | `FitnessReplay` |
| mode dispatch (`sh`, sh:9, sh:4005, sh:4168) | the mode | choose one diagnostic | one diagnostic by itself, in the place of the replay | `DiagnosticModes` |
| canaries, listener preflight, scratch audit (in `sh`) | rows of the state file | observe, record | their failure blocks | their verdicts only |
| DB-start log classification, subnet admission | none | pure functions | a closed category | not modelled |

How they interact: the shell is the only caller. It starts the firewall tool,
the probes, the watcher and the proxy as child processes; they answer with an
exit status and with files (state rows, audit, ledger). Between processes there
is no shared memory, so every hand-over is a file, and the interesting question
is always what a killed process leaves in it. During `supabase db start` three
children run at once: the CLI, whose Docker requests pass through the proxy;
the proxy, which forwards the admitted ones to the daemon; and the watcher,
which hears of what the daemon did through `docker events` and removes
offenders. When the CLI has ended, the shell stops the watcher and the proxy
and compares the two records with each other and with the daemon's own
history. The workflow runs a normal mode,
then `cleanup-only` under `if: always()`, in one concurrency group, so at most
one invocation runs at a time.

The hard behaviours are: kills between any two file operations, retries that
must read what the killed attempt left, commands that fail silently
(`docker rm ... || true`), rows that survive from an earlier attempt, Docker
changing the foreign part of the ruleset while the packet's table is removed,
several writers of one failure code of which the first must win, requests of
several connections that interleave at every await of the proxy, answers that
are lost after the daemon has acted, and events that are reported late, in
chunks, or not at all, samples that are composed of several reads taken at
different times, requests that a daemon carries out after its client gave up,
chunks that end in the middle of a request line, and a receipt truncated by a
kill. `PROJECT.json` lists them as hazards, each at its line.

## 2. Modules

| module | models |
|---|---|
| `ContainmentLifecycle` | one invocation at a time of a normal mode or of `cleanup-only`, step by step, with a kill possible between any two steps |
| `FirewallBoundary` | the commands of `firewall_boundary.py`, one system call per step |
| `FirewallEvidence` | the abstract specification both share: the ledger is given up only for a completion record |
| `PacketReceipt` | the abstract specification of a packet seen from outside: what is on the host, the mode contract, the receipt |
| `ContainmentLifecycleTypes`, `ContainmentLifecycleProofs` | the TLAPS proofs about `ContainmentLifecycle`: its types, and its inductive invariant with what follows from it |
| `FirewallBoundaryProofs` | the TLAPS proofs about `FirewallBoundary` |
| `PrivateNetnsProbeProofs` | the TLAPS proofs about `PrivateNetnsProbe`: what it owes and what it leaves alone; what its receipt says |
| `DockerApiPolicyProofs` | the TLAPS proofs about `DockerApiPolicy`, the refinement of `DbStartScript` included |
| `DockerApiPolicy` | the proxy in its `DB_START_V1` mode: handlers of several connections, the daemon, shutdown |
| `DbStartScript` | the abstract specification of the proxy: the six writes of the script, in order and once, until something goes wrong |
| `ContainerWatch` | watcher, `docker events`, daemon and the shell's start, stop and gate |
| `ContainerWatchProofs` | the TLAPS proofs about `ContainerWatch` |
| `PrivateNetnsProbe` | the private daemons' probe: start-up, what it makes, the cleanup ledger, its receipt, and the shell's judgement |
| `DirectPortProbe` | the direct probe's sampling over time, its diagnostic, its contract and its connections |
| `CountingRelay` | the relay that counts and cuts off writes: parser, daemon, CLI, shutdown and verdict |
| `DiagnosticModes` | an invocation that runs exactly one of these three; extends the first and instantiates the other two |
| `DiagnosticModesProofs` | the TLAPS proofs about all three of them, as `DiagnosticModes` runs them |
| `FitnessReplay` | the Fitness job: `run`, `cleanup-only` and the receipt's verification |
| `FitnessReplayProofs` | the TLAPS proofs about `FitnessReplay`: what a PASS means, and that BLOCKED stays |
| `MCContainmentLifecycle`, `MCFirewallBoundary`, `MCDockerApiPolicy`, `MCContainerWatch`, `MCFitnessReplay` | the instances TLC checks |

### ContainmentLifecycle

A state file is modelled by the latest row of each key that some decision reads
(`Rows`); a receipt by its status, code, mode and cleanup claim (`Receipts`).
Docker is modelled by the set `res` of resource classes that exist, and the
firewall by `fw`, which of its two pieces of evidence exist. The gates of the
normal modes (about 1500 lines of probes) are collapsed into what they leave
behind: resources they create (`PrepareFirewall`, `CreateNetwork`,
`CreateDatabase`, `PrivateEvidence`), and how they end (`GateBlocks`,
`WorkPasses`, `Interrupt`). From the EXIT trap on, every command of `finalize`
(sh:2454), `cleanup_exact` (sh:2335), `cleanup_packet_scratch` (sh:1129),
`publish_result_receipt` (sh:1343), `build` (sh:696) and `cleanup_only`
(sh:2566) that changes something is a step of its own with its failure path.
`hist` is a history variable: what the current run has shown, for the
properties only.

### FirewallBoundary

Digests are modelled by what they are digests of; the foreign ruleset is an
opaque value of `Foreign`. Each command is a sequence of steps at system-call
grain: read the ruleset, stage, link and unstage an evidence file, apply a
batch, open and write the ledger, unlink. `Kill` may end a command before any
step, `SystemFails` and `EvidenceFails` are failing calls, `Drift` is Docker.
The expressions of the nftables rules and the marker diagnostics are not
modelled: the model says that a table has the base shape or the marker shape.
`remove` reads stages, ledger and evidence exactly in the code's order, because
the properties are about what it makes of every intermediate state.

### FirewallEvidence

`none -> ledger -> both -> restored -> none`, where `both` is the window in
which the completion record exists and the ledger has not been retired.
`FirewallBoundary` implements it under the mapping `Phase` (run
`firewall_safe`, theorem `EvidenceRefined`); `ContainmentLifecycle`, which
treats `firewall_boundary.py remove` as one step that may stop anywhere, is
checked to use only the same moves (`ImplementsEvidence`). That is how the two
modules are composed: the lifecycle relies on the abstract specification, the
firewall module implements it.

### PacketReceipt

Four variables: the contract's mode, what is held (Docker resources and the
listener, firewall evidence not yet completed, the scratch root), how far the
last run is (`open`, `proven`, or `blocked` once it was), and the receipt.
Whatever is held, except the scratch root, is covered by a contract; a contract
is signed only where there is none, and retired only when nothing is held and
the receipt is there; PASS is published only of a proven run and with nothing
held. A receipt may always be blocked or withdrawn. `ContainmentLifecycle`
implements it (`ImplementsReceipt`) under the mapping `Held`, `Progress`,
`Outcome`, in which its forty steps become nine.

### DockerApiPolicy and DbStartScript

A request is an operation and its object; an answer is a status code and what
its body says (`match`, `drift`, a container id, a health). What the policy
compares in between (headers, JSON shapes, labels, ports) decides only whether
a request is the admitted one and whether an answer is accepted, so `Refuse`
stands for every refusal of `authorize` and `BodyAccepted` for the checks of
`accept`. The grain is the await: `Forward` is everything from a complete
request to the write to the daemon (api:1472), then `ReadHead`, `ReadBody` and
`Relay` follow, and between any two of them other connections move. `Serve` is
the daemon, which may act and answer, act and not answer, or refuse;
`ServeLate` lets it act on a request whose handler is gone. `Stop`, `Exit`,
`DrainTimeout` and `KillObserver` are the shutdown (api:1254, sh:2073).

`DbStartScript` sees only the daemon's writes. The refinement
(`ImplementsScript`) says that they are a prefix of the script until an
exchange goes wrong, that what was forwarded before that may still be executed
late, and that the gate passes only after the whole script with nothing wrong.

### ContainerWatch

A container is its image, whether it is named as expected, and whether the rest
of its contract holds; the network contract is one Boolean (`frozenNet`). Event
lines go from the daemon to `pipe`, from there in chunks to `buffer` (Python's
buffered reader) and one at a time to the audit. The readiness file is written
when `docker events` has been started, not when it has subscribed, so the model
lets containers be created in between. The shell's `StopWatcher`, `Stopped`
and `KillWatcher` are TERM, waiting and KILL (sh:2060); `CheckFiles`,
`CheckFrozenNetwork` and `Classify` are the gate in the code's order.
How a container ended is settled when the history is read (`Classify` chooses
among the possible exit codes), and so are the outcome of the volume and of the
CLI, about which the gate only asks. Not modelled: a `docker events` child that
outlives a killed watcher (nobody reads its pipe) and the log classification.

The watcher assumes nothing of the CLI: in its model the proxy is absent and
any container may be created. That is deliberate. The two observers are
independent checks of the same run, and each is modelled with the other one
missing; `ContainmentLifecycle` sees their common outcome as `WorkPasses` or
`GateBlocks`.

### PrivateNetnsProbe

`self` is what the probe object knows (np:733), `ledger` its lists of cleanup
obligations, `docker` and `host` what really exists. Each method of `execute`
(np:1530) is an action with its failure exits; `Make` is the common shape of
loading the image and creating network and containers: the obligation is
latched, then the request is made, which may succeed, be refused, leave the
object although a later check fails, or be given up and carried out later
(`ServeLate`). `Raise` leads to `cleanup` (np:1747), whose every operation is
an action that writes the ledger and the counters as the code does.
`Classify`, `WriteReceipt` and the shell's `StartProbe` and `Judge` (sh:2761)
end it. `ValidReceipt` is the probe's own validator (np:371, np:416, np:497):
the receipt is modelled with the fields it relates. Beside the probe,
`DaemonExits`, `Drift` (foreign firewall and links), `Die` and `ServeLate` move
freely, within `MaxFaults`. A container that stays up after its daemon died is
`host.running` without a daemon.

### DirectPortProbe

A clock in samples; every read of Docker takes the container as it is at that
moment, so a sample that had to be composed of the five groups (dp:946) may mix
five moments. `JudgeSample` is the loop (dp:1329). `Admitted` is the validator
(dp:1034) of the diagnostic that `safe_inspect` produces: two statements of
the same closed rules, which `DirectFailureIsNamed` compares over every way to
fail. `soundSince` is a history variable.

### CountingRelay

A chunk is one or two pieces, a piece is a request line, half of one, its rest,
a header, a blank line or something else. The parser's state (`Fed`, `Feed`)
follows api:943: what an exception leaves unparsed is parsed before the next
chunk, and the chunk is forwarded although it could not be parsed. The daemon
reads the same pieces with a state of its own, and `served` is what it has
carried out. The shell function that uses the relay
(`run_loadconfig_services_split`, sh:3665) stands in the script, but no mode
calls it at this commit; only the contract tests read it.

### DiagnosticModes

`sh` runs one diagnostic in an invocation and then exits (sh:4005, sh:4168), so
the composition is a choice: the variable `mode` selects whose steps are taken,
and a step of one leaves the other two alone. Its properties are those of the
parts, checked in one run.

### FitnessReplay

`job` is the workflow's step, `pc` the step of the command it runs. The
candidate migration is external: `defect` is what, if anything, is wrong with
it, and the database follows it. `SessionAllocates` and `SessionEnds` let the
concurrent sessions (fr:814) take and commit their numbers in any order.
`TruncateArtifact` and `WriteArtifact` are `write_bytes` (fr:1057, fr:1114): a
kill between them leaves a torn receipt. `cleanup-only` reads the receipt, runs
the same `cleanup` and rewrites it (fr:1074). `BooleanText` is how the database
renders a boolean; the passing run uses the text the adapter compares with, so
that the rest of the replay can be checked at all; `doc_privilege_text` uses
PostgreSQL's.

## 3. Runs

| run | question | bounds | distinct states |
|---|---|---|---|
| `lifecycle_one_run` | what is published, kept and torn down by one packet of any mode and two cleanups | 1 run, 2 cleanups, 2 faults | 1.6 million |
| `lifecycle_two_runs` | do invocations end; does an undisturbed cleanup publish, whatever an earlier run left; is `PacketReceipt` implemented from one packet to the next | 2 runs (`run`, private probe), 2 cleanups, 1 fault | 0.58 million |
| `firewall_safe` | do files and ruleset agree at every instant; does a calm `remove` succeed from whatever kills left; is `FirewallEvidence` implemented | 3 faults, 3 drifts, 2 polls, 2 foreign rulesets | 0.51 million |
| `policy_safe` | does the proxy implement `DbStartScript`; is the gate exact; does a violation shut everything; does every exchange release the lock | 2 connections, 2 ids, 2 probes, 1 connection error | 0.65 million |
| `watch_safe` | what a passing gate and a coverage gap say of what the daemon did; does the shell ever wait for the watcher | 2 containers of 4 shapes, 1 mishap | 1.7 million |
| `diagnostic_modes` | the private probe's receipt against the host, the direct probe's verdict against what the container was, the relay's counters against what the daemon served | 2 faults, 4 clock ticks, 1 connection of 4 pieces | 1.8 million |
| `fitness_replay` | is a PASS earned, does BLOCKED stay, does recovery restore | 3 sessions, 1 base migration, 7 kinds of candidate, 2 mishaps | 0.20 million |
| `doc_private_failure`, `doc_pass_kept`, `doc_scratch_claim`, `doc_torn_ledger`, `doc_privilege_text` | five sentences of the documentation the code does not keep | the smallest that show it | |

`diagnostic_modes` checks for the private probe that a proven cleanup is a clean
host (`ProofIsReal`), that every end leaves a receipt its validator admits
(`ReceiptIsAdmitted`), that what may exist is owed (`LatchedBeforeMade`), that
foreign things are kept (`ForeignIsKept`) and that the shell gets to a verdict
(`PrivateVerdictIsReached`); for the direct probe `DirectPassIsSound` and
`DirectFailureIsNamed`; for the relay `WritesAreHeld` and `SilenceIsReal`.

Why the bounds are enough.

- Lifecycle: a fault is a kill or a failing command. The interesting situations
  need one fault in the run and one in the first cleanup, then a second cleanup
  that reads what both left; two runs are needed only to see evidence cross
  from one to the next, and of the modes a run and a private probe differ in
  what the receipt is built from.
- Firewall: three faults allow a kill in `install-markers`, one in the first
  `remove` and one in the second; two foreign rulesets tell "the original one"
  from any other; two polls make both the waiting and the last observation
  happen.
- Proxy: everything a handler does is under one lock, so a second connection is
  already every other connection. Two ids are the two of the script; a repeated
  creation of either finds none left and is refused. The probe limit is 121 in
  the code; 2 makes "another probe", "the last one" and "healthy after one"
  happen. An error on one connection is the only thing that stops the script
  without a violation; a second one finds the policy already failed.
- Watcher: the script has two containers; a third cannot pass the gate, which
  asks for exactly one of each. The shapes are those two, a database that breaks
  its contract and an impostor on the migration's image. One mishap at a time:
  the gate's checks are meant to catch each of them alone.
- Diagnostics: two mishaps are one that breaks something and one that hides it
  from the cleanup or from the next read (a request given up and a failing
  query, a daemon that exits and a socket that stays). Three samples before the
  deadline, of which a span of one must be stable, let health be lost and come
  back. Four pieces are two requests, or one with a body and the beginning of
  the next; the relay's connections share nothing but counters.
- Fitness: three sessions are the least where two can take the same number
  while a third is between them; the migrations before the candidate are all
  alike, so one stands for the 101. Two mishaps are one in `run` and one in
  `cleanup-only`.

`CHECK_DEADLOCK FALSE` is given because the behaviours are finite: when the
bounds on invocations and faults are used up, or the gate has decided, the
harness stops.

Fairness. Lifecycle: a running invocation keeps taking steps, because every
command it waits for runs under `timeout` or is a local file operation; and the
`cleanup-only` step of the workflow is `if: always()`, so it is eventually
started. Proxy: the daemon answers or drops the connection (there is no timeout
in the code; this is an assumption, and `AnExchangeEnds` shows it is the only
one; it is stated of one connection, as the connections are interchangeable), and a handler whose answer has arrived is scheduled by asyncio. Nothing
else is assumed fair; in particular neither kills, nor failures, nor Docker's
changes of the ruleset, nor clients. For the watcher, whose Docker commands have
no time limit, no fairness is assumed: `ShellNeverWaits` says that the shell can
go on whatever the watcher waits for. The private probe's commands and the
Fitness replay's all have a time limit, and so has every wait of theirs, so
their own steps are weakly fair (and the shell's, which waits for the probe);
their daemons are not. The direct probe's `docker inspect` and the relay's
reads have none, and no liveness is claimed of them. `RecoveryRestores` assumes
of the recovery that nothing disturbs it, which the bound on mishaps makes a
state: all of them have happened.

## 4. Disagreements with the documentation

1. `doc_private_failure`: the always-run cleanup replaces the closed failure
   code of a private probe by `UNKNOWN_SANITIZED` (sh:848), although the
   contract says that cleanup never masks the primary failure.
2. `doc_pass_kept`: a `cleanup-only` without any failure publishes BLOCKED over
   the run's PASS, since `build` asks the state file for the status (sh:874)
   and `cleanup-only` records none for a PASS receipt.
3. `doc_scratch_claim`: a kill of `finalize` between recording its scratch
   proof and consuming the audit makes the next cleanup claim EXACT_ZERO while
   the scratch root it has just made again exists (sh:1135).
4. `doc_torn_ledger`: `write_ledger` truncates in place (fb:1398); a kill
   before the write leaves an enforced table with an unreadable ledger, and
   every later `remove` fails with `FIREWALL_LEDGER_INVALID`.
5. `doc_privilege_text`: the replay asks PostgreSQL for
   `has_sequence_privilege(...)::text` and compares with `f` and `t` (fr:853).
   The cast gives `false` and `true`, so a candidate with exactly the
   privileges docs/FITNESS_FULL_CHAIN_REPLAY_CONTRACT.md:113 requires is
   refused with `PRIVILEGE_PROOF_FAILED`.

More things the models show, which contradict no sentence of the
documentation and are stated as exceptions in the properties:

- A state file of a `cleanup-only` that came before a run (sh:2577) is removed
  only by a cleanup that ends well (sh:2690), not when the run starts. Should
  the run end published with residue, the next `cleanup-only` recovers that
  old file, and if its own counts fail the old zero rows stand: the receipt it
  publishes is BLOCKED and claims EXACT_ZERO of a host with a network on it.
  It takes three mishaps, so a run with two of them did not meet it; the proof
  did. `ZeroClaimIsTrue` excepts runs that began with such a file
  (`hist.leftover`).
- A watcher killed between writing its audit record and its violation record
  (sh:2067) leaves an offence in the audit that the gate does not ask for;
  `PassIsWatched` excepts the last record of a killed watcher.
- A second start of the database that nobody observed passes, because the gate
  compares sets of container ids (ev:183).
- When the answer to a write is lost, the proxy's ledger has not moved and the
  same write is admitted once more (api:1515). The receipt counts a forwarding
  error, so `GateIsExact` holds, but the daemon may have done it twice.
- The watcher waits on the pipe with a selector while it reads through a buffer
  (cw:485, cw:490): of two lines that arrive together the second is not looked
  at until something else arrives. No line is lost by it (`NoLineLost`), but an
  honest run may end in a coverage gap, and an offender may keep running until
  the watcher is stopped.
- A receipt torn by a kill makes the Fitness recovery skip its cleanup of the
  private daemon (fr:1090); `RecoveryRestores` excepts it.
- The probe's own collision check ends in a cleanup that deletes the runtime
  root it collided with (np:1811); only the shell's look beforehand
  (sh:2761-2790) keeps a foreign one.
- The listener query binds the proxy's port without `SO_REUSEADDR` (np:1835),
  so connections the proxy has just closed can fail a good run.

## 5. Proofs

### ContainmentLifecycle

Proved, for any of the four modes and any bounds on runs, cleanups
and faults (`ModesAssumption`, `BoundsAssumption`; nothing else is assumed):

| theorem | property | in words |
|---|---|---|
| `TypeCorrect` | `TypeOK` | types, and an invocation is only ever at a step of its own kind |
| `Invariance` | `Inv` | the inductive invariant |
| `BlockedStaysBlocked` | `BlockedIsTerminal` | no cleanup or retry turns a published BLOCKED into PASS |
| `PassIsProven` | `PublishedPassIsProven` | a PASS is this run's, after every gate, with nothing left behind |
| `EvidenceStaysOnDisk` | `EvidenceRetained` | the outcome of a started run is always on disk |
| `ContractRetiredLast` | `ModeRetiredLast` | the mode contract goes last and is never replaced |
| `FirewallIsGuarded` | `FirewallGuard` | teardown touches the firewall only under the right contract, after everything else is gone |
| `EvidenceInOrder` | `ImplementsEvidence` | the lifecycle implements `FirewallEvidence` |
| `ClaimOfZeroIsTrue` | `ZeroClaimIsTrue` | a receipt that claims EXACT_ZERO is right about the host |
| `FirstFailureStays` | `FirstFailureKept` | the failure code of a receipt is the first the run met |
| `ReceiptRefined` | `ImplementsReceipt` | the lifecycle implements `PacketReceipt` |

None of these is inductive: each speaks of what is published or removed, and
what makes it true is what the shell variables knew several steps before. `Inv`
adds that knowledge in four parts, each proved by a lemma of its own:

- `TeardownKnows` (`TeardownStep`): the row `orig_mode` is the contract on disk
  while resources are removed; a class that was counted zero is empty; a
  `cleanup_exact` that returned success left nothing; a scratch proof that
  says PASS was taken of an absent root. It is needed wherever a later step
  trusts a row or a flag instead of looking again.
- `PassIsEarned` (`OwnFileStep`, `RowsStep`, `PublishStep`): a PASS row is
  written by `finalize` only, `cleanup-only` never makes one up, and a staged
  PASS receipt agrees with `expected_status` and with that row. It is needed
  because three sources (the row, the argument, the stage) are compared at
  different steps.
- `BlockedIsKnown` (`KnownStep`): as long as a PASS may still be published, no
  BLOCKED receipt was, and `cleanup-only` has read the receipt that says so.
- `EvidenceStands` (`EvidenceStep`): a running invocation has a state file, so
  that a kill at any step leaves one.

Two more invariants stand on `Inv` and have inductions of their own:

- `CountsStand` (`CountsStep`): a zero in a state file is true of its class.
  Nothing in the code says so, since a row outlives the command that counted;
  what makes it true is that resources are made only by a normal mode, which
  starts from a state file without counts, and that a recovery's file is the
  one its run wrote. The exception is `leftover`, see section 4. From it and
  from what a built receipt claims `ClaimIsCounted` gives `ClaimOfZeroIsTrue`.
- `FailureStands` (`FailureStandsStep`): once the run has met a failure, the
  code it carries is in the row, in the trap's variable or in the published
  receipt, whichever the next reader will ask (`KnownByRun`, `KnownByCleanup`,
  `FileKnows`, `ReceiptKnows`), and no step in between replaces it. The private
  probe's codes are the exception that `doc_private_failure` shows.

The refinement of `PacketReceipt` needs two more facts about a run, `RunBegins`
(what it makes is made under its own contract) and `RunOpen` (it is not called
proven before its finalizer has decided). `OthersUnseen` says that the steps not
named in `Shows` stutter; the others are mapped by one lemma for each of what
they do to the outside (`StartsMapped`, `TakesMapped`, `LetsGoMapped`,
`ContractMapped`, `DecisionMapped`, `ReceiptMapped`).

`QuietStep` and `FrameStep` say once for all steps what most of them leave
alone (the rows of a status, the file in use), which leaves the lemmas above
with the few steps that matter. `ContainmentLifecycleTypes` proves `TypeOK` in
parts, one lemma per group of actions.

### FirewallBoundary

`FirewallBoundaryProofs` proves, for any set of foreign rulesets and any
bounds, that `Inv` is inductive and what follows from it: `TypeOK`,
`TableIsAccounted`, `TargetKept`, `CompletionIsTrue`, `RemoveIsComplete`,
`RetryNeverWedges` and the refinement `ImplementsEvidence`. Assumptions: there
is a foreign ruleset, there is at least one poll, the bounds are naturals
(`ForeignAssumption`, `PollsAssumption`, `BoundsAssumption`).

The safety properties are not inductive: that a completion record is true at
the moment it is linked depends on what `remove` has just verified, and that a
retry can read the evidence depends on the order in which files are retired.
`Inv` adds what is needed: `Coherence` (what the files say of each other and of
the ruleset at every moment), `WritingLedger`, `WritingEvidence` and `Removing`
(what a command knows at each of its steps). The proof has one lemma for types
(`TypeStep`), one for the rest (`InvStep`), each with a step per action.

### DockerApiPolicy

`DockerApiPolicyProofs` proves, for any set of connections, any container
ids of which there are two, any health limit and any number of mishaps
(`IdsAssumption`, `HealthLimitAssumption`, `MaxFaultsAssumption`):

| theorem | property | in words |
|---|---|---|
| `TypeCorrect` | `TypeOK` | types, and the two containers have different ids |
| `Invariance` | the inductive invariant | |
| `MigrationIsSafe` | `MigrationNeedsHealth` | no migration before the database was reported healthy |
| `GateExact` | `GateIsExact` | the gate passes only for the whole script, done with the ledger's own containers |
| `StaysShut` | `ShutAfterViolation` | after a violation nothing more reaches the daemon |
| `ScriptRefined` | `ImplementsScript` | proxy, clients and daemon implement `DbStartScript` |

The ledger advances when an answer is accepted, the daemon when it gets to a
request, and handlers of several connections are in between. The invariant
relates the three: `LedgerKnows` (what the ledger's state says of its ids and
its probes), `ExchangesAgree` (a handler that waits for an answer is at the
step the ledger expects, and it is the only one), `NothingAbandoned` (a request
whose handler has gone has left an error in the receipt), `HealthKnown`
(the ledger knows of health only what the daemon said), and `EffectsKnown` (as
long as nothing has gone wrong the daemon's log is the script as far as
the ledger has come, or one write further while its answer is on the way).
The last is what the refinement rests on: each step extends the log by the
next write of the script, or sets the mapped fault, or delivers a verdict.

### PrivateNetnsProbe

`PrivateNetnsProbeProofs` proves, for any number of mishaps
(`MaxFaultsAssumption`; nothing else is assumed):

| theorem | property | in words |
|---|---|---|
| `Invariance` | `ProbeInv` | the inductive invariant |
| `MadeIsLatched` | `LatchedBeforeMade` | what the private daemon holds or may yet make is owed to the cleanup |
| `ForeignStays` | `ForeignIsKept` | what was at the packet's paths before is never removed or replaced |

`ForeignIsKept` speaks of single steps, and rests on what the probe learned
long before: `RemoveRuntime` deletes whatever is at the runtime root, `DeleteNetns`
and `RemoveCgroup` trust a flag. `ProbeInv` says that the root is not foreign
once the probe runs (the shell looked), that each flag was set for a path the
probe made itself, and that `owed` covers the daemon's late answers too.
`ExecuteStep`, `CleanupStep` and `WorldStep` have one step per action; each
splits into the shapes of the three records, `AllOwed`, and `OwnOnly` with `Kept`,
which is the single-step form of `ForeignIsKept`.

About its receipt, in the same module and under the same assumption:

| theorem | property | in words |
|---|---|---|
| `ReceiptInvariance` | `ReceiptInv` | the inductive invariant of the receipt |
| `TypeCorrect` | `TypeOK` | types, with counts that fit the receipt's fields |
| `ReceiptAdmitted` | `ReceiptIsAdmitted` | whatever failed, `run_probe` writes a receipt its own validator admits |
| `ProofReal` | `ProofIsReal` | a proof of zero residue, and a pass of the shell, are true of the host |

The validator recomputes from the ledger what the cleanup has counted, and
the proof of zero residue is drawn from counters and flags alone; nobody looks at
the host again. `ReceiptInv` therefore says at every step of the cleanup what
the receipt so far stands for: `LedgerKnows` (succeeded within attempted within
required, and what was attempted in vain has failed), `StartupKnown` (which
startup section each step of `execute` leaves), `FoundGone` (as long as no
counter is nonzero, the resources whose step has passed are gone), `InCgroup`
(without the control group nothing runs, so that removing it settles the
processes), `RestoredStands` (what was called restored was compared, and does
not drift any more), `LateIsFailed` (a dockerd that disappears with requests
still to serve was killed, and its `STOP_DOCKERD` has failed, so there is no
proof), `ProofStands` and `VerdictKnown`. That the counts fit
their fields is a fact about cardinalities: the ledger's categories are disjoint
sets of at most 18 operations (`OpsAreFew` and the lemmas after it).

### FitnessReplay

`FitnessReplayProofs` proves, for any number of migrations before the candidate,
any finite nonempty set of sessions, any of the candidate's defects, any way the
database renders a boolean that tells TRUE from FALSE, and any number of mishaps
(`BoundsAssumption`, `SessionsAssumption`, `DefectsAssumption`,
`BooleanTextAssumption`):

| theorem | property | in words |
|---|---|---|
| `Invariance` | `Inv` | the inductive invariant |
| `TypeCorrect` | `TypeOK` | types; the receipt's file is missing, torn or validates |
| `PassEarned` | `PassIsEarned` | a PASS means a right candidate and nothing left or late; a green job means a PASS |
| `BlockedRemains` | `BlockedStays` | no recovery makes a PASS of a BLOCKED receipt |

A session there must be: the code has eight, and a candidate that takes the maximum
passes a replay without any. The argument follows the receipt. `ProofsKnown`
says what each proof shown means for the candidate: for
immutability, privileges and idempotency what the query saw, and for the
sessions that all four observations *together* exclude a wrong way of giving
numbers, whatever the order of the sessions was (`JoinIsRight`): a maximum that was
taken and committed leaves the sequence behind, so "next above all" is not
shown; a filled gap is below the high water. It needs `SessionsKnown`,
which follows the numbers while sessions interleave. That the numbers in use
have a maximum is carried along as a part of it, because there is no induction over
finite sets here to say that they always do. That the privileges can be
accepted at all implies that the database renders TRUE as `t`
(`PrivilegesSeen`), which is what makes the comparison with `t` of the automation's
column sound; `doc_privilege_text` shows the other side of this. `RunKnows`
(a run without a failure has given up on no request, and a cleanup that says so left
nothing) makes the PASS true when it is closed, `PassStands` keeps it so while the
recovery cleans up again, `RecoveryKnows` says why a job whose steps all
succeeded still has it, and `NeverPass`, inductive by itself, is why a BLOCKED
receipt stays one.

### ContainerWatch

`ContainerWatchProofs` proves, for any containers the CLI may ask for, any number
of them and any number of mishaps (`ShapesAssumption`, `BoundsAssumption`):

| theorem | property | in words |
|---|---|---|
| `Invariance` | `WatchInv` | the inductive invariant |
| `TypeCorrect` | `TypeOK` | types; the watcher holds a record exactly while it works on one |
| `NothingIsLost` | `NoLineLost` | while it is subscribed, audit, hand, buffer and pipe are the history, in order |
| `GapsAreReal` | `GapIsReal` | a coverage gap names an event that was not audited |
| `PassesAreWatched` | `PassIsWatched` | what passes the gate was inspected, and was good |

The gate compares sets of container ids, counts and digests; that it has a right
to conclude from them what happened to each container is what the invariant is
about. Its parts: `LinesTraced` and `RecordsTraced` (every line and record is of
an event the daemon has reported), `RecordsHold` (a record that says so is of a
container that keeps its contract, in its role), `AuditEnds` (an audit ends with
the first bad record, so that an empty violation file means that all were good,
unless the watcher was killed), `InOrder` (the four places a line can be in make
up the history since the subscription), `ChildGone` and `BeforeSpawn` (the ends of
that span), `ShellKnows` (the violation file is read after the watcher has left)
and `GateKnows` (what the verdict was based on still holds, since neither
daemon nor watcher moves after it). There is one lemma per part and one for the
types. TLC checked `WatchInv` on the instance of `watch_safe` before it was
proved. `PassesAreWatched` ends with a count: both roles are there, the gate found
one container for each, and ids in the history are the containers created.

### DiagnosticModes: direct probe, relay and private probe

`DiagnosticModesProofs` proves of the composed specification, which is the one the
run checks, for any number of mishaps, any health timeout and stable wait, and any
number of connections and of pieces sent over them (`ModesAssumption`,
`MaxFaultsAssumption`):

| theorem | property | in words |
|---|---|---|
| `PrivateProbeImplemented` | | the modes implement `PrivateNetnsProbe` |
| `ModesLatch`, `ModesKeepForeign`, `ModesAdmitReceipt`, `ModesProofReal` | `LatchedBeforeMade`, `ForeignIsKept`, `ReceiptIsAdmitted`, `ProofIsReal` | so that its theorems hold in every mode |
| `DirectPassSound` | `DirectPassIsSound` | a PASS of the direct probe rests on sound readings over the whole stable wait |
| `DirectFailureNamed` | `DirectFailureIsNamed` | whatever fails, the diagnostic printed is one the validator admits |
| `WritesHeld` | `WritesAreHeld` | no write is served behind the counting relay |
| `SilenceReal` | `SilenceIsReal` | a CLI found silent was served nothing |
| `ModesTypeCorrect` | `ModesTypeOK` | types |

`StepsAreSeparate` says that a step of one diagnostic leaves the others' variables
alone; the rest is about one of them at a time.

The direct probe (`DirectInv`): `WaitIsSound` relates the time since which the
loop believes the database stable to the times of the readings that were sound.
It holds between samples and while one is being put together, but not while
an answer that will reset it is judged, and this exception is what makes it
inductive. `AnswerIsTrue` keeps what a sample composed of different moments may
still be trusted for, `DiagnosisFits` what an envelope holds at the step that prints it.

The relay (`RelayInv`): `InStep` says that as long as the daemon has not closed a
connection, the relay's parser is at the same place of the same request as the
daemon, and that this request is a read which has been counted. Chunks are cut
anywhere, so that one step of the relay is a run over the pieces of a chunk, written
as a recursive function. `StayTogether` says that one piece preserves what is
needed, and `Climb` carries it over a chunk: the induction it needs is over a set
of numbers, not an operator, and is drawn from the well-foundedness of the order
on the naturals, which the library states without an operator parameter.

### Only model-checked

- The liveness properties: `InvocationEnds` and `UndisturbedCleanupPublishes` of
  the lifecycle, `CalmRemoveSucceeds` of the firewall, `AnExchangeEnds` of the
  proxy, `PrivateVerdictIsReached` of the private probe, `RecoveryRestores` of the
  Fitness replay. Fairness is out of the prover's reach.
- `ShellNeverWaits` of the watcher, which is stated with ENABLED: the same.
- The five properties of section 4 that the code does not have.

Every other property that a run checks is a theorem. `TypeOK` of the watcher, the
lifecycle, the firewall and the proxy, and `Inv` of the lifecycle and the
firewall, are proved and are checked by no run: the runs go to what can be wrong.
`ModeRetiredLast` is proved too, and has no run of its own because
`ImplementsReceipt` says the same and more.
No module here uses a RECURSIVE operator.

## 6. Not modelled

- `classify_db_start_log.py`: a chain of regular expressions over one log, a
  pure function whose inputs are text.
- The nftables expression builders and marker diagnostics of
  `firewall_boundary.py`: pure functions of a ruleset document.
- The field-by-field inspections (of containers, networks, images) and the
  grammars (HTTP heads, chunked bodies, JSON without duplicate keys): the models
  keep whether they admit.
- `validate-unpublished` of the direct probe and `source-only-check` of the
  Fitness adapter: one pass over given files.
- The gates of the normal modes other than the three diagnostics (canaries,
  listener preflight, scratch audit): only that they block.
- `check_subnet.py`: an overlap test delegated to a library.

## 7. Plan

Done: the lifecycle with its two abstract specifications, the firewall, the proxy
with its abstract script, the watcher, the private probe, the direct probe, the
counting relay and the Fitness replay, each with the proofs of its safety
properties. Left, should the code they wait for come to be used or change:

1. The gates of the normal modes as steps of their own (canaries, listener
   preflight), once one of them has a state that outlives its verdict.
2. The watcher and the proxy in one model, to ask what the two records together
   say of a run in which both were disturbed.
