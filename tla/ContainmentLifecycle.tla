------------------------ MODULE ContainmentLifecycle ------------------------
(***************************************************************************)
(* The life of one packet: run-containment-smoke.sh in one of its normal   *)
(* modes, its EXIT trap `finalize', and the `cleanup-only' invocations the *)
(* workflow always runs afterwards.  At most one invocation runs at a time *)
(* (steps of one job, one concurrency group), but any of them may be       *)
(* killed between two of its steps; what survives is the files under       *)
(* artifacts/, the scratch root, the Docker resources and the firewall     *)
(* evidence.                                                               *)
(*                                                                         *)
(* A state file (.state.tsv, .cleanup-state.tsv) is modelled by its latest *)
(* row per key: the readers take the last one.  (finalize's last check     *)
(* looks for any BLOCKED row; only its own PASS row could follow one.)     *)
(***************************************************************************)
EXTENDS Naturals, FiniteSets

CONSTANTS
    Modes,        \* the normal modes that may be invoked
    MaxMains,     \* bound: invocations in a normal mode
    MaxCleanups,  \* bound: cleanup-only invocations
    MaxFaults     \* bound: kills and failing commands, over the whole behaviour

AllModes == {"run", "direct-port", "firewall-rehearsal", "private-netns-probe"}

ASSUME ModesAssumption == Modes \subseteq AllModes
ASSUME BoundsAssumption ==
    MaxMains \in Nat /\ MaxCleanups \in Nat /\ MaxFaults \in Nat

VARIABLES
    pc,            \* where the running invocation stands; "idle" when none runs
    inv,           \* its MODE
    mem,           \* its shell variables
    modeFile,      \* .cleanup-mode.tsv: "none" or the recorded mode
    modeStage,     \* .cleanup-mode.tsv.stage exists
    state,         \* .state.tsv
    cleanupState,  \* .cleanup-state.tsv
    result,        \* containment-smoke.json, the public receipt
    resultStage,   \* .containment-smoke.json.stage
    scratch,       \* .smoke-runtime: "absent", "clean" or "foreign" (inadmissible entry)
    auditStage,    \* .packet-scratch-audit.jsonl.stage exists
    proofStage,    \* .packet-scratch-proof.tsv.stage: "none" or the proof's status
    res,           \* the packet's Docker resources, and its 56422 listener
    fw,            \* firewall evidence: "none", "ledger", "restored" (completion) or "both"
    rollback,      \* .firewall-rollback.tsv exists
    mains, cleanups, faults,  \* invocations and faults so far
    hist           \* history: what the current run has shown (see MainStart)

evidence == <<modeFile, modeStage>>
rowsVars == <<state, cleanupState>>
scratchVars == <<scratch, auditStage, proofStage>>
receiptVars == <<result, resultStage>>
host == <<res, fw, rollback>>
counters == <<mains, cleanups>>
vars == <<pc, inv, mem, evidence, rowsVars, receiptVars, scratchVars, host,
          counters, faults, hist>>

-----------------------------------------------------------------------------
(* Data *)

DockerClasses == {"container", "volume", "network"}
Classes == DockerClasses \cup {"listener"}

PassStatuses == {"CONTAINMENT_SMOKE_PASS", "DIRECT_DOCKER_PORT_PATH_PASS",
                 "FIREWALL_PUBLICATION_REHEARSAL_PASS"}
Statuses == {"BLOCKED"} \cup PassStatuses

(* The status finalize records when everything held. *)
PassStatus(m) == CASE m = "direct-port" -> "DIRECT_DOCKER_PORT_PATH_PASS"
                   [] m = "firewall-rehearsal" -> "FIREWALL_PUBLICATION_REHEARSAL_PASS"
                   [] OTHER -> "CONTAINMENT_SMOKE_PASS"

(* PRIMARY stands for every closed code a gate passes to `block'. *)
Codes == {"PRIMARY", "NETWORK_CONTRACT", "HARNESS_INTERRUPTED",
          "LISTENER_UNEXPECTED_INTERRUPTION",
          "CLEANUP_MODE_CONTRACT_PUBLICATION_FAILED", "CLEANUP_RESIDUE",
          "PACKET_SCRATCH_PROOF_FAILED", "RESULT_RECEIPT_PUBLICATION_FAILED",
          "RESULT_RECEIPT_VALIDATION_FAILED", "UNKNOWN_SANITIZED"}

Counts == {"none", "zero", "some"}
Proofs == {"none", "PASS", "REMAINS", "INVALID"}

(* The rows of a state file that some decision reads.  priv: the private   *)
(* probe's digest-bound evidence is absent (or incomplete), reports PASS,  *)
(* or reports a failure after which the private side was clean or not.     *)
Rows == [present: BOOLEAN, status: Statuses \cup {"none"}, code: Codes \cup {"none"},
         orig: AllModes \cup {"none"}, priv: {"absent", "pass", "clean", "residue"},
         count: [Classes -> Counts], primary: Proofs, cleanup: Proofs]

NoFile == [present |-> FALSE, status |-> "none", code |-> "none", orig |-> "none",
           priv |-> "absent", count |-> [c \in Classes |-> "none"],
           primary |-> "none", cleanup |-> "none"]
EmptyFile == [NoFile EXCEPT !.present = TRUE]

CleanupStatuses == {"EXACT_ZERO", "RESIDUE", "UNVERIFIED"}
Receipts == [status: Statuses \cup {"none", "raw"}, code: Codes \cup {"NONE"},
             mode: AllModes \cup {"cleanup-only"}, cleanup: CleanupStatuses]
NoReceipt == [status |-> "none", code |-> "NONE", mode |-> "cleanup-only",
              cleanup |-> "UNVERIFIED"]
RawReceipt == [NoReceipt EXCEPT !.status = "raw"]

(* The shell variables of a fresh process. *)
InitMem == [smoke |-> FALSE, exitOk |-> FALSE, netId |-> FALSE, netOk |-> TRUE,
            modeOk |-> TRUE, queryOk |-> TRUE, preZero |-> FALSE, fwOk |-> TRUE,
            listenerOk |-> TRUE, cleanupOk |-> TRUE, scratchOk |-> TRUE,
            outcome |-> "none", auditVar |-> "runtime", file |-> "STATE",
            recovery |-> FALSE, op |-> "replace", existing |-> "none",
            expected |-> "BLOCKED", writerOk |-> TRUE, faults0 |-> 0]

Mem == [smoke: BOOLEAN, exitOk: BOOLEAN, netId: BOOLEAN, netOk: BOOLEAN,
        modeOk: BOOLEAN, queryOk: BOOLEAN, preZero: BOOLEAN, fwOk: BOOLEAN,
        listenerOk: BOOLEAN, cleanupOk: BOOLEAN, scratchOk: BOOLEAN,
        outcome: Proofs, auditVar: {"runtime", "stage"}, file: {"STATE", "CLEANUP"},
        recovery: BOOLEAN, op: {"replace", "merge"}, existing: Statuses \cup {"none"},
        expected: Statuses, writerOk: BOOLEAN, faults0: Nat]

Locations ==
    {"idle", "mode_write", "mode_link", "mode_unstage", "preterminal", "work", "finalize",
     "read_receipt", "resolve_mode", "remove_container", "remove_volume",
     "remove_network", "pre_firewall", "firewall", "count_container", "count_volume",
     "count_network", "count_listener", "cleanup_return", "scratch_stage",
     "scratch_remove", "scratch_proof", "scratch_record", "scratch_unstage",
     "scratch_return", "decide", "publish_guard", "publish_write", "publish_audit",
     "publish_build", "publish_rename", "publish_verify", "published",
     "publish_failed", "retire", "forget"}

-----------------------------------------------------------------------------
(* Helpers *)

IsCleanup == inv = "cleanup-only"

(* A command that fails, or a kill, uses up one fault. *)
Charge(ok) == IF ok THEN UNCHANGED faults
                    ELSE faults < MaxFaults /\ faults' = faults + 1

(* $STATE_FILE names one of the two state files. *)
StateFile == IF mem.file = "STATE" THEN state ELSE cleanupState

(* The effect of a sequence of `record' calls. *)
Record(rows) ==
    IF mem.file = "STATE" THEN state' = rows /\ UNCHANGED cleanupState
                          ELSE cleanupState' = rows /\ UNCHANGED state

(* Later failures name themselves only when no explicit failure did. *)
Unexplained(rows) == rows.code \in {"none", "HARNESS_INTERRUPTED"}

WithBlocked(rows, c) == [rows EXCEPT !.status = "BLOCKED", !.code = c]

(* Mutant of WithBlockedIfUnexplained: the last failure wins. *)
WithBlockedAlways(rows, c) == WithBlocked(rows, c)

WithBlockedIfUnexplained(rows, c) ==
    IF Unexplained(rows) THEN WithBlocked(rows, c) ELSE rows

(* cleanup-only always records BLOCKED, finalize only with the code. *)
WithLateFailure(rows, c) ==
    IF IsCleanup THEN [WithBlockedIfUnexplained(rows, c) EXCEPT !.status = "BLOCKED"]
                 ELSE WithBlockedIfUnexplained(rows, c)

FirewallRequired(m) == m = "firewall-rehearsal"

-----------------------------------------------------------------------------
(* public_receipt_tool build *)

ReceiptMode(rows) == IF ~IsCleanup THEN inv
                     ELSE IF rows.orig # "none" THEN rows.orig ELSE "cleanup-only"

(* The scratch proof that counts: the cleanup phase's when it has one. *)
ScratchRow(rows) == IF rows.cleanup # "none" THEN rows.cleanup ELSE rows.primary

CleanupStatus(rows) ==
    LET private == ReceiptMode(rows) = "private-netns-probe"
        complete == /\ \A c \in Classes : rows.count[c] # "none"
                    /\ ScratchRow(rows) = "PASS"
                    /\ private => rows.priv \in {"pass", "clean"}
        residue == \/ \E c \in Classes : rows.count[c] = "some"
                   \/ ScratchRow(rows) = "REMAINS"
                   \/ private /\ rows.priv = "residue"
    IN  IF residue THEN "RESIDUE" ELSE IF complete THEN "EXACT_ZERO" ELSE "UNVERIFIED"

(* A PASS is admitted only for the status the state file itself records.   *)
(* No private run passes: finalize never records a status for one.         *)
PassAdmitted(rows, sourceExact) ==
    /\ mem.expected # "BLOCKED"
    /\ mem.writerOk
    /\ sourceExact
    /\ CleanupStatus(rows) = "EXACT_ZERO"
    /\ rows.status = mem.expected

(* The code of a BLOCKED receipt.  Private evidence carries its own code;  *)
(* without complete private evidence a private receipt is sanitized.       *)
FailureCode(rows) ==
    IF ~mem.writerOk THEN "RESULT_RECEIPT_PUBLICATION_FAILED"
    ELSE IF ReceiptMode(rows) = "private-netns-probe" /\ rows.priv = "absent"
         THEN "UNKNOWN_SANITIZED"
    ELSE IF ReceiptMode(rows) = "private-netns-probe" /\ rows.priv # "pass"
         THEN "PRIMARY"
    ELSE IF rows.code # "none" THEN rows.code
    ELSE IF mem.expected # "BLOCKED" /\ CleanupStatus(rows) # "EXACT_ZERO"
         THEN "CLEANUP_RESIDUE" ELSE "UNKNOWN_SANITIZED"

BuildReceipt(rows, sourceExact) ==
    LET pass == PassAdmitted(rows, sourceExact)
    IN  [status |-> IF pass THEN mem.expected ELSE "BLOCKED",
         code |-> IF pass THEN "NONE" ELSE FailureCode(rows),
         mode |-> ReceiptMode(rows),
         cleanup |-> CleanupStatus(rows)]

(* validate_receipt: a receipt is BLOCKED with a code or passes without one. *)
Valid(receipt) ==
    receipt.status \in Statuses /\ (receipt.status = "BLOCKED" <=> receipt.code # "NONE")

-----------------------------------------------------------------------------
(* A normal mode: from the first line to the EXIT trap *)

(* History of the run now in progress.  passed: its finalizer found every  *)
(* gate satisfied.  blocked: a BLOCKED receipt was published for it.       *)
(* explained: a gate of a host mode recorded an explicit failure code.     *)
(* stale: an earlier receipt was still there when the run started.         *)
(* leftover: a state file of an earlier cleanup was.                       *)
InitHist == [passed |-> FALSE, blocked |-> FALSE, explained |-> FALSE, stale |-> FALSE,
             leftover |-> FALSE]

(* The directories are made and both logs truncated before anything else.  *)
MainStart(m) ==
    /\ pc = "idle" /\ mains < MaxMains
    /\ mains' = mains + 1
    /\ inv' = m /\ mem' = InitMem /\ pc' = "mode_write"
    /\ state' = EmptyFile
    /\ scratch' = IF scratch = "absent" THEN "clean" ELSE scratch
    /\ hist' = [InitHist EXCEPT !.stale = result # NoReceipt, !.leftover = cleanupState.present]
    /\ UNCHANGED <<evidence, cleanupState, receiptVars, auditStage, proofStage, host,
                   cleanups, faults>>

(* block: record BLOCKED with the code, exit 1, run finalize. *)
Block(c) ==
    /\ Record(WithBlocked(StateFile, c))
    /\ mem' = [mem EXCEPT !.exitOk = FALSE]
    /\ pc' = "finalize"

(* Mutant of ModeStageWrite: an earlier run's contract is replaced. *)
ModeStageWriteAnew ==
    /\ pc = "mode_write"
    /\ IF ~modeStage
       THEN modeStage' = TRUE /\ pc' = "mode_link" /\ UNCHANGED <<mem, rowsVars>>
       ELSE Block("CLEANUP_MODE_CONTRACT_PUBLICATION_FAILED") /\ UNCHANGED modeStage
    /\ UNCHANGED <<inv, modeFile, receiptVars, scratchVars, host, counters, faults, hist>>

(* write_cleanup_mode_contract: stage, link without replacing, unstage. *)
ModeStageWrite ==
    /\ pc = "mode_write"
    /\ IF modeFile = "none" /\ ~modeStage
       THEN modeStage' = TRUE /\ pc' = "mode_link" /\ UNCHANGED <<mem, rowsVars>>
       ELSE Block("CLEANUP_MODE_CONTRACT_PUBLICATION_FAILED") /\ UNCHANGED modeStage
    /\ UNCHANGED <<inv, modeFile, receiptVars, scratchVars, host, counters, faults, hist>>

ModeLink ==
    /\ pc = "mode_link" /\ pc' = "mode_unstage"
    /\ modeFile' = inv
    /\ UNCHANGED <<inv, mem, modeStage, rowsVars, receiptVars, scratchVars, host,
                   counters, faults, hist>>

ModeUnstage ==
    /\ pc = "mode_unstage" /\ pc' = "preterminal"
    /\ modeStage' = FALSE
    /\ UNCHANGED <<inv, mem, modeFile, rowsVars, receiptVars, scratchVars, host,
                   counters, faults, hist>>

(* A failed write or link removes the stage again, a failed rm cannot. *)
ModePublicationFails ==
    /\ pc \in {"mode_write", "mode_link", "mode_unstage"}
    /\ pc = "mode_write" => modeFile = "none" /\ ~modeStage
    /\ Charge(FALSE)
    /\ Block("CLEANUP_MODE_CONTRACT_PUBLICATION_FAILED")
    /\ modeStage' = (pc = "mode_unstage")
    /\ UNCHANGED <<inv, modeFile, receiptVars, scratchVars, host, counters, hist>>

RecordPreterminal ==
    /\ pc = "preterminal" /\ pc' = "work"
    /\ Record(WithBlocked(StateFile, "HARNESS_INTERRUPTED"))
    /\ UNCHANGED <<inv, mem, evidence, receiptVars, scratchVars, host, counters, faults,
                   hist>>

(* The gates and probes of the mode.  The firewall mode prepares its       *)
(* ledger before the network exists; containers need the network; the      *)
(* database container brings its volume (CLI) and its published listener.  *)
PrepareFirewall ==
    /\ pc = "work" /\ FirewallRequired(inv) /\ ~mem.netId
    /\ fw = "none" /\ fw' = "ledger"
    /\ UNCHANGED <<pc, inv, mem, evidence, rowsVars, receiptVars, scratchVars, res,
                   rollback, counters, faults, hist>>

CreateNetwork ==
    /\ pc = "work" /\ inv # "private-netns-probe" /\ ~mem.netId
    /\ FirewallRequired(inv) => fw = "ledger"
    /\ res' = res \cup {"network"}
    /\ mem' = [mem EXCEPT !.netId = TRUE]
    /\ UNCHANGED <<pc, inv, evidence, rowsVars, receiptVars, scratchVars, fw, rollback,
                   counters, faults, hist>>

CreateDatabase ==
    /\ pc = "work" /\ mem.netId /\ "container" \notin res
    /\ \E made \in {{"container"}, {"container", "listener"},
                     {"container", "volume", "listener"}} :
          /\ "volume" \in made => inv = "run"
          /\ res' = res \cup made
    /\ UNCHANGED <<pc, inv, mem, evidence, rowsVars, receiptVars, scratchVars, fw,
                   rollback, counters, faults, hist>>

(* The private probe appends its evidence, then blocks in every case. *)
PrivateEvidence ==
    /\ pc = "work" /\ inv = "private-netns-probe" /\ StateFile.priv = "absent"
    /\ \E p \in {"pass", "clean", "residue"} : Record([StateFile EXCEPT !.priv = p])
    /\ UNCHANGED <<pc, inv, mem, evidence, receiptVars, scratchVars, host, counters,
                   faults, hist>>

(* A tool leaves an entry in the scratch root that is not admissible. *)
PolluteScratch ==
    /\ pc = "work" /\ scratch = "clean" /\ scratch' = "foreign"
    /\ Charge(FALSE)
    /\ UNCHANGED <<pc, inv, mem, evidence, rowsVars, receiptVars, auditStage, proofStage,
                   host, counters, hist>>

GateBlocks ==
    /\ pc = "work"
    /\ Block("PRIMARY")
    /\ hist' = [hist EXCEPT !.explained = inv # "private-netns-probe"]
    /\ UNCHANGED <<inv, evidence, receiptVars, scratchVars, host, counters, faults>>

(* A signal, or a command that fails under `set -e': EXIT without a code. *)
Interrupt ==
    /\ pc \in {"mode_write", "mode_link", "mode_unstage", "preterminal", "work"}
    /\ pc' = "finalize" /\ mem' = [mem EXCEPT !.exitOk = FALSE]
    /\ UNCHANGED <<inv, evidence, rowsVars, receiptVars, scratchVars, host, counters,
                   faults, hist>>

(* Only run and direct-port reach SMOKE_PASSED=1: the private probe always *)
(* blocks, and so does marker installation in the firewall rehearsal.      *)
WorkPasses ==
    /\ pc = "work" /\ inv \in {"run", "direct-port"}
    /\ {"network", "container"} \subseteq res
    /\ mem' = [mem EXCEPT !.smoke = TRUE, !.exitOk = TRUE] /\ pc' = "finalize"
    /\ UNCHANGED <<inv, evidence, rowsVars, receiptVars, scratchVars, host, counters,
                   faults, hist>>

-----------------------------------------------------------------------------
(* finalize, up to cleanup_exact *)

(* An exit inside the listener preflight names itself; the frozen network  *)
(* is checked once more while it still exists.                             *)
FinalizeBegin ==
    /\ pc = "finalize" /\ pc' = "resolve_mode"
    /\ \E inPreflight, netOk \in BOOLEAN :
         LET named == IF inPreflight
                      THEN WithBlockedIfUnexplained(StateFile, "LISTENER_UNEXPECTED_INTERRUPTION")
                      ELSE StateFile
         IN  /\ inPreflight => mem.netId /\ ~mem.exitOk
             /\ ~netOk => inv \in {"run", "firewall-rehearsal"} /\ mem.netId
             /\ Charge(netOk)
             /\ mem' = [mem EXCEPT !.netOk = netOk]
             /\ Record(IF netOk THEN named
                       ELSE WithBlockedIfUnexplained(named, "NETWORK_CONTRACT"))
    /\ UNCHANGED <<inv, evidence, receiptVars, scratchVars, host, counters, hist>>

-----------------------------------------------------------------------------
(* cleanup_exact, shared by finalize and cleanup-only *)

(* resolve_cleanup_mode_contract *)
ResolveMode ==
    /\ pc = "resolve_mode" /\ pc' = "remove_container"
    /\ LET ok == ~modeStage /\ modeFile # "none" /\ (IsCleanup \/ inv = modeFile)
       IN  /\ mem' = [mem EXCEPT !.modeOk = ok]
           /\ Record(IF ok THEN [StateFile EXCEPT !.orig = modeFile] ELSE StateFile)
    /\ UNCHANGED <<inv, evidence, receiptVars, scratchVars, host, counters, faults, hist>>

AfterRemove == [container |-> "remove_volume", volume |-> "remove_network",
                network |-> "pre_firewall"]
RemoveAt(c) == CASE c = "container" -> "remove_container"
                 [] c = "volume" -> "remove_volume"
                 [] OTHER -> "remove_network"

(* Docker refuses to remove a volume or network a container still uses;    *)
(* a removed container frees its published port.                           *)
Removed(c) == IF c = "container" THEN res \ {"container", "listener"}
              ELSE IF "container" \in res THEN res ELSE res \ {c}

(* One resource class: list by the five label filters, verify ownership,   *)
(* remove.  A failed list or inspection spoils the whole attempt's query   *)
(* state, a failed removal is ignored here.                                *)
RemoveClass(c) ==
    /\ pc = RemoveAt(c) /\ pc' = AfterRemove[c]
    /\ \/ res' = Removed(c) /\ Charge(TRUE) /\ UNCHANGED mem
       \/ /\ UNCHANGED res /\ Charge(FALSE)
          /\ \/ mem' = [mem EXCEPT !.queryOk = FALSE]  \* list or ownership inspection
             \/ UNCHANGED mem                          \* docker rm
    /\ UNCHANGED <<inv, evidence, rowsVars, receiptVars, scratchVars, fw, rollback,
                   counters, hist>>

(* Three fresh counts right before the firewall may be touched. *)
PreFirewallCount ==
    /\ pc = "pre_firewall" /\ pc' = "firewall"
    /\ \E ok \in BOOLEAN :
         /\ Charge(ok)
         /\ mem' = [mem EXCEPT !.queryOk = @ /\ ok,
                               !.preZero = ok /\ res \cap DockerClasses = {}]
    /\ UNCHANGED <<inv, evidence, rowsVars, receiptVars, scratchVars, host, counters, hist>>

(* Mutant of FirewallRemoved: the ledger goes without a completion record. *)
FirewallDropped == "none"

(* firewall_boundary.py remove, seen from outside (FirewallEvidence): the  *)
(* ledger is exchanged for the completion record, and a record left by an  *)
(* earlier attempt is consumed.  A failing or killed remove may stop at    *)
(* any point of the way.                                                   *)
FirewallRemoved == IF fw = "ledger" THEN "restored" ELSE "none"
FirewallInterrupted == CASE fw = "ledger" -> {"ledger", "both", "restored"}
                         [] fw = "both" -> {"both", "restored", "none"}
                         [] fw = "restored" -> {"restored", "none"}
                         [] OTHER -> {"none"}

(* Mutant of FirewallNeeded: a zero count is not required. *)
FirewallNeededUnchecked == mem.queryOk /\ mem.modeOk /\ FirewallRequired(StateFile.orig)

FirewallNeeded == /\ mem.queryOk /\ mem.preZero /\ mem.modeOk
                  /\ FirewallRequired(StateFile.orig)

(* cleanup_firewall_boundary *)
CleanupFirewall ==
    /\ pc = "firewall" /\ pc' = "count_container"
    /\ IF FirewallNeeded /\ fw # "none"
       THEN \E ok \in BOOLEAN :
              /\ Charge(ok)
              /\ mem' = [mem EXCEPT !.fwOk = ok]
              /\ fw' \in IF ok THEN {FirewallRemoved} ELSE FirewallInterrupted
              /\ rollback' = (rollback \/ (ok /\ ~IsCleanup))
       ELSE /\ mem' = [mem EXCEPT !.fwOk = /\ mem.queryOk /\ mem.preZero /\ mem.modeOk
                                           /\ ~FirewallNeeded
                                           /\ fw = "none" /\ ~rollback]
            /\ UNCHANGED <<fw, rollback, faults>>
    /\ UNCHANGED <<inv, evidence, rowsVars, receiptVars, scratchVars, res, counters, hist>>

AfterCount == [container |-> "count_volume", volume |-> "count_network",
               network |-> "count_listener", listener |-> "cleanup_return"]
CountAt(c) == CASE c = "container" -> "count_container"
                [] c = "volume" -> "count_volume"
                [] c = "network" -> "count_network"
                [] OTHER -> "count_listener"

(* Mutant of CountResidue: an empty answer is counted, also of a failed    *)
(* query.                                                                  *)
CountResidueAssumed(c) ==
    /\ pc = CountAt(c) /\ pc' = AfterCount[c]
    /\ \E ok \in BOOLEAN :
         /\ Charge(ok)
         /\ Record([StateFile EXCEPT !.count[c] = IF ok /\ c \in res THEN "some" ELSE "zero"])
         /\ mem' = IF ok THEN mem ELSE [mem EXCEPT !.queryOk = FALSE]
    /\ UNCHANGED <<inv, evidence, receiptVars, scratchVars, host, counters, hist>>

(* A count is recorded only after a successful query; a failed one leaves  *)
(* whatever row the file already had.                                      *)
CountResidue(c) ==
    /\ pc = CountAt(c) /\ pc' = AfterCount[c]
    /\ \E ok \in BOOLEAN :
         /\ Charge(ok)
         /\ IF ok
            THEN /\ Record([StateFile EXCEPT !.count[c] = IF c \in res THEN "some" ELSE "zero"])
                 /\ UNCHANGED mem
            ELSE /\ mem' = IF c = "listener" THEN [mem EXCEPT !.listenerOk = FALSE]
                                             ELSE [mem EXCEPT !.queryOk = FALSE]
                 /\ UNCHANGED rowsVars
    /\ UNCHANGED <<inv, evidence, receiptVars, scratchVars, host, counters, hist>>

(* The conjunction cleanup_exact ends with. *)
CleanupExact ==
    /\ \A c \in Classes : StateFile.count[c] = "zero"
    /\ mem.queryOk /\ mem.modeOk /\ mem.listenerOk
    /\ mem.fwOk /\ fw \notin {"ledger", "both"}

(* The TCP and native listener checks come last and may still fail. *)
CleanupReturn ==
    /\ pc = "cleanup_return" /\ pc' = "scratch_stage"
    /\ \E portsOk \in BOOLEAN :
         LET ok == CleanupExact /\ portsOk
         IN  /\ Charge(portsOk)
             /\ mem' = [mem EXCEPT !.cleanupOk = @ /\ ok]
             /\ Record(IF ok THEN StateFile
                       ELSE WithLateFailure(StateFile, "CLEANUP_RESIDUE"))
    /\ UNCHANGED <<inv, evidence, receiptVars, scratchVars, host, counters, hist>>

-----------------------------------------------------------------------------
(* cleanup_packet_scratch *)

(* A stage left behind ends the attempt at once, without a row.  A root or *)
(* audit that cannot be validated is proved INVALID and nothing is moved.  *)
ScratchStage ==
    /\ pc = "scratch_stage"
    /\ IF auditStage \/ proofStage # "none"
       THEN /\ mem' = [mem EXCEPT !.scratchOk = FALSE] /\ pc' = "scratch_return"
            /\ UNCHANGED <<auditStage, faults>>
       ELSE \E valid \in BOOLEAN :
              /\ Charge(valid)
              /\ auditStage' = valid
              /\ mem' = [mem EXCEPT !.outcome = IF valid THEN "none" ELSE "INVALID"]
              /\ pc' = IF valid THEN "scratch_remove" ELSE "scratch_proof"
    /\ UNCHANGED <<inv, evidence, rowsVars, receiptVars, scratch, proofStage, host,
                   counters, hist>>

(* Mutant of ScratchRemove: the absence of the root is not re-checked. *)
ScratchRemoveAssumed ==
    /\ pc = "scratch_remove" /\ pc' = "scratch_proof"
    /\ scratch' \in {scratch, "absent"}
    /\ Charge(scratch' = "absent")
    /\ mem' = [mem EXCEPT !.outcome = "PASS"]
    /\ UNCHANGED <<inv, evidence, rowsVars, receiptVars, auditStage, proofStage, host,
                   counters, hist>>

(* Only a completely admissible tree is removed; removal may still fail. *)
ScratchRemove ==
    /\ pc = "scratch_remove" /\ pc' = "scratch_proof"
    /\ \E removed \in BOOLEAN :
         /\ removed => scratch = "clean"
         /\ Charge(removed \/ scratch = "foreign")
         /\ scratch' = IF removed THEN "absent" ELSE scratch
         /\ mem' = [mem EXCEPT !.outcome = IF removed THEN "PASS" ELSE "REMAINS"]
    /\ UNCHANGED <<inv, evidence, rowsVars, receiptVars, auditStage, proofStage, host,
                   counters, hist>>

(* The row of the phase this invocation is in. *)
WithProof(rows, p) == IF IsCleanup THEN [rows EXCEPT !.cleanup = p]
                                   ELSE [rows EXCEPT !.primary = p]

(* A PROOF_INVALID row does not retract an entry count recorded before. *)
WithInvalidProof(rows) ==
    LET old == IF IsCleanup THEN rows.cleanup ELSE rows.primary
    IN  WithProof(rows, IF old = "REMAINS" THEN "REMAINS" ELSE "INVALID")

AuditVar == IF auditStage THEN "stage" ELSE "runtime"

ScratchProof ==
    /\ pc = "scratch_proof"
    /\ \/ /\ Charge(TRUE)
          /\ proofStage' = mem.outcome /\ pc' = "scratch_record"
          /\ UNCHANGED <<mem, rowsVars>>
       \/ /\ Charge(FALSE)
          /\ Record(WithInvalidProof(StateFile))
          /\ mem' = [mem EXCEPT !.scratchOk = FALSE, !.auditVar = AuditVar]
          /\ pc' = "scratch_return" /\ UNCHANGED proofStage
    /\ UNCHANGED <<inv, evidence, receiptVars, scratch, auditStage, host, counters, hist>>

ScratchRecord ==
    /\ pc = "scratch_record" /\ pc' = "scratch_unstage"
    /\ Record(WithProof(StateFile, proofStage))
    /\ UNCHANGED <<inv, mem, evidence, receiptVars, scratchVars, host, counters, faults,
                   hist>>

(* rm of the proof stage; when it fails AUDIT_FILE is not switched. *)
ScratchUnstage ==
    /\ pc = "scratch_unstage" /\ pc' = "scratch_return"
    /\ \E ok \in BOOLEAN :
         /\ Charge(ok)
         /\ proofStage' = IF ok THEN "none" ELSE proofStage
         /\ mem' = [mem EXCEPT !.scratchOk = ok /\ mem.outcome = "PASS",
                               !.auditVar = IF ok THEN AuditVar ELSE @]
    /\ UNCHANGED <<inv, evidence, rowsVars, receiptVars, scratch, auditStage, host,
                   counters, hist>>

ScratchReturn ==
    /\ pc = "scratch_return" /\ pc' = "decide"
    /\ Record(IF mem.scratchOk THEN StateFile
              ELSE WithLateFailure(StateFile, "PACKET_SCRATCH_PROOF_FAILED"))
    /\ mem' = [mem EXCEPT !.cleanupOk = @ /\ (IsCleanup => mem.scratchOk)]
    /\ UNCHANGED <<inv, evidence, receiptVars, scratchVars, host, counters, faults, hist>>

-----------------------------------------------------------------------------
(* What to publish *)

(* finalize: PASS only when the run and its whole teardown held. *)
FinalizeDecide ==
    /\ pc = "decide" /\ ~IsCleanup /\ pc' = "publish_guard"
    /\ LET torn == mem.cleanupOk /\ mem.scratchOk
           pass == torn /\ mem.smoke /\ mem.exitOk /\ mem.netOk
       IN  /\ Record(IF pass THEN [StateFile EXCEPT !.status = PassStatus(inv)]
                     ELSE IF torn /\ StateFile.status # "BLOCKED"
                          THEN WithBlocked(StateFile, "HARNESS_INTERRUPTED")
                          ELSE StateFile)
           /\ mem' = [mem EXCEPT !.expected = IF pass THEN PassStatus(inv) ELSE "BLOCKED",
                                 !.op = "replace"]
           /\ hist' = [hist EXCEPT !.passed = pass]
    /\ UNCHANGED <<inv, evidence, receiptVars, scratchVars, host, counters, faults>>

(* cleanup-only: the existing status, or BLOCKED when anything went wrong  *)
(* or there is no receipt to preserve.                                     *)
CleanupDecide ==
    /\ pc = "decide" /\ IsCleanup /\ pc' = "publish_guard"
    /\ Record(IF result = NoReceipt /\ mem.cleanupOk
              THEN IF mem.recovery THEN [StateFile EXCEPT !.status = "BLOCKED"]
                   ELSE WithBlocked(StateFile, "HARNESS_INTERRUPTED")
              ELSE StateFile)
    /\ mem' = [mem EXCEPT !.op = IF result = NoReceipt THEN "replace" ELSE @,
                          !.expected = IF mem.cleanupOk /\ mem.existing # "none"
                                       THEN mem.existing ELSE "BLOCKED"]
    /\ UNCHANGED <<inv, evidence, receiptVars, scratchVars, host, counters, faults, hist>>

-----------------------------------------------------------------------------
(* publish_result_receipt *)

(* Mutant of PublishGuard: a leftover proof stage is waited for. *)
PublishGuardWaiting ==
    /\ pc = "publish_guard" /\ proofStage = "none"
    /\ pc' = "publish_write"
    /\ resultStage' = IF mem.op = "merge" THEN result ELSE NoReceipt
    /\ UNCHANGED <<inv, mem, evidence, rowsVars, result, scratchVars, host, counters,
                   faults, hist>>

(* Mutant of PublishGuard: an audit stage left by a killed run refuses     *)
(* publication too.                                                        *)
PublishGuardStrict ==
    /\ pc = "publish_guard"
    /\ \E ok \in BOOLEAN :
         /\ Charge(ok)
         /\ IF ok /\ proofStage = "none" /\ (auditStage => mem.auditVar = "stage")
            THEN /\ pc' = "publish_write"
                 /\ resultStage' = IF mem.op = "merge" THEN result ELSE NoReceipt
            ELSE pc' = "publish_failed" /\ UNCHANGED resultStage
    /\ UNCHANGED <<inv, mem, evidence, rowsVars, result, scratchVars, host, counters, hist>>

(* A proof stage left behind refuses publication; merging first validates  *)
(* the receipt that is there.  The audit stage this process read from      *)
(* still exists, nothing else removes it.                                  *)
PublishGuard ==
    /\ pc = "publish_guard"
    /\ \E ok \in BOOLEAN :
         /\ Charge(ok)
         /\ IF ok /\ proofStage = "none"
            THEN /\ pc' = "publish_write"
                 /\ resultStage' = IF mem.op = "merge" THEN result ELSE NoReceipt
            ELSE pc' = "publish_failed" /\ UNCHANGED resultStage
    /\ UNCHANGED <<inv, mem, evidence, rowsVars, result, scratchVars, host, counters, hist>>

(* write_result.py.  What it writes is replaced by build below: only its   *)
(* exit status matters to the receipt.                                     *)
PublishWrite ==
    /\ pc = "publish_write" /\ pc' = "publish_audit"
    /\ \E ok \in BOOLEAN :
         Charge(ok) /\ mem' = [mem EXCEPT !.writerOk = ok]
    /\ resultStage' = RawReceipt
    /\ UNCHANGED <<inv, evidence, rowsVars, result, scratchVars, host, counters, hist>>

PublishConsumeAudit ==
    /\ pc = "publish_audit" /\ pc' = "publish_build"
    /\ \E ok \in BOOLEAN :
         /\ ~ok => mem.auditVar = "stage"
         /\ Charge(ok)
         /\ auditStage' = (auditStage /\ (mem.auditVar = "runtime" \/ ~ok))
         /\ mem' = [mem EXCEPT !.writerOk = @ /\ ok]
    /\ UNCHANGED <<inv, evidence, rowsVars, receiptVars, scratch, proofStage, host,
                   counters, hist>>

(* sanitize_public_result_receipt and validation of the stage *)
PublishBuild ==
    /\ pc = "publish_build"
    /\ \/ \E sourceExact \in BOOLEAN :
            LET receipt == BuildReceipt(StateFile, sourceExact)
            IN  /\ Charge(sourceExact)
                /\ IF Valid(receipt)
                   THEN resultStage' = receipt /\ pc' = "publish_rename"
                   ELSE resultStage' = NoReceipt /\ pc' = "publish_failed"
       \/ Charge(FALSE) /\ resultStage' = NoReceipt /\ pc' = "publish_failed"
    /\ UNCHANGED <<inv, mem, evidence, rowsVars, result, scratchVars, host, counters, hist>>

PublishRename ==
    /\ pc = "publish_rename"
    /\ resultStage' = NoReceipt
    /\ \/ /\ Charge(TRUE)
          /\ result' = resultStage /\ pc' = "publish_verify"
          /\ hist' = [hist EXCEPT !.blocked = @ \/ resultStage.status = "BLOCKED"]
       \/ Charge(FALSE) /\ pc' = "publish_failed" /\ UNCHANGED <<result, hist>>
    /\ UNCHANGED <<inv, mem, evidence, rowsVars, scratchVars, host, counters>>

(* The published bytes are read back; a receipt that fails is removed. *)
PublishVerify ==
    /\ pc = "publish_verify"
    /\ \E ok \in BOOLEAN :
         /\ Charge(ok \/ ~Valid(result))
         /\ ok => Valid(result)
         /\ result' = IF ok THEN result ELSE NoReceipt
         /\ pc' = IF ok THEN "published" ELSE "publish_failed"
    /\ UNCHANGED <<inv, mem, evidence, rowsVars, resultStage, scratchVars, host, counters,
                   hist>>

-----------------------------------------------------------------------------
(* After publication *)

Exit == pc' = "idle" /\ inv' = "idle" /\ mem' = InitMem

(* finalize: the receipt is authoritative, the state file goes. *)
FinalizePublished ==
    /\ pc = "published" /\ ~IsCleanup
    /\ state' = NoFile
    /\ Exit
    /\ UNCHANGED <<evidence, cleanupState, receiptVars, scratchVars, host, counters, faults,
                   hist>>

(* Mutant of FinalizeNotPublished: the state file is removed in any case. *)
FinalizeForgets ==
    /\ pc = "publish_failed" /\ ~IsCleanup
    /\ state' = NoFile /\ result' = NoReceipt /\ resultStage' = NoReceipt
    /\ Exit
    /\ UNCHANGED <<evidence, cleanupState, scratchVars, host, counters, faults, hist>>

(* finalize: no receipt, the state file stays for cleanup-only. *)
FinalizeNotPublished ==
    /\ pc = "publish_failed" /\ ~IsCleanup
    /\ Record(IF mem.expected # "BLOCKED"
              THEN WithBlocked(StateFile, "RESULT_RECEIPT_PUBLICATION_FAILED")
              ELSE StateFile)
    /\ result' = NoReceipt /\ resultStage' = NoReceipt
    /\ Exit
    /\ UNCHANGED <<evidence, scratchVars, host, counters, faults, hist>>

-----------------------------------------------------------------------------
(* cleanup-only *)

(* Which state file: the run's, else an earlier cleanup's, else a new one. *)
CleanupStart ==
    /\ pc = "idle" /\ cleanups < MaxCleanups
    /\ cleanups' = cleanups + 1
    /\ inv' = "cleanup-only" /\ pc' = "read_receipt"
    /\ LET recovery == state.present \/ cleanupState.present
       IN  mem' = [InitMem EXCEPT
                     !.file = IF state.present THEN "STATE" ELSE "CLEANUP",
                     !.recovery = recovery,
                     !.op = IF recovery THEN "replace" ELSE "merge",
                     !.faults0 = faults]
    /\ cleanupState' = IF state.present \/ cleanupState.present THEN cleanupState
                                                               ELSE EmptyFile
    /\ scratch' = IF scratch = "absent" THEN "clean" ELSE scratch
    /\ UNCHANGED <<evidence, state, receiptVars, auditStage, proofStage, host, mains,
                   faults, hist>>

(* Mutant of CleanupReadReceipt: a state file that was left behind outranks *)
(* the receipt that was already published.                                 *)
CleanupReadState ==
    /\ pc = "read_receipt" /\ pc' = "resolve_mode"
    /\ mem' = [mem EXCEPT !.existing = IF mem.recovery THEN StateFile.status
                                                       ELSE result.status]
    /\ UNCHANGED <<inv, evidence, rowsVars, receiptVars, scratchVars, host, counters,
                   faults, hist>>

(* A BLOCKED receipt is carried over into the state file with its code, a  *)
(* PASS receipt is not; one that cannot be validated blocks.               *)
CleanupReadReceipt ==
    /\ pc = "read_receipt" /\ pc' = "resolve_mode"
    /\ \E ok \in BOOLEAN :
         /\ ok => result = NoReceipt \/ Valid(result)
         /\ ~ok => result # NoReceipt
         /\ Charge(ok \/ ~Valid(result))
         /\ mem' = IF ok THEN [mem EXCEPT !.existing = result.status]
                         ELSE [mem EXCEPT !.cleanupOk = FALSE, !.op = "replace"]
         /\ Record(IF ~ok THEN WithBlocked(StateFile, "RESULT_RECEIPT_VALIDATION_FAILED")
                   ELSE IF result.status = "BLOCKED"
                        THEN WithBlocked(StateFile, result.code)
                        ELSE StateFile)
    /\ UNCHANGED <<inv, evidence, receiptVars, scratchVars, host, counters, hist>>

(* The receipt says what was expected, or the cleanup has failed. *)
CleanupPublished ==
    /\ pc = "published" /\ IsCleanup
    /\ IF mem.cleanupOk /\ result.status = mem.expected
       THEN pc' = "retire" /\ UNCHANGED <<inv, mem>>
       ELSE Exit
    /\ UNCHANGED <<evidence, rowsVars, receiptVars, scratchVars, host, counters, faults,
                   hist>>

(* A PASS receipt is withdrawn, a BLOCKED one stays. *)
CleanupNotPublished ==
    /\ pc = "publish_failed" /\ IsCleanup
    /\ Record(WithBlockedIfUnexplained(StateFile, "RESULT_RECEIPT_PUBLICATION_FAILED"))
    /\ result' = IF mem.existing = "BLOCKED" THEN result ELSE NoReceipt
    /\ resultStage' = NoReceipt
    /\ Exit
    /\ UNCHANGED <<evidence, scratchVars, host, counters, faults, hist>>

(* retire_cleanup_mode_contract *)
RetireMode ==
    /\ pc = "retire"
    /\ \E ok \in BOOLEAN :
         /\ Charge(ok)
         /\ IF ok /\ ~modeStage /\ modeFile # "none"
            THEN modeFile' = "none" /\ pc' = "forget" /\ UNCHANGED <<inv, mem>>
            ELSE Exit /\ UNCHANGED modeFile
    /\ UNCHANGED <<modeStage, rowsVars, receiptVars, scratchVars, host, counters, hist>>

CleanupForget ==
    /\ pc = "forget"
    /\ state' = NoFile /\ cleanupState' = NoFile /\ rollback' = FALSE
    /\ Exit
    /\ UNCHANGED <<evidence, receiptVars, scratchVars, res, fw, counters, faults, hist>>

-----------------------------------------------------------------------------

(* SIGKILL, or a signal while the trap already runs: memory is lost. *)
Crash ==
    /\ pc # "idle"
    /\ Charge(FALSE)
    /\ Exit
    /\ fw' \in IF pc = "firewall" /\ FirewallNeeded THEN FirewallInterrupted ELSE {fw}
    /\ UNCHANGED <<evidence, rowsVars, receiptVars, scratchVars, res, rollback, counters,
                   hist>>

Init ==
    /\ pc = "idle" /\ inv = "idle" /\ mem = InitMem
    /\ modeFile = "none" /\ modeStage = FALSE
    /\ state = NoFile /\ cleanupState = NoFile
    /\ result = NoReceipt /\ resultStage = NoReceipt
    /\ scratch = "absent" /\ auditStage = FALSE /\ proofStage = "none"
    /\ res = {} /\ fw = "none" /\ rollback = FALSE
    /\ mains = 0 /\ cleanups = 0 /\ faults = 0
    /\ hist = InitHist

Work ==
    \/ PrepareFirewall \/ CreateNetwork \/ CreateDatabase \/ PrivateEvidence
    \/ GateBlocks \/ WorkPasses

Main ==
    \/ ModeStageWrite \/ ModeLink \/ ModeUnstage \/ RecordPreterminal \/ Work
    \/ FinalizeBegin \/ FinalizeDecide \/ FinalizePublished \/ FinalizeNotPublished

Teardown ==
    \/ ResolveMode \/ PreFirewallCount \/ CleanupFirewall \/ CleanupReturn
    \/ \E c \in DockerClasses : RemoveClass(c)
    \/ \E c \in Classes : CountResidue(c)
    \/ ScratchStage \/ ScratchRemove \/ ScratchProof \/ ScratchRecord
    \/ ScratchUnstage \/ ScratchReturn

Publish ==
    \/ PublishGuard \/ PublishWrite \/ PublishConsumeAudit \/ PublishBuild
    \/ PublishRename \/ PublishVerify

CleanupOnly ==
    \/ CleanupReadReceipt \/ CleanupDecide \/ CleanupPublished
    \/ CleanupNotPublished \/ RetireMode \/ CleanupForget

(* The steps an invocation takes by itself. *)
Step == Main \/ Teardown \/ Publish \/ CleanupOnly

(* What the environment does to it. *)
Disturbance == ModePublicationFails \/ PolluteScratch \/ Interrupt \/ Crash

Next ==
    \/ \E m \in Modes : MainStart(m)
    \/ CleanupStart
    \/ Step
    \/ Disturbance

Spec == Init /\ [][Next]_vars

(* A running invocation keeps taking steps (every command it waits for has *)
(* a timeout), and the workflow's cleanup step is `if: always()'.          *)
FairSpec == Spec /\ WF_vars(Step) /\ WF_vars(CleanupStart)

-----------------------------------------------------------------------------
(* Properties *)

(* Steps only a normal mode takes, and steps only cleanup-only takes. *)
MainPcs == {"mode_write", "mode_link", "mode_unstage", "preterminal", "work", "finalize"}
CleanupPcs == {"read_receipt", "retire", "forget"}

(* The values every variable takes, and: an invocation runs exactly when   *)
(* the program counter says so, at a step of its own kind.                 *)
TypeOK ==
    /\ pc \in Locations /\ inv \in AllModes \cup {"idle", "cleanup-only"}
    /\ (pc = "idle") <=> (inv = "idle")
    /\ pc \in MainPcs => inv \in AllModes
    /\ pc \in CleanupPcs => IsCleanup
    /\ mem \in Mem
    /\ modeFile \in AllModes \cup {"none"} /\ modeStage \in BOOLEAN
    /\ state \in Rows /\ cleanupState \in Rows
    /\ result \in Receipts /\ resultStage \in Receipts
    /\ scratch \in {"absent", "clean", "foreign"}
    /\ auditStage \in BOOLEAN /\ proofStage \in Proofs
    /\ res \subseteq Classes /\ fw \in {"none", "ledger", "both", "restored"}
    /\ rollback \in BOOLEAN
    /\ mains \in 0..MaxMains /\ cleanups \in 0..MaxCleanups /\ faults \in 0..MaxFaults
    /\ hist \in [passed: BOOLEAN, blocked: BOOLEAN, explained: BOOLEAN, stale: BOOLEAN,
                leftover: BOOLEAN]

Published == result' # result /\ result' # NoReceipt

(* A PASS receipt appears only for the run in progress, after its          *)
(* finalizer found every gate satisfied, and with nothing left behind: no  *)
(* Docker resource, no listener, no scratch root.  A PASS left by an       *)
(* earlier run is never carried over to a later one.                       *)
PublishedPassIsProven ==
    [][(Published /\ result'.status \in PassStatuses)
         => hist.passed /\ res = {} /\ scratch = "absent"]_vars

(* Once a BLOCKED receipt was published for a run, no later cleanup,       *)
(* retry or recovery turns it into PASS.                                   *)
BlockedIsTerminal ==
    hist.blocked => result = NoReceipt \/ result.status = "BLOCKED"

(* The firewall is touched by teardown only under the rehearsal's own mode *)
(* contract, while no packet container, volume or network exists and every *)
(* Docker query of this attempt succeeded.                                 *)
FirewallGuard ==
    [][(fw' # fw /\ fw # "none")
         => /\ res \cap DockerClasses = {}
            /\ mem.queryOk
            /\ FirewallRequired(modeFile)]_vars

(* The mode contract, which tells every retry what to tear down, is never  *)
(* replaced, and is retired only once nothing is left to tear down and the *)
(* outcome is on record.                                                   *)
ModeRetiredLast ==
    [][modeFile # "none" /\ modeFile' # modeFile
         => /\ modeFile' = "none"
            /\ result # NoReceipt
            /\ res = {} /\ scratch = "absent"
            /\ fw \notin {"ledger", "both"}]_vars

(* Between invocations the outcome of a started run is always on disk: as  *)
(* the receipt, or as a state file a later cleanup can recover it from.    *)
EvidenceRetained ==
    (pc = "idle" /\ mains > 0)
      => result # NoReceipt \/ state.present \/ cleanupState.present

(* A receipt published after a gate named its failure carries that code,   *)
(* or says that the receipt itself failed; teardown and recovery failures  *)
(* never mask it.  Two cases are excluded: private probes, whose code is   *)
(* replaced (PrivateFailureKept), and runs started over an older receipt,  *)
(* whose code a recovering cleanup carries over.                           *)
FirstFailureKept ==
    [][(Published /\ hist.explained /\ ~hist.stale)
         => result'.code \in {"PRIMARY", "RESULT_RECEIPT_PUBLICATION_FAILED",
                               "RESULT_RECEIPT_VALIDATION_FAILED"}]_vars

(* A published EXACT_ZERO claim is true of the Docker resources and the    *)
(* listener, also when its counts were recovered from an interrupted run.  *)
(* Excluded are runs started over the state file of an earlier cleanup:    *)
(* nothing removes it, its zero counts are older than the run, and a later *)
(* cleanup whose own queries fail recovers the claim from them.            *)
ZeroClaimIsTrue ==
    [][(Published /\ result'.cleanup = "EXACT_ZERO" /\ ~hist.leftover)
         => res = {}]_vars

(* An invocation always comes to an end. *)
InvocationEnds == (pc # "idle") ~> (pc = "idle")

(* A cleanup-only invocation that meets no failure ends with a receipt,    *)
(* whatever the killed invocations before it left behind -- unless they    *)
(* left a scratch proof stage, which refuses every later publication.      *)
UndisturbedCleanupPublishes ==
    (IsCleanup /\ mem.faults0 = MaxFaults)
      ~> (pc = "idle" /\ (result # NoReceipt \/ proofStage # "none"))

FE == INSTANCE FirewallEvidence WITH phase <- fw

(* However often teardown is killed and retried, the firewall evidence     *)
(* only moves along the order firewall_boundary.py promises.               *)
ImplementsEvidence == FE!Spec

(* What is on the host, how far the run is, and what the receipt says, as  *)
(* PacketReceipt has them                                                  *)
Held == {thing \in {"resources", "firewall", "scratch"} :
            CASE thing = "resources" -> res # {}
              [] thing = "firewall" -> fw \in {"ledger", "both"}
              [] thing = "scratch" -> scratch # "absent"}
Progress == IF hist.blocked THEN "blocked" ELSE IF hist.passed THEN "proven" ELSE "open"
Outcome == IF result.status \in PassStatuses THEN "PASS"
           ELSE IF result.status = "BLOCKED" THEN "BLOCKED" ELSE "none"

PR == INSTANCE PacketReceipt WITH Modes <- AllModes, contract <- modeFile, held <- Held,
                                  run <- Progress, receipt <- Outcome

(* However runs and cleanups of a packet follow one another, and whatever  *)
(* kills them: nothing of it is on the host without a mode contract under  *)
(* which it will be removed, a contract is not overwritten by a later run, *)
(* and its receipt goes from run to run as PacketReceipt says.             *)
ImplementsReceipt == PR!Spec

-----------------------------------------------------------------------------
(* The inductive invariant *)

DeferredPcs == {"publish_verify", "published", "publish_failed"}
BeforeRename == {"publish_guard", "publish_write", "publish_audit", "publish_build",
                 "publish_rename"}
PublishPcs == BeforeRename \cup DeferredPcs \cup {"retire", "forget"}
ScratchPcs == {"scratch_proof", "scratch_record", "scratch_unstage"}
AfterScratch == {"decide"} \cup PublishPcs
AfterTeardown == {"scratch_stage", "scratch_remove", "scratch_return"}
                     \cup ScratchPcs \cup AfterScratch

(* What teardown has found out is so: the contract it read, the counts it  *)
(* took, the scratch root it removed.                                      *)
CountedBy == [count_volume |-> {"container"}, count_network |-> {"container", "volume"},
              count_listener |-> DockerClasses, cleanup_return |-> Classes]

TeardownKnows ==
    /\ pc = "mode_link" => modeFile = "none"
    /\ pc \in {"remove_container", "remove_volume", "remove_network", "pre_firewall",
              "firewall"} /\ mem.modeOk => StateFile.orig = modeFile
    /\ pc = "firewall" /\ mem.preZero => res \cap DockerClasses = {}
    /\ pc \in DOMAIN CountedBy /\ mem.queryOk /\ mem.listenerOk
         => \A c \in CountedBy[pc] : StateFile.count[c] = "zero" => c \notin res
    /\ pc \in AfterTeardown /\ mem.cleanupOk => res = {} /\ fw \notin {"ledger", "both"}
    /\ pc \in ScratchPcs /\ mem.outcome = "PASS" => scratch = "absent"
    /\ pc \in {"scratch_return"} \cup AfterScratch /\ mem.scratchOk => scratch = "absent"
    /\ pc \in AfterScratch /\ IsCleanup /\ mem.cleanupOk => mem.scratchOk

(* A PASS on its way to the receipt is the one this run's finalizer        *)
(* recorded, after a complete teardown.                                    *)
PassIsEarned ==
    /\ ~IsCleanup => mem.file = "STATE"
    /\ state.status \in PassStatuses => hist.passed
    /\ cleanupState.status \notin PassStatuses
    /\ ~IsCleanup /\ pc \notin PublishPcs \cup {"idle"} => state.status \notin PassStatuses
    /\ pc \in PublishPcs /\ mem.expected # "BLOCKED" => mem.cleanupOk /\ mem.scratchOk
    /\ pc = "publish_rename" =>
         /\ Valid(resultStage)
         /\ resultStage.status \in PassStatuses
              => hist.passed /\ mem.expected = resultStage.status
    /\ pc \in {"publish_verify", "published", "retire", "forget"} => Valid(result)
    /\ pc \in {"retire", "forget"} => mem.cleanupOk

(* While a PASS may still be published, no BLOCKED receipt has been. *)
BlockedIsKnown ==
    /\ BlockedIsTerminal
    /\ ~IsCleanup /\ pc \notin DeferredPcs \cup {"idle"} => ~hist.blocked
    /\ IsCleanup /\ pc \notin DeferredPcs \cup {"retire", "forget"}
         => /\ mem.existing \in PassStatuses => ~hist.blocked
            /\ pc \in BeforeRename /\ mem.expected # "BLOCKED" => mem.existing = mem.expected

(* While an invocation runs its state file exists. *)
EvidenceStands == EvidenceRetained /\ (pc # "idle" => StateFile.present)

(* The inductive invariant: types, what teardown has found out, where a    *)
(* PASS and a BLOCKED receipt come from, and that evidence is never lost.  *)
Inv == TypeOK /\ TeardownKnows /\ PassIsEarned /\ BlockedIsKnown /\ EvidenceStands

(* A zero count is of this run or its teardown, so it is still true: work  *)
(* makes resources only before the first of them, teardown only removes.   *)
CountsStand ==
    /\ ~cleanupState.present => \A c \in Classes : cleanupState.count[c] # "zero"
    /\ \A c \in Classes :
         /\ pc \in MainPcs => state.count[c] # "zero"
         /\ pc \in MainPcs /\ ~hist.leftover => cleanupState.count[c] # "zero"
         /\ state.count[c] = "zero" => c \notin res
         /\ cleanupState.count[c] = "zero" /\ ~hist.leftover => c \notin res
    /\ pc = "publish_rename" /\ resultStage.cleanup = "EXACT_ZERO" /\ ~hist.leftover
         => res = {}

(* The codes that do not mask a gate's own failure. *)
KeptCodes == {"PRIMARY", "RESULT_RECEIPT_PUBLICATION_FAILED",
              "RESULT_RECEIPT_VALIDATION_FAILED"}

HostModes == {"run", "direct-port", "firewall-rehearsal"}

(* The state file the next cleanup-only would recover from. *)
NextFile == IF state.present THEN state ELSE cleanupState

(* Who knows the failure of a run that its gates explained: the file in    *)
(* use, or a BLOCKED receipt; and its mode is known to be a host's.        *)
ReceiptKnows == result.status = "BLOCKED" /\ result.code \in KeptCodes
FileKnows(f) == f.present /\ f.code \in KeptCodes
ModeKnown == modeFile # "none" \/ NextFile.orig # "private-netns-probe"

KnownBetween == pc = "idle" => ReceiptKnows \/ FileKnows(NextFile)

KnownByRun ==
    pc # "idle" /\ ~IsCleanup =>
      /\ inv \in HostModes /\ modeFile # "none"
      /\ StateFile.status = "BLOCKED" \/ pc \in PublishPcs
      /\ ~mem.exitOk

KnownByCleanup ==
    IsCleanup =>
      /\ mem.file = "CLEANUP" => ~state.present
      /\ pc = "read_receipt" => ReceiptKnows \/ FileKnows(StateFile)
      /\ pc \notin PublishPcs => mem.recovery \/ ReceiptKnows
      /\ pc \notin {"read_receipt", "resolve_mode"} =>
            StateFile.orig # "private-netns-probe"
      /\ mem.existing \in {"none", "BLOCKED"}

KnownToInvocation ==
    /\ pc # "idle" => mem.expected = "BLOCKED"
    /\ pc \notin {"idle", "read_receipt"} => FileKnows(StateFile)
    /\ pc = "publish_rename" =>
         resultStage.status = "BLOCKED" /\ resultStage.code \in KeptCodes

FailureKnown ==
    /\ ~modeStage /\ modeFile \in HostModes \cup {"none"} /\ ModeKnown
    /\ result # NoReceipt => ReceiptKnows
    /\ KnownBetween /\ KnownByRun /\ KnownByCleanup /\ KnownToInvocation

(* What a run knows before its gates have spoken. *)
RunBegins ==
    /\ pc \in {"mode_unstage", "preterminal", "work"} => modeFile = inv
    /\ pc \in {"preterminal", "work"} => ~modeStage
    /\ pc \in MainPcs \ {"finalize"} => ~hist.explained /\ mem.expected = "BLOCKED"
    /\ pc \in MainPcs /\ ~hist.stale => result = NoReceipt

FailureStands == RunBegins /\ (hist.explained /\ ~hist.stale => FailureKnown)

-----------------------------------------------------------------------------
(* What the documentation says and the code does not do *)

(* docs/CONTAINMENT_CONTRACT.md: cleanup recovery never masks the primary  *)
(* closed failure -- also for a private probe's receipt.                   *)
PrivateFailureKept ==
    [][(Published /\ result.code = "PRIMARY")
         => result'.code = "PRIMARY"]_vars

(* docs/CONTAINMENT_CONTRACT.md: the cleanup step merges only sanitized    *)
(* cleanup counts into the receipt; a cleanup without any failure leaves   *)
(* the run's PASS alone.                                                   *)
CleanCleanupKeepsPass ==
    [][(Published /\ IsCleanup /\ mem.cleanupOk /\ result.status \in PassStatuses)
         => result'.status = result.status]_vars

(* docs/CONTAINMENT_CONTRACT.md: before any authoritative receipt is       *)
(* published the scratch root is validated and removed, so a receipt that  *)
(* claims EXACT_ZERO finds no scratch root.                                *)
ZeroClaimCoversScratch ==
    [][(Published /\ result'.cleanup = "EXACT_ZERO") => scratch = "absent"]_vars

=============================================================================
