-------------------------- MODULE FirewallBoundary --------------------------
(***************************************************************************)
(* firewall_boundary.py: the crash-safe life of the packet's nftables      *)
(* table.  Its commands (prepare, install, install-markers, counters,      *)
(* marker-counters, remove) run one at a time and may be killed between    *)
(* any two of their system calls; what survives is the ruleset and the     *)
(* files beside the ledger.  Meanwhile Docker and the rest of the host     *)
(* change the foreign part of the ruleset.                                 *)
(*                                                                         *)
(* A digest is modelled by what it is a digest of.  Equal digests mean     *)
(* equal values, and the foreign ruleset is an opaque value.               *)
(***************************************************************************)
EXTENDS Naturals

CONSTANTS
    Foreign,     \* the foreign rulesets (everything outside the packet's table)
    MaxPolls,    \* RESTORATION_POLL_ATTEMPTS
    MaxFaults,   \* bound: kills and failing system calls or nft commands
    MaxDrifts    \* bound: changes of the foreign ruleset

ASSUME ForeignAssumption == Foreign # {}
ASSUME PollsAssumption == MaxPolls \in Nat \ {0}
ASSUME BoundsAssumption == MaxFaults \in Nat /\ MaxDrifts \in Nat

VARIABLES
    table,    \* the packet's table: "absent", "base" or "markers"
    foreign,  \* the rest of the ruleset
    ledger,   \* the ledger file
    files,    \* the evidence files that exist
    stages,   \* the evidence stages (hard-linked to become files) that exist
    done,     \* the content of the completion record
    pc, op,   \* the running command and its next step
    mem,      \* its local variables
    code,     \* failure code of the last command, "OK" after a success
    faults, drifts,
    orig      \* history: the foreign ruleset the last `prepare' started from

Evidence == {"intent", "installed", "completion"}
MarkerEvidence == {"intent", "installed"}
Commands == {"prepare", "install", "install-markers", "remove"}

ruleset == <<table, foreign>>
disk == <<ledger, files, stages, done>>
process == <<pc, op, mem, code>>
budget == <<faults, drifts>>
vars == <<ruleset, disk, process, budget, orig>>

-----------------------------------------------------------------------------
(* Data *)

Tables == {"absent", "base", "markers"}

(* A torn ledger is one that was opened for writing but not written.       *)
(* pre is preimage_sha256 with its counts; it means nothing in the first   *)
(* two states.                                                             *)
LedgerStates == {"absent", "torn", "prepared", "installed"}
Ledgers == [status: LedgerStates, pre: Foreign]

(* ledger_sha256 of the effective ledger: the ledger itself, or overlaid   *)
(* with the marker digests.                                                *)
Effective == {"base", "markers"}
Completions == [eff: Effective, image: Foreign]

(* table, foreign: the ruleset as last read.  target: the content to be    *)
(* written to the ledger.  ev: the evidence file being written.  again:    *)
(* remove found a completion record of an earlier attempt.                 *)
Mem == [table: Tables, foreign: Foreign, target: Ledgers, ev: Evidence,
        eff: Effective, polls: 0..MaxPolls, drift: BOOLEAN, again: BOOLEAN]

Steps == {"idle", "ledger_open", "ledger_write", "apply", "verify", "stage", "link",
          "unstage", "apply_markers", "verify_markers", "markers_end", "reconcile",
          "dispatch", "completion", "poll", "delete", "verify_deleted",
          "retire_ledger", "retire_intent", "retire_installed", "retire_completion"}

Codes == {"OK", "LEDGER_COLLISION", "TABLE_COLLISION", "LEDGER_INVALID",
          "LEDGER_MISSING", "EVIDENCE_MISSING", "EVIDENCE_INVALID",
          "EVIDENCE_COLLISION", "MARKER_STATE_INVALID", "MARKER_STATE_PENDING",
          "MARKER_STATE_COLLISION", "INSTALLATION_MISMATCH", "FOREIGN_STATE_DRIFT",
          "ROLLBACK_RESIDUE", "MARKER_LEDGER_INVALID", "DIAGNOSTIC_STOP",
          "SYSTEM_FAILED", "KILLED"}

-----------------------------------------------------------------------------
(* Helpers *)

Fault == faults < MaxFaults /\ faults' = faults + 1

(* The command ends: with a BoundaryError, or well. *)
Finish(c) == pc' = "idle" /\ op' = "none" /\ code' = c /\ UNCHANGED mem
Goto(step) == pc' = step /\ UNCHANGED <<op, code>>

(* read_ledger raises on anything but a complete record. *)
Readable == ledger.status \in {"prepared", "installed"}

AnyMarkerFile == (files \cup stages) \cap MarkerEvidence # {}
AnyCompletionFile == "completion" \in files \cup stages

(* read_ruleset *)
Snapshot == [mem EXCEPT !.table = table, !.foreign = foreign]

-----------------------------------------------------------------------------
(* write_ledger: open with O_EXCL or O_TRUNC, then one write. *)

LedgerOpen ==
    /\ pc = "ledger_open" /\ Goto("ledger_write")
    /\ ledger' = [ledger EXCEPT !.status = "torn"]
    /\ UNCHANGED <<mem, ruleset, files, stages, done, budget, orig>>

LedgerWrite ==
    /\ pc = "ledger_write" /\ Finish("OK")
    /\ ledger' = mem.target
    /\ UNCHANGED <<ruleset, files, stages, done, budget, orig>>

-----------------------------------------------------------------------------
(* prepare *)

Prepare ==
    /\ pc = "idle"
    /\ IF ledger.status # "absent" \/ AnyMarkerFile \/ AnyCompletionFile
       THEN Finish("LEDGER_COLLISION") /\ UNCHANGED orig
       ELSE IF table # "absent" THEN Finish("TABLE_COLLISION") /\ UNCHANGED orig
       ELSE /\ pc' = "ledger_open" /\ op' = "prepare" /\ UNCHANGED code
            /\ mem' = [mem EXCEPT !.target = [status |-> "prepared", pre |-> foreign]]
            /\ orig' = foreign
    /\ UNCHANGED <<ruleset, disk, budget>>

-----------------------------------------------------------------------------
(* install *)

(* Mutant of Install: the preimage is taken again. *)
InstallRereading ==
    /\ pc = "idle"
    /\ IF AnyCompletionFile \/ AnyMarkerFile THEN Finish("LEDGER_COLLISION")
       ELSE IF ledger.status # "prepared" THEN Finish("LEDGER_INVALID")
       ELSE IF table # "absent" THEN Finish("TABLE_COLLISION")
       ELSE /\ pc' = "apply" /\ op' = "install" /\ UNCHANGED code
            /\ mem' = [Snapshot EXCEPT !.target = [status |-> "installed", pre |-> foreign]]
    /\ UNCHANGED <<ruleset, disk, budget, orig>>

Install ==
    /\ pc = "idle"
    /\ IF AnyCompletionFile \/ AnyMarkerFile THEN Finish("LEDGER_COLLISION")
       ELSE IF ledger.status # "prepared" THEN Finish("LEDGER_INVALID")
       ELSE IF table # "absent" THEN Finish("TABLE_COLLISION")
       ELSE /\ pc' = "apply" /\ op' = "install" /\ UNCHANGED code
            /\ mem' = [Snapshot EXCEPT !.target = [ledger EXCEPT !.status = "installed"]]
    /\ UNCHANGED <<ruleset, disk, budget, orig>>

(* nft -f applies the whole batch or nothing. *)
InstallApply ==
    /\ pc = "apply"
    /\ \/ table' = "base" /\ Goto("verify") /\ UNCHANGED <<mem, faults>>
       \/ Fault /\ Finish("SYSTEM_FAILED") /\ UNCHANGED table
    /\ UNCHANGED <<foreign, disk, drifts, orig>>

(* The foreign ruleset must not have moved while the table was applied;    *)
(* when it has, the table stays and the ledger still says prepared.        *)
InstallVerify ==
    /\ pc = "verify"
    /\ IF table # "base" THEN Finish("INSTALLATION_MISMATCH")
       ELSE IF foreign # mem.foreign THEN Finish("FOREIGN_STATE_DRIFT")
       ELSE Goto("ledger_open") /\ UNCHANGED mem
    /\ UNCHANGED <<ruleset, disk, budget, orig>>

-----------------------------------------------------------------------------
(* _write_marker_evidence and write_completion: stage, link, unstage *)

AfterEvidence ==
    CASE mem.ev = "intent" -> "apply_markers"
      [] mem.ev = "installed" -> IF op = "remove" THEN "completion" ELSE "markers_end"
      [] OTHER -> "retire_ledger"

(* The stage of an earlier attempt is retired first, the file itself must  *)
(* not exist yet.                                                          *)
EvidenceStage ==
    /\ pc = "stage"
    /\ IF mem.ev \in files
       THEN Finish(IF mem.ev = "completion" THEN "EVIDENCE_COLLISION"
                                            ELSE "MARKER_STATE_COLLISION")
            /\ stages' = stages \ {mem.ev}
       ELSE stages' = stages \cup {mem.ev} /\ Goto("link") /\ UNCHANGED mem
    /\ UNCHANGED <<ruleset, ledger, files, done, budget, orig>>

EvidenceLink ==
    /\ pc = "link" /\ Goto("unstage")
    /\ files' = files \cup {mem.ev}
    /\ done' = IF mem.ev = "completion"
               THEN [eff |-> mem.eff, image |-> mem.foreign] ELSE done
    /\ UNCHANGED <<mem, ruleset, ledger, stages, budget, orig>>

EvidenceUnstage ==
    /\ pc = "unstage" /\ Goto(AfterEvidence)
    /\ stages' = stages \ {mem.ev}
    /\ UNCHANGED <<mem, ruleset, ledger, files, done, budget, orig>>

(* An OSError: the stage is unlinked on the way out. *)
EvidenceFails ==
    /\ pc \in {"stage", "link", "unstage"}
    /\ Fault
    /\ stages' = stages \ {mem.ev}
    /\ Finish("SYSTEM_FAILED")
    /\ UNCHANGED <<ruleset, ledger, files, done, drifts, orig>>

-----------------------------------------------------------------------------
(* install-markers *)

(* Mutant of InstallMarkers: the batch is applied before the intent. *)
InstallMarkersEager ==
    /\ pc = "idle"
    /\ IF ledger.status # "installed" THEN Finish("LEDGER_INVALID")
       ELSE IF AnyMarkerFile THEN Finish("MARKER_STATE_COLLISION")
       ELSE IF table # "base" THEN Finish("INSTALLATION_MISMATCH")
       ELSE /\ pc' = "apply_markers" /\ op' = "install-markers" /\ UNCHANGED code
            /\ mem' = [Snapshot EXCEPT !.ev = "intent"]
    /\ UNCHANGED <<ruleset, disk, budget, orig>>

(* The intent is published before the batch is applied. *)
InstallMarkers ==
    /\ pc = "idle"
    /\ IF ledger.status # "installed" THEN Finish("LEDGER_INVALID")
       ELSE IF AnyMarkerFile THEN Finish("MARKER_STATE_COLLISION")
       ELSE IF table # "base" THEN Finish("INSTALLATION_MISMATCH")
       ELSE /\ pc' = "stage" /\ op' = "install-markers" /\ UNCHANGED code
            /\ mem' = [Snapshot EXCEPT !.ev = "intent"]
    /\ UNCHANGED <<ruleset, disk, budget, orig>>

MarkersApply ==
    /\ pc = "apply_markers"
    /\ \/ table' = "markers" /\ Goto("verify_markers") /\ UNCHANGED <<mem, faults>>
       \/ Fault /\ Finish("SYSTEM_FAILED") /\ UNCHANGED table
    /\ UNCHANGED <<foreign, disk, drifts, orig>>

(* The readback, and the note that the marker shape was proved. *)
MarkersVerify ==
    /\ pc = "verify_markers"
    /\ IF table # "markers" THEN Finish("INSTALLATION_MISMATCH")
       ELSE /\ Goto("stage")
            /\ mem' = [mem EXCEPT !.drift = foreign # mem.foreign, !.ev = "installed"]
    /\ UNCHANGED <<ruleset, disk, budget, orig>>

(* A diagnostic stop: this command never succeeds. *)
MarkersEnd ==
    /\ pc = "markers_end"
    /\ Finish(IF mem.drift THEN "FOREIGN_STATE_DRIFT" ELSE "DIAGNOSTIC_STOP")
    /\ UNCHANGED <<ruleset, disk, budget, orig>>

-----------------------------------------------------------------------------
(* counters, marker-counters *)

(* read_effective_ledger retires marker stages, then needs both evidence   *)
(* files or neither.                                                       *)
EffectiveLedgerFailure ==
    CASE ~Readable -> "LEDGER_INVALID"
      [] Readable /\ MarkerEvidence \cap files = {"installed"} -> "MARKER_STATE_INVALID"
      [] Readable /\ MarkerEvidence \cap files = {"intent"} -> "MARKER_STATE_PENDING"
      [] OTHER -> "OK"

(* The owned table must have the shape the effective ledger tells. *)
Counters(marker) ==
    /\ pc = "idle"
    /\ stages' = IF Readable THEN stages \ MarkerEvidence ELSE stages
    /\ Finish(IF EffectiveLedgerFailure # "OK" THEN EffectiveLedgerFailure
              ELSE IF marker /\ (ledger.status # "installed" \/ "installed" \notin files)
                   THEN "MARKER_LEDGER_INVALID"
              ELSE IF ledger.status # "installed" THEN "LEDGER_INVALID"
              ELSE IF table # (IF "installed" \in files THEN "markers" ELSE "base")
                   THEN "INSTALLATION_MISMATCH"
              ELSE "OK")
    /\ UNCHANGED <<ruleset, ledger, files, done, budget, orig>>

-----------------------------------------------------------------------------
(* remove *)

Remove ==
    /\ pc = "idle"
    /\ pc' = "reconcile" /\ op' = "remove" /\ UNCHANGED code
    /\ mem' = [Snapshot EXCEPT !.polls = 1, !.again = FALSE, !.eff = "base"]
    /\ UNCHANGED <<ruleset, disk, budget, orig>>

(* _reconcile_completion_stage, _reconcile_marker_evidence_stages: one     *)
(* unlink at a time.  A stage that was linked is the same file as its      *)
(* target, so the check that they agree cannot fail.                       *)
ReconcileStages ==
    /\ pc = "reconcile"
    /\ \/ \E e \in stages :
            /\ stages' = stages \ {e}
            /\ UNCHANGED process
       \/ stages = {} /\ Goto("dispatch") /\ UNCHANGED <<mem, stages>>
    /\ UNCHANGED <<ruleset, ledger, files, done, budget, orig>>

(* Mutant of OrphanAccepted: the ruleset now in place is not compared. *)
OrphanAcceptedUnseen ==
    IF "installed" \in files THEN done.eff = "markers"
    ELSE "intent" \in files => done.eff = "base"

(* No ledger: only a completion record of the very ruleset now in place,   *)
(* with marker evidence that belongs to it, can be accepted.               *)
OrphanAccepted ==
    /\ done.image = mem.foreign
    /\ IF "installed" \in files THEN done.eff = "markers"
       ELSE "intent" \in files => done.eff = "base"

RemoveOrphan ==
    /\ pc = "dispatch" /\ ledger.status = "absent"
    /\ IF mem.table # "absent" THEN Finish("LEDGER_MISSING")
       ELSE IF "completion" \notin files THEN Finish("EVIDENCE_MISSING")
       ELSE IF ~OrphanAccepted THEN Finish("EVIDENCE_INVALID")
       ELSE Goto("retire_intent") /\ mem' = [mem EXCEPT !.again = TRUE]
    /\ UNCHANGED <<ruleset, disk, budget, orig>>

(* Mutant of RemoveMarkers: an intent alone counts as no marker state. *)
RemoveMarkersUnsettled ==
    /\ pc = "dispatch" /\ ledger.status # "absent"
    /\ IF ~Readable THEN Finish("LEDGER_INVALID")
       ELSE Goto("completion")
            /\ mem' = [mem EXCEPT !.eff = IF "installed" \in files THEN "markers" ELSE "base"]
    /\ UNCHANGED <<ruleset, disk, budget, orig>>

(* reconcile_marker_state_for_cleanup: what the effective ledger is.  An   *)
(* intent without its counterpart is settled by looking at the table.      *)
RemoveMarkers ==
    /\ pc = "dispatch" /\ ledger.status # "absent"
    /\ IF ~Readable THEN Finish("LEDGER_INVALID")
       ELSE IF "installed" \in files
            THEN IF "intent" \in files
                 THEN Goto("completion") /\ mem' = [mem EXCEPT !.eff = "markers"]
                 ELSE Finish("MARKER_STATE_INVALID")
       ELSE IF "intent" \in files /\ mem.table = "markers"
            THEN Goto("stage") /\ mem' = [mem EXCEPT !.eff = "markers", !.ev = "installed"]
       ELSE Goto("completion") /\ UNCHANGED mem
    /\ UNCHANGED <<ruleset, disk, budget, orig>>

(* validate_completion_against_ledger *)
CompletionMatches == done = [eff |-> mem.eff, image |-> mem.foreign]
                     /\ done.image = ledger.pre

RemoveCompletion ==
    /\ pc = "completion"
    /\ IF "completion" \notin files THEN Goto("poll") /\ UNCHANGED mem
       ELSE IF mem.table # "absent" \/ ~CompletionMatches THEN Finish("EVIDENCE_INVALID")
       ELSE Goto("retire_ledger") /\ mem' = [mem EXCEPT !.again = TRUE]
    /\ UNCHANGED <<ruleset, disk, budget, orig>>

(* The owned table, if it is there, must have the effective ledger's       *)
(* shape.                                                                  *)
OwnedShape == mem.table \in {"absent", mem.eff}

(* wait_for_restoration_preimage: one observation.  Only the recorded      *)
(* preimage ends the wait well; the ruleset is read again otherwise.       *)
RemovePoll ==
    /\ pc = "poll"
    /\ IF ~OwnedShape THEN Finish("INSTALLATION_MISMATCH")
       ELSE IF mem.foreign = ledger.pre THEN Goto("delete") /\ UNCHANGED mem
       ELSE IF mem.polls = MaxPolls THEN Finish("FOREIGN_STATE_DRIFT")
       ELSE mem' = [Snapshot EXCEPT !.polls = @ + 1] /\ Goto("poll")
    /\ UNCHANGED <<ruleset, disk, budget, orig>>

RemoveDelete ==
    /\ pc = "delete"
    /\ \/ /\ table' = IF mem.table # "absent" THEN "absent" ELSE table
          /\ Goto("verify_deleted") /\ UNCHANGED <<mem, faults>>
       \/ /\ mem.table # "absent"
          /\ Fault /\ Finish("SYSTEM_FAILED") /\ UNCHANGED table
    /\ UNCHANGED <<foreign, disk, drifts, orig>>

(* Mutant of RemoveVerify: only the table is looked at again. *)
RemoveVerifyTable ==
    /\ pc = "verify_deleted"
    /\ IF table # "absent" THEN Finish("ROLLBACK_RESIDUE")
       ELSE Goto("stage") /\ mem' = [Snapshot EXCEPT !.ev = "completion"]
    /\ UNCHANGED <<ruleset, disk, budget, orig>>

(* Mutant of RemoveVerify: no completion record before the ledger goes. *)
RemoveVerifyUnrecorded ==
    /\ pc = "verify_deleted"
    /\ IF table # "absent" THEN Finish("ROLLBACK_RESIDUE")
       ELSE IF foreign # ledger.pre THEN Finish("FOREIGN_STATE_DRIFT")
       ELSE Goto("retire_ledger") /\ mem' = Snapshot
    /\ UNCHANGED <<ruleset, disk, budget, orig>>

RemoveVerify ==
    /\ pc = "verify_deleted"
    /\ IF table # "absent" THEN Finish("ROLLBACK_RESIDUE")
       ELSE IF foreign # ledger.pre THEN Finish("FOREIGN_STATE_DRIFT")
       ELSE Goto("stage") /\ mem' = [Snapshot EXCEPT !.ev = "completion"]
    /\ UNCHANGED <<ruleset, disk, budget, orig>>

(* The ledger goes first, then the intent, then the installed record, and  *)
(* the completion record only in a later attempt.                          *)
RetireLedger ==
    /\ pc = "retire_ledger" /\ Goto("retire_intent")
    /\ ledger' = [ledger EXCEPT !.status = "absent"]
    /\ UNCHANGED <<mem, ruleset, files, stages, done, budget, orig>>

(* Mutant of RetireIntent: the installed record goes first. *)
RetireInstalledFirst ==
    /\ pc = "retire_intent" /\ Goto("retire_installed")
    /\ files' = files \ {"installed"}
    /\ UNCHANGED <<mem, ruleset, ledger, stages, done, budget, orig>>

RetireIntent ==
    /\ pc = "retire_intent" /\ Goto("retire_installed")
    /\ files' = files \ {"intent"}
    /\ UNCHANGED <<mem, ruleset, ledger, stages, done, budget, orig>>

RetireInstalled ==
    /\ pc = "retire_installed"
    /\ files' = files \ {"installed"}
    /\ IF mem.again THEN Goto("retire_completion") /\ UNCHANGED mem ELSE Finish("OK")
    /\ UNCHANGED <<ruleset, ledger, stages, done, budget, orig>>

RetireCompletion ==
    /\ pc = "retire_completion" /\ Finish("OK")
    /\ files' = files \ {"completion"}
    /\ UNCHANGED <<ruleset, ledger, stages, done, budget, orig>>

(* An nft query, an unlink or a ledger write that fails ends the command   *)
(* where it is.                                                            *)
SystemFails ==
    /\ pc \in {"ledger_open", "ledger_write", "verify", "verify_markers", "reconcile", "poll",
               "verify_deleted", "retire_ledger", "retire_intent", "retire_installed",
               "retire_completion"}
    /\ Fault /\ Finish("SYSTEM_FAILED")
    /\ UNCHANGED <<ruleset, disk, drifts, orig>>

-----------------------------------------------------------------------------
(* The environment *)

Drift ==
    /\ drifts < MaxDrifts /\ drifts' = drifts + 1
    /\ \E f \in Foreign \ {foreign} : foreign' = f
    /\ UNCHANGED <<table, disk, process, faults, orig>>

Kill ==
    /\ pc # "idle" /\ Fault
    /\ Finish("KILLED")
    /\ UNCHANGED <<ruleset, disk, drifts, orig>>

Init ==
    /\ table = "absent" /\ foreign \in Foreign
    /\ ledger = [status |-> "absent", pre |-> foreign]
    /\ files = {} /\ stages = {}
    /\ done = [eff |-> "base", image |-> foreign]
    /\ pc = "idle" /\ op = "none" /\ code = "OK"
    /\ mem = [table |-> "absent", foreign |-> foreign,
              target |-> [status |-> "absent", pre |-> foreign], ev |-> "intent",
              eff |-> "base", polls |-> 0, drift |-> FALSE, again |-> FALSE]
    /\ faults = 0 /\ drifts = 0
    /\ orig = foreign

Command == Prepare \/ Install \/ InstallMarkers \/ Remove
           \/ (\E marker \in BOOLEAN : Counters(marker))

InstallStep == InstallApply \/ InstallVerify \/ LedgerOpen \/ LedgerWrite

MarkerStep == MarkersApply \/ MarkersVerify \/ MarkersEnd

EvidenceStep == EvidenceStage \/ EvidenceLink \/ EvidenceUnstage

RemoveStep ==
    \/ ReconcileStages \/ RemoveOrphan \/ RemoveMarkers \/ RemoveCompletion
    \/ RemovePoll \/ RemoveDelete \/ RemoveVerify
    \/ RetireLedger \/ RetireIntent \/ RetireInstalled \/ RetireCompletion

(* What a running command does by itself. *)
Step == InstallStep \/ MarkerStep \/ EvidenceStep \/ RemoveStep

Disturbance == EvidenceFails \/ SystemFails \/ Drift \/ Kill

Next == Command \/ Step \/ Disturbance

Spec == Init /\ [][Next]_vars

(* Every subprocess has a timeout, so a command that is not killed goes on *)
(* to its end; the always-run cleanup step calls remove.                   *)
FairSpec == Spec /\ WF_vars(Step)

-----------------------------------------------------------------------------
(* Properties *)

TypeOK ==
    /\ table \in Tables /\ foreign \in Foreign
    /\ ledger \in Ledgers /\ done \in Completions
    /\ files \in SUBSET Evidence /\ stages \in SUBSET Evidence
    /\ pc \in Steps /\ op \in Commands \cup {"none"}
    /\ (pc = "idle") <=> (op = "none")
    /\ mem \in Mem /\ code \in Codes
    /\ faults \in 0..MaxFaults /\ drifts \in 0..MaxDrifts
    /\ orig \in Foreign

(* While the packet's table is in the kernel its ledger file exists and no *)
(* completion record claims that it was removed; marker rules are never    *)
(* there without the intent that tells a later cleanup how to read them.   *)
TableIsAccounted ==
    table # "absent" => /\ ledger.status # "absent"
                        /\ "completion" \notin files
                        /\ table = "markers" => "intent" \in files

(* A ledger that can be read names the ruleset from before the network: no *)
(* later command replaces the restoration target.                          *)
TargetKept == Readable => ledger.pre = orig

(* A completion record is true: the table is gone, and the foreign ruleset *)
(* was the one `prepare' started from.                                     *)
CompletionIsTrue ==
    "completion" \in files => table = "absent" /\ done.image = orig

(* remove succeeds only when nothing is left to do but retire the          *)
(* completion record: no table, no ledger, no marker evidence, and the     *)
(* original foreign ruleset was seen in this attempt.                      *)
RemoveIsComplete ==
    [][(op = "remove" /\ op' = "none" /\ code' = "OK")
         => /\ table' = "absent" /\ ledger'.status = "absent"
            /\ files' \subseteq {"completion"}
            /\ stages' = {}
            /\ mem.foreign = orig]_vars

(* Whatever the kills left behind, the next remove can read: it fails only *)
(* for a foreign ruleset that is not the original one, for a ledger torn   *)
(* by a kill, when everything was retired before, or by a fault of its own.*)
RetryNeverWedges ==
    [][(op = "remove" /\ op' = "none")
         => \/ code' \in {"OK", "KILLED", "SYSTEM_FAILED"}
            \/ code' = "FOREIGN_STATE_DRIFT"
            \/ code' = "EVIDENCE_INVALID" /\ mem.foreign # orig
            \/ code' = "LEDGER_INVALID" /\ ledger.status = "torn"
            \/ code' = "EVIDENCE_MISSING" /\ files = {} /\ table = "absent"]_vars

(* A remove that is not disturbed, finds the original foreign ruleset and  *)
(* either a readable ledger or a completion record, succeeds.              *)
CalmRemoveSucceeds ==
    (/\ pc = "reconcile" /\ faults = MaxFaults /\ drifts = MaxDrifts
     /\ foreign = orig /\ mem.foreign = orig
     /\ Readable \/ (ledger.status = "absent" /\ "completion" \in files))
      ~> (op = "none" /\ code = "OK")

(* docs/CONTAINMENT_CONTRACT.md: an installed base ledger covers active    *)
(* enforcement -- so an interrupted command leaves a readable ledger while *)
(* the table stands.                                                       *)
EnforcementIsCovered == (pc = "idle" /\ table # "absent") => Readable

-----------------------------------------------------------------------------
(* The inductive invariant: what the files say of each other and of the    *)
(* ruleset at every moment, and what a command knows at each of its steps. *)

Coherence ==
    /\ TableIsAccounted
    /\ TargetKept
    /\ CompletionIsTrue
    /\ "installed" \in files =>
         table # "base" /\ ("intent" \in files \/ ledger.status = "absent")
    /\ (ledger.status = "absent" /\ "completion" \notin files) => files = {}
    /\ "completion" \in files =>
         /\ "installed" \in files => done.eff = "markers"
         /\ ("intent" \in files \/ ledger.status # "absent") /\ done.eff = "markers"
              => "installed" \in files

(* The effective ledger remove has settled on fits the evidence. *)
EffSettled == (mem.eff = "markers") <=> ("installed" \in files)

WritingLedger ==
    /\ pc \in {"ledger_open", "ledger_write"} =>
         /\ op \in {"prepare", "install"}
         /\ op = "prepare" => table = "absent"
         /\ op = "install" => ledger.status # "absent"
    /\ pc \in {"apply", "verify"} => op = "install" /\ ledger.status = "prepared"
    /\ pc = "apply" => table = "absent"
    /\ pc \in {"ledger_open", "ledger_write", "apply", "verify"} =>
         /\ files = {}
         /\ mem.target.status \in {"prepared", "installed"} /\ mem.target.pre = orig

WritingEvidence ==
    /\ pc \in {"stage", "link", "unstage"} =>
         /\ op \in {"install-markers", "remove"}
         /\ mem.ev = "intent" => /\ op = "install-markers" /\ ledger.status # "absent"
                                 /\ "completion" \notin files
         /\ mem.ev = "installed" => /\ table = "markers"
                                    /\ op = "remove" => /\ Readable
                                                        /\ mem.eff = "markers"
                                                        /\ mem.table = table
         /\ mem.ev = "completion" => /\ op = "remove" /\ table = "absent" /\ Readable
                                     /\ mem.foreign = orig /\ EffSettled
         /\ op = "remove" => stages \subseteq {mem.ev}
    /\ pc = "stage" /\ op = "remove" => mem.ev \notin files /\ stages = {}
    /\ pc = "unstage" => mem.ev \in files
    /\ pc = "apply_markers" => /\ op = "install-markers" /\ ledger.status # "absent"
                               /\ "completion" \notin files /\ "intent" \in files
    /\ pc \in {"verify_markers", "markers_end"} => op = "install-markers"

Removing ==
    /\ pc \in {"reconcile", "dispatch"} =>
         op = "remove" /\ mem.table = table /\ mem.eff = "base"
    /\ pc \in {"completion", "poll", "delete", "verify_deleted"} =>
         op = "remove" /\ Readable /\ EffSettled /\ table \in {"absent", mem.eff}
    /\ pc \in {"completion", "poll", "delete"} => mem.table = table
    /\ pc \in {"poll", "delete", "verify_deleted"} => "completion" \notin files
    /\ pc = "verify_deleted" => table = "absent"
    /\ pc \in {"retire_ledger", "retire_intent", "retire_installed",
               "retire_completion"} =>
         op = "remove" /\ "completion" \in files /\ mem.foreign = orig
    /\ pc \in {"retire_intent", "retire_installed", "retire_completion"} =>
         ledger.status = "absent"
    /\ pc \in {"retire_installed", "retire_completion"} => "intent" \notin files
    /\ pc = "retire_completion" => "installed" \notin files
    /\ pc \in {"dispatch", "completion", "poll", "delete", "verify_deleted",
               "retire_ledger", "retire_intent", "retire_installed",
               "retire_completion"} => stages = {}

Inv == TypeOK /\ Coherence /\ WritingLedger /\ WritingEvidence /\ Removing

-----------------------------------------------------------------------------
(* The order in which the evidence changes hands *)

Phase == CASE ledger.status # "absent" /\ "completion" \in files -> "both"
           [] ledger.status # "absent" /\ "completion" \notin files -> "ledger"
           [] ledger.status = "absent" /\ "completion" \in files -> "restored"
           [] OTHER -> "none"

FE == INSTANCE FirewallEvidence WITH phase <- Phase

(* The ledger is given up only for a completion record, step by step. *)
ImplementsEvidence == FE!Spec

=============================================================================
