---------------------- MODULE ContainmentLifecycleProofs ----------------------
(* Proofs about ContainmentLifecycle: its inductive invariant, the safety   *)
(* properties that follow from it, and the refinements of FirewallEvidence  *)
(* and PacketReceipt.                                                       *)
(* One lemma per conjunct of Inv shows that every step preserves it; the    *)
(* types come from ContainmentLifecycleTypes.  Two further invariants, each *)
(* inductive together with Inv, say what recovery may believe: CountsStand  *)
(* (a zero count is true) and FailureStands (a failure stays known).        *)
EXTENDS ContainmentLifecycleTypes

-----------------------------------------------------------------------------
(* Who writes a state file, and what *)

LEMMA NoFields ==
  /\ NoFile.status = "none" /\ EmptyFile.status = "none" /\ NoReceipt.status = "none"
  /\ ~NoFile.present /\ EmptyFile.present
BY DEF NoFile, EmptyFile, NoReceipt

(* The steps that begin a state file or remove one. *)
Boundary ==
    \/ \E m \in Modes : MainStart(m)
    \/ CleanupStart \/ FinalizePublished \/ CleanupForget

(* A row change that neither removes the file nor records a PASS. *)
Quiet(old, new) == new.status \in {old.status, "BLOCKED"} /\ new.present = old.present

LEMMA WithBlockedStatus ==
  ASSUME NEW rows \in Rows, NEW c
  PROVE  /\ Quiet(rows, WithBlocked(rows, c))
         /\ Quiet(rows, WithBlockedIfUnexplained(rows, c))
         /\ Quiet(rows, WithLateFailure(rows, c))
BY DEF Quiet, WithBlocked, WithBlockedIfUnexplained, WithLateFailure, Rows

LEMMA StatusUpdates ==
  ASSUME NEW rows \in Rows
  PROVE  /\ Quiet(rows, [rows EXCEPT !.status = "BLOCKED"])
         /\ \A p : Quiet(rows, [rows EXCEPT !.priv = p])
         /\ \A m : Quiet(rows, [rows EXCEPT !.orig = m])
         /\ \A c, n : Quiet(rows, [rows EXCEPT !.count[c] = n])
         /\ \A p : Quiet(rows, WithProof(rows, p))
         /\ Quiet(rows, WithInvalidProof(rows))
BY DEF Quiet, Rows, WithProof, WithInvalidProof

LEMMA QuietRecord ==
  ASSUME NEW rows, Record(rows), Quiet(StateFile, rows)
  PROVE  Quiet(state, state') /\ Quiet(cleanupState, cleanupState')
BY DEF Quiet, Record, StateFile

LEMMA QuietKept ==
  ASSUME UNCHANGED rowsVars
  PROVE  Quiet(state, state') /\ Quiet(cleanupState, cleanupState')
BY DEF Quiet, rowsVars

(* Only FinalizeDecide records a PASS. *)
LEMMA QuietStep ==
  ASSUME TypeOK, Next, ~FinalizeDecide, ~Boundary
  PROVE  Quiet(state, state') /\ Quiet(cleanupState, cleanupState')
<1>0. StateFile \in Rows /\ Quiet(StateFile, StateFile)
  BY StateFileType DEF TypeOK, RowFiles, Quiet
<1>1. CASE \/ ModeLink \/ ModeUnstage \/ PrepareFirewall \/ CreateNetwork
           \/ CreateDatabase \/ WorkPasses \/ PreFirewallCount
           \/ CleanupFirewall \/ ScratchStage \/ ScratchRemove
           \/ ScratchUnstage \/ PublishGuard \/ PublishWrite
           \/ PublishConsumeAudit \/ PublishBuild \/ PublishRename
           \/ PublishVerify \/ CleanupPublished \/ RetireMode
           \/ PolluteScratch \/ Interrupt \/ Crash
           \/ (\E c \in DockerClasses : RemoveClass(c))
  BY <1>1, QuietKept DEF ModeLink, ModeUnstage, PrepareFirewall,
      CreateNetwork, CreateDatabase, WorkPasses, PreFirewallCount,
      CleanupFirewall, ScratchStage, ScratchRemove, ScratchUnstage,
      PublishGuard, PublishWrite, PublishConsumeAudit, PublishBuild,
      PublishRename, PublishVerify, CleanupPublished, RetireMode,
      PolluteScratch, Interrupt, Crash, RemoveClass
<1>2. CASE RecordPreterminal
  <2>1. \E rows : Record(rows) /\ Quiet(StateFile, rows)
    BY <1>0, <1>2, WithBlockedStatus DEF RecordPreterminal
  <2> QED BY <2>1, QuietRecord
<1>3. CASE PrivateEvidence
  <2>1. \E rows : Record(rows) /\ Quiet(StateFile, rows)
    BY <1>0, <1>3, StatusUpdates DEF PrivateEvidence
  <2> QED BY <2>1, QuietRecord
<1>4. CASE GateBlocks
  <2>1. \E rows : Record(rows) /\ Quiet(StateFile, rows)
    BY <1>0, <1>4, WithBlockedStatus DEF GateBlocks, Block
  <2> QED BY <2>1, QuietRecord
<1>5. CASE ModeStageWrite
  <2>1. UNCHANGED rowsVars \/ \E rows : Record(rows) /\ Quiet(StateFile, rows)
    BY <1>0, <1>5, WithBlockedStatus DEF ModeStageWrite, Block, rowsVars
  <2> QED BY <2>1, QuietRecord, QuietKept
<1>6. CASE ModePublicationFails
  <2>1. \E rows : Record(rows) /\ Quiet(StateFile, rows)
    BY <1>0, <1>6, WithBlockedStatus DEF ModePublicationFails, Block
  <2> QED BY <2>1, QuietRecord
<1>7. CASE FinalizeBegin
  <2> DEFINE named == WithBlockedIfUnexplained(StateFile,
       "LISTENER_UNEXPECTED_INTERRUPTION")
  <2>1. /\ named \in Rows /\ Quiet(StateFile, named)
        /\ Quiet(StateFile, WithBlockedIfUnexplained(StateFile, "NETWORK_CONTRACT"))
        /\ Quiet(named, WithBlockedIfUnexplained(named, "NETWORK_CONTRACT"))
    BY <1>0, WithBlockedType, WithBlockedStatus, CodesType
  <2>2. Quiet(StateFile, WithBlockedIfUnexplained(named, "NETWORK_CONTRACT"))
    BY <2>1 DEF Quiet
  <2>3. \E rows : Record(rows) /\ Quiet(StateFile, rows)
    BY <1>0, <1>7, <2>1, <2>2 DEF FinalizeBegin
  <2> QED BY <2>3, QuietRecord
<1>8. CASE ResolveMode
  <2>1. \E rows : Record(rows) /\ Quiet(StateFile, rows)
    BY <1>0, <1>8, StatusUpdates DEF ResolveMode
  <2> QED BY <2>1, QuietRecord
<1>9. CASE CleanupReturn
  <2>1. \E rows : Record(rows) /\ Quiet(StateFile, rows)
    BY <1>0, <1>9, WithBlockedStatus DEF CleanupReturn
  <2> QED BY <2>1, QuietRecord
<1>10. CASE ScratchProof
  <2>1. UNCHANGED rowsVars \/ \E rows : Record(rows) /\ Quiet(StateFile, rows)
    BY <1>0, <1>10, StatusUpdates DEF ScratchProof, rowsVars
  <2> QED BY <2>1, QuietRecord, QuietKept
<1>11. CASE ScratchRecord
  <2>1. \E rows : Record(rows) /\ Quiet(StateFile, rows)
    BY <1>0, <1>11, StatusUpdates DEF ScratchRecord
  <2> QED BY <2>1, QuietRecord
<1>12. CASE ScratchReturn
  <2>1. \E rows : Record(rows) /\ Quiet(StateFile, rows)
    BY <1>0, <1>12, WithBlockedStatus DEF ScratchReturn
  <2> QED BY <2>1, QuietRecord
<1>13. CASE CleanupDecide
  <2>1. \E rows : Record(rows) /\ Quiet(StateFile, rows)
    BY <1>0, <1>13, WithBlockedStatus, StatusUpdates DEF CleanupDecide
  <2> QED BY <2>1, QuietRecord
<1>14. CASE FinalizeNotPublished
  <2>1. \E rows : Record(rows) /\ Quiet(StateFile, rows)
    BY <1>0, <1>14, WithBlockedStatus DEF FinalizeNotPublished
  <2> QED BY <2>1, QuietRecord
<1>15. CASE CleanupReadReceipt
  <2>1. \E rows : Record(rows) /\ Quiet(StateFile, rows)
    BY <1>0, <1>15, WithBlockedStatus DEF CleanupReadReceipt
  <2> QED BY <2>1, QuietRecord
<1>16. CASE CleanupNotPublished
  <2>1. \E rows : Record(rows) /\ Quiet(StateFile, rows)
    BY <1>0, <1>16, WithBlockedStatus DEF CleanupNotPublished
  <2> QED BY <2>1, QuietRecord
<1>17. CASE \E c \in Classes : CountResidue(c)
  <2>1. UNCHANGED rowsVars \/ \E rows : Record(rows) /\ Quiet(StateFile, rows)
    BY <1>0, <1>17, StatusUpdates DEF CountResidue, rowsVars
  <2> QED BY <2>1, QuietRecord, QuietKept
<1> QED BY <1>1, <1>2, <1>3, <1>4, <1>5, <1>6, <1>7, <1>8, <1>9, <1>10, <1>11,
    <1>12, <1>13, <1>14, <1>15, <1>16, <1>17 DEF Boundary, Next, Step, Main,
    Work, Teardown, Publish, CleanupOnly, Disturbance

-----------------------------------------------------------------------------
(* PassIsEarned in three parts: the file of a run, its rows, its receipt *)

OwnFile == ~IsCleanup => mem.file = "STATE"

RowsEarned ==
    /\ state.status \in PassStatuses => hist.passed
    /\ cleanupState.status \notin PassStatuses
    /\ ~IsCleanup /\ pc \notin PublishPcs \cup {"idle"}
         => state.status \notin PassStatuses

PublishEarned ==
    /\ pc \in PublishPcs /\ mem.expected # "BLOCKED" => mem.cleanupOk /\ mem.scratchOk
    /\ pc = "publish_rename" =>
         /\ Valid(resultStage)
         /\ resultStage.status \in PassStatuses
              => hist.passed /\ mem.expected = resultStage.status
    /\ pc \in {"publish_verify", "published", "retire", "forget"} => Valid(result)
    /\ pc \in {"retire", "forget"} => mem.cleanupOk

LEMMA EarnedParts == PassIsEarned <=> OwnFile /\ RowsEarned /\ PublishEarned
BY DEF PassIsEarned, OwnFile, RowsEarned, PublishEarned

(* The actions of cleanup_exact that come once per resource class. *)
LEMMA ClassSteps ==
  ASSUME TypeOK,
         (\E c \in DockerClasses : RemoveClass(c)) \/ (\E c \in Classes : CountResidue(c))
  PROVE  /\ pc \in {"remove_container", "remove_volume", "remove_network",
                    "count_container", "count_volume", "count_network",
                    "count_listener"}
         /\ pc' \in {"remove_volume", "remove_network", "pre_firewall", "count_volume",
                     "count_network", "count_listener", "cleanup_return"}
         /\ inv' = inv /\ hist' = hist /\ result' = result /\ modeFile' = modeFile
         /\ mem'.existing = mem.existing /\ mem'.file = mem.file
<1>0. mem \in Mem
  BY DEF TypeOK
<1>1. CASE \E c \in DockerClasses : RemoveClass(c)
  <2>1. PICK c \in DockerClasses : RemoveClass(c)
    BY <1>1
  <2>2. mem'.existing = mem.existing /\ mem'.file = mem.file
    BY <1>0, <2>1 DEF RemoveClass, Mem
  <2> QED BY <2>1, <2>2 DEF RemoveClass, RemoveAt, AfterRemove, DockerClasses,
      receiptVars, evidence
<1>2. CASE \E c \in Classes : CountResidue(c)
  <2>1. PICK c \in Classes : CountResidue(c)
    BY <1>2
  <2>2. mem'.existing = mem.existing /\ mem'.file = mem.file
    BY <1>0, <2>1 DEF CountResidue, Mem
  <2> QED BY <2>1, <2>2 DEF CountResidue, CountAt, AfterCount, Classes,
      DockerClasses, receiptVars, evidence
<1> QED BY <1>1, <1>2

(* A state file that was just recorded reads as what was recorded. *)
LEMMA RecordReads ==
  ASSUME NEW rows, Record(rows), mem'.file = mem.file
  PROVE  StateFile' = rows
BY DEF Record, StateFile

-----------------------------------------------------------------------------
(* A PASS stays earned *)

(* What most steps leave alone. *)
Frame ==
    /\ pc # "idle"
    /\ hist'.passed = hist.passed
    /\ \/ Exit
       \/ pc' # "idle" /\ inv' = inv /\ mem'.file = mem.file
    /\ ~IsCleanup' /\ pc' \notin PublishPcs \cup {"idle"}
         => ~IsCleanup /\ pc \notin PublishPcs \cup {"idle"}

LEMMA FrameStep ==
  ASSUME TypeOK, Next, ~FinalizeDecide, ~CleanupStart,
         ~\E m \in Modes : MainStart(m)
  PROVE  Frame
<1>0. mem \in Mem /\ (pc = "idle" <=> inv = "idle")
      /\ hist \in [passed: BOOLEAN, blocked: BOOLEAN, explained: BOOLEAN,
                  stale: BOOLEAN, leftover: BOOLEAN]
  BY DEF TypeOK
<1> USE DEF Frame, IsCleanup, Mem, PublishPcs, BeforeRename, DeferredPcs
<1>1. CASE ModeStageWrite
  BY <1>0, <1>1 DEF ModeStageWrite, Block
<1>2. CASE ModeLink
  BY <1>0, <1>2 DEF ModeLink
<1>3. CASE ModeUnstage
  BY <1>0, <1>3 DEF ModeUnstage
<1>4. CASE RecordPreterminal
  BY <1>0, <1>4 DEF RecordPreterminal
<1>5. CASE PrepareFirewall
  BY <1>0, <1>5 DEF PrepareFirewall
<1>6. CASE CreateNetwork
  BY <1>0, <1>6 DEF CreateNetwork
<1>7. CASE CreateDatabase
  BY <1>0, <1>7 DEF CreateDatabase
<1>8. CASE PrivateEvidence
  BY <1>0, <1>8 DEF PrivateEvidence
<1>9. CASE GateBlocks
  BY <1>0, <1>9 DEF GateBlocks, Block
<1>10. CASE WorkPasses
  BY <1>0, <1>10 DEF WorkPasses
<1>11. CASE FinalizeBegin
  BY <1>0, <1>11 DEF FinalizeBegin
<1>12. CASE ResolveMode
  BY <1>0, <1>12 DEF ResolveMode
<1>13. CASE PreFirewallCount
  BY <1>0, <1>13 DEF PreFirewallCount
<1>14. CASE CleanupFirewall
  BY <1>0, <1>14 DEF CleanupFirewall
<1>15. CASE CleanupReturn
  BY <1>0, <1>15 DEF CleanupReturn
<1>16. CASE ScratchStage
  BY <1>0, <1>16 DEF ScratchStage
<1>17. CASE ScratchRemove
  BY <1>0, <1>17 DEF ScratchRemove
<1>18. CASE ScratchProof
  BY <1>0, <1>18 DEF ScratchProof
<1>19. CASE ScratchRecord
  BY <1>0, <1>19 DEF ScratchRecord
<1>20. CASE ScratchUnstage
  BY <1>0, <1>20 DEF ScratchUnstage
<1>21. CASE ScratchReturn
  BY <1>0, <1>21 DEF ScratchReturn
<1>22. CASE CleanupDecide
  BY <1>0, <1>22 DEF CleanupDecide
<1>23. CASE PublishGuard
  BY <1>0, <1>23 DEF PublishGuard
<1>24. CASE PublishWrite
  BY <1>0, <1>24 DEF PublishWrite
<1>25. CASE PublishConsumeAudit
  BY <1>0, <1>25 DEF PublishConsumeAudit
<1>26. CASE PublishBuild
  BY <1>0, <1>26 DEF PublishBuild
<1>27. CASE PublishRename
  BY <1>0, <1>27 DEF PublishRename
<1>28. CASE PublishVerify
  BY <1>0, <1>28 DEF PublishVerify
<1>29. CASE FinalizePublished
  BY <1>0, <1>29 DEF FinalizePublished, Exit, InitMem
<1>30. CASE FinalizeNotPublished
  BY <1>0, <1>30 DEF FinalizeNotPublished, Exit, InitMem
<1>31. CASE CleanupReadReceipt
  BY <1>0, <1>31 DEF CleanupReadReceipt
<1>32. CASE CleanupPublished
  BY <1>0, <1>32 DEF CleanupPublished, Exit, InitMem
<1>33. CASE CleanupNotPublished
  BY <1>0, <1>33 DEF CleanupNotPublished, Exit, InitMem
<1>34. CASE RetireMode
  BY <1>0, <1>34 DEF RetireMode, Exit, InitMem
<1>35. CASE CleanupForget
  BY <1>0, <1>35 DEF CleanupForget, Exit, InitMem
<1>36. CASE ModePublicationFails
  BY <1>0, <1>36 DEF ModePublicationFails, Block
<1>37. CASE PolluteScratch
  BY <1>0, <1>37 DEF PolluteScratch
<1>38. CASE Interrupt
  BY <1>0, <1>38 DEF Interrupt
<1>39. CASE Crash
  BY <1>0, <1>39 DEF Crash, Exit, InitMem
<1>40. CASE \E c \in DockerClasses : RemoveClass(c)
  BY <1>0, <1>40, ClassSteps
<1>41. CASE \E c \in Classes : CountResidue(c)
  BY <1>0, <1>41, ClassSteps
<1> QED BY <1>1, <1>2, <1>3, <1>4, <1>5, <1>6, <1>7, <1>8, <1>9, <1>10, <1>11,
    <1>12, <1>13, <1>14, <1>15, <1>16, <1>17, <1>18, <1>19, <1>20, <1>21,
    <1>22, <1>23, <1>24, <1>25, <1>26, <1>27, <1>28, <1>29, <1>30, <1>31,
    <1>32, <1>33, <1>34, <1>35, <1>36, <1>37, <1>38, <1>39, <1>40, <1>41 DEF
    Next, Step, Main, Work, Teardown, Publish, CleanupOnly, Disturbance

LEMMA OwnFileStep == TypeOK /\ OwnFile /\ [Next]_vars => OwnFile'
<1> SUFFICES ASSUME TypeOK, OwnFile, [Next]_vars PROVE OwnFile'
  OBVIOUS
<1>1. CASE \E m \in Modes : MainStart(m)
  BY <1>1 DEF MainStart, InitMem, OwnFile
<1>2. CASE CleanupStart
  BY <1>2 DEF CleanupStart, OwnFile, IsCleanup
<1>3. CASE FinalizeDecide
  BY <1>3 DEF FinalizeDecide, TypeOK, Mem, OwnFile, IsCleanup
<1>4. CASE Next /\ ~FinalizeDecide /\ ~CleanupStart /\ ~\E m \in Modes : MainStart(m)
  BY <1>4, FrameStep DEF Frame, Exit, InitMem, OwnFile, IsCleanup
<1>5. CASE UNCHANGED vars
  BY <1>5 DEF vars, OwnFile, IsCleanup
<1> QED BY <1>1, <1>2, <1>3, <1>4, <1>5

-----------------------------------------------------------------------------
(* What teardown has found out stays so *)

LEMMA TeardownStep == TypeOK /\ TeardownKnows /\ [Next]_vars => TeardownKnows'
<1> SUFFICES ASSUME TypeOK, TeardownKnows, [Next]_vars PROVE TeardownKnows'
  OBVIOUS
<1>0. mem \in Mem /\ state \in Rows /\ cleanupState \in Rows /\ res \subseteq Classes
      /\ modeFile \in AllModes \cup {"none"} /\ pc \in Locations
  BY DEF TypeOK
<1> USE DEF TeardownKnows, CountedBy, DeferredPcs, BeforeRename, PublishPcs,
            ScratchPcs, AfterScratch, AfterTeardown, IsCleanup, StateFile, Record,
            evidence, rowsVars, scratchVars, host
<1>1. CASE \E m \in Modes : MainStart(m)
  BY <1>0, <1>1 DEF MainStart, EmptyFile, InitMem
<1>2. CASE CleanupStart
  BY <1>0, <1>2 DEF CleanupStart, EmptyFile, InitMem
<1>3. CASE ModeStageWrite
  BY <1>0, <1>3 DEF ModeStageWrite, Block
<1>4. CASE ModeLink
  BY <1>0, <1>4 DEF ModeLink
<1>5. CASE ModeUnstage
  BY <1>0, <1>5 DEF ModeUnstage
<1>6. CASE RecordPreterminal
  BY <1>0, <1>6 DEF RecordPreterminal, WithBlocked
<1>7. CASE PrepareFirewall
  BY <1>0, <1>7 DEF PrepareFirewall
<1>8. CASE CreateNetwork
  BY <1>0, <1>8 DEF CreateNetwork
<1>9. CASE CreateDatabase
  BY <1>0, <1>9 DEF CreateDatabase
<1>10. CASE PrivateEvidence
  BY <1>0, <1>10 DEF PrivateEvidence
<1>11. CASE GateBlocks
  BY <1>0, <1>11 DEF GateBlocks, Block
<1>12. CASE WorkPasses
  BY <1>0, <1>12 DEF WorkPasses
<1>13. CASE FinalizeBegin
  BY <1>0, <1>13 DEF FinalizeBegin
<1>14. CASE ResolveMode
  <2>1. /\ mem'.file = mem.file
        /\ mem'.modeOk => modeFile # "none"
        /\ mem'.modeOk => Record([StateFile EXCEPT !.orig = modeFile])
    BY <1>0, <1>14 DEF ResolveMode, Mem
  <2>2. StateFile \in Rows
    BY <1>0, StateFileType DEF RowFiles
  <2>3. mem'.modeOk => StateFile'.orig = modeFile
    BY <2>1, <2>2, RecordReads DEF Rows
  <2> QED BY <2>3, <1>14 DEF ResolveMode
<1>15. CASE PreFirewallCount
  <2>1. PICK ok \in BOOLEAN :
          mem' = [mem EXCEPT !.queryOk = mem.queryOk /\ ok,
                             !.preZero = ok /\ res \cap DockerClasses = {}]
    BY <1>15 DEF PreFirewallCount
  <2>2. /\ mem'.file = mem.file /\ mem'.modeOk = mem.modeOk
        /\ mem'.preZero => res \cap DockerClasses = {}
    BY <1>0, <2>1 DEF Mem
  <2>3. StateFile' = StateFile
    BY <2>2, <1>15 DEF PreFirewallCount
  <2> QED BY <2>2, <2>3, <1>15 DEF PreFirewallCount
<1>16. CASE CleanupFirewall
  BY <1>0, <1>16 DEF CleanupFirewall
<1>17. CASE CleanupReturn
  <2>1. mem'.cleanupOk => CleanupExact
    BY <1>0, <1>17 DEF CleanupReturn, Mem
  <2>2. CleanupExact => fw \notin {"ledger", "both"} /\ \A c \in Classes : c \notin res
    BY <1>17 DEF CleanupReturn, CleanupExact
  <2>3. mem'.cleanupOk => res = {} /\ fw \notin {"ledger", "both"}
    BY <1>0, <2>1, <2>2
  <2> QED BY <2>3, <1>17 DEF CleanupReturn
<1>18. CASE ScratchStage
  <2>1. /\ mem'.cleanupOk = mem.cleanupOk
        /\ pc' = "scratch_return" => ~mem'.scratchOk
        /\ pc' = "scratch_proof" => mem'.outcome # "PASS"
    BY <1>0, <1>18 DEF ScratchStage, Mem
  <2>2. pc' \in {"scratch_return", "scratch_remove", "scratch_proof"}
    BY <1>18 DEF ScratchStage
  <2> QED BY <2>1, <2>2, <1>18 DEF ScratchStage
<1>19. CASE ScratchRemove
  BY <1>0, <1>19 DEF ScratchRemove
<1>20. CASE ScratchProof
  <2>1. /\ mem'.cleanupOk = mem.cleanupOk /\ mem'.outcome = mem.outcome
        /\ pc' = "scratch_return" => ~mem'.scratchOk
        /\ pc' \in {"scratch_return", "scratch_record"}
    <3>1. CASE mem' = mem /\ pc' = "scratch_record"
      BY <3>1
    <3>2. CASE /\ mem' = [mem EXCEPT !.scratchOk = FALSE, !.auditVar = AuditVar]
               /\ pc' = "scratch_return"
      BY <1>0, <3>2 DEF Mem
    <3> QED BY <3>1, <3>2, <1>20 DEF ScratchProof
  <2> QED BY <2>1, <1>20 DEF ScratchProof
<1>21. CASE ScratchRecord
  BY <1>0, <1>21 DEF ScratchRecord
<1>22. CASE ScratchUnstage
  <2>1. PICK ok \in BOOLEAN :
          mem' = [mem EXCEPT !.scratchOk = ok /\ mem.outcome = "PASS",
                             !.auditVar = IF ok THEN AuditVar ELSE mem.auditVar]
    BY <1>22 DEF ScratchUnstage
  <2>2. mem'.cleanupOk = mem.cleanupOk /\ (mem'.scratchOk => mem.outcome = "PASS")
    BY <1>0, <2>1 DEF Mem
  <2> QED BY <2>2, <1>22 DEF ScratchUnstage
<1>23. CASE ScratchReturn
  <2>1. /\ mem'.scratchOk = mem.scratchOk
        /\ mem'.cleanupOk => mem.cleanupOk /\ (IsCleanup => mem.scratchOk)
    BY <1>0, <1>23 DEF ScratchReturn, Mem
  <2> QED BY <2>1, <1>23 DEF ScratchReturn
<1>24. CASE FinalizeDecide
  BY <1>0, <1>24 DEF FinalizeDecide, WithBlocked
<1>25. CASE CleanupDecide
  BY <1>0, <1>25 DEF CleanupDecide, WithBlocked
<1>26. CASE PublishGuard
  BY <1>0, <1>26 DEF PublishGuard
<1>27. CASE PublishWrite
  BY <1>0, <1>27 DEF PublishWrite
<1>28. CASE PublishConsumeAudit
  BY <1>0, <1>28 DEF PublishConsumeAudit
<1>29. CASE PublishBuild
  BY <1>0, <1>29 DEF PublishBuild
<1>30. CASE PublishRename
  BY <1>0, <1>30 DEF PublishRename
<1>31. CASE PublishVerify
  BY <1>0, <1>31 DEF PublishVerify
<1>32. CASE FinalizePublished
  BY <1>0, <1>32 DEF FinalizePublished, Exit, NoFile, InitMem
<1>33. CASE FinalizeNotPublished
  BY <1>0, <1>33 DEF FinalizeNotPublished, Exit, WithBlocked, InitMem
<1>34. CASE CleanupReadReceipt
  BY <1>0, <1>34 DEF CleanupReadReceipt, WithBlocked
<1>35. CASE CleanupPublished
  BY <1>0, <1>35 DEF CleanupPublished, Exit, InitMem
<1>36. CASE CleanupNotPublished
  BY <1>0, <1>36 DEF CleanupNotPublished, Exit, InitMem
<1>37. CASE RetireMode
  BY <1>0, <1>37 DEF RetireMode, Exit, InitMem
<1>38. CASE CleanupForget
  BY <1>0, <1>38 DEF CleanupForget, Exit, NoFile, InitMem
<1>39. CASE ModePublicationFails
  BY <1>0, <1>39 DEF ModePublicationFails, Block
<1>40. CASE PolluteScratch
  BY <1>0, <1>40 DEF PolluteScratch
<1>41. CASE Interrupt
  BY <1>0, <1>41 DEF Interrupt
<1>42. CASE Crash
  BY <1>0, <1>42 DEF Crash, Exit, InitMem
<1>43. CASE \E c \in DockerClasses : RemoveClass(c)
  <2>1. PICK c \in DockerClasses : RemoveClass(c)
    BY <1>43
  <2>2. pc \in {"remove_container", "remove_volume", "remove_network"}
        /\ pc' \in {"remove_volume", "remove_network", "pre_firewall"}
    BY <2>1 DEF RemoveClass, RemoveAt, AfterRemove, DockerClasses
  <2>3. mem'.modeOk = mem.modeOk /\ mem'.file = mem.file
    BY <1>0, <2>1 DEF RemoveClass, Mem
  <2>4. StateFile' = StateFile /\ modeFile' = modeFile
    BY <2>1, <2>3 DEF RemoveClass
  <2> QED BY <2>2, <2>3, <2>4
<1>44. CASE \E c \in Classes : CountResidue(c)
  <2>1. PICK c \in Classes : CountResidue(c)
    BY <1>44
  <2>2. \/ c = "container" /\ pc = "count_container" /\ pc' = "count_volume"
        \/ c = "volume" /\ pc = "count_volume" /\ pc' = "count_network"
        \/ c = "network" /\ pc = "count_network" /\ pc' = "count_listener"
        \/ c = "listener" /\ pc = "count_listener" /\ pc' = "cleanup_return"
    BY <2>1 DEF CountResidue, CountAt, AfterCount, Classes, DockerClasses
  <2>3. CASE \/ mem' = [mem EXCEPT !.listenerOk = FALSE]
            \/ mem' = [mem EXCEPT !.queryOk = FALSE]
    <3>1. ~mem'.listenerOk \/ ~mem'.queryOk
      BY <1>0, <2>3 DEF Mem
    <3> QED BY <2>2, <3>1
  <2>4. CASE /\ mem' = mem
             /\ Record([StateFile EXCEPT !.count[c] = IF c \in res THEN "some" ELSE
                  "zero"])
    <3>1. StateFile \in Rows
      BY <1>0, StateFileType DEF RowFiles
    <3>2. /\ StateFile'.count[c] = "zero" => c \notin res
          /\ \A d \in Classes \ {c} : StateFile'.count[d] = StateFile.count[d]
      BY <2>4, <3>1, RecordReads DEF Rows
    <3>3. res' = res
      BY <2>1 DEF CountResidue
    <3>4. pc' \in DOMAIN CountedBy /\ mem.queryOk /\ mem.listenerOk
            => \A d \in CountedBy[pc'] : StateFile'.count[d] = "zero" => d \notin res
      BY <2>2, <3>2 DEF Classes, DockerClasses
    <3> QED BY <2>2, <2>4, <3>3, <3>4
  <2> QED BY <2>1, <2>3, <2>4 DEF CountResidue
<1>45. CASE UNCHANGED vars
  BY <1>45 DEF vars
<1> QED BY <1>1, <1>2, <1>3, <1>4, <1>5, <1>6, <1>7, <1>8, <1>9, <1>10, <1>11,
    <1>12, <1>13, <1>14, <1>15, <1>16, <1>17, <1>18, <1>19, <1>20, <1>21,
    <1>22, <1>23, <1>24, <1>25, <1>26, <1>27, <1>28, <1>29, <1>30, <1>31,
    <1>32, <1>33, <1>34, <1>35, <1>36, <1>37, <1>38, <1>39, <1>40, <1>41,
    <1>42, <1>43, <1>44, <1>45 DEF Next, Step, Main, Work, Teardown, Publish,
    CleanupOnly, Disturbance

LEMMA RowsStep == TypeOK /\ OwnFile /\ RowsEarned /\ [Next]_vars => RowsEarned'
<1> SUFFICES ASSUME TypeOK, OwnFile, RowsEarned, [Next]_vars PROVE RowsEarned'
  OBVIOUS
<1>0. "BLOCKED" \notin PassStatuses /\ "none" \notin PassStatuses
  BY DEF PassStatuses
<1>1. CASE FinalizeDecide
  <2> DEFINE pass == mem.cleanupOk /\ mem.scratchOk /\ mem.smoke /\ mem.exitOk /\
       mem.netOk
  <2>1. cleanupState' = cleanupState /\ StateFile = state
    BY <1>1 DEF FinalizeDecide, Record, OwnFile, StateFile
  <2>2. pc' \in PublishPcs
    BY <1>1 DEF FinalizeDecide, PublishPcs, BeforeRename
  <2>3. hist'.passed = pass
    BY <1>1 DEF FinalizeDecide, TypeOK
  <2>4. ~pass => state'.status = "BLOCKED" \/ state'.status = state.status
    <3>1. WithBlocked(StateFile, "HARNESS_INTERRUPTED").status = "BLOCKED"
      BY <2>1 DEF WithBlocked, TypeOK, Rows
    <3> QED BY <1>1, <2>1, <3>1 DEF FinalizeDecide, Record, OwnFile
  <2>5. state.status \notin PassStatuses
    BY <1>1 DEF FinalizeDecide, RowsEarned, PublishPcs, BeforeRename,
        DeferredPcs
  <2> QED BY <1>0, <2>1, <2>2, <2>3, <2>4, <2>5 DEF RowsEarned
<1>2. CASE \E m \in Modes : MainStart(m)
  BY <1>0, <1>2, NoFields DEF MainStart, RowsEarned
<1>3. CASE CleanupStart
  BY <1>0, <1>3, NoFields DEF CleanupStart, RowsEarned, IsCleanup
<1>4. CASE FinalizePublished \/ CleanupForget
  BY <1>0, <1>4, NoFields DEF FinalizePublished, CleanupForget, Exit,
      RowsEarned
<1>5. CASE Next /\ ~FinalizeDecide /\ ~Boundary
  <2>1. Frame
    BY <1>5, FrameStep DEF Boundary
  <2>2. Quiet(state, state') /\ Quiet(cleanupState, cleanupState')
    BY <1>5, QuietStep
  <2> QED BY <1>0, <2>1, <2>2 DEF Frame, Exit, Quiet, RowsEarned
<1>6. CASE UNCHANGED vars
  BY <1>6 DEF vars, RowsEarned, IsCleanup, rowsVars
<1> QED BY <1>1, <1>2, <1>3, <1>4, <1>5, <1>6 DEF Boundary

LEMMA PublishStep ==
  TypeOK /\ TeardownKnows /\ RowsEarned /\ PublishEarned /\ [Next]_vars =>
       PublishEarned'
<1> SUFFICES ASSUME TypeOK, TeardownKnows, RowsEarned, PublishEarned, [Next]_vars
     PROVE PublishEarned'
  OBVIOUS
<1>0. mem \in Mem /\ pc \in Locations
  BY DEF TypeOK
<1> USE DEF PublishEarned, IsCleanup, Mem, PublishPcs, BeforeRename, DeferredPcs,
            receiptVars
<1>1. CASE \E m \in Modes : MainStart(m)
  BY <1>0, <1>1 DEF MainStart, InitMem
<1>2. CASE CleanupStart
  BY <1>0, <1>2 DEF CleanupStart, InitMem
<1>3. CASE ModeStageWrite
  BY <1>0, <1>3 DEF ModeStageWrite, Block
<1>4. CASE ModeLink
  BY <1>0, <1>4 DEF ModeLink
<1>5. CASE ModeUnstage
  BY <1>0, <1>5 DEF ModeUnstage
<1>6. CASE RecordPreterminal
  BY <1>0, <1>6 DEF RecordPreterminal
<1>7. CASE PrepareFirewall
  BY <1>0, <1>7 DEF PrepareFirewall
<1>8. CASE CreateNetwork
  BY <1>0, <1>8 DEF CreateNetwork
<1>9. CASE CreateDatabase
  BY <1>0, <1>9 DEF CreateDatabase
<1>10. CASE PrivateEvidence
  BY <1>0, <1>10 DEF PrivateEvidence
<1>11. CASE GateBlocks
  BY <1>0, <1>11 DEF GateBlocks, Block
<1>12. CASE WorkPasses
  BY <1>0, <1>12 DEF WorkPasses
<1>13. CASE FinalizeBegin
  BY <1>0, <1>13 DEF FinalizeBegin
<1>14. CASE ResolveMode
  BY <1>0, <1>14 DEF ResolveMode
<1>15. CASE PreFirewallCount
  BY <1>0, <1>15 DEF PreFirewallCount
<1>16. CASE CleanupFirewall
  BY <1>0, <1>16 DEF CleanupFirewall
<1>17. CASE CleanupReturn
  BY <1>0, <1>17 DEF CleanupReturn
<1>18. CASE ScratchStage
  BY <1>0, <1>18 DEF ScratchStage
<1>19. CASE ScratchRemove
  BY <1>0, <1>19 DEF ScratchRemove
<1>20. CASE ScratchProof
  BY <1>0, <1>20 DEF ScratchProof
<1>21. CASE ScratchRecord
  BY <1>0, <1>21 DEF ScratchRecord
<1>22. CASE ScratchUnstage
  BY <1>0, <1>22 DEF ScratchUnstage
<1>23. CASE ScratchReturn
  BY <1>0, <1>23 DEF ScratchReturn
<1>24. CASE FinalizeDecide
  BY <1>0, <1>24 DEF FinalizeDecide
<1>25. CASE CleanupDecide
  <2>1. /\ mem'.cleanupOk = mem.cleanupOk /\ mem'.scratchOk = mem.scratchOk
        /\ mem'.expected # "BLOCKED" => mem.cleanupOk
    BY <1>0, <1>25 DEF CleanupDecide
  <2>2. mem.cleanupOk => mem.scratchOk
    BY <1>25 DEF CleanupDecide, TeardownKnows, AfterScratch
  <2> QED BY <2>1, <2>2, <1>25 DEF CleanupDecide
<1>26. CASE PublishGuard
  BY <1>0, <1>26 DEF PublishGuard
<1>27. CASE PublishWrite
  BY <1>0, <1>27 DEF PublishWrite
<1>28. CASE PublishConsumeAudit
  BY <1>0, <1>28 DEF PublishConsumeAudit
<1>29. CASE PublishBuild
  <2>1. CASE pc' = "publish_rename"
    <3>1. PICK exact \in BOOLEAN :
            /\ resultStage' = BuildReceipt(StateFile, exact)
            /\ Valid(BuildReceipt(StateFile, exact))
      BY <2>1, <1>29 DEF PublishBuild
    <3>2. resultStage'.status \in PassStatuses
            => resultStage'.status = mem.expected /\ StateFile.status = mem.expected
      BY <3>1 DEF BuildReceipt, PassAdmitted, PassStatuses
    <3>3. resultStage'.status \in PassStatuses => hist.passed
      BY <3>2 DEF RowsEarned, StateFile
    <3>4. mem' = mem /\ hist' = hist
      BY <1>29 DEF PublishBuild
    <3>5. Valid(resultStage')
      BY <3>1
    <3> QED BY <2>1, <1>29, <3>2, <3>3, <3>4, <3>5 DEF PublishBuild, Valid
  <2>2. CASE pc' = "publish_failed"
    BY <2>2, <1>29 DEF PublishBuild
  <2> QED BY <2>1, <2>2, <1>29 DEF PublishBuild
<1>30. CASE PublishRename
  BY <1>0, <1>30 DEF PublishRename
<1>31. CASE PublishVerify
  BY <1>0, <1>31 DEF PublishVerify
<1>32. CASE FinalizePublished
  BY <1>0, <1>32 DEF FinalizePublished, Exit, InitMem
<1>33. CASE FinalizeNotPublished
  BY <1>0, <1>33 DEF FinalizeNotPublished, Exit, InitMem
<1>34. CASE CleanupReadReceipt
  BY <1>0, <1>34 DEF CleanupReadReceipt
<1>35. CASE CleanupPublished
  BY <1>0, <1>35 DEF CleanupPublished, Exit, InitMem
<1>36. CASE CleanupNotPublished
  BY <1>0, <1>36 DEF CleanupNotPublished, Exit, InitMem
<1>37. CASE RetireMode
  BY <1>0, <1>37 DEF RetireMode, Exit, InitMem
<1>38. CASE CleanupForget
  BY <1>0, <1>38 DEF CleanupForget, Exit, InitMem
<1>39. CASE ModePublicationFails
  BY <1>0, <1>39 DEF ModePublicationFails, Block
<1>40. CASE PolluteScratch
  BY <1>0, <1>40 DEF PolluteScratch
<1>41. CASE Interrupt
  BY <1>0, <1>41 DEF Interrupt
<1>42. CASE Crash
  BY <1>0, <1>42 DEF Crash, Exit, InitMem
<1>43. CASE \E c \in DockerClasses : RemoveClass(c)
  BY <1>0, <1>43, ClassSteps
<1>44. CASE \E c \in Classes : CountResidue(c)
  BY <1>0, <1>44, ClassSteps
<1>45. CASE UNCHANGED vars
  BY <1>45 DEF vars
<1> QED BY <1>1, <1>2, <1>3, <1>4, <1>5, <1>6, <1>7, <1>8, <1>9, <1>10, <1>11,
    <1>12, <1>13, <1>14, <1>15, <1>16, <1>17, <1>18, <1>19, <1>20, <1>21,
    <1>22, <1>23, <1>24, <1>25, <1>26, <1>27, <1>28, <1>29, <1>30, <1>31,
    <1>32, <1>33, <1>34, <1>35, <1>36, <1>37, <1>38, <1>39, <1>40, <1>41,
    <1>42, <1>43, <1>44, <1>45 DEF Next, Step, Main, Work, Teardown, Publish,
    CleanupOnly, Disturbance

-----------------------------------------------------------------------------
(* A published BLOCKED stays known *)

LEMMA KnownStep ==
  TypeOK /\ PassIsEarned /\ BlockedIsKnown /\ [Next]_vars => BlockedIsKnown'
<1> SUFFICES ASSUME TypeOK, PassIsEarned, BlockedIsKnown, [Next]_vars
             PROVE  BlockedIsKnown'
  OBVIOUS
<1>0. mem \in Mem /\ (pc = "idle" <=> inv = "idle")
      /\ (pc \in MainPcs => inv \in AllModes)
  BY DEF TypeOK
<1> USE DEF PublishPcs, BlockedIsKnown, BlockedIsTerminal, IsCleanup,
            BeforeRename, DeferredPcs, receiptVars
<1>1. CASE \E m \in Modes : MainStart(m)
  <2>1. hist'.blocked = FALSE
    BY <1>1 DEF MainStart, InitHist
  <2>2. inv' \in AllModes /\ pc' = "mode_write"
    BY <1>1, ModesAssumption DEF MainStart
  <2> QED BY <2>1, <2>2 DEF AllModes
<1>2. CASE CleanupStart
  <2>1. mem'.existing = "none"
    BY <1>2 DEF CleanupStart, InitMem
  <2> QED BY <2>1, <1>2 DEF CleanupStart, PassStatuses
<1>3. CASE ModeStageWrite
  <2>1. ~IsCleanup /\ inv' = inv /\ hist' = hist /\ result' = result
    BY <1>0, <1>3 DEF ModeStageWrite, MainPcs, AllModes
  <2>2. pc' \in {"mode_link", "finalize"}
    BY <1>3 DEF ModeStageWrite, Block
  <2> QED BY <2>1, <2>2, <1>3 DEF ModeStageWrite
<1>4. CASE ModeLink
  BY <1>0, <1>4 DEF ModeLink
<1>5. CASE ModeUnstage
  BY <1>0, <1>5 DEF ModeUnstage
<1>6. CASE RecordPreterminal
  BY <1>0, <1>6 DEF RecordPreterminal
<1>7. CASE PrepareFirewall
  BY <1>0, <1>7 DEF PrepareFirewall
<1>8. CASE CreateNetwork
  BY <1>0, <1>8 DEF CreateNetwork
<1>9. CASE CreateDatabase
  BY <1>0, <1>9 DEF CreateDatabase
<1>10. CASE PrivateEvidence
  BY <1>0, <1>10 DEF PrivateEvidence
<1>11. CASE GateBlocks
  BY <1>0, <1>11 DEF GateBlocks, Block
<1>12. CASE WorkPasses
  BY <1>0, <1>12 DEF WorkPasses
<1>13. CASE FinalizeBegin
  BY <1>0, <1>13 DEF FinalizeBegin
<1>14. CASE ResolveMode
  BY <1>0, <1>14 DEF ResolveMode
<1>15. CASE PreFirewallCount
  BY <1>0, <1>15 DEF PreFirewallCount
<1>16. CASE CleanupFirewall
  <2>1. mem'.existing = mem.existing
    BY <1>0, <1>16 DEF CleanupFirewall, Mem
  <2> QED BY <2>1, <1>16 DEF CleanupFirewall
<1>17. CASE CleanupReturn
  BY <1>0, <1>17 DEF CleanupReturn
<1>18. CASE ScratchStage
  <2>1. mem'.existing = mem.existing
    BY <1>0, <1>18 DEF ScratchStage, Mem
  <2>2. pc' \in {"scratch_return", "scratch_remove", "scratch_proof"}
    BY <1>18 DEF ScratchStage
  <2> QED BY <2>1, <2>2, <1>18 DEF ScratchStage
<1>19. CASE ScratchRemove
  BY <1>0, <1>19 DEF ScratchRemove
<1>20. CASE ScratchProof
  <2>1. mem'.existing = mem.existing
    BY <1>0, <1>20 DEF ScratchProof, Mem
  <2>2. pc' \in {"scratch_return", "scratch_record"}
    BY <1>20 DEF ScratchProof
  <2> QED BY <2>1, <2>2, <1>20 DEF ScratchProof
<1>21. CASE ScratchRecord
  BY <1>0, <1>21 DEF ScratchRecord
<1>22. CASE ScratchUnstage
  BY <1>0, <1>22 DEF ScratchUnstage
<1>23. CASE ScratchReturn
  BY <1>0, <1>23 DEF ScratchReturn
<1>24. CASE FinalizeDecide
  BY <1>0, <1>24 DEF FinalizeDecide
<1>25. CASE CleanupDecide
  BY <1>0, <1>25 DEF CleanupDecide
<1>26. CASE PublishGuard
  BY <1>0, <1>26 DEF PublishGuard
<1>27. CASE PublishWrite
  BY <1>0, <1>27 DEF PublishWrite
<1>28. CASE PublishConsumeAudit
  BY <1>0, <1>28 DEF PublishConsumeAudit
<1>29. CASE PublishBuild
  BY <1>0, <1>29 DEF PublishBuild
<1>30. CASE PublishRename
  <2>1. CASE pc' = "publish_failed"
    <3>1. result' = result /\ hist' = hist
      BY <2>1, <1>30 DEF PublishRename
    <3> QED BY <2>1, <3>1, <1>30 DEF PublishRename
  <2>2. CASE pc' = "publish_verify"
    <3>1. result' = resultStage /\ Valid(resultStage)
      BY <2>2, <1>30 DEF PublishRename, PassIsEarned
    <3>2. hist'.blocked => hist.blocked \/ resultStage.status = "BLOCKED"
      BY <2>2, <1>30 DEF PublishRename, TypeOK
    <3>3. resultStage.status \in PassStatuses => ~hist.blocked
      <4>1. resultStage.status \in PassStatuses
              => mem.expected = resultStage.status /\ resultStage.status # "BLOCKED"
        BY <1>30 DEF PublishRename, PassIsEarned, PassStatuses
      <4> QED BY <4>1, <1>30 DEF PublishRename
    <3> QED BY <2>2, <3>1, <3>2, <3>3 DEF Valid, Statuses
  <2> QED BY <2>1, <2>2, <1>30 DEF PublishRename
<1>31. CASE PublishVerify
  BY <1>0, <1>31 DEF PublishVerify
<1>32. CASE FinalizePublished
  BY <1>0, <1>32 DEF FinalizePublished, Exit, InitMem
<1>33. CASE FinalizeNotPublished
  BY <1>0, <1>33 DEF FinalizeNotPublished, Exit, InitMem
<1>34. CASE CleanupReadReceipt
  <2>1. IsCleanup /\ inv' = inv /\ hist' = hist /\ result' = result
    BY <1>34 DEF CleanupReadReceipt, TypeOK, CleanupPcs
  <2>2. mem'.existing \in {mem.existing, result.status}
    BY <1>0, <1>34 DEF CleanupReadReceipt, Mem
  <2>3. result.status \in PassStatuses => ~hist.blocked
    BY DEF PassStatuses, NoReceipt
  <2>4. mem.existing \in PassStatuses => ~hist.blocked
    BY <2>1, <1>34 DEF CleanupReadReceipt
  <2> QED BY <2>1, <2>2, <2>3, <2>4, <1>34 DEF CleanupReadReceipt
<1>35. CASE CleanupPublished
  BY <1>0, <1>35 DEF CleanupPublished, Exit, InitMem
<1>36. CASE CleanupNotPublished
  BY <1>0, <1>36 DEF CleanupNotPublished, Exit, InitMem
<1>37. CASE RetireMode
  BY <1>0, <1>37 DEF RetireMode, Exit, InitMem
<1>38. CASE CleanupForget
  BY <1>0, <1>38 DEF CleanupForget, Exit, InitMem
<1>39. CASE ModePublicationFails
  BY <1>0, <1>39 DEF ModePublicationFails, Block
<1>40. CASE PolluteScratch
  BY <1>0, <1>40 DEF PolluteScratch
<1>41. CASE Interrupt
  BY <1>0, <1>41 DEF Interrupt
<1>42. CASE Crash
  BY <1>0, <1>42 DEF Crash, Exit, InitMem
<1>43. CASE \E c \in DockerClasses : RemoveClass(c)
  BY <1>0, <1>43, ClassSteps
<1>44. CASE \E c \in Classes : CountResidue(c)
  BY <1>0, <1>44, ClassSteps
<1>45. CASE UNCHANGED vars
  BY <1>45 DEF vars
<1> QED BY <1>1, <1>2, <1>3, <1>4, <1>5, <1>6, <1>7, <1>8, <1>9, <1>10, <1>11,
    <1>12, <1>13, <1>14, <1>15, <1>16, <1>17, <1>18, <1>19, <1>20, <1>21,
    <1>22, <1>23, <1>24, <1>25, <1>26, <1>27, <1>28, <1>29, <1>30, <1>31,
    <1>32, <1>33, <1>34, <1>35, <1>36, <1>37, <1>38, <1>39, <1>40, <1>41,
    <1>42, <1>43, <1>44, <1>45 DEF Next, Step, Main, Work, Teardown, Publish,
    CleanupOnly, Disturbance

-----------------------------------------------------------------------------
(* The evidence of a run stands *)

LEMMA EvidenceStep ==
  TypeOK /\ PublishEarned /\ EvidenceStands /\ [Next]_vars => EvidenceStands'
<1> SUFFICES ASSUME TypeOK, PublishEarned, EvidenceStands, [Next]_vars
             PROVE  EvidenceStands'
  OBVIOUS
<1>1. CASE \E m \in Modes : MainStart(m)
  BY <1>1, NoFields DEF MainStart, InitMem, EvidenceStands, EvidenceRetained,
      StateFile
<1>2. CASE CleanupStart
  <2>1. mem'.file = IF state.present THEN "STATE" ELSE "CLEANUP"
    BY <1>2 DEF CleanupStart, InitMem
  <2>2. /\ state' = state /\ (state.present \/ cleanupState'.present)
        /\ pc' = "read_receipt"
    BY <1>2, NoFields DEF CleanupStart
  <2> QED BY <2>1, <2>2 DEF EvidenceStands, EvidenceRetained, StateFile
<1>3. CASE FinalizePublished \/ CleanupForget
  <2>1. result' = result /\ result # NoReceipt /\ pc' = "idle"
    BY <1>3, NoFields DEF FinalizePublished, CleanupForget, Exit,
        PublishEarned, Valid, Statuses, PassStatuses, receiptVars
  <2> QED BY <2>1 DEF EvidenceStands, EvidenceRetained
<1>4. CASE FinalizeDecide
  <2>1. mem'.file = mem.file /\ pc # "idle" /\ pc' # "idle"
    BY <1>4 DEF FinalizeDecide, TypeOK, Mem
  <2>2. StateFile \in Rows
    BY StateFileType DEF TypeOK, RowFiles
  <2>3. /\ WithBlocked(StateFile, "HARNESS_INTERRUPTED").present = StateFile.present
        /\ [StateFile EXCEPT !.status = PassStatus(inv)].present = StateFile.present
    BY <2>2 DEF WithBlocked, Rows
  <2>4. StateFile'.present = StateFile.present
    BY <1>4, <2>1, <2>3, RecordReads DEF FinalizeDecide
  <2> QED BY <2>1, <2>4 DEF EvidenceStands, EvidenceRetained
<1>5. CASE Next /\ ~FinalizeDecide /\ ~Boundary
  <2>1. Frame
    BY <1>5, FrameStep DEF Boundary
  <2>2. state'.present = state.present /\ cleanupState'.present = cleanupState.present
    BY <1>5, QuietStep DEF Quiet
  <2>3. StateFile.present
    BY <2>1 DEF Frame, EvidenceStands
  <2>4. CASE Exit
    BY <2>2, <2>3, <2>4 DEF Exit, EvidenceStands, EvidenceRetained, StateFile
  <2>5. CASE pc' # "idle" /\ mem'.file = mem.file
    BY <2>2, <2>3, <2>5 DEF EvidenceStands, EvidenceRetained, StateFile
  <2> QED BY <2>1, <2>4, <2>5 DEF Frame
<1>6. CASE UNCHANGED vars
  BY <1>6 DEF vars, EvidenceStands, EvidenceRetained, StateFile, rowsVars,
      receiptVars, counters
<1> QED BY <1>1, <1>2, <1>3, <1>4, <1>5, <1>6 DEF Boundary

-----------------------------------------------------------------------------
(* The invariant *)

LEMMA InitInv == Init => Inv
<1> SUFFICES ASSUME Init PROVE Inv
  OBVIOUS
<1>1. TypeOK
  BY TypeInit
<1>2. TeardownKnows
  BY DEF Init, TeardownKnows, CountedBy, AfterTeardown, ScratchPcs,
      AfterScratch, PublishPcs, BeforeRename, DeferredPcs
<1>3. PassIsEarned
  BY NoFields DEF Init, InitMem, PassIsEarned, PassStatuses, PublishPcs,
      BeforeRename, DeferredPcs
<1>4. BlockedIsKnown
  BY DEF Init, InitHist, BlockedIsKnown, BlockedIsTerminal, IsCleanup
<1>5. EvidenceStands
  BY DEF Init, EvidenceStands, EvidenceRetained
<1> QED BY <1>1, <1>2, <1>3, <1>4, <1>5 DEF Inv

LEMMA InvStep == Inv /\ [Next]_vars => Inv'
<1> SUFFICES ASSUME Inv, [Next]_vars PROVE Inv'
  OBVIOUS
<1>0. OwnFile /\ RowsEarned /\ PublishEarned
  BY EarnedParts DEF Inv
<1>1. TypeOK'
  BY TypeStep DEF Inv
<1>2. TeardownKnows'
  BY TeardownStep DEF Inv
<1>3. OwnFile' /\ RowsEarned' /\ PublishEarned'
  BY <1>0, OwnFileStep, RowsStep, PublishStep DEF Inv
<1>4. PassIsEarned'
  BY <1>3 DEF PassIsEarned, OwnFile, RowsEarned, PublishEarned
<1>5. BlockedIsKnown'
  BY KnownStep DEF Inv
<1>6. EvidenceStands'
  BY <1>0, EvidenceStep DEF Inv
<1> QED BY <1>1, <1>2, <1>4, <1>5, <1>6 DEF Inv

(* The inductive invariant holds in every reachable state, for any number  *)
(* of runs, cleanups, kills and failing commands.                          *)
THEOREM Invariance == Spec => []Inv
BY InitInv, InvStep, PTL DEF Spec

(* Once a BLOCKED receipt was published for a run, no later cleanup, retry *)
(* or recovery turns it into PASS.                                         *)
THEOREM BlockedStaysBlocked == Spec => []BlockedIsTerminal
<1>1. Inv => BlockedIsTerminal
  BY DEF Inv, BlockedIsKnown
<1> QED BY <1>1, Invariance, PTL

(* Between invocations the outcome of a started run is always on disk.     *)
THEOREM EvidenceStaysOnDisk == Spec => []EvidenceRetained
<1>1. Inv => EvidenceRetained
  BY DEF Inv, EvidenceStands
<1> QED BY <1>1, Invariance, PTL

-----------------------------------------------------------------------------
(* Receipts *)

(* A receipt appears by the rename of publish_result_receipt only. *)
LEMMA PublishedByRename ==
  ASSUME [Next]_vars, Published
  PROVE  PublishRename /\ result' = resultStage
<1>1. CASE (\E m \in Modes : MainStart(m)) \/ CleanupStart
  BY <1>1 DEF MainStart, CleanupStart, Published, receiptVars
<1>2. CASE Main
  BY <1>2 DEF Main, Work, ModeStageWrite, ModeLink, ModeUnstage,
      RecordPreterminal, PrepareFirewall, CreateNetwork, CreateDatabase,
      PrivateEvidence, GateBlocks, WorkPasses, FinalizeBegin, FinalizeDecide,
      FinalizePublished, FinalizeNotPublished, Published, receiptVars
<1>3. CASE Teardown
  BY <1>3 DEF Teardown, ResolveMode, PreFirewallCount, CleanupFirewall,
      CleanupReturn, RemoveClass, CountResidue, ScratchStage, ScratchRemove,
      ScratchProof, ScratchRecord, ScratchUnstage, ScratchReturn, Published,
      receiptVars
<1>4. CASE Publish
  <2>1. CASE PublishGuard \/ PublishWrite \/ PublishConsumeAudit \/ PublishBuild
    BY <2>1 DEF PublishGuard, PublishWrite, PublishConsumeAudit, PublishBuild,
        Published, receiptVars
  <2>2. CASE PublishRename
    BY <2>2 DEF PublishRename, Published
  <2>3. CASE PublishVerify
    BY <2>3 DEF PublishVerify, Published
  <2> QED BY <1>4, <2>1, <2>2, <2>3 DEF Publish
<1>5. CASE CleanupOnly
  BY <1>5 DEF CleanupOnly, CleanupReadReceipt, CleanupDecide,
      CleanupPublished, CleanupNotPublished, RetireMode, CleanupForget,
      Published, receiptVars
<1>6. CASE Disturbance
  BY <1>6 DEF Disturbance, ModePublicationFails, PolluteScratch, Interrupt,
      Crash, Published, receiptVars
<1>7. CASE UNCHANGED vars
  BY <1>7 DEF vars, Published, receiptVars
<1> QED BY <1>1, <1>2, <1>3, <1>4, <1>5, <1>6, <1>7 DEF Next, Step

(* A PASS receipt appears only for the run in progress, after its          *)
(* finalizer found every gate satisfied, and with nothing left behind.     *)
THEOREM PassIsProven == Spec => PublishedPassIsProven
<1>1. ASSUME Inv, [Next]_vars, Published, result'.status \in PassStatuses
      PROVE  hist.passed /\ res = {} /\ scratch = "absent"
  <2>1. pc = "publish_rename" /\ resultStage.status \in PassStatuses
    BY <1>1, PublishedByRename DEF PublishRename
  <2>2. hist.passed /\ mem.expected # "BLOCKED"
    BY <1>1, <2>1 DEF Inv, PassIsEarned, PassStatuses
  <2>3. mem.cleanupOk /\ mem.scratchOk
    BY <1>1, <2>1, <2>2 DEF Inv, PassIsEarned, PublishPcs, BeforeRename
  <2> QED BY <1>1, <2>1, <2>2, <2>3 DEF Inv, TeardownKnows, AfterTeardown,
      AfterScratch, PublishPcs, BeforeRename
<1>2. Inv /\ [Next]_vars
        => [(Published /\ result'.status \in PassStatuses)
              => hist.passed /\ res = {} /\ scratch = "absent"]_vars
  BY <1>1
<1> QED BY <1>2, Invariance, PTL DEF Spec, PublishedPassIsProven

-----------------------------------------------------------------------------
(* The mode contract and the firewall *)

(* The mode contract is never replaced, and is retired only once nothing   *)
(* is left to tear down and the outcome is on record.                      *)
THEOREM ContractRetiredLast == Spec => ModeRetiredLast
<1>1. ASSUME Inv, [Next]_vars, modeFile # "none", modeFile' # modeFile
      PROVE  /\ modeFile' = "none" /\ result # NoReceipt
             /\ res = {} /\ scratch = "absent" /\ fw \notin {"ledger", "both"}
  <2>1. CASE ModeLink
    BY <1>1, <2>1 DEF ModeLink, Inv, TeardownKnows
  <2>2. CASE RetireMode
    <3>1. pc = "retire" /\ modeFile' = "none" /\ IsCleanup
      BY <1>1, <2>2 DEF RetireMode, Inv, TypeOK, CleanupPcs
    <3>2. mem.cleanupOk /\ Valid(result)
      BY <1>1, <3>1 DEF Inv, PassIsEarned
    <3>3. result # NoReceipt
      BY <3>2, NoFields DEF Valid, Statuses, PassStatuses
    <3> QED BY <1>1, <3>1, <3>2, <3>3 DEF Inv, TeardownKnows, AfterTeardown,
        AfterScratch, PublishPcs
  <2>3. CASE ~ModeLink /\ ~RetireMode
    <3>1. CASE (\E m \in Modes : MainStart(m)) \/ CleanupStart
      BY <1>1, <3>1 DEF MainStart, CleanupStart, evidence
    <3>2. CASE Main
      BY <1>1, <2>3, <3>2 DEF Main, Work, ModeStageWrite, ModeUnstage,
          RecordPreterminal, PrepareFirewall, CreateNetwork, CreateDatabase,
          PrivateEvidence, GateBlocks, WorkPasses, FinalizeBegin,
          FinalizeDecide, FinalizePublished, FinalizeNotPublished, evidence
    <3>3. CASE Teardown
      BY <1>1, <3>3 DEF Teardown, ResolveMode, PreFirewallCount,
          CleanupFirewall, CleanupReturn, RemoveClass, CountResidue,
          ScratchStage, ScratchRemove, ScratchProof, ScratchRecord,
          ScratchUnstage, ScratchReturn, evidence
    <3>4. CASE Publish
      BY <1>1, <3>4 DEF Publish, PublishGuard, PublishWrite,
          PublishConsumeAudit, PublishBuild, PublishRename, PublishVerify,
          evidence
    <3>5. CASE CleanupOnly
      BY <1>1, <2>3, <3>5 DEF CleanupOnly, CleanupReadReceipt, CleanupDecide,
          CleanupPublished, CleanupNotPublished, CleanupForget, evidence
    <3>6. CASE Disturbance
      BY <1>1, <3>6 DEF Disturbance, ModePublicationFails, PolluteScratch,
          Interrupt, Crash, evidence
    <3> QED BY <1>1, <3>1, <3>2, <3>3, <3>4, <3>5, <3>6 DEF Next, Step, vars,
        evidence
  <2> QED BY <2>1, <2>2, <2>3
<1>2. Inv /\ [Next]_vars
        => [modeFile # "none" /\ modeFile' # modeFile
              => /\ modeFile' = "none" /\ result # NoReceipt
                 /\ res = {} /\ scratch = "absent" /\ fw \notin {"ledger", "both"}]_vars
  BY <1>1
<1> QED BY <1>2, Invariance, PTL DEF Spec, ModeRetiredLast

(* The firewall evidence moves only in three steps. *)
LEMMA FirewallMoves ==
  ASSUME [Next]_vars, fw' # fw
  PROVE  PrepareFirewall \/ CleanupFirewall \/ Crash
<1>1. CASE (\E m \in Modes : MainStart(m)) \/ CleanupStart
  BY <1>1 DEF MainStart, CleanupStart, host
<1>2. CASE Main
  BY <1>2 DEF Main, Work, ModeStageWrite, ModeLink, ModeUnstage,
      RecordPreterminal, CreateNetwork, CreateDatabase, PrivateEvidence,
      GateBlocks, WorkPasses, FinalizeBegin, FinalizeDecide,
      FinalizePublished, FinalizeNotPublished, host
<1>3. CASE Teardown
  BY <1>3 DEF Teardown, ResolveMode, PreFirewallCount, CleanupReturn,
      RemoveClass, CountResidue, ScratchStage, ScratchRemove, ScratchProof,
      ScratchRecord, ScratchUnstage, ScratchReturn, host
<1>4. CASE Publish
  BY <1>4 DEF Publish, PublishGuard, PublishWrite, PublishConsumeAudit,
      PublishBuild, PublishRename, PublishVerify, host
<1>5. CASE CleanupOnly
  BY <1>5 DEF CleanupOnly, CleanupReadReceipt, CleanupDecide,
      CleanupPublished, CleanupNotPublished, RetireMode, CleanupForget, host
<1>6. CASE Disturbance
  BY <1>6 DEF Disturbance, ModePublicationFails, PolluteScratch, Interrupt,
      host
<1> QED BY <1>1, <1>2, <1>3, <1>4, <1>5, <1>6 DEF Next, Step, vars, host

(* Teardown touches the firewall only under the rehearsal's own contract,  *)
(* while no packet resource exists and every query has succeeded.          *)
THEOREM FirewallIsGuarded == Spec => FirewallGuard
<1>1. ASSUME Inv, [Next]_vars, fw' # fw, fw # "none"
      PROVE  res \cap DockerClasses = {} /\ mem.queryOk /\ FirewallRequired(modeFile)
  <2>1. pc = "firewall" /\ FirewallNeeded
    <3>1. ~PrepareFirewall
      BY <1>1 DEF PrepareFirewall
    <3>2. CASE CleanupFirewall
      BY <1>1, <3>2 DEF CleanupFirewall
    <3>3. CASE Crash
      BY <1>1, <3>3 DEF Crash
    <3> QED BY <1>1, <3>1, <3>2, <3>3, FirewallMoves
  <2>2. StateFile.orig = modeFile
    BY <1>1, <2>1 DEF FirewallNeeded, Inv, TeardownKnows
  <2> QED BY <1>1, <2>1, <2>2 DEF FirewallNeeded, Inv, TeardownKnows
<1>2. Inv /\ [Next]_vars
        => [(fw' # fw /\ fw # "none")
              => /\ res \cap DockerClasses = {} /\ mem.queryOk
                 /\ FirewallRequired(modeFile)]_vars
  BY <1>1
<1> QED BY <1>2, Invariance, PTL DEF Spec, FirewallGuard

(* However often teardown is killed and retried, the firewall evidence     *)
(* only moves along the order firewall_boundary.py promises.               *)
THEOREM EvidenceInOrder == Spec => ImplementsEvidence
<1>1. Init => FE!Init
  BY DEF Init, FE!Init
<1>2. ASSUME Inv, [Next]_vars
      PROVE  [FE!Next]_fw
  <2>1. CASE fw' = fw
    BY <2>1
  <2>2. CASE PrepareFirewall
    BY <2>2 DEF PrepareFirewall, FE!Next, FE!Prepare
  <2>3. CASE CleanupFirewall \/ Crash
    <3>1. fw \in {"none", "ledger", "both", "restored"}
      BY <1>2 DEF Inv, TypeOK
    <3>2. fw' \in FirewallInterrupted \cup {FirewallRemoved, fw}
      BY <2>3 DEF CleanupFirewall, Crash
    <3> QED BY <3>1, <3>2 DEF FirewallInterrupted, FirewallRemoved, FE!Next,
        FE!Restore, FE!Later
  <2> QED BY <1>2, <2>1, <2>2, <2>3, FirewallMoves
<1> QED BY <1>1, <1>2, Invariance, PTL DEF Spec, ImplementsEvidence, FE!Spec

-----------------------------------------------------------------------------
(* What an invocation's steps do to its state file, and leave alone *)

(* A row change of a step that neither begins a file nor removes one.      *)
Amends(old, new) ==
    /\ new.present = old.present
    /\ new.count = old.count \/ \E c \in Classes : CountResidue(c)
    /\ new.orig = old.orig \/ (pc = "resolve_mode" /\ new.orig = modeFile /\ modeFile # "none")
    /\ \/ pc \in MainPcs \ {"finalize"} \/ pc \in {"read_receipt", "decide"}
       \/ old.code \in KeptCodes => new.code \in KeptCodes

LEMMA KeptExplains ==
  ASSUME NEW rows \in Rows, NEW c, rows.code \in KeptCodes
  PROVE  /\ WithBlockedIfUnexplained(rows, c) = rows
         /\ WithLateFailure(rows, c).code = rows.code
BY DEF KeptCodes, WithBlockedIfUnexplained, WithLateFailure, Unexplained, Rows

LEMMA AmendsSame ==
  ASSUME NEW rows \in Rows
  PROVE  Amends(rows, rows)
BY DEF Amends

LEMMA AmendUpdates ==
  ASSUME NEW rows \in Rows
  PROVE  /\ Amends(rows, [rows EXCEPT !.status = "BLOCKED"])
         /\ \A p : Amends(rows, [rows EXCEPT !.priv = p])
         /\ \A s : Amends(rows, [rows EXCEPT !.status = s])
         /\ \A p : Amends(rows, WithProof(rows, p))
         /\ Amends(rows, WithInvalidProof(rows))
         /\ \A c : Amends(rows, WithBlockedIfUnexplained(rows, c))
         /\ \A c : Amends(rows, WithLateFailure(rows, c))
BY KeptExplains DEF Amends, Rows, WithProof, WithInvalidProof, WithBlockedIfUnexplained,
   WithLateFailure, WithBlocked

LEMMA AmendBlocked ==
  ASSUME NEW rows \in Rows, pc \in MainPcs \ {"finalize"} \/ pc \in {"read_receipt", "decide"}
  PROVE  \A c : Amends(rows, WithBlocked(rows, c))
BY DEF Amends, Rows, WithBlocked

LEMMA RecordSame ==
  ASSUME UNCHANGED rowsVars
  PROVE  Record(StateFile)
BY DEF Record, StateFile, rowsVars

LEMMA AmendStep ==
  ASSUME TypeOK, Next, ~Boundary
  PROVE  \E rows : Record(rows) /\ Amends(StateFile, rows)
<1>0. StateFile \in Rows /\ Amends(StateFile, StateFile)
  BY StateFileType, AmendsSame DEF TypeOK, RowFiles
<1>1. CASE \/ ModeLink \/ ModeUnstage \/ PrepareFirewall \/ CreateNetwork
           \/ CreateDatabase \/ WorkPasses \/ PreFirewallCount
           \/ CleanupFirewall \/ ScratchStage \/ ScratchRemove
           \/ ScratchUnstage \/ PublishGuard \/ PublishWrite
           \/ PublishConsumeAudit \/ PublishBuild \/ PublishRename
           \/ PublishVerify \/ CleanupPublished \/ RetireMode
           \/ PolluteScratch \/ Interrupt \/ Crash
           \/ (\E c \in DockerClasses : RemoveClass(c))
  <2>1. UNCHANGED rowsVars
    BY <1>1 DEF ModeLink, ModeUnstage, PrepareFirewall,
      CreateNetwork, CreateDatabase, WorkPasses, PreFirewallCount,
      CleanupFirewall, ScratchStage, ScratchRemove, ScratchUnstage,
      PublishGuard, PublishWrite, PublishConsumeAudit, PublishBuild,
      PublishRename, PublishVerify, CleanupPublished, RetireMode,
      PolluteScratch, Interrupt, Crash, RemoveClass
  <2> QED BY <1>0, <2>1, RecordSame
<1>2. CASE RecordPreterminal
  BY <1>0, <1>2, AmendBlocked DEF RecordPreterminal, MainPcs
<1>3. CASE PrivateEvidence
  BY <1>0, <1>3, AmendUpdates DEF PrivateEvidence
<1>4. CASE GateBlocks
  BY <1>0, <1>4, AmendBlocked DEF GateBlocks, Block, MainPcs
<1>5. CASE ModeStageWrite
  BY <1>0, <1>5, AmendBlocked, RecordSame DEF ModeStageWrite, Block, MainPcs
<1>6. CASE ModePublicationFails
  BY <1>0, <1>6, AmendBlocked DEF ModePublicationFails, Block, MainPcs
<1>7. CASE FinalizeBegin
  <2> DEFINE named == WithBlockedIfUnexplained(StateFile,
       "LISTENER_UNEXPECTED_INTERRUPTION")
  <2>1. /\ named \in Rows /\ Amends(StateFile, named)
        /\ Amends(StateFile, WithBlockedIfUnexplained(StateFile, "NETWORK_CONTRACT"))
        /\ Amends(named, WithBlockedIfUnexplained(named, "NETWORK_CONTRACT"))
    BY <1>0, WithBlockedType, AmendUpdates, CodesType
  <2>2. pc = "finalize" /\ ~\E c \in Classes : CountResidue(c)
    BY <1>7 DEF FinalizeBegin, CountResidue, CountAt
  <2>3. Amends(StateFile, WithBlockedIfUnexplained(named, "NETWORK_CONTRACT"))
    BY <2>1, <2>2 DEF Amends
  <2>4. \E rows : Record(rows) /\ Amends(StateFile, rows)
    BY <1>0, <1>7, <2>1, <2>3 DEF FinalizeBegin
  <2> QED BY <2>4
<1>8. CASE ResolveMode
  <2>1. modeFile # "none" => Amends(StateFile, [StateFile EXCEPT !.orig = modeFile])
    BY <1>0, <1>8 DEF ResolveMode, Amends, Rows
  <2> QED BY <1>0, <1>8, <2>1 DEF ResolveMode
<1>9. CASE CleanupReturn
  BY <1>0, <1>9, AmendUpdates DEF CleanupReturn
<1>10. CASE ScratchProof
  BY <1>0, <1>10, AmendUpdates, RecordSame DEF ScratchProof
<1>11. CASE ScratchRecord
  BY <1>0, <1>11, AmendUpdates DEF ScratchRecord
<1>12. CASE ScratchReturn
  BY <1>0, <1>12, AmendUpdates DEF ScratchReturn
<1>13. CASE CleanupDecide
  BY <1>0, <1>13, AmendUpdates, AmendBlocked DEF CleanupDecide
<1>14. CASE FinalizeDecide
  BY <1>0, <1>14, AmendUpdates, AmendBlocked DEF FinalizeDecide
<1>15. CASE CleanupReadReceipt
  BY <1>0, <1>15, AmendBlocked DEF CleanupReadReceipt
<1>16. CASE CleanupNotPublished
  BY <1>0, <1>16, AmendUpdates DEF CleanupNotPublished
<1>17. CASE \E c \in Classes : CountResidue(c)
  <2>1. PICK c \in Classes : CountResidue(c)
    BY <1>17
  <2>2. \A n : Amends(StateFile, [StateFile EXCEPT !.count[c] = n])
    BY <1>0, <1>17 DEF Amends, Rows
  <2> QED BY <1>0, <2>1, <2>2, RecordSame DEF CountResidue
<1>18. CASE FinalizeNotPublished
  <2>1. Amends(StateFile, WithBlocked(StateFile, "RESULT_RECEIPT_PUBLICATION_FAILED"))
    BY <1>0 DEF Amends, Rows, WithBlocked, KeptCodes
  <2> QED BY <1>0, <1>18, <2>1 DEF FinalizeNotPublished
<1> QED BY <1>1, <1>2, <1>3, <1>4, <1>5, <1>6, <1>7, <1>8, <1>9, <1>10, <1>11,
    <1>12, <1>13, <1>14, <1>15, <1>16, <1>17, <1>18 DEF Boundary, Next, Step, Main,
    Work, Teardown, Publish, CleanupOnly, Disturbance

(* What the world looks like to a recovery: most steps leave it alone.     *)
Steady ==
    /\ pc # "idle"
    /\ hist'.leftover = hist.leftover /\ hist'.stale = hist.stale
    /\ hist'.explained = hist.explained \/ GateBlocks
    /\ pc' \in MainPcs => pc \in MainPcs \ {"finalize"}
    /\ pc = "read_receipt" => CleanupReadReceipt \/ Crash
    /\ pc = "resolve_mode" => ResolveMode \/ Crash
    /\ pc = "decide" => FinalizeDecide \/ CleanupDecide \/ Crash
    /\ res' \subseteq res \/ pc = "work"
    /\ pc' = "publish_rename" => PublishBuild
    /\ modeStage' = modeStage \/ pc \in {"mode_write", "mode_link", "mode_unstage"}
    /\ modeFile' = modeFile \/ pc = "mode_link" \/ (pc = "retire" /\ modeFile' = "none")
    /\ \/ result' = result
       \/ PublishRename
       \/ result' = NoReceipt /\ pc \in {"publish_verify", "publish_failed"}

LEMMA SteadyStep ==
  ASSUME TypeOK, Next, ~Boundary
  PROVE  Steady
<1>0. hist \in [passed: BOOLEAN, blocked: BOOLEAN, explained: BOOLEAN, stale: BOOLEAN,
                leftover: BOOLEAN]
  BY DEF TypeOK
<1> USE DEF Steady, MainPcs, host, evidence, receiptVars
<1>1. CASE ModeStageWrite
  BY <1>0, <1>1 DEF ModeStageWrite, Block
<1>2. CASE ModeLink
  BY <1>0, <1>2 DEF ModeLink
<1>3. CASE ModeUnstage
  BY <1>0, <1>3 DEF ModeUnstage
<1>4. CASE RecordPreterminal
  BY <1>0, <1>4 DEF RecordPreterminal
<1>5. CASE PrepareFirewall
  BY <1>0, <1>5 DEF PrepareFirewall
<1>6. CASE CreateNetwork
  BY <1>0, <1>6 DEF CreateNetwork
<1>7. CASE CreateDatabase
  BY <1>0, <1>7 DEF CreateDatabase
<1>8. CASE PrivateEvidence
  BY <1>0, <1>8 DEF PrivateEvidence
<1>9. CASE GateBlocks
  BY <1>0, <1>9 DEF GateBlocks, Block
<1>10. CASE WorkPasses
  BY <1>0, <1>10 DEF WorkPasses
<1>11. CASE FinalizeBegin
  BY <1>0, <1>11 DEF FinalizeBegin
<1>12. CASE ResolveMode
  BY <1>0, <1>12 DEF ResolveMode
<1>13. CASE PreFirewallCount
  BY <1>0, <1>13 DEF PreFirewallCount
<1>14. CASE CleanupFirewall
  BY <1>0, <1>14 DEF CleanupFirewall
<1>15. CASE CleanupReturn
  BY <1>0, <1>15 DEF CleanupReturn
<1>16. CASE ScratchStage
  BY <1>0, <1>16 DEF ScratchStage
<1>17. CASE ScratchRemove
  BY <1>0, <1>17 DEF ScratchRemove
<1>18. CASE ScratchProof
  BY <1>0, <1>18 DEF ScratchProof
<1>19. CASE ScratchRecord
  BY <1>0, <1>19 DEF ScratchRecord
<1>20. CASE ScratchUnstage
  BY <1>0, <1>20 DEF ScratchUnstage
<1>21. CASE ScratchReturn
  BY <1>0, <1>21 DEF ScratchReturn
<1>22. CASE FinalizeDecide
  BY <1>0, <1>22 DEF FinalizeDecide
<1>23. CASE CleanupDecide
  BY <1>0, <1>23 DEF CleanupDecide
<1>24. CASE PublishGuard
  BY <1>0, <1>24 DEF PublishGuard
<1>25. CASE PublishWrite
  BY <1>0, <1>25 DEF PublishWrite
<1>26. CASE PublishConsumeAudit
  BY <1>0, <1>26 DEF PublishConsumeAudit
<1>27. CASE PublishBuild
  BY <1>0, <1>27 DEF PublishBuild
<1>28. CASE PublishRename
  BY <1>0, <1>28 DEF PublishRename
<1>29. CASE PublishVerify
  BY <1>0, <1>29 DEF PublishVerify
<1>30. CASE FinalizeNotPublished
  BY <1>0, <1>30 DEF FinalizeNotPublished, Exit
<1>31. CASE CleanupReadReceipt
  BY <1>0, <1>31 DEF CleanupReadReceipt
<1>32. CASE CleanupPublished
  BY <1>0, <1>32 DEF CleanupPublished, Exit
<1>33. CASE CleanupNotPublished
  BY <1>0, <1>33 DEF CleanupNotPublished, Exit
<1>34. CASE RetireMode
  BY <1>0, <1>34 DEF RetireMode, Exit
<1>35. CASE ModePublicationFails
  BY <1>0, <1>35 DEF ModePublicationFails, Block
<1>36. CASE PolluteScratch
  BY <1>0, <1>36 DEF PolluteScratch
<1>37. CASE Interrupt
  BY <1>0, <1>37 DEF Interrupt
<1>38. CASE Crash
  BY <1>0, <1>38 DEF Crash, Exit
<1>39. CASE \E c \in DockerClasses : RemoveClass(c)
  <2>1. PICK c \in DockerClasses : RemoveClass(c)
    BY <1>39
  <2>2. res' \subseteq res
    BY <2>1 DEF RemoveClass, Removed
  <2> QED BY <1>39, <2>1, <2>2, ClassSteps DEF RemoveClass
<1>40. CASE \E c \in Classes : CountResidue(c)
  <2>1. PICK c \in Classes : CountResidue(c)
    BY <1>40
  <2> QED BY <1>40, <2>1, ClassSteps DEF CountResidue
<1> QED BY <1>1, <1>2, <1>3, <1>4, <1>5, <1>6, <1>7, <1>8, <1>9, <1>10, <1>11, <1>12,
    <1>13, <1>14, <1>15, <1>16, <1>17, <1>18, <1>19, <1>20, <1>21, <1>22, <1>23, <1>24,
    <1>25, <1>26, <1>27, <1>28, <1>29, <1>30, <1>31, <1>32, <1>33, <1>34, <1>35, <1>36,
    <1>37, <1>38, <1>39, <1>40 DEF Boundary, Next,
    Step, Main, Work, Teardown, Publish, CleanupOnly, Disturbance

LEMMA FilesStay ==
  ASSUME TypeOK, Next, ~Boundary
  PROVE  /\ state'.present = state.present /\ cleanupState'.present = cleanupState.present
         /\ \/ \E c \in Classes : CountResidue(c)
            \/ state'.count = state.count /\ cleanupState'.count = cleanupState.count
BY AmendStep DEF Amends, Record, StateFile

-----------------------------------------------------------------------------
(* A zero count stays true *)

LEMMA NoCounts ==
  \A c \in Classes : NoFile.count[c] # "zero" /\ EmptyFile.count[c] # "zero"
BY DEF NoFile, EmptyFile

(* A claim of zero needs a zero count of every class. *)
LEMMA ClaimIsCounted ==
  ASSUME NEW rows \in Rows, CleanupStatus(rows) = "EXACT_ZERO"
  PROVE  \A c \in Classes : rows.count[c] = "zero"
<1>1. \A c \in Classes : rows.count[c] # "none" /\ rows.count[c] # "some"
  BY DEF CleanupStatus
<1>2. \A c \in Classes : rows.count[c] \in Counts
  BY DEF Rows
<1> QED BY <1>1, <1>2 DEF Counts

LEMMA CountsStep ==
  TypeOK /\ EvidenceStands /\ CountsStand /\ [Next]_vars => CountsStand'
<1> SUFFICES ASSUME TypeOK, EvidenceStands, CountsStand, [Next]_vars PROVE CountsStand'
  OBVIOUS
<1>0. StateFile \in Rows /\ state \in Rows /\ cleanupState \in Rows /\ res \subseteq Classes
  BY StateFileType DEF TypeOK, RowFiles
<1>1. CASE \E m \in Modes : MainStart(m)
  <2>1. /\ state' = EmptyFile /\ cleanupState' = cleanupState /\ res' = res
        /\ hist'.leftover = cleanupState.present /\ pc' = "mode_write"
    BY <1>1 DEF MainStart, InitHist, host
  <2> QED BY <2>1, NoCounts DEF CountsStand
<1>2. CASE CleanupStart
  <2>1. /\ state' = state /\ res' = res /\ hist' = hist /\ pc' = "read_receipt"
        /\ cleanupState' = cleanupState \/ cleanupState' = EmptyFile
        /\ cleanupState'.present \/ cleanupState' = cleanupState
    BY <1>2, NoFields DEF CleanupStart, host
  <2> QED BY <2>1, NoCounts DEF CountsStand, MainPcs
<1>3. CASE FinalizePublished \/ CleanupForget
  <2>1. /\ res' = res /\ hist' = hist /\ pc' = "idle" /\ state' = NoFile
        /\ cleanupState' \in {cleanupState, NoFile}
    BY <1>3 DEF FinalizePublished, CleanupForget, Exit, host
  <2> QED BY <2>1, NoCounts DEF CountsStand, MainPcs
<1>4. CASE \E c \in Classes : CountResidue(c)
  <2>1. PICK c \in Classes : CountResidue(c)
    BY <1>4
  <2>2. /\ pc \notin MainPcs /\ pc' \notin MainPcs /\ pc' # "publish_rename"
        /\ res' = res /\ hist' = hist
    BY <2>1, ClassSteps DEF MainPcs, CountResidue, host
  <2>3. \/ UNCHANGED rowsVars
        \/ \E n \in {"some", "zero"} :
             /\ n = "zero" => c \notin res
             /\ Record([StateFile EXCEPT !.count[c] = n])
    BY <2>1 DEF CountResidue
  <2>4. CASE UNCHANGED rowsVars
    BY <2>2, <2>4 DEF CountsStand, rowsVars
  <2>5. ASSUME NEW n \in {"some", "zero"}, n = "zero" => c \notin res,
               Record([StateFile EXCEPT !.count[c] = n])
        PROVE  CountsStand'
    <3>1. /\ state' \in {state, [state EXCEPT !.count[c] = n]}
          /\ \/ cleanupState' = cleanupState
             \/ cleanupState' = [cleanupState EXCEPT !.count[c] = n] /\ mem.file # "STATE"
      BY <1>0, <2>5 DEF Record, StateFile
    <3>2. \A d \in Classes :
             /\ \/ state'.count[d] = state.count[d]
                \/ d = c /\ state'.count[d] = n
             /\ \/ cleanupState'.count[d] = cleanupState.count[d]
                \/ d = c /\ cleanupState'.count[d] = n
      <4> DEFINE Recounts(new, rows) ==
                   \A d \in Classes : new.count[d] = rows.count[d] \/ (d = c /\ new.count[d] = n)
      <4>1. \A rows \in Rows : Recounts([rows EXCEPT !.count[c] = n], rows)
        BY DEF Rows
      <4>2. \A rows : Recounts(rows, rows)
        OBVIOUS
      <4>3. Recounts(state', state)
        <5> HIDE DEF Recounts
        <5> QED BY <1>0, <3>1, <4>1, <4>2
      <4>4. Recounts(cleanupState', cleanupState)
        <5> HIDE DEF Recounts
        <5> QED BY <1>0, <3>1, <4>1, <4>2
      <4> QED BY <4>3, <4>4
    <3>3. ~cleanupState'.present => cleanupState' = cleanupState
      <4>1. mem.file # "STATE" => cleanupState.present
        BY <1>4, ClassSteps DEF EvidenceStands, StateFile
      <4>2. [cleanupState EXCEPT !.count[c] = n].present = cleanupState.present
        BY <1>0 DEF Rows
      <4> QED BY <3>1, <4>1, <4>2
    <3> QED BY <2>2, <2>5, <3>2, <3>3 DEF CountsStand
  <2> QED BY <2>3, <2>4, <2>5
<1>5. CASE PublishBuild
  <2>1. /\ res' = res /\ hist' = hist /\ state' = state /\ cleanupState' = cleanupState
        /\ pc = "publish_build" /\ pc' \in {"publish_rename", "publish_failed"}
    BY <1>5 DEF PublishBuild, host, rowsVars
  <2>2. ASSUME pc' = "publish_rename", resultStage'.cleanup = "EXACT_ZERO", ~hist.leftover
        PROVE  res = {}
    <3>1. CleanupStatus(StateFile) = "EXACT_ZERO"
      <4>1. \A e : BuildReceipt(StateFile, e).cleanup = CleanupStatus(StateFile)
        BY DEF BuildReceipt
      <4>2. \E e : resultStage' = BuildReceipt(StateFile, e)
        BY <1>5, <2>2 DEF PublishBuild
      <4> QED BY <2>2, <4>1, <4>2
    <3>2. \A c \in Classes : StateFile.count[c] = "zero"
      BY <1>0, <3>1, ClaimIsCounted
    <3>3. \A c \in Classes : c \notin res
      BY <2>2, <3>2 DEF CountsStand, StateFile
    <3> QED BY <1>0, <3>3
  <2> QED BY <2>1, <2>2 DEF CountsStand, MainPcs
<1>6. CASE /\ Next /\ ~Boundary /\ ~PublishBuild
           /\ ~\E c \in Classes : CountResidue(c)
  <2>1. Steady
    BY <1>6, SteadyStep
  <2>2. /\ state'.count = state.count /\ cleanupState'.count = cleanupState.count
        /\ cleanupState'.present = cleanupState.present
    BY <1>6, FilesStay
  <2>3. pc = "work" => \A c \in Classes : /\ state.count[c] # "zero"
                                          /\ ~hist.leftover => cleanupState.count[c] # "zero"
    BY DEF CountsStand, MainPcs
  <2> QED BY <1>6, <2>1, <2>2, <2>3 DEF CountsStand, Steady
<1>7. CASE UNCHANGED vars
  BY <1>7 DEF vars, rowsVars, receiptVars, host, CountsStand
<1> QED BY <1>1, <1>2, <1>3, <1>4, <1>5, <1>6, <1>7 DEF Boundary

(* A published EXACT_ZERO claim is true of the Docker resources and the    *)
(* listener, whatever was killed before it and whichever counts were       *)
(* recovered, unless the run began over an earlier cleanup's state file.   *)
THEOREM ClaimOfZeroIsTrue == Spec => ZeroClaimIsTrue
<1>1. Init => CountsStand
  BY NoCounts DEF Init, CountsStand
<1>2. Inv /\ CountsStand /\ [Next]_vars => CountsStand'
  BY CountsStep DEF Inv
<1>3. CountsStand /\ [Next]_vars
        => [(Published /\ result'.cleanup = "EXACT_ZERO" /\ ~hist.leftover) => res = {}]_vars
  BY PublishedByRename DEF PublishRename, CountsStand
<1> QED BY <1>1, <1>2, <1>3, Invariance, PTL DEF Spec, ZeroClaimIsTrue

-----------------------------------------------------------------------------
(* The first failure is kept *)

(* What a process remembers from step to step, unless it ends.             *)
Remembers ==
    /\ pc' # "idle" /\ inv' = inv
    /\ mem'.file = mem.file /\ mem'.recovery = mem.recovery
    /\ mem'.exitOk = mem.exitOk \/ pc \in MainPcs \ {"finalize"}
    /\ mem'.existing = mem.existing \/ pc = "read_receipt"
    /\ mem'.expected = mem.expected \/ pc = "decide"
    /\ pc' # "read_receipt"
    /\ pc' = "resolve_mode" => pc \in {"finalize", "read_receipt"}
    /\ pc' \notin PublishPcs => pc \notin PublishPcs
    /\ pc' \in {"mode_unstage", "preterminal", "work"} =>
         \/ ModeLink \/ ModeUnstage
         \/ UNCHANGED <<modeFile, modeStage>> /\ pc \in {"preterminal", "work"}

LEMMA MemoryStep ==
  ASSUME TypeOK, Next, ~Boundary
  PROVE  Exit \/ Remembers
<1>0. mem \in Mem
  BY DEF TypeOK
<1> USE DEF Remembers, Mem, MainPcs, PublishPcs, BeforeRename, DeferredPcs, evidence
<1>1. CASE ModeStageWrite
  BY <1>0, <1>1 DEF ModeStageWrite, Block
<1>2. CASE ModeLink
  BY <1>0, <1>2 DEF ModeLink
<1>3. CASE ModeUnstage
  BY <1>0, <1>3 DEF ModeUnstage
<1>4. CASE RecordPreterminal
  BY <1>0, <1>4 DEF RecordPreterminal
<1>5. CASE PrepareFirewall
  BY <1>0, <1>5 DEF PrepareFirewall
<1>6. CASE CreateNetwork
  BY <1>0, <1>6 DEF CreateNetwork
<1>7. CASE CreateDatabase
  BY <1>0, <1>7 DEF CreateDatabase
<1>8. CASE PrivateEvidence
  BY <1>0, <1>8 DEF PrivateEvidence
<1>9. CASE GateBlocks
  BY <1>0, <1>9 DEF GateBlocks, Block
<1>10. CASE WorkPasses
  BY <1>0, <1>10 DEF WorkPasses
<1>11. CASE FinalizeBegin
  BY <1>0, <1>11 DEF FinalizeBegin
<1>12. CASE ResolveMode
  BY <1>0, <1>12 DEF ResolveMode
<1>13. CASE PreFirewallCount
  BY <1>0, <1>13 DEF PreFirewallCount
<1>14. CASE CleanupFirewall
  BY <1>0, <1>14 DEF CleanupFirewall
<1>15. CASE CleanupReturn
  BY <1>0, <1>15 DEF CleanupReturn
<1>16. CASE ScratchStage
  BY <1>0, <1>16 DEF ScratchStage
<1>17. CASE ScratchRemove
  BY <1>0, <1>17 DEF ScratchRemove
<1>18. CASE ScratchProof
  BY <1>0, <1>18 DEF ScratchProof
<1>19. CASE ScratchRecord
  BY <1>0, <1>19 DEF ScratchRecord
<1>20. CASE ScratchUnstage
  BY <1>0, <1>20 DEF ScratchUnstage
<1>21. CASE ScratchReturn
  BY <1>0, <1>21 DEF ScratchReturn
<1>22. CASE FinalizeDecide
  BY <1>0, <1>22 DEF FinalizeDecide
<1>23. CASE CleanupDecide
  BY <1>0, <1>23 DEF CleanupDecide
<1>24. CASE PublishGuard
  BY <1>0, <1>24 DEF PublishGuard
<1>25. CASE PublishWrite
  BY <1>0, <1>25 DEF PublishWrite
<1>26. CASE PublishConsumeAudit
  BY <1>0, <1>26 DEF PublishConsumeAudit
<1>27. CASE PublishBuild
  BY <1>0, <1>27 DEF PublishBuild
<1>28. CASE PublishRename
  BY <1>0, <1>28 DEF PublishRename
<1>29. CASE PublishVerify
  BY <1>0, <1>29 DEF PublishVerify
<1>30. CASE FinalizeNotPublished
  BY <1>0, <1>30 DEF FinalizeNotPublished
<1>31. CASE CleanupReadReceipt
  BY <1>0, <1>31 DEF CleanupReadReceipt
<1>32. CASE CleanupPublished
  BY <1>0, <1>32 DEF CleanupPublished
<1>33. CASE CleanupNotPublished
  BY <1>0, <1>33 DEF CleanupNotPublished
<1>34. CASE RetireMode
  BY <1>0, <1>34 DEF RetireMode
<1>35. CASE ModePublicationFails
  BY <1>0, <1>35 DEF ModePublicationFails, Block
<1>36. CASE PolluteScratch
  BY <1>0, <1>36 DEF PolluteScratch
<1>37. CASE Interrupt
  BY <1>0, <1>37 DEF Interrupt
<1>38. CASE Crash
  BY <1>0, <1>38 DEF Crash
<1>39. CASE \E c \in DockerClasses : RemoveClass(c)
  <2>1. PICK c \in DockerClasses : RemoveClass(c)
    BY <1>39
  <2>2. /\ pc' \notin {"idle", "read_receipt", "resolve_mode", "mode_unstage",
                       "preterminal", "work"}
        /\ pc \notin PublishPcs
    BY <1>39, ClassSteps
  <2> QED BY <1>0, <2>1, <2>2 DEF RemoveClass
<1>40. CASE \E c \in Classes : CountResidue(c)
  <2>1. PICK c \in Classes : CountResidue(c)
    BY <1>40
  <2>2. /\ pc' \notin {"idle", "read_receipt", "resolve_mode", "mode_unstage",
                       "preterminal", "work"}
        /\ pc \notin PublishPcs
    BY <1>40, ClassSteps
  <2> QED BY <1>0, <2>1, <2>2 DEF CountResidue
<1> QED BY <1>1, <1>2, <1>3, <1>4, <1>5, <1>6, <1>7, <1>8, <1>9, <1>10, <1>11, <1>12,
    <1>13, <1>14, <1>15, <1>16, <1>17, <1>18, <1>19, <1>20, <1>21, <1>22, <1>23, <1>24,
    <1>25, <1>26, <1>27, <1>28, <1>29, <1>30, <1>31, <1>32, <1>33, <1>34, <1>35, <1>36,
    <1>37, <1>38, <1>39, <1>40 DEF Boundary, Next,
    Step, Main, Work, Teardown, Publish, CleanupOnly, Disturbance

LEMMA BeginsStep ==
  TypeOK /\ RunBegins /\ [Next]_vars => RunBegins'
<1> SUFFICES ASSUME TypeOK, RunBegins, [Next]_vars PROVE RunBegins'
  OBVIOUS
<1>0. mem \in Mem /\ hist \in [passed: BOOLEAN, blocked: BOOLEAN, explained: BOOLEAN,
                               stale: BOOLEAN, leftover: BOOLEAN]
  BY DEF TypeOK
<1>1. CASE \E m \in Modes : MainStart(m)
  <2>1. /\ pc' = "mode_write" /\ result' = result /\ mem' = InitMem
        /\ hist'.explained = FALSE /\ hist'.stale = (result # NoReceipt)
    BY <1>1 DEF MainStart, InitHist, receiptVars
  <2>2. InitMem.expected = "BLOCKED"
    BY DEF InitMem
  <2> QED BY <2>1, <2>2 DEF RunBegins
<1>2. CASE CleanupStart \/ FinalizePublished \/ CleanupForget
  BY <1>2 DEF CleanupStart, FinalizePublished, CleanupForget, Exit, RunBegins, MainPcs
<1>3. CASE Next /\ ~Boundary
  <2>1. Steady /\ (Exit \/ Remembers)
    BY <1>3, SteadyStep, MemoryStep
  <2>2. CASE pc' \notin MainPcs
    BY <2>2 DEF RunBegins, MainPcs
  <2>3. CASE pc' \in MainPcs
    <3>1. pc \in MainPcs \ {"finalize"} /\ Remembers
      BY <2>1, <2>3 DEF Steady, Exit, MainPcs
    <3>2. /\ result' = result /\ hist'.stale = hist.stale
          /\ mem'.expected = mem.expected
      BY <2>1, <3>1 DEF Steady, Remembers, MainPcs, PublishRename
    <3>3. pc' # "finalize" => hist'.explained = hist.explained
      BY <2>1 DEF Steady, GateBlocks, Block
    <3>4. /\ pc' \in {"mode_unstage", "preterminal", "work"} => modeFile' = inv'
          /\ pc' \in {"preterminal", "work"} => ~modeStage'
      <4>1. CASE ModeLink
        BY <4>1 DEF ModeLink
      <4>2. CASE ModeUnstage
        BY <4>2 DEF ModeUnstage, RunBegins
      <4>3. CASE UNCHANGED <<modeFile, modeStage>> /\ pc \in {"preterminal", "work"}
        BY <4>3, <3>1 DEF RunBegins, Remembers
      <4> QED BY <3>1, <4>1, <4>2, <4>3 DEF Remembers
    <3> QED BY <3>1, <3>2, <3>3, <3>4 DEF RunBegins
  <2> QED BY <2>2, <2>3
<1>4. CASE UNCHANGED vars
  <2>1. pc' = pc /\ inv' = inv /\ mem' = mem /\ hist' = hist /\ result' = result
        /\ modeFile' = modeFile /\ modeStage' = modeStage
    BY <1>4 DEF vars, evidence, receiptVars
  <2> QED BY <2>1 DEF RunBegins
<1> QED BY <1>1, <1>2, <1>3, <1>4 DEF Boundary

(* The file in use is the one the next cleanup-only recovers from. *)
LEMMA NextFileIs ==
  ASSUME OwnFile, EvidenceStands, pc # "idle",
         IsCleanup => (mem.file = "CLEANUP" => ~state.present), TypeOK
  PROVE  /\ StateFile = NextFile /\ StateFile.present
         /\ mem.file = "STATE" <=> state.present
         /\ \A rows : Record(rows) /\ rows.present = StateFile.present
              => /\ NextFile' = rows
                 /\ mem'.file = mem.file => StateFile' = rows
                 /\ state'.present = state.present
<1>1. mem.file \in {"STATE", "CLEANUP"}
  BY DEF TypeOK, Mem
<1>2. StateFile.present
  BY DEF EvidenceStands
<1>3. mem.file = "STATE" <=> state.present
  BY <1>1, <1>2 DEF OwnFile, StateFile
<1> QED BY <1>1, <1>2, <1>3 DEF StateFile, NextFile, Record

(* Facts about the values the codes and receipts take. *)
LEMMA KnownValues ==
  /\ "none" \notin KeptCodes /\ "NONE" \notin KeptCodes
  /\ "PRIMARY" \in KeptCodes /\ "RESULT_RECEIPT_VALIDATION_FAILED" \in KeptCodes
  /\ "RESULT_RECEIPT_PUBLICATION_FAILED" \in KeptCodes
  /\ NoReceipt.status = "none" /\ EmptyFile.orig = "none" /\ NoFile.orig = "none"
  /\ "private-netns-probe" \notin HostModes /\ "none" \notin HostModes
  /\ "idle" \notin HostModes /\ "cleanup-only" \notin HostModes
  /\ Valid(result) => result # NoReceipt
BY DEF KeptCodes, NoReceipt, EmptyFile, NoFile, HostModes, Valid, Statuses, PassStatuses

(* A gate's failure, as the file of the run records it. *)
LEMMA GateIsKnown ==
  ASSUME Inv, RunBegins, GateBlocks, hist'.explained, ~hist'.stale
  PROVE  FailureKnown'
<1>1. /\ pc = "work" /\ pc' = "finalize" /\ inv' = inv /\ ~IsCleanup /\ mem.file = "STATE"
      /\ hist'.stale = hist.stale /\ inv # "private-netns-probe"
  BY DEF GateBlocks, Block, Inv, TypeOK, MainPcs, IsCleanup, AllModes, PassIsEarned
<1>2. inv \in HostModes
  BY <1>1 DEF Inv, TypeOK, MainPcs, AllModes, HostModes
<1>3. /\ ~modeStage' /\ modeFile' = inv /\ result' = NoReceipt
      /\ mem' = [mem EXCEPT !.exitOk = FALSE] /\ mem.expected = "BLOCKED"
  BY <1>1 DEF RunBegins, GateBlocks, Block, MainPcs, evidence, receiptVars
<1>4. /\ mem'.file = "STATE" /\ ~mem'.exitOk /\ mem'.expected = "BLOCKED"
      /\ state.present /\ state \in Rows
  BY <1>1, <1>3 DEF Inv, TypeOK, Mem, EvidenceStands, StateFile
<1>5. /\ state' = WithBlocked(state, "PRIMARY")
      /\ WithBlocked(state, "PRIMARY").present /\ WithBlocked(state, "PRIMARY").status = "BLOCKED"
      /\ WithBlocked(state, "PRIMARY").code = "PRIMARY"
  BY <1>1, <1>4 DEF GateBlocks, Block, Record, StateFile, WithBlocked, Rows
<1>6. StateFile' = state' /\ ~IsCleanup'
  BY <1>1, <1>4 DEF StateFile, IsCleanup
<1> QED BY <1>1, <1>2, <1>3, <1>4, <1>5, <1>6, KnownValues DEF FailureKnown, ModeKnown,
    KnownBetween, KnownByRun, KnownByCleanup, KnownToInvocation, FileKnows

(* What begins a file or removes one *)
LEMMA BoundaryIsKnown ==
  ASSUME Inv, FailureKnown, CleanupStart \/ FinalizePublished \/ CleanupForget
  PROVE  FailureKnown'
<1>1. CASE CleanupStart
  <2>1. /\ pc = "idle" /\ pc' = "read_receipt" /\ result' = result /\ state' = state
        /\ modeFile' = modeFile /\ modeStage' = modeStage /\ IsCleanup'
        /\ mem'.file = (IF state.present THEN "STATE" ELSE "CLEANUP")
        /\ mem'.recovery = (state.present \/ cleanupState.present)
        /\ mem'.existing = "none" /\ mem'.expected = "BLOCKED"
    BY <1>1 DEF CleanupStart, InitMem, receiptVars, evidence, IsCleanup
  <2>2. /\ state.present \/ cleanupState.present => cleanupState' = cleanupState
        /\ ~(state.present \/ cleanupState.present) => cleanupState' = EmptyFile
    BY <1>1 DEF CleanupStart
  <2>3. StateFile' = NextFile'
    BY <2>1 DEF StateFile, NextFile
  <2>4. NextFile.present => NextFile' = NextFile /\ mem'.recovery
    BY <2>1, <2>2 DEF NextFile
  <2>5. ReceiptKnows' <=> ReceiptKnows
    BY <2>1 DEF ReceiptKnows
  <2>6. ReceiptKnows \/ FileKnows(NextFile)
    BY <2>1 DEF FailureKnown, KnownBetween
  <2>7. ReceiptKnows' \/ FileKnows(StateFile')
    BY <2>3, <2>4, <2>5, <2>6 DEF FileKnows
  <2>8. mem'.recovery \/ ReceiptKnows'
    BY <2>4, <2>5, <2>6 DEF FileKnows
  <2>9. ModeKnown'
    <3>1. NextFile'.orig \in {NextFile.orig, "none"}
      BY <2>1, <2>2, KnownValues DEF NextFile
    <3> QED BY <2>1, <3>1 DEF FailureKnown, ModeKnown
  <2> QED BY <2>1, <2>5, <2>7, <2>8, <2>9 DEF FailureKnown, KnownBetween, KnownByRun,
      KnownByCleanup, KnownToInvocation
<1>2. CASE FinalizePublished \/ CleanupForget
  <2>1. /\ pc \in {"published", "forget"} /\ pc' = "idle" /\ ~IsCleanup' /\ result' = result
        /\ modeFile' = modeFile /\ modeStage' = modeStage
    BY <1>2 DEF FinalizePublished, CleanupForget, Exit, receiptVars, evidence, IsCleanup
  <2>2. ReceiptKnows'
    <3>1. result # NoReceipt
      BY <2>1, KnownValues DEF Inv, PassIsEarned
    <3> QED BY <2>1, <3>1 DEF FailureKnown, ReceiptKnows
  <2>3. ModeKnown'
    <3>1. CASE FinalizePublished
      <4>1. modeFile # "none"
        BY <3>1 DEF FinalizePublished, FailureKnown, KnownByRun
      <4> QED BY <2>1, <4>1 DEF ModeKnown
    <3>2. CASE CleanupForget
      <4>1. NextFile' = NoFile
        BY <3>2 DEF CleanupForget, NextFile
      <4> QED BY <4>1, KnownValues DEF ModeKnown
    <3> QED BY <1>2, <3>1, <3>2
  <2> QED BY <2>1, <2>2, <2>3 DEF FailureKnown, KnownBetween, KnownByRun,
      KnownByCleanup, KnownToInvocation
<1> QED BY <1>1, <1>2

(* What the steps of an invocation make of its file *)
LEMMA FileStaysKnown ==
  ASSUME Inv, RunBegins, hist.explained, FailureKnown, Next, ~Boundary,
         NEW rows, Record(rows), Amends(StateFile, rows)
  PROVE  /\ pc # "read_receipt" => FileKnows(rows)
         /\ pc = "read_receipt" /\ ~Crash => FileKnows(rows)
         /\ pc = "read_receipt" /\ Crash => rows = StateFile
<1>0. /\ StateFile \in Rows /\ StateFile.present /\ pc # "idle"
      /\ pc \notin MainPcs \ {"finalize"} /\ Steady /\ mem \in Mem
      /\ rows.present
  BY StateFileType, SteadyStep DEF Inv, TypeOK, RowFiles, RunBegins, EvidenceStands, Steady,
     Amends
<1>1. \A other : Record(other) => other = rows
  BY DEF Record
<1>2. CASE Crash
  <2>1. rows = StateFile
    BY <1>1, <1>2, RecordSame DEF Crash
  <2> QED BY <1>0, <1>2, <2>1 DEF FailureKnown, KnownToInvocation
<1>3. CASE pc = "read_receipt" /\ ~Crash
  <2>1. CleanupReadReceipt /\ IsCleanup
    BY <1>0, <1>3 DEF Steady, Inv, TypeOK, CleanupPcs
  <2>2. PICK ok \in BOOLEAN :
          /\ ok => result = NoReceipt \/ Valid(result)
          /\ Record(IF ~ok THEN WithBlocked(StateFile, "RESULT_RECEIPT_VALIDATION_FAILED")
                    ELSE IF result.status = "BLOCKED"
                         THEN WithBlocked(StateFile, result.code)
                         ELSE StateFile)
    BY <2>1 DEF CleanupReadReceipt
  <2>3. CASE ~ok
    <3>1. rows = WithBlocked(StateFile, "RESULT_RECEIPT_VALIDATION_FAILED")
      BY <1>1, <2>2, <2>3
    <3>2. rows.code = "RESULT_RECEIPT_VALIDATION_FAILED"
      BY <1>0, <3>1 DEF WithBlocked, Rows
    <3> QED BY <1>0, <1>3, <3>2, KnownValues DEF FileKnows
  <2>4. CASE ok /\ result.status = "BLOCKED"
    <3>1. rows = WithBlocked(StateFile, result.code)
      BY <1>1, <2>2, <2>4
    <3>2. rows.code = result.code
      BY <1>0, <3>1 DEF WithBlocked, Rows
    <3>3. result.code \in KeptCodes
      BY <2>4, KnownValues DEF FailureKnown, ReceiptKnows
    <3> QED BY <1>0, <1>3, <3>2, <3>3 DEF FileKnows
  <2>5. CASE ok /\ result.status # "BLOCKED"
    <3>1. rows = StateFile
      BY <1>1, <2>2, <2>5
    <3>2. FileKnows(StateFile)
      BY <1>3, <2>1, <2>5 DEF FailureKnown, KnownByCleanup, ReceiptKnows
    <3> QED BY <1>3, <3>1, <3>2
  <2> QED BY <2>3, <2>4, <2>5
<1>4. CASE pc = "decide" /\ ~Crash
  <2>0. FileKnows(StateFile)
    BY <1>4 DEF FailureKnown, KnownToInvocation
  <2>1. CASE FinalizeDecide
    <3>1. ~mem.exitOk /\ StateFile.status = "BLOCKED"
      BY <2>1 DEF FinalizeDecide, FailureKnown, KnownByRun, PublishPcs, BeforeRename,
         DeferredPcs
    <3>2. rows = StateFile
      BY <1>1, <2>1, <3>1 DEF FinalizeDecide
    <3> QED BY <1>4, <2>0, <3>2
  <2>2. CASE CleanupDecide
    <3>1. mem.recovery \/ result # NoReceipt
      BY <2>2, KnownValues DEF CleanupDecide, FailureKnown, KnownByCleanup, PublishPcs,
         BeforeRename, DeferredPcs, ReceiptKnows
    <3>2. rows = StateFile \/ rows = [StateFile EXCEPT !.status = "BLOCKED"]
      BY <1>1, <2>2, <3>1 DEF CleanupDecide
    <3>3. rows.code = StateFile.code
      BY <1>0, <3>2 DEF Rows
    <3> QED BY <1>0, <1>4, <2>0, <3>3 DEF FileKnows
  <2> QED BY <1>0, <1>4, <2>1, <2>2 DEF Steady
<1>5. CASE pc \notin {"read_receipt", "decide"}
  <2>1. FileKnows(StateFile)
    BY <1>0, <1>5 DEF FailureKnown, KnownToInvocation
  <2> QED BY <1>0, <1>5, <2>1 DEF Amends, FileKnows
<1> QED BY <1>2, <1>3, <1>4, <1>5

(* The receipt a kept failure leads to *)
LEMMA BuildIsKnown ==
  ASSUME Inv, FailureKnown, PublishBuild, pc' = "publish_rename"
  PROVE  resultStage'.status = "BLOCKED" /\ resultStage'.code \in KeptCodes
<1>1. /\ pc = "publish_build" /\ FileKnows(StateFile) /\ mem.expected = "BLOCKED"
  BY DEF PublishBuild, FailureKnown, KnownToInvocation
<1>2. ReceiptMode(StateFile) # "private-netns-probe"
  <2>1. CASE IsCleanup
    BY <1>1, <2>1 DEF ReceiptMode, FailureKnown, KnownByCleanup
  <2>2. CASE ~IsCleanup
    BY <1>1, <2>2, KnownValues DEF ReceiptMode, FailureKnown, KnownByRun
  <2> QED BY <2>1, <2>2
<1>3. FailureCode(StateFile) \in KeptCodes
  BY <1>1, <1>2, KnownValues DEF FailureCode, FileKnows
<1>4. \A e : /\ BuildReceipt(StateFile, e).status = "BLOCKED"
             /\ BuildReceipt(StateFile, e).code = FailureCode(StateFile)
  BY <1>1 DEF BuildReceipt, PassAdmitted
<1>5. \E e : resultStage' = BuildReceipt(StateFile, e)
  BY DEF PublishBuild
<1> QED BY <1>3, <1>4, <1>5

LEMMA FailureStep ==
  ASSUME Inv, RunBegins, hist.explained, FailureKnown, Next, ~Boundary
  PROVE  FailureKnown'
<1>0. /\ Steady /\ (Exit \/ Remembers) /\ pc # "idle" /\ pc \notin MainPcs \ {"finalize"}
      /\ mem \in Mem
  BY SteadyStep, MemoryStep DEF RunBegins, Steady, Inv, TypeOK
<1>1. /\ StateFile = NextFile /\ StateFile.present /\ (mem.file = "STATE" <=> state.present)
      /\ \A rows : Record(rows) /\ rows.present = StateFile.present
           => /\ NextFile' = rows
              /\ mem'.file = mem.file => StateFile' = rows
              /\ state'.present = state.present
  <2>1. IsCleanup => (mem.file = "CLEANUP" => ~state.present)
    BY DEF FailureKnown, KnownByCleanup
  <2>2. OwnFile /\ EvidenceStands /\ TypeOK
    BY EarnedParts DEF Inv
  <2> QED BY <1>0, <2>1, <2>2, NextFileIs
<1>2. PICK rows : Record(rows) /\ Amends(StateFile, rows)
  BY AmendStep DEF Inv
<1>3. /\ rows.present = StateFile.present /\ NextFile' = rows
      /\ mem'.file = mem.file => StateFile' = rows
      /\ state'.present = state.present
  BY <1>1, <1>2 DEF Amends
<1>4. /\ pc # "read_receipt" => FileKnows(rows)
      /\ pc = "read_receipt" /\ ~Crash => FileKnows(rows)
      /\ pc = "read_receipt" /\ Crash => rows = StateFile
  BY <1>2, FileStaysKnown
<1>5. /\ ~modeStage' /\ modeFile' \in HostModes \cup {"none"}
      /\ modeFile' = modeFile \/ (pc = "retire" /\ modeFile' = "none")
  BY <1>0 DEF Steady, FailureKnown, MainPcs
<1>6. rows.orig = NextFile.orig \/ (pc = "resolve_mode" /\ rows.orig \in HostModes)
  BY <1>1, <1>2 DEF Amends, FailureKnown
<1>7. ModeKnown'
  <2>1. CASE modeFile' = modeFile
    BY <1>3, <1>6, <2>1, KnownValues DEF FailureKnown, ModeKnown
  <2>2. CASE pc = "retire"
    <3>1. IsCleanup
      BY <2>2 DEF Inv, TypeOK, CleanupPcs
    <3>2. NextFile.orig # "private-netns-probe"
      BY <1>1, <2>2, <3>1 DEF FailureKnown, KnownByCleanup
    <3> QED BY <1>3, <1>6, <2>2, <3>2 DEF ModeKnown
  <2> QED BY <1>5, <2>1, <2>2
<1>8. /\ result' # NoReceipt => ReceiptKnows'
      /\ pc \notin PublishPcs \ {"publish_guard"} => result' = result
  <2>1. CASE PublishRename
    <3>1. /\ pc = "publish_rename" /\ result' \in {result, resultStage}
      BY <2>1 DEF PublishRename
    <3>2. resultStage.status = "BLOCKED" /\ resultStage.code \in KeptCodes
      BY <3>1 DEF FailureKnown, KnownToInvocation
    <3> QED BY <3>1, <3>2 DEF FailureKnown, ReceiptKnows, PublishPcs, BeforeRename
  <2>2. CASE ~PublishRename
    BY <1>0, <2>2 DEF Steady, FailureKnown, ReceiptKnows, PublishPcs, BeforeRename,
       DeferredPcs
  <2> QED BY <2>1, <2>2
<1>9. KnownBetween'
  <2>1. CASE pc = "read_receipt" /\ Crash
    <3>1. ReceiptKnows \/ FileKnows(StateFile)
      <4>1. IsCleanup
        BY <2>1 DEF Inv, TypeOK, CleanupPcs
      <4> QED BY <2>1, <4>1 DEF FailureKnown, KnownByCleanup
    <3>2. result' = result /\ NextFile' = StateFile
      BY <1>3, <1>4, <2>1 DEF Crash, receiptVars
    <3> QED BY <3>1, <3>2 DEF KnownBetween, ReceiptKnows
  <2>2. CASE ~(pc = "read_receipt" /\ Crash)
    BY <1>3, <1>4, <2>2 DEF KnownBetween
  <2> QED BY <2>1, <2>2
<1>10. KnownByRun'
  <2> SUFFICES ASSUME pc' # "idle", ~IsCleanup'
               PROVE  /\ inv' \in HostModes /\ modeFile' # "none"
                      /\ StateFile'.status = "BLOCKED" \/ pc' \in PublishPcs
                      /\ ~mem'.exitOk
    BY DEF KnownByRun
  <2>1. Remembers /\ inv' = inv /\ ~IsCleanup /\ mem'.file = mem.file
    BY <1>0 DEF Exit, Remembers, IsCleanup
  <2>2. inv \in HostModes /\ modeFile # "none" /\ ~mem.exitOk
        /\ (StateFile.status = "BLOCKED" \/ pc \in PublishPcs)
    BY <1>0, <2>1 DEF FailureKnown, KnownByRun
  <2>3. pc # "retire"
    BY <2>1 DEF Inv, TypeOK, CleanupPcs
  <2>4. ~mem'.exitOk
    BY <1>0, <2>1, <2>2 DEF Remembers
  <2>5. StateFile'.status = "BLOCKED" \/ pc' \in PublishPcs
    <3>1. CASE FinalizeDecide
      BY <3>1 DEF FinalizeDecide, PublishPcs, BeforeRename
    <3>2. CASE ~FinalizeDecide
      <4>1. Quiet(state, state') /\ Quiet(cleanupState, cleanupState')
        BY <3>2, QuietStep DEF Inv
      <4>2. Quiet(StateFile, StateFile')
        BY <2>1, <4>1 DEF StateFile
      <4>3. pc \in PublishPcs => pc' \in PublishPcs
        BY <2>1 DEF Remembers
      <4> QED BY <2>2, <4>2, <4>3 DEF Quiet
    <3> QED BY <3>1, <3>2
  <2> QED BY <1>5, <2>1, <2>2, <2>3, <2>4, <2>5
<1>11. KnownByCleanup'
  <2> SUFFICES ASSUME IsCleanup' PROVE KnownByCleanup'
    BY DEF KnownByCleanup
  <2>1. Remembers /\ IsCleanup /\ mem'.file = mem.file /\ pc' # "read_receipt"
    BY <1>0 DEF Exit, Remembers, IsCleanup
  <2>2. mem'.file = "CLEANUP" => ~state'.present
    BY <1>3, <2>1 DEF FailureKnown, KnownByCleanup
  <2>3. pc' \notin PublishPcs => mem'.recovery \/ ReceiptKnows'
    BY <1>8, <2>1 DEF FailureKnown, KnownByCleanup, Remembers, ReceiptKnows
  <2>4. pc' \notin {"read_receipt", "resolve_mode"} =>
          StateFile'.orig # "private-netns-probe"
    <3>1. CASE pc \notin {"read_receipt", "resolve_mode"}
      <4>1. StateFile.orig # "private-netns-probe"
        BY <2>1, <3>1 DEF FailureKnown, KnownByCleanup
      <4> QED BY <1>1, <1>3, <1>6, <2>1, <3>1, <4>1
    <3>2. CASE pc = "resolve_mode"
      <4>1. ResolveMode
        BY <1>0, <2>1, <3>2 DEF Steady, Crash, Exit, Remembers
      <4>2. CASE modeFile # "none"
        <5>1. Record([StateFile EXCEPT !.orig = modeFile])
          BY <2>1, <4>1, <4>2 DEF ResolveMode, FailureKnown
        <5>2. /\ [StateFile EXCEPT !.orig = modeFile].present = StateFile.present
              /\ [StateFile EXCEPT !.orig = modeFile].orig = modeFile
          BY StateFileType DEF Inv, TypeOK, RowFiles, Rows
        <5>3. StateFile'.orig = modeFile
          BY <1>1, <2>1, <5>1, <5>2
        <5> QED BY <4>2, <5>3, KnownValues DEF FailureKnown
      <4>3. CASE modeFile = "none"
        <5>1. NextFile.orig # "private-netns-probe"
          BY <4>3 DEF FailureKnown, ModeKnown
        <5> QED BY <1>3, <1>6, <2>1, <5>1, KnownValues
      <4> QED BY <4>2, <4>3
    <3>3. CASE pc = "read_receipt"
      <4>1. CleanupReadReceipt
        BY <1>0, <2>1, <3>3 DEF Steady, Crash, Exit, Remembers
      <4> QED BY <4>1 DEF CleanupReadReceipt
    <3> QED BY <3>1, <3>2, <3>3
  <2>5. mem'.existing \in {"none", "BLOCKED"}
    <3>1. CASE pc # "read_receipt"
      BY <2>1, <3>1 DEF FailureKnown, KnownByCleanup, Remembers
    <3>2. CASE pc = "read_receipt"
      <4>1. CleanupReadReceipt
        BY <1>0, <2>1, <3>2 DEF Steady, Crash, Exit, Remembers
      <4>2. mem'.existing \in {mem.existing, result.status}
        BY <1>0, <4>1 DEF CleanupReadReceipt, Mem
      <4>3. result.status \in {"none", "BLOCKED"}
        BY KnownValues DEF FailureKnown, ReceiptKnows
      <4> QED BY <2>1, <4>2, <4>3 DEF FailureKnown, KnownByCleanup
    <3> QED BY <3>1, <3>2
  <2> QED BY <2>1, <2>2, <2>3, <2>4, <2>5 DEF KnownByCleanup
<1>12. KnownToInvocation'
  <2>1. ASSUME pc' # "idle"
        PROVE  mem'.expected = "BLOCKED"
    <3>1. Remembers /\ mem.expected = "BLOCKED"
      BY <1>0, <2>1 DEF Exit, FailureKnown, KnownToInvocation
    <3>2. CASE pc # "decide"
      BY <3>1, <3>2 DEF Remembers
    <3>3. CASE FinalizeDecide
      <4>1. ~mem.exitOk
        BY <3>3 DEF FinalizeDecide, FailureKnown, KnownByRun
      <4> QED BY <1>0, <3>3, <4>1 DEF FinalizeDecide, Mem
    <3>4. CASE CleanupDecide
      <4>1. mem.existing \in {"none", "BLOCKED"}
        BY <3>4 DEF CleanupDecide, FailureKnown, KnownByCleanup
      <4> QED BY <1>0, <3>4, <4>1 DEF CleanupDecide, Mem
    <3> QED BY <1>0, <2>1, <3>2, <3>3, <3>4 DEF Steady, Crash, Exit
  <2>2. pc' \notin {"idle", "read_receipt"} => FileKnows(StateFile')
    BY <1>0, <1>3, <1>4 DEF Exit, Remembers, Crash
  <2>3. pc' = "publish_rename" =>
          resultStage'.status = "BLOCKED" /\ resultStage'.code \in KeptCodes
    BY <1>0, BuildIsKnown DEF Steady
  <2> QED BY <2>1, <2>2, <2>3 DEF KnownToInvocation
<1> QED BY <1>5, <1>7, <1>8, <1>9, <1>10, <1>11, <1>12 DEF FailureKnown

LEMMA FailureStandsStep ==
  Inv /\ FailureStands /\ [Next]_vars => FailureStands'
<1> SUFFICES ASSUME Inv, FailureStands, [Next]_vars PROVE FailureStands'
  OBVIOUS
<1>1. RunBegins'
  BY BeginsStep DEF Inv, FailureStands
<1>2. ASSUME hist'.explained, ~hist'.stale PROVE FailureKnown'
  <2>1. CASE \E m \in Modes : MainStart(m)
    BY <1>2, <2>1 DEF MainStart, InitHist
  <2>2. CASE CleanupStart \/ FinalizePublished \/ CleanupForget
    <3>1. hist' = hist
      BY <2>2 DEF CleanupStart, FinalizePublished, CleanupForget
    <3> QED BY <1>2, <2>2, <3>1, BoundaryIsKnown DEF FailureStands
  <2>3. CASE GateBlocks
    BY <1>2, <2>3, GateIsKnown DEF FailureStands
  <2>4. CASE Next /\ ~Boundary /\ ~GateBlocks
    <3>1. hist'.explained = hist.explained /\ hist'.stale = hist.stale
      BY <2>4, SteadyStep DEF Steady, Inv
    <3> QED BY <1>2, <2>4, <3>1, FailureStep DEF FailureStands
  <2>5. CASE UNCHANGED vars
    <3>1. /\ pc' = pc /\ inv' = inv /\ mem' = mem /\ state' = state /\ hist' = hist
          /\ cleanupState' = cleanupState /\ result' = result /\ resultStage' = resultStage
          /\ modeFile' = modeFile /\ modeStage' = modeStage
      BY <2>5 DEF vars, evidence, rowsVars, receiptVars
    <3>2. FailureKnown
      BY <1>2, <3>1 DEF FailureStands
    <3> QED BY <3>1, <3>2 DEF FailureKnown, ReceiptKnows, ModeKnown, NextFile, KnownBetween,
        KnownByRun, KnownByCleanup, KnownToInvocation, IsCleanup, StateFile
  <2> QED BY <2>1, <2>2, <2>3, <2>4, <2>5 DEF Boundary
<1> QED BY <1>1, <1>2 DEF FailureStands

(* A receipt published after a gate of a host mode named its failure       *)
(* carries that code, or says that the receipt itself failed: no teardown  *)
(* failure, kill, retry or recovery masks it, over any number of cleanups. *)
THEOREM FirstFailureStays == Spec => FirstFailureKept
<1>1. Init => FailureStands
  BY DEF Init, InitHist, FailureStands, RunBegins, MainPcs
<1>2. FailureStands /\ [Next]_vars
        => [(Published /\ hist.explained /\ ~hist.stale)
              => result'.code \in {"PRIMARY", "RESULT_RECEIPT_PUBLICATION_FAILED",
                                    "RESULT_RECEIPT_VALIDATION_FAILED"}]_vars
  <2> SUFFICES ASSUME FailureStands, [Next]_vars, Published, hist.explained, ~hist.stale
               PROVE  result'.code \in {"PRIMARY", "RESULT_RECEIPT_PUBLICATION_FAILED",
                                         "RESULT_RECEIPT_VALIDATION_FAILED"}
    OBVIOUS
  <2>1. pc = "publish_rename" /\ result' = resultStage
    BY PublishedByRename DEF PublishRename
  <2> QED BY <2>1 DEF FailureStands, FailureKnown, KnownToInvocation, KeptCodes
<1> QED BY <1>1, <1>2, FailureStandsStep, Invariance, PTL DEF Spec, FirstFailureKept

-----------------------------------------------------------------------------
(* The host, the mode contract and the receipt together *)

(* As long as a run has not decided, it is not proven. *)
RunOpen == ~IsCleanup /\ pc \notin PublishPcs \cup {"idle"} => ~hist.passed

(* It stays so: only finalize finds a run proven, when it decides. *)
LEMMA OpenStep == TypeOK /\ RunOpen /\ [Next]_vars => RunOpen'
<1> SUFFICES ASSUME TypeOK, RunOpen, [Next]_vars PROVE RunOpen'
  OBVIOUS
<1>1. CASE \E m \in Modes : MainStart(m)
  BY <1>1 DEF MainStart, InitHist, RunOpen
<1>2. CASE CleanupStart
  BY <1>2 DEF CleanupStart, RunOpen, IsCleanup
<1>3. CASE FinalizeDecide
  BY <1>3 DEF FinalizeDecide, RunOpen, PublishPcs, BeforeRename
<1>4. CASE Next /\ ~FinalizeDecide /\ ~CleanupStart /\ ~\E m \in Modes : MainStart(m)
  BY <1>4, FrameStep DEF Frame, RunOpen
<1>5. CASE UNCHANGED vars
  BY <1>5 DEF vars, RunOpen, IsCleanup
<1> QED BY <1>1, <1>2, <1>3, <1>4, <1>5

(* What PacketReceipt sees of an invocation *)
Seen == <<modeFile, res, fw, scratch, hist, result>>

(* The steps it can see *)
Takes == PrepareFirewall \/ CreateNetwork \/ CreateDatabase
LetsGo == \/ \E c \in DockerClasses : RemoveClass(c)
          \/ CleanupFirewall \/ ScratchRemove \/ PolluteScratch \/ Crash
Withdraws == PublishVerify \/ FinalizeNotPublished \/ CleanupNotPublished
Shows == \/ \E m \in Modes : MainStart(m)
         \/ CleanupStart \/ GateBlocks \/ Takes \/ ModeLink \/ LetsGo \/ FinalizeDecide
         \/ PublishRename \/ Withdraws \/ RetireMode

(* Every other step leaves what it sees alone. *)
LEMMA OthersUnseen ==
  ASSUME [Next]_vars, ~Shows
  PROVE  UNCHANGED Seen
<1> USE DEF Seen, evidence, receiptVars, scratchVars, host
<1>1. CASE Main
  BY <1>1 DEF Shows, Takes, Withdraws, Main, Work, ModeStageWrite, ModeUnstage, RecordPreterminal,
      PrivateEvidence, WorkPasses, FinalizeBegin, FinalizePublished
<1>2. CASE Teardown
  BY <1>2 DEF Shows, LetsGo, Teardown, ResolveMode, PreFirewallCount, CleanupReturn, CountResidue,
      ScratchStage, ScratchProof, ScratchRecord, ScratchUnstage, ScratchReturn
<1>3. CASE Publish
  BY <1>3 DEF Shows, Withdraws, Publish, PublishGuard, PublishWrite, PublishConsumeAudit,
      PublishBuild
<1>4. CASE CleanupOnly
  BY <1>4 DEF Shows, Withdraws, CleanupOnly, CleanupReadReceipt, CleanupDecide, CleanupPublished,
      CleanupForget
<1>5. CASE Disturbance
  BY <1>5 DEF Shows, LetsGo, Disturbance, ModePublicationFails, Interrupt
<1>6. CASE UNCHANGED vars
  BY <1>6 DEF vars
<1> QED BY <1>1, <1>2, <1>3, <1>4, <1>5, <1>6 DEF Next, Step, Shows

(* The mapping depends on what is seen alone. *)
LEMMA SeenMapped ==
  /\ UNCHANGED <<res, fw, scratch>> => Held' = Held
  /\ UNCHANGED hist => Progress' = Progress
  /\ UNCHANGED result => Outcome' = Outcome
BY DEF Held, Progress, Outcome

(* What is on the host, thing by thing *)
LEMMA HeldIs ==
  /\ Held \subseteq PR!Things
  /\ "resources" \in Held <=> res # {}
  /\ "firewall" \in Held <=> fw \in {"ledger", "both"}
  /\ "scratch" \in Held <=> scratch # "absent"
BY DEF Held, PR!Things

(* The same after a step *)
LEMMA HeldWillBe ==
  /\ Held' \subseteq PR!Things
  /\ "resources" \in Held' <=> res' # {}
  /\ "firewall" \in Held' <=> fw' \in {"ledger", "both"}
  /\ "scratch" \in Held' <=> scratch' # "absent"
BY DEF Held, PR!Things

(* An invocation begins. *)
LEMMA StartsMapped ==
  ASSUME (\E m \in Modes : MainStart(m)) \/ CleanupStart
  PROVE  [PR!Next]_<<modeFile, Held, Progress, Outcome>>
<1>1. UNCHANGED <<modeFile, res, fw, result>> /\ scratch' \in {scratch, "clean"}
  BY DEF MainStart, CleanupStart, evidence, receiptVars, host
<1>2. Outcome' = Outcome
  BY <1>1, SeenMapped
<1>3. Held' \in {Held, Held \cup {"scratch"}}
  <2>1. scratch' = scratch => Held' = Held
    BY <1>1, SeenMapped
  <2>2. scratch' = "clean" => Held' = Held \cup {"scratch"}
    BY <1>1, HeldIs, HeldWillBe DEF PR!Things
  <2> QED BY <1>1, <2>1, <2>2
<1>4. CASE \E m \in Modes : MainStart(m)
  <2>1. Progress' = "open"
    BY <1>4 DEF MainStart, InitHist, Progress
  <2> QED BY <1>1, <1>2, <1>3, <2>1 DEF PR!Next, PR!Begin
<1>5. CASE CleanupStart
  <2>1. Progress' = Progress
    BY <1>5, SeenMapped DEF CleanupStart
  <2>2. Held' = Held \/ ("scratch" \in PR!Things \ Held /\ Held' = Held \cup {"scratch"})
    BY <1>3 DEF PR!Things
  <2> QED BY <1>1, <1>2, <2>1, <2>2 DEF PR!Next, PR!Take, PR!Covered
<1> QED BY <1>4, <1>5

(* The work of a run makes things, under the contract of its own mode. *)
LEMMA TakesMapped ==
  ASSUME TypeOK, RunBegins, Takes
  PROVE  [PR!Next]_<<modeFile, Held, Progress, Outcome>>
<1>1. pc = "work" /\ UNCHANGED <<modeFile, scratch, hist, result>>
  BY DEF Takes, PrepareFirewall, CreateNetwork, CreateDatabase, evidence, receiptVars, scratchVars
<1>2. modeFile = inv /\ inv \in AllModes
  BY <1>1 DEF RunBegins, TypeOK, MainPcs
<1>3. Progress' = Progress /\ Outcome' = Outcome
  BY <1>1, SeenMapped
<1>4. CASE PrepareFirewall
  <2>1. Held' = Held \cup {"firewall"} /\ "firewall" \in PR!Things \ Held
    BY <1>1, <1>4, HeldIs, HeldWillBe DEF PrepareFirewall, PR!Things
  <2>2. PR!Covered("firewall")
    BY <1>2, <1>4 DEF PrepareFirewall, FirewallRequired, PR!Covered
  <2> QED BY <1>1, <1>3, <2>1, <2>2 DEF PR!Next, PR!Take
<1>5. CASE CreateNetwork \/ CreateDatabase
  <2>1. res \subseteq res' /\ fw' = fw
    BY <1>5 DEF CreateNetwork, CreateDatabase
  <2>2. Held' \in {Held, Held \cup {"resources"}}
    <3>1. res' = {} => Held' = Held
      BY <1>1, <2>1, SeenMapped
    <3>2. res' # {} => Held' = Held \cup {"resources"}
      BY <1>1, <2>1, HeldIs, HeldWillBe DEF PR!Things
    <3> QED BY <3>1, <3>2
  <2>3. PR!Covered("resources")
    BY <1>2 DEF PR!Covered, AllModes
  <2>4. Held' = Held \/ ("resources" \in PR!Things \ Held /\ Held' = Held \cup {"resources"})
    BY <2>2 DEF PR!Things
  <2> QED BY <1>1, <1>3, <2>3, <2>4 DEF PR!Next, PR!Take
<1> QED BY <1>4, <1>5 DEF Takes

(* Teardown, or a kill in the middle of it, only removes. *)
LEMMA LetsGoMapped ==
  ASSUME TypeOK, LetsGo
  PROVE  [PR!Next]_<<modeFile, Held, Progress, Outcome>>
<1>1. UNCHANGED <<modeFile, hist, result>>
  BY DEF LetsGo, RemoveClass, CleanupFirewall, ScratchRemove, PolluteScratch, Crash, evidence,
     receiptVars
<1>2. Progress' = Progress /\ Outcome' = Outcome
  BY <1>1, SeenMapped
<1>3. res' \subseteq res
  BY DEF LetsGo, RemoveClass, Removed, CleanupFirewall, ScratchRemove, PolluteScratch, Crash, host
<1>4. fw' \in {"ledger", "both"} => fw \in {"ledger", "both"}
  <2>1. fw' = fw \/ fw' \in FirewallInterrupted \cup {FirewallRemoved}
    BY DEF LetsGo, RemoveClass, CleanupFirewall, ScratchRemove, PolluteScratch, Crash, host
  <2>2. fw \in {"none", "ledger", "both", "restored"}
    BY DEF TypeOK
  <2> QED BY <2>1, <2>2 DEF FirewallInterrupted, FirewallRemoved
<1>5. scratch' # "absent" => scratch # "absent"
  BY DEF LetsGo, RemoveClass, CleanupFirewall, ScratchRemove, PolluteScratch, Crash, scratchVars
<1>6. Held' \subseteq Held
  BY <1>3, <1>4, <1>5, HeldIs, HeldWillBe DEF PR!Things
<1> QED BY <1>1, <1>2, <1>6 DEF PR!Next, PR!LetGo

(* The contract is signed and retired. *)
LEMMA ContractMapped ==
  ASSUME Inv, ModeLink \/ RetireMode
  PROVE  [PR!Next]_<<modeFile, Held, Progress, Outcome>>
<1>1. UNCHANGED <<res, fw, scratch, hist, result>>
  BY DEF ModeLink, RetireMode, receiptVars, scratchVars, host
<1>2. Held' = Held /\ Progress' = Progress /\ Outcome' = Outcome
  BY <1>1, SeenMapped
<1>3. CASE ModeLink
  <2>1. modeFile = "none" /\ modeFile' = inv /\ inv \in AllModes
    BY <1>3 DEF ModeLink, Inv, TeardownKnows, TypeOK, MainPcs
  <2> QED BY <1>2, <2>1 DEF PR!Next, PR!Sign
<1>4. CASE RetireMode /\ modeFile' # modeFile
  <2>1. pc = "retire" /\ modeFile # "none" /\ modeFile' = "none"
    BY <1>4 DEF RetireMode
  <2>2. mem.cleanupOk /\ Valid(result) /\ IsCleanup
    BY <2>1 DEF Inv, PassIsEarned, TypeOK, CleanupPcs
  <2>3. Outcome # "none"
    BY <2>2 DEF Outcome, Valid, Statuses
  <2>4. res = {} /\ fw \notin {"ledger", "both"} /\ scratch = "absent"
    BY <2>1, <2>2 DEF Inv, TeardownKnows, AfterTeardown, AfterScratch, PublishPcs
  <2>5. Held = {}
    BY <2>4, HeldIs DEF PR!Things
  <2> QED BY <1>2, <2>1, <2>3, <2>5 DEF PR!Next, PR!Retire
<1>5. CASE modeFile' = modeFile
  BY <1>2, <1>5
<1> QED BY <1>3, <1>4, <1>5

(* finalize finds the run proven when its teardown has left nothing. *)
LEMMA DecisionMapped ==
  ASSUME Inv, RunOpen, FinalizeDecide
  PROVE  [PR!Next]_<<modeFile, Held, Progress, Outcome>>
<1>1. pc = "decide" /\ ~IsCleanup /\ UNCHANGED <<modeFile, res, fw, scratch, result>>
  BY DEF FinalizeDecide, evidence, receiptVars, scratchVars, host
<1>2. Held' = Held /\ Outcome' = Outcome
  BY <1>1, SeenMapped
<1>3. hist \in [passed: BOOLEAN, blocked: BOOLEAN, explained: BOOLEAN, stale: BOOLEAN,
                leftover: BOOLEAN]
  BY DEF Inv, TypeOK
<1>4. ~hist.passed /\ ~hist.blocked
  BY <1>1 DEF RunOpen, Inv, BlockedIsKnown, PublishPcs, BeforeRename, DeferredPcs
<1>5. Progress = "open"
  BY <1>4 DEF Progress
<1>6. PICK pass \in BOOLEAN : /\ hist' = [hist EXCEPT !.passed = pass]
                              /\ pass => mem.cleanupOk /\ mem.scratchOk
  <2>1. mem \in Mem
    BY DEF Inv, TypeOK
  <2> QED BY <2>1 DEF FinalizeDecide, Mem
<1>7. Progress' = IF pass THEN "proven" ELSE "open"
  BY <1>3, <1>4, <1>6 DEF Progress
<1>8. pass => Held = {}
  <2>1. pass => res = {} /\ fw \notin {"ledger", "both"} /\ scratch = "absent"
    BY <1>1, <1>6 DEF Inv, TeardownKnows, AfterTeardown, AfterScratch
  <2> QED BY <2>1, HeldIs DEF PR!Things
<1> QED BY <1>1, <1>2, <1>5, <1>7, <1>8 DEF PR!Next, PR!Prove

(* The receipt is renamed into its place, or removed. *)
LEMMA ReceiptMapped ==
  ASSUME Inv, BlockedIsTerminal', PublishRename \/ Withdraws
  PROVE  [PR!Next]_<<modeFile, Held, Progress, Outcome>>
<1>1. UNCHANGED <<modeFile, res, fw, scratch>>
  BY DEF PublishRename, Withdraws, PublishVerify, FinalizeNotPublished, CleanupNotPublished,
     evidence, scratchVars, host
<1>2. Held' = Held
  BY <1>1, SeenMapped
<1>3. CASE Withdraws
  <2>1. UNCHANGED hist /\ result' \in {result, NoReceipt}
    BY <1>3 DEF Withdraws, PublishVerify, FinalizeNotPublished, CleanupNotPublished
  <2>2. Outcome' \in {Outcome, "none"}
    BY <2>1, NoFields DEF Outcome, PassStatuses
  <2> QED BY <1>1, <1>2, <2>1, <2>2, SeenMapped DEF PR!Next, PR!Withdraw
<1>4. CASE /\ PublishRename /\ result' = resultStage
           /\ hist' = [hist EXCEPT !.blocked = @ \/ resultStage.status = "BLOCKED"]
  <2>1. /\ Valid(resultStage) /\ resultStage.status \in Statuses
        /\ resultStage.status \in PassStatuses
             => /\ hist.passed /\ mem.cleanupOk /\ mem.scratchOk
    <3>1. pc = "publish_rename"
      BY <1>4 DEF PublishRename
    <3> QED BY <3>1 DEF Inv, PassIsEarned, Valid, PublishPcs, BeforeRename, PassStatuses
  <2>2. hist \in [passed: BOOLEAN, blocked: BOOLEAN, explained: BOOLEAN, stale: BOOLEAN,
                  leftover: BOOLEAN]
    BY DEF Inv, TypeOK
  <2>3. CASE resultStage.status = "BLOCKED"
    <3>1. Outcome' = "BLOCKED" /\ Progress' = "blocked"
      BY <1>4, <2>2, <2>3 DEF Outcome, Progress, PassStatuses
    <3> QED BY <1>1, <1>2, <3>1 DEF PR!Next, PR!Block
  <2>4. CASE resultStage.status \in PassStatuses
    <3>1. hist' = hist
      BY <1>4, <2>2, <2>4 DEF PassStatuses
    <3>2. Outcome' = "PASS"
      BY <1>4, <2>4 DEF Outcome
    <3>3. ~hist.blocked
      BY <1>4, <2>4, <3>1, NoFields DEF BlockedIsTerminal, PassStatuses
    <3>4. Progress = "proven" /\ Progress' = Progress
      BY <2>1, <2>4, <3>1, <3>3, SeenMapped DEF Progress
    <3>5. res = {} /\ fw \notin {"ledger", "both"} /\ scratch = "absent"
      BY <1>4, <2>1, <2>4 DEF PublishRename, Inv, TeardownKnows, AfterTeardown, AfterScratch,
         PublishPcs, BeforeRename
    <3>6. Held = {}
      BY <3>5, HeldIs DEF PR!Things
    <3> QED BY <1>1, <1>2, <3>2, <3>4, <3>6 DEF PR!Next, PR!Pass
  <2> QED BY <2>1, <2>3, <2>4 DEF Statuses
<1>5. CASE UNCHANGED <<result, hist>>
  BY <1>1, <1>2, <1>5, SeenMapped
<1> QED BY <1>3, <1>4, <1>5 DEF PublishRename

(* However runs and cleanups follow one another, and whatever kills them,  *)
(* the host, the mode contract and the receipt move as PacketReceipt says. *)
THEOREM ReceiptRefined == Spec => ImplementsReceipt
<1>1. Init => PR!Init
  <2>1. Init => Held = {} /\ Progress = "open" /\ Outcome = "none"
    BY HeldIs, NoFields DEF Init, InitHist, PR!Things, Progress, Outcome, PassStatuses
  <2> QED BY <2>1 DEF Init, PR!Init
<1>2. Init => RunBegins /\ RunOpen
  BY DEF Init, InitHist, RunBegins, RunOpen, MainPcs
<1>3. Inv /\ RunBegins /\ RunOpen /\ [Next]_vars => RunBegins' /\ RunOpen'
  BY BeginsStep, OpenStep DEF Inv
<1>4. ASSUME Inv, Inv', RunBegins, RunOpen, [Next]_vars
      PROVE  [PR!Next]_<<modeFile, Held, Progress, Outcome>>
  <2>1. TypeOK /\ BlockedIsTerminal'
    BY <1>4 DEF Inv, BlockedIsKnown
  <2>2. CASE GateBlocks
    <3>1. UNCHANGED <<modeFile, res, fw, scratch, result>>
      BY <2>2 DEF GateBlocks, evidence, receiptVars, scratchVars, host
    <3>2. hist'.passed = hist.passed /\ hist'.blocked = hist.blocked
      BY <2>1, <2>2 DEF GateBlocks, TypeOK
    <3> QED BY <3>1, <3>2, SeenMapped DEF Progress
  <2>3. CASE ~Shows
    BY <1>4, <2>3, OthersUnseen, SeenMapped DEF Seen
  <2> QED BY <1>4, <2>1, <2>2, <2>3, StartsMapped, TakesMapped, LetsGoMapped, ContractMapped,
        DecisionMapped, ReceiptMapped DEF Shows
<1> QED BY <1>1, <1>2, <1>3, <1>4, Invariance, PTL DEF Spec, ImplementsReceipt, PR!Spec

===============================================================================
