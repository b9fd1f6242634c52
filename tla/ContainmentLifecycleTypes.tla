---------------------- MODULE ContainmentLifecycleTypes ----------------------
(* TypeOK of ContainmentLifecycle is inductive.  Its conjuncts fall into    *)
(* four parts: where the invocation stands, its shell variables, the two    *)
(* state files, and the rest.                                               *)
EXTENDS ContainmentLifecycle, TLAPS

Where ==
    /\ pc \in Locations /\ inv \in AllModes \cup {"idle", "cleanup-only"}
    /\ (pc = "idle") <=> (inv = "idle")
    /\ pc \in MainPcs => inv \in AllModes
    /\ pc \in CleanupPcs => IsCleanup

RowFiles == state \in Rows /\ cleanupState \in Rows

Evidence ==
    /\ modeFile \in AllModes \cup {"none"} /\ modeStage \in BOOLEAN
    /\ scratch \in {"absent", "clean", "foreign"}
    /\ auditStage \in BOOLEAN /\ proofStage \in Proofs
    /\ res \subseteq Classes /\ fw \in {"none", "ledger", "both", "restored"}
    /\ rollback \in BOOLEAN

Receipted == result \in Receipts /\ resultStage \in Receipts

Counted ==
    /\ mains \in 0..MaxMains /\ cleanups \in 0..MaxCleanups /\ faults \in 0..MaxFaults
    /\ hist \in [passed: BOOLEAN, blocked: BOOLEAN, explained: BOOLEAN, stale: BOOLEAN,
                leftover: BOOLEAN]

LEMMA TypeParts ==
  TypeOK <=> Where /\ mem \in Mem /\ RowFiles /\ Evidence /\ Receipted /\ Counted
BY DEF TypeOK, Where, RowFiles, Evidence, Receipted, Counted

-----------------------------------------------------------------------------
(* What the helpers return *)

LEMMA WithBlockedType ==
  ASSUME NEW rows \in Rows, NEW c \in Codes
  PROVE  /\ WithBlocked(rows, c) \in Rows
         /\ WithBlockedIfUnexplained(rows, c) \in Rows
         /\ WithLateFailure(rows, c) \in Rows
BY DEF WithBlocked, WithBlockedIfUnexplained, WithLateFailure, Rows, Statuses

LEMMA CodesType ==
  /\ "CLEANUP_MODE_CONTRACT_PUBLICATION_FAILED" \in Codes /\ "PRIMARY" \in Codes
  /\ "HARNESS_INTERRUPTED" \in Codes /\ "NETWORK_CONTRACT" \in Codes
  /\ "LISTENER_UNEXPECTED_INTERRUPTION" \in Codes /\ "CLEANUP_RESIDUE" \in Codes
  /\ "PACKET_SCRATCH_PROOF_FAILED" \in Codes
  /\ "RESULT_RECEIPT_PUBLICATION_FAILED" \in Codes
  /\ "RESULT_RECEIPT_VALIDATION_FAILED" \in Codes
BY DEF Codes

LEMMA StateFileType == ASSUME RowFiles PROVE StateFile \in Rows
BY DEF RowFiles, StateFile

LEMMA RecordType ==
  ASSUME RowFiles, NEW rows \in Rows, Record(rows)
  PROVE  RowFiles'
BY DEF RowFiles, Record

LEMMA NoFileType == NoFile \in Rows /\ EmptyFile \in Rows
BY DEF NoFile, EmptyFile, Rows, Counts, Proofs, Statuses

LEMMA NoReceiptType == NoReceipt \in Receipts /\ RawReceipt \in Receipts
BY DEF NoReceipt, RawReceipt, Receipts, CleanupStatuses, AllModes

LEMMA InitMemType == InitMem \in Mem
BY DEF InitMem, Mem, Proofs, Statuses, PassStatuses

LEMMA BlockType ==
  ASSUME mem \in Mem, RowFiles, NEW c \in Codes, Block(c)
  PROVE  mem' \in Mem /\ RowFiles'
<1>1. mem' \in Mem
  BY DEF Block, Mem
<1>2. RowFiles'
  BY StateFileType, WithBlockedType, RecordType DEF Block
<1> QED BY <1>1, <1>2

LEMMA PassStatusType == ASSUME NEW m PROVE PassStatus(m) \in PassStatuses
BY DEF PassStatus, PassStatuses

LEMMA BuildType ==
  ASSUME TypeOK, pc # "idle", NEW rows \in Rows, NEW exact \in BOOLEAN
  PROVE  BuildReceipt(rows, exact) \in Receipts
<1>1. ReceiptMode(rows) \in AllModes \cup {"cleanup-only"}
  BY DEF TypeOK, ReceiptMode, Rows, IsCleanup
<1>2. CleanupStatus(rows) \in CleanupStatuses
  BY DEF CleanupStatus, CleanupStatuses
<1>3. FailureCode(rows) \in Codes
  BY DEF FailureCode, Codes, Rows
<1>4. mem.expected \in Statuses
  BY DEF TypeOK, Mem
<1> QED BY <1>1, <1>2, <1>3, <1>4 DEF BuildReceipt, Receipts, Statuses

LEMMA RowUpdate ==
  ASSUME NEW rows \in Rows, NEW s \in Statuses, NEW p \in Proofs
  PROVE  /\ [rows EXCEPT !.status = s] \in Rows
         /\ WithProof(rows, p) \in Rows
         /\ WithInvalidProof(rows) \in Rows
BY DEF WithProof, WithInvalidProof, Rows, Proofs

-----------------------------------------------------------------------------
(* One lemma per part of an invocation *)

LEMMA PartsType ==
  Where' /\ mem' \in Mem /\ RowFiles' /\ Evidence' /\ Receipted' /\ Counted' => TypeOK'
BY DEF TypeOK, Where, RowFiles, Evidence, Receipted, Counted

(* A new invocation starts with a fresh process. *)
LEMMA TypeStart ==
  ASSUME TypeOK
  PROVE  (\E m \in Modes : MainStart(m)) \/ CleanupStart => TypeOK'
<1>0. Where /\ mem \in Mem /\ RowFiles /\ Evidence /\ Receipted /\ Counted
  BY TypeParts
<1>1. CASE \E m \in Modes : MainStart(m)
  <2>1. Where'
    BY <1>0, <1>1, ModesAssumption DEF MainStart, Where, Locations, MainPcs,
      CleanupPcs, IsCleanup, AllModes
  <2>2. mem' \in Mem
    BY <1>0, <1>1, InitMemType DEF MainStart, Mem
  <2>3. RowFiles'
    BY <1>0, <1>1, NoFileType DEF MainStart, RowFiles
  <2>4. Evidence'
    BY <1>0, <1>1 DEF MainStart, Evidence, evidence, host
  <2>5. Counted'
    <3>1. hist' \in [passed: BOOLEAN, blocked: BOOLEAN, explained: BOOLEAN, stale: BOOLEAN,
                      leftover: BOOLEAN]
      <4> DEFINE receipt == result # NoReceipt
      <4>1. receipt \in BOOLEAN
        OBVIOUS
      <4>2. cleanupState.present \in BOOLEAN
        BY <1>0 DEF RowFiles, Rows
      <4>3. hist' = [InitHist EXCEPT !.stale = receipt, !.leftover = cleanupState.present]
        BY <1>1 DEF MainStart
      <4> HIDE DEF receipt
      <4>4. hist' = [passed |-> FALSE, blocked |-> FALSE, explained |-> FALSE, stale |-> receipt,
                     leftover |-> cleanupState.present]
        BY <4>3 DEF InitHist
      <4> QED BY <4>1, <4>2, <4>4
    <3>2. mains' \in 0..MaxMains /\ cleanups' = cleanups /\ faults' = faults
      BY <1>0, <1>1, BoundsAssumption DEF MainStart, Counted
    <3> QED BY <1>0, <3>1, <3>2 DEF Counted
  <2>6. Receipted'
    BY <1>0, <1>1 DEF MainStart, Receipted, receiptVars
  <2> QED BY <2>1, <2>2, <2>3, <2>4, <2>5, <2>6, PartsType
<1>2. CASE CleanupStart
  <2>1. Where'
    BY <1>0, <1>2 DEF CleanupStart, Where, Locations, MainPcs, CleanupPcs, IsCleanup
  <2>2. mem' \in Mem
    <3>1. PICK f \in {"STATE", "CLEANUP"}, r \in BOOLEAN, o \in {"replace", "merge"} :
            mem' = [InitMem EXCEPT !.file = f, !.recovery = r, !.op = o, !.faults0 = faults]
      BY <1>2, <1>0 DEF CleanupStart
    <3>2. faults \in Nat
      BY <1>0, BoundsAssumption DEF Counted
    <3> QED BY <3>1, <3>2, InitMemType DEF Mem
  <2>3. RowFiles'
    BY <1>0, <1>2, NoFileType DEF CleanupStart, RowFiles
  <2>4. Evidence'
    BY <1>0, <1>2 DEF CleanupStart, Evidence, evidence, host
  <2>5. Counted'
    BY <1>0, <1>2, BoundsAssumption DEF CleanupStart, Counted, Charge
  <2>6. Receipted'
    BY <1>0, <1>2 DEF CleanupStart, Receipted, receiptVars
  <2> QED BY <2>1, <2>2, <2>3, <2>4, <2>5, <2>6, PartsType
<1> QED BY <1>1, <1>2

(* The mode contract. *)
LEMMA TypeMode ==
  ASSUME TypeOK
  PROVE  ModeStageWrite \/ ModeLink \/ ModeUnstage \/ RecordPreterminal => TypeOK'
<1>0. Where /\ mem \in Mem /\ RowFiles /\ Evidence /\ Receipted /\ Counted
  BY TypeParts
<1>1. CASE ModeStageWrite
  <2>1. Where'
    BY <1>0, <1>1 DEF ModeStageWrite, Where, Locations, MainPcs, CleanupPcs,
      IsCleanup, Block
  <2>2. mem' \in Mem
    BY <1>0, <1>1, BlockType, CodesType DEF ModeStageWrite, Mem
  <2>3. RowFiles'
    BY <1>0, <1>1, BlockType, CodesType DEF ModeStageWrite, RowFiles, rowsVars
  <2>4. Evidence'
    BY <1>0, <1>1 DEF ModeStageWrite, Evidence, scratchVars, host
  <2>5. Counted' /\ Receipted'
    BY <1>0, <1>1 DEF ModeStageWrite, Counted, Receipted, receiptVars, counters
  <2> QED BY <2>1, <2>2, <2>3, <2>4, <2>5, PartsType
<1>2. CASE ModeLink
  <2>1. Where'
    BY <1>0, <1>2 DEF ModeLink, Where, Locations, MainPcs, CleanupPcs, IsCleanup
  <2>2. Evidence'
    BY <1>0, <1>2 DEF ModeLink, Evidence, scratchVars, host, Where, MainPcs
  <2>3. mem' \in Mem /\ RowFiles' /\ Counted' /\ Receipted'
    BY <1>0, <1>2 DEF ModeLink, Mem, RowFiles, Counted, Receipted, rowsVars,
      receiptVars, counters
  <2> QED BY <2>1, <2>2, <2>3, PartsType
<1>3. CASE ModeUnstage
  <2>1. Where'
    BY <1>0, <1>3 DEF ModeUnstage, Where, Locations, MainPcs, CleanupPcs, IsCleanup
  <2>2. Evidence'
    BY <1>0, <1>3 DEF ModeUnstage, Evidence, scratchVars, host
  <2>3. mem' \in Mem /\ RowFiles' /\ Counted' /\ Receipted'
    BY <1>0, <1>3 DEF ModeUnstage, Mem, RowFiles, Counted, Receipted, rowsVars,
      receiptVars, counters
  <2> QED BY <2>1, <2>2, <2>3, PartsType
<1>4. CASE RecordPreterminal
  <2>1. Where'
    BY <1>0, <1>4 DEF RecordPreterminal, Where, Locations, MainPcs, CleanupPcs,
      IsCleanup
  <2>2. RowFiles'
    BY <1>0, <1>4, StateFileType, RecordType, WithBlockedType, CodesType DEF
      RecordPreterminal, RowFiles
  <2>3. mem' \in Mem /\ Evidence' /\ Counted' /\ Receipted'
    BY <1>0, <1>4 DEF RecordPreterminal, Mem, Evidence, Counted, Receipted, evidence,
      scratchVars, receiptVars, host, counters
  <2> QED BY <2>1, <2>2, <2>3, PartsType
<1> QED BY <1>1, <1>2, <1>3, <1>4

(* The gates and probes. *)
LEMMA TypeWork ==
  ASSUME TypeOK
  PROVE  PrepareFirewall \/ CreateNetwork \/ CreateDatabase \/ PrivateEvidence \/
    GateBlocks \/ WorkPasses => TypeOK'
<1>0. Where /\ mem \in Mem /\ RowFiles /\ Evidence /\ Receipted /\ Counted
  BY TypeParts
<1>1. CASE PrepareFirewall
  <2>1. Evidence'
    BY <1>0, <1>1 DEF PrepareFirewall, Evidence, evidence, scratchVars
  <2>2. Where' /\ mem' \in Mem /\ RowFiles' /\ Counted' /\ Receipted'
    BY <1>0, <1>1 DEF PrepareFirewall, Where, Locations, MainPcs, CleanupPcs,
      IsCleanup, Mem, RowFiles, Counted, Receipted, rowsVars, receiptVars, counters
  <2> QED BY <2>1, <2>2, PartsType
<1>2. CASE CreateNetwork
  <2>1. mem' \in Mem
    BY <1>0, <1>2 DEF CreateNetwork, Mem
  <2>2. Evidence'
    BY <1>0, <1>2 DEF CreateNetwork, Evidence, evidence, scratchVars, Classes,
      DockerClasses
  <2>3. Where' /\ RowFiles' /\ Counted' /\ Receipted'
    BY <1>0, <1>2 DEF CreateNetwork, Where, Locations, MainPcs, CleanupPcs,
      IsCleanup, RowFiles, Counted, Receipted, rowsVars, receiptVars, counters
  <2> QED BY <2>1, <2>2, <2>3, PartsType
<1>3. CASE CreateDatabase
  <2>1. Evidence'
    BY <1>0, <1>3 DEF CreateDatabase, Evidence, evidence, scratchVars, Classes,
      DockerClasses
  <2>2. Where' /\ mem' \in Mem /\ RowFiles' /\ Counted' /\ Receipted'
    BY <1>0, <1>3 DEF CreateDatabase, Where, Locations, MainPcs, CleanupPcs,
      IsCleanup, Mem, RowFiles, Counted, Receipted, rowsVars, receiptVars, counters
  <2> QED BY <2>1, <2>2, PartsType
<1>4. CASE PrivateEvidence
  <2>1. RowFiles'
    BY <1>0, <1>4, StateFileType, RecordType DEF PrivateEvidence, RowFiles, Rows
  <2>2. Where' /\ mem' \in Mem /\ Evidence' /\ Counted' /\ Receipted'
    BY <1>0, <1>4 DEF PrivateEvidence, Where, Locations, MainPcs, CleanupPcs,
      IsCleanup, Mem, Evidence, Counted, Receipted, evidence, scratchVars,
      receiptVars, host, counters
  <2> QED BY <2>1, <2>2, PartsType
<1>5. CASE GateBlocks
  <2>1. Where'
    BY <1>0, <1>5 DEF GateBlocks, Where, Locations, MainPcs, CleanupPcs, IsCleanup,
      Block
  <2>2. mem' \in Mem
    BY <1>0, <1>5, BlockType, CodesType DEF GateBlocks, Mem
  <2>3. RowFiles'
    BY <1>0, <1>5, BlockType, CodesType DEF GateBlocks, RowFiles
  <2>4. Counted'
    BY <1>0, <1>5, BoundsAssumption DEF GateBlocks, Counted, Charge, counters
  <2>5. Evidence' /\ Receipted'
    BY <1>0, <1>5 DEF GateBlocks, Evidence, Receipted, evidence, scratchVars,
      receiptVars, host
  <2> QED BY <2>1, <2>2, <2>3, <2>4, <2>5, PartsType
<1>6. CASE WorkPasses
  <2>1. Where'
    BY <1>0, <1>6 DEF WorkPasses, Where, Locations, MainPcs, CleanupPcs, IsCleanup
  <2>2. mem' \in Mem
    BY <1>0, <1>6 DEF WorkPasses, Mem
  <2>3. RowFiles' /\ Evidence' /\ Counted' /\ Receipted'
    BY <1>0, <1>6 DEF WorkPasses, RowFiles, Evidence, Counted, Receipted, evidence,
      rowsVars, scratchVars, receiptVars, host, counters
  <2> QED BY <2>1, <2>2, <2>3, PartsType
<1> QED BY <1>1, <1>2, <1>3, <1>4, <1>5, <1>6

(* finalize up to the counts, and cleanup_exact. *)
LEMMA TypeTeardown ==
  ASSUME TypeOK
  PROVE  FinalizeBegin \/ ResolveMode \/ PreFirewallCount \/ CleanupFirewall \/
    CleanupReturn => TypeOK'
<1>0. Where /\ mem \in Mem /\ RowFiles /\ Evidence /\ Receipted /\ Counted
  BY TypeParts
<1>1. CASE FinalizeBegin
  <2>1. Where'
    BY <1>0, <1>1 DEF FinalizeBegin, Where, Locations, MainPcs, CleanupPcs, IsCleanup
  <2>2. mem' \in Mem
    BY <1>0, <1>1 DEF FinalizeBegin, Mem
  <2>3. RowFiles'
    BY <1>0, <1>1, StateFileType, RecordType, WithBlockedType, CodesType DEF
      FinalizeBegin, RowFiles
  <2>4. Counted'
    BY <1>0, <1>1, BoundsAssumption DEF FinalizeBegin, Counted, Charge, counters
  <2>5. Evidence' /\ Receipted'
    BY <1>0, <1>1 DEF FinalizeBegin, Evidence, Receipted, evidence, scratchVars,
      receiptVars, host
  <2> QED BY <2>1, <2>2, <2>3, <2>4, <2>5, PartsType
<1>2. CASE ResolveMode
  <2>1. Where'
    BY <1>0, <1>2 DEF ResolveMode, Where, Locations, MainPcs, CleanupPcs, IsCleanup
  <2>2. mem' \in Mem
    BY <1>0, <1>2 DEF ResolveMode, Mem
  <2>3. RowFiles'
    BY <1>0, <1>2, StateFileType, RecordType DEF ResolveMode, RowFiles, Evidence,
      Rows
  <2>4. Evidence' /\ Counted' /\ Receipted'
    BY <1>0, <1>2 DEF ResolveMode, Evidence, Counted, Receipted, evidence,
      scratchVars, receiptVars, host, counters
  <2> QED BY <2>1, <2>2, <2>3, <2>4, PartsType
<1>3. CASE PreFirewallCount
  <2>1. Where'
    BY <1>0, <1>3 DEF PreFirewallCount, Where, Locations, MainPcs, CleanupPcs,
      IsCleanup
  <2>2. mem' \in Mem
    <3>1. PICK ok \in BOOLEAN :
            mem' = [mem EXCEPT !.queryOk = mem.queryOk /\ ok,
                               !.preZero = ok /\ res \cap DockerClasses = {}]
      BY <1>3 DEF PreFirewallCount
    <3>2. (mem.queryOk /\ ok) \in BOOLEAN /\ (ok /\ res \cap DockerClasses = {}) \in BOOLEAN
      OBVIOUS
    <3>3. PICK q \in BOOLEAN, z \in BOOLEAN : mem' = [mem EXCEPT !.queryOk = q, !.preZero = z]
      BY <3>1, <3>2
    <3>4. [mem EXCEPT !.queryOk = q, !.preZero = z] \in Mem
      BY <1>0 DEF Mem
    <3> QED BY <3>3, <3>4
  <2>3. Counted'
    BY <1>0, <1>3, BoundsAssumption DEF PreFirewallCount, Counted, Charge, counters
  <2>4. RowFiles' /\ Evidence' /\ Receipted'
    BY <1>0, <1>3 DEF PreFirewallCount, RowFiles, Evidence, Receipted, evidence,
      rowsVars, scratchVars, receiptVars, host
  <2> QED BY <2>1, <2>2, <2>3, <2>4, PartsType
<1>4. CASE CleanupFirewall
  <2>1. Where'
    BY <1>0, <1>4 DEF CleanupFirewall, Where, Locations, MainPcs, CleanupPcs,
      IsCleanup
  <2>2. mem' \in Mem
    <3>1. \E b \in BOOLEAN : mem' = [mem EXCEPT !.fwOk = b]
      BY <1>4 DEF CleanupFirewall
    <3> QED BY <1>0, <3>1 DEF Mem
  <2>3. Evidence'
    BY <1>0, <1>4 DEF CleanupFirewall, Evidence, evidence, scratchVars,
      FirewallRemoved, FirewallInterrupted
  <2>4. Counted'
    BY <1>0, <1>4, BoundsAssumption DEF CleanupFirewall, Counted, Charge, counters
  <2>5. RowFiles' /\ Receipted'
    BY <1>0, <1>4 DEF CleanupFirewall, RowFiles, Receipted, rowsVars, receiptVars
  <2> QED BY <2>1, <2>2, <2>3, <2>4, <2>5, PartsType
<1>5. CASE CleanupReturn
  <2>1. Where'
    BY <1>0, <1>5 DEF CleanupReturn, Where, Locations, MainPcs, CleanupPcs, IsCleanup
  <2>2. mem' \in Mem
    BY <1>0, <1>5, ZenonT(40) DEF CleanupReturn, Mem
  <2>3. RowFiles'
    BY <1>0, <1>5, StateFileType, RecordType, WithBlockedType, CodesType DEF
      CleanupReturn, RowFiles
  <2>4. Counted'
    BY <1>0, <1>5, BoundsAssumption DEF CleanupReturn, Counted, Charge, counters
  <2>5. Evidence' /\ Receipted'
    BY <1>0, <1>5 DEF CleanupReturn, Evidence, Receipted, evidence, scratchVars,
      receiptVars, host
  <2> QED BY <2>1, <2>2, <2>3, <2>4, <2>5, PartsType
<1> QED BY <1>1, <1>2, <1>3, <1>4, <1>5

(* cleanup_packet_scratch. *)
LEMMA TypeScratch ==
  ASSUME TypeOK
  PROVE  ScratchStage \/ ScratchRemove \/ ScratchProof \/ ScratchRecord \/
    ScratchUnstage \/ ScratchReturn => TypeOK'
<1>0. Where /\ mem \in Mem /\ RowFiles /\ Evidence /\ Receipted /\ Counted
  BY TypeParts
<1>1. CASE ScratchStage
  <2>1. Where'
    BY <1>0, <1>1 DEF ScratchStage, Where, Locations, MainPcs, CleanupPcs, IsCleanup
  <2>2. mem' \in Mem
    <3>1. \/ mem' = [mem EXCEPT !.scratchOk = FALSE]
          \/ \E p \in {"none", "INVALID"} : mem' = [mem EXCEPT !.outcome = p]
      BY <1>1 DEF ScratchStage
    <3>2. CASE mem' = [mem EXCEPT !.scratchOk = FALSE]
      BY <1>0, <3>2 DEF Mem
    <3>3. CASE \E p \in {"none", "INVALID"} : mem' = [mem EXCEPT !.outcome = p]
      BY <1>0, <3>3 DEF Mem, Proofs
    <3> QED BY <3>1, <3>2, <3>3
  <2>3. Evidence'
    BY <1>0, <1>1 DEF ScratchStage, Evidence, evidence, host
  <2>4. Counted'
    BY <1>0, <1>1, BoundsAssumption DEF ScratchStage, Counted, Charge, counters
  <2>5. RowFiles' /\ Receipted'
    BY <1>0, <1>1 DEF ScratchStage, RowFiles, Receipted, rowsVars, receiptVars
  <2> QED BY <2>1, <2>2, <2>3, <2>4, <2>5, PartsType
<1>2. CASE ScratchRemove
  <2>1. Where'
    BY <1>0, <1>2 DEF ScratchRemove, Where, Locations, MainPcs, CleanupPcs, IsCleanup
  <2>2. mem' \in Mem
    BY <1>0, <1>2 DEF ScratchRemove, Mem, Proofs
  <2>3. Evidence'
    BY <1>0, <1>2 DEF ScratchRemove, Evidence, evidence, host
  <2>4. Counted'
    BY <1>0, <1>2, BoundsAssumption DEF ScratchRemove, Counted, Charge, counters
  <2>5. RowFiles' /\ Receipted'
    BY <1>0, <1>2 DEF ScratchRemove, RowFiles, Receipted, rowsVars, receiptVars
  <2> QED BY <2>1, <2>2, <2>3, <2>4, <2>5, PartsType
<1>3. CASE ScratchProof
  <2>1. Where'
    BY <1>0, <1>3 DEF ScratchProof, Where, Locations, MainPcs, CleanupPcs, IsCleanup
  <2>2. mem' \in Mem
    <3>1. \/ mem' = mem
          \/ \E a \in {"runtime", "stage"} :
               mem' = [mem EXCEPT !.scratchOk = FALSE, !.auditVar = a]
      BY <1>3 DEF ScratchProof, AuditVar
    <3>2. CASE \E a \in {"runtime", "stage"} :
                  mem' = [mem EXCEPT !.scratchOk = FALSE, !.auditVar = a]
      BY <1>0, <3>2, ZenonT(40) DEF Mem
    <3> QED BY <1>0, <3>1, <3>2
  <2>3. RowFiles'
    <3>1. CASE UNCHANGED rowsVars
      BY <1>0, <3>1 DEF RowFiles, rowsVars
    <3>2. CASE Record(WithInvalidProof(StateFile))
      BY <1>0, <3>2, StateFileType, RowUpdate, RecordType DEF Statuses, Proofs
    <3> QED BY <1>3, <3>1, <3>2 DEF ScratchProof
  <2>4. Evidence'
    BY <1>0, <1>3 DEF ScratchProof, Evidence, evidence, host, Mem
  <2>5. Counted'
    BY <1>0, <1>3, BoundsAssumption DEF ScratchProof, Counted, Charge, counters
  <2>6. Receipted'
    BY <1>0, <1>3 DEF ScratchProof, Receipted, receiptVars
  <2> QED BY <2>1, <2>2, <2>3, <2>4, <2>5, <2>6, PartsType
<1>4. CASE ScratchRecord
  <2>1. Where'
    BY <1>0, <1>4 DEF ScratchRecord, Where, Locations, MainPcs, CleanupPcs, IsCleanup
  <2>2. RowFiles'
    <3>1. WithProof(StateFile, proofStage) \in Rows
      BY <1>0, StateFileType, RowUpdate DEF Evidence, Statuses
    <3> QED BY <1>0, <1>4, <3>1, RecordType DEF ScratchRecord
  <2>3. mem' \in Mem /\ Evidence' /\ Counted' /\ Receipted'
    BY <1>0, <1>4 DEF ScratchRecord, Mem, Evidence, Counted, Receipted, evidence,
      scratchVars, receiptVars, host, counters
  <2> QED BY <2>1, <2>2, <2>3, PartsType
<1>5. CASE ScratchUnstage
  <2>1. Where'
    BY <1>0, <1>5 DEF ScratchUnstage, Where, Locations, MainPcs, CleanupPcs,
      IsCleanup
  <2>2. mem' \in Mem
    BY <1>0, <1>5, ZenonT(40) DEF ScratchUnstage, Mem, AuditVar
  <2>3. Evidence'
    BY <1>0, <1>5 DEF ScratchUnstage, Evidence, evidence, host, Proofs
  <2>4. Counted'
    BY <1>0, <1>5, BoundsAssumption DEF ScratchUnstage, Counted, Charge, counters
  <2>5. RowFiles' /\ Receipted'
    BY <1>0, <1>5 DEF ScratchUnstage, RowFiles, Receipted, rowsVars, receiptVars
  <2> QED BY <2>1, <2>2, <2>3, <2>4, <2>5, PartsType
<1>6. CASE ScratchReturn
  <2>1. Where'
    BY <1>0, <1>6 DEF ScratchReturn, Where, Locations, MainPcs, CleanupPcs, IsCleanup
  <2>2. mem' \in Mem
    BY <1>0, <1>6 DEF ScratchReturn, Mem
  <2>3. RowFiles'
    BY <1>0, <1>6, StateFileType, RecordType, WithBlockedType, CodesType DEF
      ScratchReturn, RowFiles
  <2>4. Evidence' /\ Counted' /\ Receipted'
    BY <1>0, <1>6 DEF ScratchReturn, Evidence, Counted, Receipted, evidence,
      scratchVars, receiptVars, host, counters
  <2> QED BY <2>1, <2>2, <2>3, <2>4, PartsType
<1> QED BY <1>1, <1>2, <1>3, <1>4, <1>5, <1>6

(* What to publish. *)
LEMMA TypeDecide ==
  ASSUME TypeOK
  PROVE  FinalizeDecide \/ CleanupDecide => TypeOK'
<1>0. Where /\ mem \in Mem /\ RowFiles /\ Evidence /\ Receipted /\ Counted
  BY TypeParts
<1>1. CASE FinalizeDecide
  <2>1. Where'
    BY <1>0, <1>1 DEF FinalizeDecide, Where, Locations, MainPcs, CleanupPcs,
      IsCleanup
  <2>2. mem' \in Mem
    <3>1. \E s \in Statuses : mem' = [mem EXCEPT !.expected = s, !.op = "replace"]
      BY <1>1, PassStatusType DEF FinalizeDecide, Statuses
    <3> QED BY <1>0, <3>1 DEF Mem
  <2>3. RowFiles'
    <3>1. /\ [StateFile EXCEPT !.status = PassStatus(inv)] \in Rows
          /\ WithBlocked(StateFile, "HARNESS_INTERRUPTED") \in Rows
          /\ StateFile \in Rows
      BY <1>0, StateFileType, RowUpdate, WithBlockedType, CodesType, PassStatusType
         DEF Statuses, Proofs
    <3>2. \E rows \in Rows : Record(rows)
      BY <1>1, <3>1 DEF FinalizeDecide
    <3> QED BY <1>0, <3>2, RecordType
  <2>4. Counted'
    BY <1>0, <1>1, BoundsAssumption DEF FinalizeDecide, Counted, Charge, counters
  <2>5. Evidence' /\ Receipted'
    BY <1>0, <1>1 DEF FinalizeDecide, Evidence, Receipted, evidence, scratchVars,
      receiptVars, host
  <2> QED BY <2>1, <2>2, <2>3, <2>4, <2>5, PartsType
<1>2. CASE CleanupDecide
  <2>1. Where'
    BY <1>0, <1>2 DEF CleanupDecide, Where, Locations, MainPcs, CleanupPcs, IsCleanup
  <2>2. mem' \in Mem
    <3>1. \E s \in Statuses, o \in {"replace", "merge"} :
            mem' = [mem EXCEPT !.op = o, !.expected = s]
      <4>1. mem.op \in {"replace", "merge"} /\ mem.existing \in Statuses \cup {"none"}
            /\ "BLOCKED" \in Statuses
        BY <1>0 DEF Mem, Statuses
      <4> DEFINE o == IF result = NoReceipt THEN "replace" ELSE mem.op
                 s == IF mem.cleanupOk /\ mem.existing # "none" THEN mem.existing
                                                                ELSE "BLOCKED"
      <4>2. o \in {"replace", "merge"} /\ s \in Statuses
        BY <4>1
      <4>3. mem' = [mem EXCEPT !.op = o, !.expected = s]
        BY <1>2 DEF CleanupDecide
      <4> QED BY <4>2, <4>3
    <3> QED BY <1>0, <3>1, ZenonT(40) DEF Mem
  <2>3. RowFiles'
    <3>1. /\ [StateFile EXCEPT !.status = "BLOCKED"] \in Rows
          /\ WithBlocked(StateFile, "HARNESS_INTERRUPTED") \in Rows
          /\ StateFile \in Rows
      BY <1>0, StateFileType, RowUpdate, WithBlockedType, CodesType DEF Statuses, Proofs
    <3>2. \E rows \in Rows : Record(rows)
      BY <1>2, <3>1 DEF CleanupDecide
    <3> QED BY <1>0, <3>2, RecordType
  <2>4. Evidence' /\ Counted' /\ Receipted'
    BY <1>0, <1>2 DEF CleanupDecide, Evidence, Counted, Receipted, evidence,
      scratchVars, receiptVars, host, counters
  <2> QED BY <2>1, <2>2, <2>3, <2>4, PartsType
<1> QED BY <1>1, <1>2

(* publish_result_receipt. *)
LEMMA TypePublish ==
  ASSUME TypeOK
  PROVE  PublishGuard \/ PublishWrite \/ PublishConsumeAudit \/ PublishBuild \/
    PublishRename \/ PublishVerify => TypeOK'
<1>0. Where /\ mem \in Mem /\ RowFiles /\ Evidence /\ Receipted /\ Counted
  BY TypeParts
<1>1. CASE PublishGuard
  <2>1. Where'
    BY <1>0, <1>1 DEF PublishGuard, Where, Locations, MainPcs, CleanupPcs, IsCleanup
  <2>2. Counted'
    BY <1>0, <1>1, BoundsAssumption DEF PublishGuard, Counted, Charge, counters
  <2>3. Receipted'
    BY <1>0, <1>1, NoReceiptType DEF PublishGuard, Receipted
  <2>4. mem' \in Mem /\ RowFiles' /\ Evidence'
    BY <1>0, <1>1 DEF PublishGuard, Mem, RowFiles, Evidence, evidence, rowsVars,
      scratchVars, host
  <2> QED BY <2>1, <2>2, <2>3, <2>4, PartsType
<1>2. CASE PublishWrite
  <2>1. Where'
    BY <1>0, <1>2 DEF PublishWrite, Where, Locations, MainPcs, CleanupPcs, IsCleanup
  <2>2. mem' \in Mem
    BY <1>0, <1>2 DEF PublishWrite, Mem
  <2>3. Counted'
    BY <1>0, <1>2, BoundsAssumption DEF PublishWrite, Counted, Charge, counters
  <2>4. Receipted'
    BY <1>0, <1>2, NoReceiptType DEF PublishWrite, Receipted
  <2>5. RowFiles' /\ Evidence'
    BY <1>0, <1>2 DEF PublishWrite, RowFiles, Evidence, evidence, rowsVars,
      scratchVars, host
  <2> QED BY <2>1, <2>2, <2>3, <2>4, <2>5, PartsType
<1>3. CASE PublishConsumeAudit
  <2>1. Where'
    BY <1>0, <1>3 DEF PublishConsumeAudit, Where, Locations, MainPcs, CleanupPcs,
      IsCleanup
  <2>2. mem' \in Mem
    BY <1>0, <1>3 DEF PublishConsumeAudit, Mem
  <2>3. Evidence'
    BY <1>0, <1>3 DEF PublishConsumeAudit, Evidence, evidence, host
  <2>4. Counted'
    BY <1>0, <1>3, BoundsAssumption DEF PublishConsumeAudit, Counted, Charge,
      counters
  <2>5. RowFiles' /\ Receipted'
    BY <1>0, <1>3 DEF PublishConsumeAudit, RowFiles, Receipted, rowsVars, receiptVars
  <2> QED BY <2>1, <2>2, <2>3, <2>4, <2>5, PartsType
<1>4. CASE PublishBuild
  <2>1. Where'
    BY <1>0, <1>4 DEF PublishBuild, Where, Locations, MainPcs, CleanupPcs, IsCleanup
  <2>2. Counted'
    BY <1>0, <1>4, BoundsAssumption DEF PublishBuild, Counted, Charge, counters
  <2>3. Receipted'
    BY <1>0, <1>4, BuildType, NoReceiptType, StateFileType DEF PublishBuild,
      Receipted
  <2>4. mem' \in Mem /\ RowFiles' /\ Evidence'
    BY <1>0, <1>4 DEF PublishBuild, Mem, RowFiles, Evidence, evidence, rowsVars,
      scratchVars, host
  <2> QED BY <2>1, <2>2, <2>3, <2>4, PartsType
<1>5. CASE PublishRename
  <2>1. Where'
    BY <1>0, <1>5 DEF PublishRename, Where, Locations, MainPcs, CleanupPcs, IsCleanup
  <2>2. Counted'
    <3>1. hist' = hist \/ \E b \in BOOLEAN : hist' = [hist EXCEPT !.blocked = b]
      BY <1>5 DEF PublishRename
    <3>2. hist' \in [passed: BOOLEAN, blocked: BOOLEAN, explained: BOOLEAN, stale: BOOLEAN,
                      leftover: BOOLEAN]
      BY <1>0, <3>1 DEF Counted
    <3>3. faults' \in 0..MaxFaults /\ UNCHANGED counters
      BY <1>0, <1>5, BoundsAssumption DEF PublishRename, Counted, Charge
    <3> QED BY <1>0, <3>2, <3>3 DEF Counted, counters
  <2>3. Receipted'
    BY <1>0, <1>5, NoReceiptType DEF PublishRename, Receipted
  <2>4. mem' \in Mem /\ RowFiles' /\ Evidence'
    BY <1>0, <1>5 DEF PublishRename, Mem, RowFiles, Evidence, evidence, rowsVars,
      scratchVars, host
  <2> QED BY <2>1, <2>2, <2>3, <2>4, PartsType
<1>6. CASE PublishVerify
  <2>1. Where'
    BY <1>0, <1>6 DEF PublishVerify, Where, Locations, MainPcs, CleanupPcs, IsCleanup
  <2>2. Counted'
    BY <1>0, <1>6, BoundsAssumption DEF PublishVerify, Counted, Charge, counters
  <2>3. Receipted'
    BY <1>0, <1>6, NoReceiptType DEF PublishVerify, Receipted
  <2>4. mem' \in Mem /\ RowFiles' /\ Evidence'
    BY <1>0, <1>6 DEF PublishVerify, Mem, RowFiles, Evidence, evidence, rowsVars,
      scratchVars, host
  <2> QED BY <2>1, <2>2, <2>3, <2>4, PartsType
<1> QED BY <1>1, <1>2, <1>3, <1>4, <1>5, <1>6

(* After publication, and the rest of cleanup-only. *)
LEMMA TypeAfter ==
  ASSUME TypeOK
  PROVE  FinalizePublished \/ FinalizeNotPublished \/ CleanupReadReceipt \/
    CleanupPublished \/ CleanupNotPublished \/ RetireMode \/ CleanupForget => TypeOK'
<1>0. Where /\ mem \in Mem /\ RowFiles /\ Evidence /\ Receipted /\ Counted
  BY TypeParts
<1>1. CASE FinalizePublished
  <2>1. Where'
    BY <1>0, <1>1 DEF FinalizePublished, Where, Locations, MainPcs, CleanupPcs,
      IsCleanup, Exit
  <2>2. mem' \in Mem
    BY <1>0, <1>1, InitMemType DEF FinalizePublished, Mem, Exit
  <2>3. RowFiles'
    BY <1>0, <1>1, NoFileType DEF FinalizePublished, RowFiles
  <2>4. Evidence' /\ Counted' /\ Receipted'
    BY <1>0, <1>1 DEF FinalizePublished, Evidence, Counted, Receipted, evidence,
      scratchVars, receiptVars, host, counters
  <2> QED BY <2>1, <2>2, <2>3, <2>4, PartsType
<1>2. CASE FinalizeNotPublished
  <2>1. Where'
    BY <1>0, <1>2 DEF FinalizeNotPublished, Where, Locations, MainPcs, CleanupPcs,
      IsCleanup, Exit
  <2>2. mem' \in Mem
    BY <1>0, <1>2, InitMemType DEF FinalizeNotPublished, Mem, Exit
  <2>3. RowFiles'
    BY <1>0, <1>2, StateFileType, RecordType, WithBlockedType, CodesType DEF
      FinalizeNotPublished, RowFiles
  <2>4. Receipted'
    BY <1>0, <1>2, NoReceiptType DEF FinalizeNotPublished, Receipted
  <2>5. Evidence' /\ Counted'
    BY <1>0, <1>2 DEF FinalizeNotPublished, Evidence, Counted, evidence, scratchVars,
      host, counters
  <2> QED BY <2>1, <2>2, <2>3, <2>4, <2>5, PartsType
<1>3. CASE CleanupReadReceipt
  <2>1. Where'
    BY <1>0, <1>3 DEF CleanupReadReceipt, Where, Locations, MainPcs, CleanupPcs,
      IsCleanup
  <2>2. mem' \in Mem
    <3>1. \/ mem' = [mem EXCEPT !.cleanupOk = FALSE, !.op = "replace"]
          \/ /\ mem' = [mem EXCEPT !.existing = result.status]
             /\ result = NoReceipt \/ Valid(result)
      BY <1>3 DEF CleanupReadReceipt
    <3>2. CASE mem' = [mem EXCEPT !.cleanupOk = FALSE, !.op = "replace"]
      BY <1>0, <3>2 DEF Mem
    <3>3. CASE /\ mem' = [mem EXCEPT !.existing = result.status]
               /\ result = NoReceipt \/ Valid(result)
      <4>1. result.status \in Statuses \cup {"none"}
        BY <3>3 DEF NoReceipt, Valid
      <4> QED BY <1>0, <3>3, <4>1 DEF Mem
    <3> QED BY <3>1, <3>2, <3>3
  <2>3. RowFiles'
    <3>1. StateFile \in Rows
      BY <1>0, StateFileType
    <3>2. WithBlocked(StateFile, "RESULT_RECEIPT_VALIDATION_FAILED") \in Rows
      BY <3>1, WithBlockedType, CodesType
    <3>3. result.status = "BLOCKED" /\ (result = NoReceipt \/ Valid(result))
            => WithBlocked(StateFile, result.code) \in Rows
      BY <1>0, <3>1, WithBlockedType DEF Receipted, Receipts, Valid, NoReceipt
    <3>4. \E rows \in Rows : Record(rows)
      BY <1>3, <3>1, <3>2, <3>3 DEF CleanupReadReceipt
    <3> QED BY <1>0, <3>4, RecordType
  <2>4. Counted'
    BY <1>0, <1>3, BoundsAssumption DEF CleanupReadReceipt, Counted, Charge, counters
  <2>5. Evidence' /\ Receipted'
    BY <1>0, <1>3 DEF CleanupReadReceipt, Evidence, Receipted, evidence, scratchVars,
      receiptVars, host
  <2> QED BY <2>1, <2>2, <2>3, <2>4, <2>5, PartsType
<1>4. CASE CleanupPublished
  <2>1. Where'
    BY <1>0, <1>4 DEF CleanupPublished, Where, Locations, MainPcs, CleanupPcs,
      IsCleanup, Exit
  <2>2. mem' \in Mem
    BY <1>0, <1>4, InitMemType DEF CleanupPublished, Mem, Exit
  <2>3. RowFiles' /\ Evidence' /\ Counted' /\ Receipted'
    BY <1>0, <1>4 DEF CleanupPublished, RowFiles, Evidence, Counted, Receipted,
      evidence, rowsVars, scratchVars, receiptVars, host, counters
  <2> QED BY <2>1, <2>2, <2>3, PartsType
<1>5. CASE CleanupNotPublished
  <2>1. Where'
    BY <1>0, <1>5 DEF CleanupNotPublished, Where, Locations, MainPcs, CleanupPcs,
      IsCleanup, Exit
  <2>2. mem' \in Mem
    BY <1>0, <1>5, InitMemType DEF CleanupNotPublished, Mem, Exit
  <2>3. RowFiles'
    BY <1>0, <1>5, StateFileType, RecordType, WithBlockedType, CodesType DEF
      CleanupNotPublished, RowFiles
  <2>4. Receipted'
    BY <1>0, <1>5, NoReceiptType DEF CleanupNotPublished, Receipted
  <2>5. Evidence' /\ Counted'
    BY <1>0, <1>5 DEF CleanupNotPublished, Evidence, Counted, evidence, scratchVars,
      host, counters
  <2> QED BY <2>1, <2>2, <2>3, <2>4, <2>5, PartsType
<1>6. CASE RetireMode
  <2>1. Where'
    BY <1>0, <1>6 DEF RetireMode, Where, Locations, MainPcs, CleanupPcs, IsCleanup,
      Exit
  <2>2. mem' \in Mem
    BY <1>0, <1>6, InitMemType DEF RetireMode, Mem, Exit
  <2>3. Evidence'
    BY <1>0, <1>6 DEF RetireMode, Evidence, scratchVars, host
  <2>4. Counted'
    BY <1>0, <1>6, BoundsAssumption DEF RetireMode, Counted, Charge, counters
  <2>5. RowFiles' /\ Receipted'
    BY <1>0, <1>6 DEF RetireMode, RowFiles, Receipted, rowsVars, receiptVars
  <2> QED BY <2>1, <2>2, <2>3, <2>4, <2>5, PartsType
<1>7. CASE CleanupForget
  <2>1. Where'
    BY <1>0, <1>7 DEF CleanupForget, Where, Locations, MainPcs, CleanupPcs,
      IsCleanup, Exit
  <2>2. mem' \in Mem
    BY <1>0, <1>7, InitMemType DEF CleanupForget, Mem, Exit
  <2>3. RowFiles'
    BY <1>0, <1>7, NoFileType DEF CleanupForget, RowFiles
  <2>4. Evidence'
    BY <1>0, <1>7 DEF CleanupForget, Evidence, evidence, scratchVars
  <2>5. Counted' /\ Receipted'
    BY <1>0, <1>7 DEF CleanupForget, Counted, Receipted, receiptVars, counters
  <2> QED BY <2>1, <2>2, <2>3, <2>4, <2>5, PartsType
<1> QED BY <1>1, <1>2, <1>3, <1>4, <1>5, <1>6, <1>7

(* What the environment does. *)
LEMMA TypeDisturbance ==
  ASSUME TypeOK
  PROVE  ModePublicationFails \/ PolluteScratch \/ Interrupt \/ Crash => TypeOK'
<1>0. Where /\ mem \in Mem /\ RowFiles /\ Evidence /\ Receipted /\ Counted
  BY TypeParts
<1>1. CASE ModePublicationFails
  <2>1. Where'
    BY <1>0, <1>1 DEF ModePublicationFails, Where, Locations, MainPcs, CleanupPcs,
      IsCleanup, Block
  <2>2. mem' \in Mem
    BY <1>0, <1>1, BlockType, CodesType DEF ModePublicationFails, Mem
  <2>3. RowFiles'
    BY <1>0, <1>1, BlockType, CodesType DEF ModePublicationFails, RowFiles
  <2>4. Evidence'
    BY <1>0, <1>1 DEF ModePublicationFails, Evidence, scratchVars, host
  <2>5. Counted'
    BY <1>0, <1>1, BoundsAssumption DEF ModePublicationFails, Counted, Charge,
      counters
  <2>6. Receipted'
    BY <1>0, <1>1 DEF ModePublicationFails, Receipted, receiptVars
  <2> QED BY <2>1, <2>2, <2>3, <2>4, <2>5, <2>6, PartsType
<1>2. CASE PolluteScratch
  <2>1. Evidence'
    BY <1>0, <1>2 DEF PolluteScratch, Evidence, evidence, host
  <2>2. Counted'
    BY <1>0, <1>2, BoundsAssumption DEF PolluteScratch, Counted, Charge, counters
  <2>3. Where' /\ mem' \in Mem /\ RowFiles' /\ Receipted'
    BY <1>0, <1>2 DEF PolluteScratch, Where, Locations, MainPcs, CleanupPcs,
      IsCleanup, Mem, RowFiles, Receipted, rowsVars, receiptVars
  <2> QED BY <2>1, <2>2, <2>3, PartsType
<1>3. CASE Interrupt
  <2>1. Where'
    BY <1>0, <1>3 DEF Interrupt, Where, Locations, MainPcs, CleanupPcs, IsCleanup
  <2>2. mem' \in Mem
    BY <1>0, <1>3 DEF Interrupt, Mem
  <2>3. RowFiles' /\ Evidence' /\ Counted' /\ Receipted'
    BY <1>0, <1>3 DEF Interrupt, RowFiles, Evidence, Counted, Receipted, evidence,
      rowsVars, scratchVars, receiptVars, host, counters
  <2> QED BY <2>1, <2>2, <2>3, PartsType
<1>4. CASE Crash
  <2>1. Where'
    BY <1>0, <1>4 DEF Crash, Where, Locations, MainPcs, CleanupPcs, IsCleanup, Exit
  <2>2. mem' \in Mem
    BY <1>0, <1>4, InitMemType DEF Crash, Mem, Exit
  <2>3. Evidence'
    BY <1>0, <1>4 DEF Crash, Evidence, evidence, scratchVars, FirewallInterrupted
  <2>4. Counted'
    BY <1>0, <1>4, BoundsAssumption DEF Crash, Counted, Charge, counters
  <2>5. RowFiles' /\ Receipted'
    BY <1>0, <1>4 DEF Crash, RowFiles, Receipted, rowsVars, receiptVars
  <2> QED BY <2>1, <2>2, <2>3, <2>4, <2>5, PartsType
<1> QED BY <1>1, <1>2, <1>3, <1>4

(* The two actions of cleanup_exact that come once per resource class. *)
LEMMA TypeRemoveClass ==
  ASSUME TypeOK, NEW c \in DockerClasses, RemoveClass(c)
  PROVE  TypeOK'
<1>0. Where /\ mem \in Mem /\ RowFiles /\ Evidence /\ Receipted /\ Counted
  BY TypeParts
<1>1. Where'
  <2>1. pc \in {"remove_container", "remove_volume", "remove_network"}
        /\ pc' \in {"remove_volume", "remove_network", "pre_firewall"}
    BY DEF RemoveClass, RemoveAt, AfterRemove, DockerClasses
  <2> QED BY <1>0, <2>1 DEF RemoveClass, Where, Locations, MainPcs, CleanupPcs, IsCleanup
<1>2. mem' \in Mem
  BY <1>0, ZenonT(40) DEF RemoveClass, Mem
<1>3. Evidence'
  <2>1. Removed(c) \subseteq res
    BY DEF Removed
  <2>2. res' \subseteq res
    BY <2>1 DEF RemoveClass
  <2> QED BY <1>0, <2>2 DEF RemoveClass, Evidence, evidence, scratchVars
<1>4. Counted'
  BY <1>0, BoundsAssumption DEF RemoveClass, Counted, Charge, counters
<1>5. RowFiles' /\ Receipted'
  BY <1>0 DEF RemoveClass, RowFiles, Receipted, rowsVars, receiptVars
<1> QED BY <1>1, <1>2, <1>3, <1>4, <1>5, PartsType

LEMMA TypeCountResidue ==
  ASSUME TypeOK, NEW c \in Classes, CountResidue(c)
  PROVE  TypeOK'
<1>0. Where /\ mem \in Mem /\ RowFiles /\ Evidence /\ Receipted /\ Counted
  BY TypeParts
<1>1. Where'
  <2>1. pc \in {"count_container", "count_volume", "count_network", "count_listener"}
        /\ pc' \in {"count_volume", "count_network", "count_listener", "cleanup_return"}
    BY DEF CountResidue, CountAt, AfterCount, Classes, DockerClasses
  <2> QED BY <1>0, <2>1 DEF CountResidue, Where, Locations, MainPcs, CleanupPcs, IsCleanup
<1>2. mem' \in Mem
  <2>1. \/ mem' = mem \/ mem' = [mem EXCEPT !.listenerOk = FALSE]
        \/ mem' = [mem EXCEPT !.queryOk = FALSE]
    BY DEF CountResidue
  <2>2. [mem EXCEPT !.listenerOk = FALSE] \in Mem /\ [mem EXCEPT !.queryOk = FALSE] \in Mem
    BY <1>0 DEF Mem
  <2> QED BY <1>0, <2>1, <2>2
<1>3. RowFiles'
  <2>1. \A n \in Counts : [StateFile EXCEPT !.count[c] = n] \in Rows
    BY <1>0, StateFileType DEF Rows
  <2>2. CASE UNCHANGED rowsVars
    BY <1>0, <2>2 DEF RowFiles, rowsVars
  <2>3. CASE \E n \in Counts : Record([StateFile EXCEPT !.count[c] = n])
    BY <1>0, <2>1, <2>3, RecordType
  <2> QED BY <2>2, <2>3 DEF CountResidue, Counts
<1>4. Counted'
  BY <1>0, BoundsAssumption DEF CountResidue, Counted, Charge, counters
<1>5. Evidence' /\ Receipted'
  BY <1>0 DEF CountResidue, Evidence, Receipted, evidence, scratchVars, receiptVars, host
<1> QED BY <1>1, <1>2, <1>3, <1>4, <1>5, PartsType

-----------------------------------------------------------------------------
(* Type correctness *)

LEMMA TypeInit == Init => TypeOK
<1> SUFFICES ASSUME Init PROVE TypeOK
  OBVIOUS
<1>1. Where
  BY DEF Init, Where, Locations, MainPcs, CleanupPcs, IsCleanup
<1>2. mem \in Mem /\ RowFiles /\ Receipted
  BY InitMemType, NoFileType, NoReceiptType DEF Init, RowFiles, Receipted
<1>3. Evidence
  BY DEF Init, Evidence, Proofs
<1>4. Counted
  BY BoundsAssumption DEF Init, InitHist, Counted
<1> QED BY <1>1, <1>2, <1>3, <1>4, TypeParts

LEMMA TypeStep == TypeOK /\ [Next]_vars => TypeOK'
<1> SUFFICES ASSUME TypeOK, [Next]_vars PROVE TypeOK'
  OBVIOUS
<1>1. CASE (\E m \in Modes : MainStart(m)) \/ CleanupStart
  BY <1>1, TypeStart
<1>2. CASE Main
  BY <1>2, TypeMode, TypeWork, TypeTeardown, TypeDecide, TypeAfter DEF Main, Work
<1>3. CASE Teardown
  BY <1>3, TypeTeardown, TypeRemoveClass, TypeCountResidue, TypeScratch DEF Teardown
<1>4. CASE Publish
  BY <1>4, TypePublish DEF Publish
<1>5. CASE CleanupOnly
  BY <1>5, TypeDecide, TypeAfter DEF CleanupOnly
<1>6. CASE Disturbance
  BY <1>6, TypeDisturbance DEF Disturbance
<1>7. CASE UNCHANGED vars
  BY <1>7 DEF vars, TypeOK, IsCleanup, evidence, rowsVars, receiptVars, scratchVars, host,
     counters
<1> QED BY <1>1, <1>2, <1>3, <1>4, <1>5, <1>6, <1>7 DEF Next, Step

(* In every reachable state every variable has its type, and an invocation *)
(* runs exactly when the program counter says so, at a step of its kind.   *)
THEOREM TypeCorrect == Spec => []TypeOK
BY TypeInit, TypeStep, PTL DEF Spec

=============================================================================
