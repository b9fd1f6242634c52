----------------------- MODULE FirewallBoundaryProofs -----------------------
(* Proofs about FirewallBoundary: the inductive invariant, the safety       *)
(* properties that follow from it, and the refinement of FirewallEvidence.  *)
EXTENDS FirewallBoundary, TLAPS

-----------------------------------------------------------------------------
(* Initially nothing is installed and nothing is on disk. *)
LEMMA InitInv == Init => Inv
<1>1. Init => TypeOK
  BY BoundsAssumption, PollsAssumption
  DEF Init, TypeOK, Tables, LedgerStates, Ledgers, Effective, Completions, Mem,
      Evidence, Commands, Codes, Steps
<1>2. Init => Coherence /\ WritingLedger /\ WritingEvidence /\ Removing
  BY DEF Init, Coherence, TableIsAccounted, TargetKept, CompletionIsTrue, Readable,
         WritingLedger, WritingEvidence, Removing
<1> QED BY <1>1, <1>2 DEF Inv

(* TypeOK without the record of local variables. *)
Rest ==
    /\ table \in Tables /\ foreign \in Foreign
    /\ ledger \in Ledgers /\ done \in Completions
    /\ files \in SUBSET Evidence /\ stages \in SUBSET Evidence
    /\ pc \in Steps /\ op \in Commands \cup {"none"}
    /\ (pc = "idle") <=> (op = "none")
    /\ code \in Codes
    /\ faults \in 0..MaxFaults /\ drifts \in 0..MaxDrifts
    /\ orig \in Foreign

(* read_ruleset changes two fields of the local variables. *)
LEMMA SnapshotFields ==
  ASSUME TypeOK
  PROVE  /\ Snapshot \in Mem
         /\ Snapshot.table = table /\ Snapshot.foreign = foreign
         /\ Snapshot.target = mem.target /\ Snapshot.eff = mem.eff
         /\ Snapshot.polls = mem.polls
BY DEF TypeOK, Snapshot, Mem

(* Every variable keeps its type. *)
LEMMA TypeStep == TypeOK /\ [Next]_vars => TypeOK'
<1> SUFFICES ASSUME TypeOK, [Next]_vars PROVE TypeOK'
  OBVIOUS
<1> USE BoundsAssumption, PollsAssumption
<1> USE DEF TypeOK, ruleset, disk, budget, Rest
<1>a. mem.ev \in Evidence /\ mem.eff \in Effective /\ mem.foreign \in Foreign
      /\ mem.target \in Ledgers
  BY DEF Mem
<1>1. CASE Prepare
  <2>1. mem' \in Mem
    BY <1>1 DEF Prepare, AnyMarkerFile, AnyCompletionFile, Finish, process,
       Mem, Tables, Ledgers, LedgerStates, Evidence, Effective
  <2>2. Rest'
    BY <1>a, <1>1 DEF Prepare, AnyMarkerFile, AnyCompletionFile, Finish,
       process, Tables, LedgerStates, Ledgers, Effective, Completions,
       Evidence, Commands, Codes, Steps
  <2> QED BY <2>1, <2>2
<1>2. CASE Install
  <2>1. mem' \in Mem
    <3>1. CASE mem' = mem
      BY <3>1
    <3>2. CASE mem' = [Snapshot EXCEPT !.target = [ledger EXCEPT !.status = "installed"]]
      BY <3>2, SnapshotFields DEF Mem, Ledgers, LedgerStates
    <3> QED BY <3>1, <3>2, <1>2 DEF Install, AnyMarkerFile, AnyCompletionFile,
       Finish
  <2>2. Rest'
    BY <1>a, <1>2 DEF Install, AnyMarkerFile, AnyCompletionFile, Snapshot,
       Finish, Tables, LedgerStates, Ledgers, Effective, Completions,
       Evidence, Commands, Codes, Steps
  <2> QED BY <2>1, <2>2
<1>3. CASE InstallMarkers
  <2>1. mem' \in Mem
    <3>1. CASE mem' = mem
      BY <3>1
    <3>2. CASE mem' = [Snapshot EXCEPT !.ev = "intent"]
      BY <3>2, SnapshotFields DEF Mem, Evidence
    <3> QED BY <3>1, <3>2, <1>3 DEF InstallMarkers, AnyMarkerFile, Finish
  <2>2. Rest'
    BY <1>a, <1>3 DEF InstallMarkers, AnyMarkerFile, Snapshot, Finish, Tables,
       LedgerStates, Ledgers, Effective, Completions, Evidence, Commands,
       Codes, Steps
  <2> QED BY <2>1, <2>2
<1>4. CASE \E marker \in BOOLEAN : Counters(marker)
  <2>1. mem' \in Mem
    BY <1>4 DEF Counters, EffectiveLedgerFailure, Readable, MarkerEvidence, Finish, Mem, Tables,
       Ledgers, LedgerStates, Evidence, Effective
  <2>2. Rest'
    BY <1>a, <1>4 DEF Counters, EffectiveLedgerFailure, Readable, MarkerEvidence, Finish, Tables,
       LedgerStates, Ledgers, Effective, Completions, Evidence, Commands,
       Codes, Steps
  <2> QED BY <2>1, <2>2
<1>5. CASE Remove
  <2>1. mem' \in Mem
    <3>1. CASE mem' = mem
      BY <3>1
    <3>0. 1 \in 0..MaxPolls
      OBVIOUS
    <3>2. CASE mem' = [Snapshot EXCEPT !.polls = 1, !.again = FALSE, !.eff = "base"]
      BY <3>2, SnapshotFields, <3>0 DEF Mem, Effective
    <3> QED BY <3>1, <3>2, <1>5 DEF Remove
  <2>2. Rest'
    BY <1>a, <1>5 DEF Remove, Snapshot, Tables, LedgerStates, Ledgers,
       Effective, Completions, Evidence, Commands, Codes, Steps
  <2> QED BY <2>1, <2>2
<1>6. CASE LedgerOpen
  <2>1. mem' \in Mem
    BY <1>6 DEF LedgerOpen, Goto, Mem, Tables, Ledgers, LedgerStates,
       Evidence, Effective
  <2>2. Rest'
    BY <1>a, <1>6 DEF LedgerOpen, Goto, Tables, LedgerStates, Ledgers,
       Effective, Completions, Evidence, Commands, Codes, Steps
  <2> QED BY <2>1, <2>2
<1>7. CASE LedgerWrite
  <2>1. mem' \in Mem
    BY <1>7 DEF LedgerWrite, Finish, Mem, Tables, Ledgers, LedgerStates,
       Evidence, Effective
  <2>2. Rest'
    BY <1>a, <1>7 DEF LedgerWrite, Finish, Tables, LedgerStates, Ledgers,
       Effective, Completions, Evidence, Commands, Codes, Steps
  <2> QED BY <2>1, <2>2
<1>8. CASE InstallApply
  <2>1. mem' \in Mem
    BY <1>8 DEF InstallApply, Goto, Fault, Finish, Mem, Tables, Ledgers,
       LedgerStates, Evidence, Effective
  <2>2. Rest'
    BY <1>a, <1>8 DEF InstallApply, Goto, Fault, Finish, Tables, LedgerStates,
       Ledgers, Effective, Completions, Evidence, Commands, Codes, Steps
  <2> QED BY <2>1, <2>2
<1>9. CASE InstallVerify
  <2>1. mem' \in Mem
    BY <1>9 DEF InstallVerify, Goto, Finish, Mem, Tables, Ledgers,
       LedgerStates, Evidence, Effective
  <2>2. Rest'
    BY <1>a, <1>9 DEF InstallVerify, Goto, Finish, Tables, LedgerStates,
       Ledgers, Effective, Completions, Evidence, Commands, Codes, Steps
  <2> QED BY <2>1, <2>2
<1>10. CASE MarkersApply
  <2>1. mem' \in Mem
    BY <1>10 DEF MarkersApply, Goto, Fault, Finish, Mem, Tables, Ledgers,
       LedgerStates, Evidence, Effective
  <2>2. Rest'
    BY <1>a, <1>10 DEF MarkersApply, Goto, Fault, Finish, Tables,
       LedgerStates, Ledgers, Effective, Completions, Evidence, Commands,
       Codes, Steps
  <2> QED BY <2>1, <2>2
<1>11. CASE MarkersVerify
  <2>1. mem' \in Mem
    <3>1. CASE mem' = mem
      BY <3>1
    <3>2. CASE mem' = [mem EXCEPT !.drift = foreign # mem.foreign, !.ev = "installed"]
      BY <3>2 DEF Mem, Evidence
    <3> QED BY <3>1, <3>2, <1>11 DEF MarkersVerify, Goto, Finish
  <2>2. Rest'
    BY <1>a, <1>11 DEF MarkersVerify, Goto, Finish, Tables, LedgerStates,
       Ledgers, Effective, Completions, Evidence, Commands, Codes, Steps
  <2> QED BY <2>1, <2>2
<1>12. CASE MarkersEnd
  <2>1. mem' \in Mem
    BY <1>12 DEF MarkersEnd, Finish, Mem, Tables, Ledgers, LedgerStates,
       Evidence, Effective
  <2>2. Rest'
    BY <1>a, <1>12 DEF MarkersEnd, Finish, Tables, LedgerStates, Ledgers,
       Effective, Completions, Evidence, Commands, Codes, Steps
  <2> QED BY <2>1, <2>2
<1>13. CASE EvidenceStage
  <2>1. mem' \in Mem
    BY <1>13 DEF EvidenceStage, Goto, Finish, Mem, Tables, Ledgers,
       LedgerStates, Evidence, Effective
  <2>2. Rest'
    <3>1. stages' \in SUBSET Evidence /\ UNCHANGED <<ruleset, ledger, files, done, budget, orig>>
      BY <1>a, <1>13 DEF EvidenceStage
    <3>2. /\ pc' \in Steps /\ op' \in Commands \cup {"none"} /\ code' \in Codes
          /\ (pc' = "idle") <=> (op' = "none")
      BY <1>13 DEF EvidenceStage, Goto, Finish, Steps, Commands, Codes
    <3> QED BY <3>1, <3>2 DEF ruleset, budget
  <2> QED BY <2>1, <2>2
<1>14. CASE EvidenceLink
  <2>1. mem' \in Mem
    BY <1>14 DEF EvidenceLink, Goto, Mem, Tables, Ledgers, LedgerStates,
       Evidence, Effective
  <2>2. Rest'
    <3>1. files' \in SUBSET Evidence /\ UNCHANGED <<ruleset, ledger, stages, budget, orig>>
      BY <1>a, <1>14 DEF EvidenceLink
    <3>2. done' \in Completions
      BY <1>14 DEF EvidenceLink, Mem, Completions
    <3>3. /\ pc' \in Steps /\ op' \in Commands \cup {"none"} /\ code' \in Codes
          /\ (pc' = "idle") <=> (op' = "none")
      BY <1>14 DEF EvidenceLink, Goto, Steps
    <3> QED BY <3>1, <3>2, <3>3 DEF ruleset, budget
  <2> QED BY <2>1, <2>2
<1>15. CASE EvidenceUnstage
  <2>1. mem' \in Mem
    BY <1>15 DEF EvidenceUnstage, AfterEvidence, Goto, Mem, Tables, Ledgers,
       LedgerStates, Evidence, Effective
  <2>2. Rest'
    <3>1. stages' \in SUBSET Evidence /\ UNCHANGED <<ruleset, ledger, files, done, budget, orig>>
      BY <1>15 DEF EvidenceUnstage
    <3>2. /\ pc' \in Steps /\ op' \in Commands \cup {"none"} /\ code' \in Codes
          /\ (pc' = "idle") <=> (op' = "none")
      BY <1>15 DEF EvidenceUnstage, AfterEvidence, Goto, Steps
    <3> QED BY <3>1, <3>2 DEF ruleset, budget
  <2> QED BY <2>1, <2>2
<1>16. CASE ReconcileStages
  <2>1. mem' \in Mem
    BY <1>16 DEF ReconcileStages, Goto, process, Mem, Tables, Ledgers,
       LedgerStates, Evidence, Effective
  <2>2. Rest'
    <3>1. stages' \in SUBSET Evidence /\ UNCHANGED <<ruleset, ledger, files, done, budget, orig>>
      BY <1>16 DEF ReconcileStages
    <3>2. /\ pc' \in Steps /\ op' \in Commands \cup {"none"} /\ code' \in Codes
          /\ (pc' = "idle") <=> (op' = "none")
      BY <1>16 DEF ReconcileStages, Goto, process, Steps
    <3> QED BY <3>1, <3>2 DEF ruleset, budget
  <2> QED BY <2>1, <2>2
<1>17. CASE RemoveOrphan
  <2>1. mem' \in Mem
    BY <1>17, ZenonT(40) DEF RemoveOrphan, OrphanAccepted, Goto, Finish, Mem, Tables,
       Ledgers, LedgerStates, Evidence, Effective
  <2>2. Rest'
    BY <1>a, <1>17 DEF RemoveOrphan, OrphanAccepted, Goto, Finish, Tables,
       LedgerStates, Ledgers, Effective, Completions, Evidence, Commands,
       Codes, Steps
  <2> QED BY <2>1, <2>2
<1>18. CASE RemoveMarkers
  <2>1. mem' \in Mem
    <3>1. CASE mem' = mem
      BY <3>1
    <3>2. CASE mem' = [mem EXCEPT !.eff = "markers"]
      BY <3>2 DEF Mem, Effective
    <3>3. CASE mem' = [mem EXCEPT !.eff = "markers", !.ev = "installed"]
      BY <3>3 DEF Mem, Effective, Evidence
    <3> QED BY <3>1, <3>2, <3>3, <1>18 DEF RemoveMarkers, Goto, Finish
  <2>2. Rest'
    BY <1>a, <1>18 DEF RemoveMarkers, Goto, Finish, Tables, LedgerStates,
       Ledgers, Effective, Completions, Evidence, Commands, Codes, Steps
  <2> QED BY <2>1, <2>2
<1>19. CASE RemoveCompletion
  <2>1. mem' \in Mem
    BY <1>19, ZenonT(40) DEF RemoveCompletion, CompletionMatches, Goto, Finish, Mem,
       Tables, Ledgers, LedgerStates, Evidence, Effective
  <2>2. Rest'
    BY <1>a, <1>19 DEF RemoveCompletion, CompletionMatches, Goto, Finish,
       Tables, LedgerStates, Ledgers, Effective, Completions, Evidence,
       Commands, Codes, Steps
  <2> QED BY <2>1, <2>2
<1>20. CASE RemovePoll
  <2>1. mem' \in Mem
    <3>1. CASE mem' = mem
      BY <3>1
    <3>2. CASE pc = "poll" /\ mem.polls # MaxPolls /\ mem' = [Snapshot EXCEPT !.polls = @ + 1]
      BY <3>2, SnapshotFields DEF Mem
    <3> QED BY <3>1, <3>2, <1>20 DEF RemovePoll, OwnedShape, Goto, Finish
  <2>2. Rest'
    BY <1>a, <1>20 DEF RemovePoll, OwnedShape, Snapshot, Goto, Finish, Tables,
       LedgerStates, Ledgers, Effective, Completions, Evidence, Commands,
       Codes, Steps
  <2> QED BY <2>1, <2>2
<1>21. CASE RemoveDelete
  <2>1. mem' \in Mem
    BY <1>21 DEF RemoveDelete, Goto, Fault, Finish, Mem, Tables, Ledgers,
       LedgerStates, Evidence, Effective
  <2>2. Rest'
    BY <1>a, <1>21 DEF RemoveDelete, Goto, Fault, Finish, Tables,
       LedgerStates, Ledgers, Effective, Completions, Evidence, Commands,
       Codes, Steps
  <2> QED BY <2>1, <2>2
<1>22. CASE RemoveVerify
  <2>1. mem' \in Mem
    <3>1. CASE mem' = mem
      BY <3>1
    <3>2. CASE mem' = [Snapshot EXCEPT !.ev = "completion"]
      BY <3>2, SnapshotFields DEF Mem, Evidence
    <3> QED BY <3>1, <3>2, <1>22 DEF RemoveVerify, Goto, Finish
  <2>2. Rest'
    BY <1>a, <1>22 DEF RemoveVerify, Snapshot, Goto, Finish, Tables,
       LedgerStates, Ledgers, Effective, Completions, Evidence, Commands,
       Codes, Steps
  <2> QED BY <2>1, <2>2
<1>23. CASE RetireLedger
  <2>1. mem' \in Mem
    BY <1>23 DEF RetireLedger, Goto, Mem, Tables, Ledgers, LedgerStates,
       Evidence, Effective
  <2>2. Rest'
    BY <1>a, <1>23 DEF RetireLedger, Goto, Tables, LedgerStates, Ledgers,
       Effective, Completions, Evidence, Commands, Codes, Steps
  <2> QED BY <2>1, <2>2
<1>24. CASE RetireIntent
  <2>1. mem' \in Mem
    BY <1>24 DEF RetireIntent, Goto, Mem, Tables, Ledgers, LedgerStates,
       Evidence, Effective
  <2>2. Rest'
    BY <1>a, <1>24 DEF RetireIntent, Goto, Tables, LedgerStates, Ledgers,
       Effective, Completions, Evidence, Commands, Codes, Steps
  <2> QED BY <2>1, <2>2
<1>25. CASE RetireInstalled
  <2>1. mem' \in Mem
    BY <1>25 DEF RetireInstalled, Goto, Finish, Mem, Tables, Ledgers,
       LedgerStates, Evidence, Effective
  <2>2. Rest'
    BY <1>a, <1>25 DEF RetireInstalled, Goto, Finish, Tables, LedgerStates,
       Ledgers, Effective, Completions, Evidence, Commands, Codes, Steps
  <2> QED BY <2>1, <2>2
<1>26. CASE RetireCompletion
  <2>1. mem' \in Mem
    BY <1>26 DEF RetireCompletion, Finish, Mem, Tables, Ledgers, LedgerStates,
       Evidence, Effective
  <2>2. Rest'
    BY <1>a, <1>26 DEF RetireCompletion, Finish, Tables, LedgerStates,
       Ledgers, Effective, Completions, Evidence, Commands, Codes, Steps
  <2> QED BY <2>1, <2>2
<1>27. CASE EvidenceFails
  <2>1. mem' \in Mem
    BY <1>27 DEF EvidenceFails, Fault, Finish, Mem, Tables, Ledgers,
       LedgerStates, Evidence, Effective
  <2>2. Rest'
    <3>1. stages' \in SUBSET Evidence /\ UNCHANGED <<table, foreign, ledger, done, files, drifts, orig>>
      BY <1>27 DEF EvidenceFails, Evidence
    <3>2. pc' = "idle" /\ op' = "none" /\ code' \in Codes /\ faults' \in 0..MaxFaults
      BY <1>27 DEF EvidenceFails, Fault, Finish, Codes
    <3> QED BY <3>1, <3>2 DEF Steps
  <2> QED BY <2>1, <2>2
<1>28. CASE SystemFails
  <2>1. mem' \in Mem
    BY <1>28 DEF SystemFails, Fault, Finish, Mem, Tables, Ledgers,
       LedgerStates, Evidence, Effective
  <2>2. Rest'
    BY <1>a, <1>28 DEF SystemFails, Fault, Finish, Tables, LedgerStates,
       Ledgers, Effective, Completions, Evidence, Commands, Codes, Steps
  <2> QED BY <2>1, <2>2
<1>29. CASE Drift
  <2>1. mem' \in Mem
    BY <1>29 DEF Drift, process, Mem, Tables, Ledgers, LedgerStates, Evidence,
       Effective
  <2>2. Rest'
    BY <1>a, <1>29 DEF Drift, process, Tables, LedgerStates, Ledgers,
       Effective, Completions, Evidence, Commands, Codes, Steps
  <2> QED BY <2>1, <2>2
<1>30. CASE Kill
  <2>1. mem' \in Mem
    BY <1>30 DEF Kill, Fault, Finish, Mem, Tables, Ledgers, LedgerStates,
       Evidence, Effective
  <2>2. Rest'
    BY <1>a, <1>30 DEF Kill, Fault, Finish, Tables, LedgerStates, Ledgers,
       Effective, Completions, Evidence, Commands, Codes, Steps
  <2> QED BY <2>1, <2>2
<1>31. CASE UNCHANGED vars
  BY <1>31 DEF vars, process
<1> QED
  BY <1>1, <1>2, <1>3, <1>4, <1>5, <1>6, <1>7, <1>8, <1>9, <1>10, <1>11,
     <1>12, <1>13, <1>14, <1>15, <1>16, <1>17, <1>18, <1>19, <1>20, <1>21,
     <1>22, <1>23, <1>24, <1>25, <1>26, <1>27, <1>28, <1>29, <1>30, <1>31 DEF
     Next, Command, Step, Disturbance, InstallStep, MarkerStep, EvidenceStep,
     RemoveStep

(* Every step keeps the files coherent and the control facts true. *)
LEMMA InvStep == Inv /\ [Next]_vars => Inv'
<1> SUFFICES ASSUME Inv, [Next]_vars PROVE Inv'
  OBVIOUS
<1>0. TypeOK /\ TypeOK'
  BY TypeStep DEF Inv
<1> USE <1>0 DEF Inv, Coherence, TableIsAccounted, TargetKept, CompletionIsTrue,
                 WritingLedger, WritingEvidence, Removing, EffSettled, Readable,
                 ruleset, disk, budget
<1>1. CASE Prepare
  BY <1>1 DEF Prepare, AnyMarkerFile, AnyCompletionFile, Finish, process,
     TypeOK, Mem, Evidence
<1>2. CASE Install
  <2>1. Coherence'
    BY <1>2 DEF Install, AnyMarkerFile, AnyCompletionFile, Snapshot, Finish,
       TypeOK, Tables, LedgerStates, Ledgers, Effective, Completions, Mem,
       Evidence, MarkerEvidence
  <2>2. WritingLedger'
    <3>1. CASE pc' = "idle"
      BY <3>1 DEF WritingLedger
    <3>2. CASE pc' # "idle"
      <4>1. /\ pc' = "apply" /\ op' = "install" /\ ledger.status = "prepared"
            /\ table = "absent" /\ ~AnyMarkerFile /\ ~AnyCompletionFile
            /\ mem' = [Snapshot EXCEPT !.target = [ledger EXCEPT !.status = "installed"]]
            /\ UNCHANGED <<ledger, table, files, orig>>
        BY <3>2, <1>2 DEF Install, Finish
      <4>2. mem'.target.status = "installed" /\ mem'.target.pre = orig
        BY <4>1, SnapshotFields DEF Mem, Ledgers, TypeOK, Coherence, TargetKept
      <4>3. files = {}
        BY <4>1 DEF AnyMarkerFile, AnyCompletionFile, MarkerEvidence, TypeOK, Evidence
      <4> QED BY <4>1, <4>2, <4>3 DEF WritingLedger
    <3> QED BY <3>1, <3>2
  <2>3. WritingEvidence'
    BY <1>2 DEF Install, AnyMarkerFile, AnyCompletionFile, Snapshot, Finish,
       TypeOK, Tables, LedgerStates, Ledgers, Effective, Completions, Mem,
       Evidence, MarkerEvidence
  <2>4. Removing'
    BY <1>2 DEF Install, AnyMarkerFile, AnyCompletionFile, Snapshot, Finish,
       TypeOK, Tables, LedgerStates, Ledgers, Effective, Completions, Mem,
       Evidence, MarkerEvidence
  <2> QED BY <2>1, <2>2, <2>3, <2>4
<1>3. CASE InstallMarkers
  <2>1. CASE pc' = "idle"
    BY <1>3, <2>1 DEF InstallMarkers, Finish, TypeOK
  <2>2. CASE pc' # "idle"
    <3>1. /\ pc' = "stage" /\ op' = "install-markers"
          /\ ledger.status = "installed" /\ table = "base"
          /\ mem' = [Snapshot EXCEPT !.ev = "intent"]
          /\ UNCHANGED <<ruleset, disk, budget, orig>>
      BY <2>2, <1>3 DEF InstallMarkers, Finish
    <3>2. mem'.ev = "intent"
      BY <3>1, SnapshotFields DEF Mem
    <3> QED BY <3>1, <3>2 DEF TypeOK
  <2> QED BY <2>1, <2>2
<1>4. CASE \E marker \in BOOLEAN : Counters(marker)
  BY <1>4 DEF Counters, EffectiveLedgerFailure, Readable, MarkerEvidence, Finish, TypeOK, Mem,
     Evidence
<1>5. CASE Remove
  BY <1>5 DEF Remove, Snapshot, TypeOK, Mem, Evidence
<1>6. CASE LedgerOpen
  BY <1>6 DEF LedgerOpen, Goto, TypeOK, Mem, Evidence
<1>7. CASE LedgerWrite
  BY <1>7 DEF LedgerWrite, Finish, TypeOK, Mem, Evidence
<1>8. CASE InstallApply
  BY <1>8 DEF InstallApply, Goto, Fault, Finish, TypeOK, Mem, Evidence
<1>9. CASE InstallVerify
  BY <1>9 DEF InstallVerify, Goto, Finish, TypeOK, Mem, Evidence
<1>10. CASE MarkersApply
  BY <1>10 DEF MarkersApply, Goto, Fault, Finish, TypeOK, Mem, Evidence
<1>11. CASE MarkersVerify
  <2>1. Coherence'
    BY <1>11 DEF MarkersVerify, Goto, Finish, TypeOK, Tables, LedgerStates,
       Ledgers, Effective, Completions, Mem, Evidence, MarkerEvidence
  <2>2. WritingLedger'
    BY <1>11 DEF MarkersVerify, Goto, Finish, TypeOK, Tables, LedgerStates,
       Ledgers, Effective, Completions, Mem, Evidence, MarkerEvidence
  <2>3. WritingEvidence'
    <3>1. CASE pc' = "idle"
      BY <3>1 DEF WritingEvidence
    <3>2. CASE pc' # "idle"
      <4>1. /\ pc' = "stage" /\ UNCHANGED op /\ table = "markers" /\ UNCHANGED table
            /\ pc = "verify_markers"
            /\ mem' = [mem EXCEPT !.drift = foreign # mem.foreign, !.ev = "installed"]
        BY <3>2, <1>11 DEF MarkersVerify, Goto, Finish
      <4>2. mem'.ev = "installed"
        BY <4>1 DEF Mem, TypeOK
      <4> QED BY <4>1, <4>2 DEF WritingEvidence
    <3> QED BY <3>1, <3>2
  <2>4. Removing'
    BY <1>11 DEF MarkersVerify, Goto, Finish, TypeOK, Tables, LedgerStates,
       Ledgers, Effective, Completions, Mem, Evidence, MarkerEvidence
  <2> QED BY <2>1, <2>2, <2>3, <2>4
<1>12. CASE MarkersEnd
  BY <1>12 DEF MarkersEnd, Finish, TypeOK, Mem, Evidence
<1>13. CASE EvidenceStage
  BY <1>13 DEF EvidenceStage, Goto, Finish, TypeOK, Mem, Evidence
<1>14. CASE EvidenceLink
  BY <1>14 DEF EvidenceLink, Goto, TypeOK, Mem, Evidence
<1>15. CASE EvidenceUnstage
  BY <1>15 DEF EvidenceUnstage, AfterEvidence, Goto, TypeOK, Mem, Evidence
<1>16. CASE ReconcileStages
  BY <1>16 DEF ReconcileStages, Goto, process, TypeOK, Mem, Evidence
<1>17. CASE RemoveOrphan
  BY <1>17 DEF RemoveOrphan, OrphanAccepted, Goto, Finish, TypeOK, Mem,
     Evidence
<1>18. CASE RemoveMarkers
  <2>1. Coherence'
    BY <1>18 DEF RemoveMarkers, Goto, Finish, TypeOK, Tables, LedgerStates,
       Ledgers, Effective, Completions, Mem, Evidence, MarkerEvidence
  <2>2. WritingLedger'
    BY <1>18 DEF RemoveMarkers, Goto, Finish, TypeOK, Tables, LedgerStates,
       Ledgers, Effective, Completions, Mem, Evidence, MarkerEvidence
  <2>3. WritingEvidence'
    <3>1. CASE pc' # "stage"
      BY <3>1, <1>18 DEF RemoveMarkers, Goto, Finish, WritingEvidence
    <3>2. CASE pc' = "stage"
      <4>1. /\ UNCHANGED <<op, table, ledger, files, stages>> /\ pc = "dispatch"
            /\ Readable /\ mem.table = "markers" /\ "installed" \notin files
            /\ mem' = [mem EXCEPT !.eff = "markers", !.ev = "installed"]
        BY <3>2, <1>18 DEF RemoveMarkers, Goto, Finish
      <4>2. mem'.ev = "installed" /\ mem'.eff = "markers" /\ mem'.table = mem.table
        BY <4>1 DEF Mem, TypeOK
      <4> QED BY <3>2, <4>1, <4>2 DEF WritingEvidence, Removing
    <3> QED BY <3>1, <3>2
  <2>4. Removing'
    BY <1>18 DEF RemoveMarkers, Goto, Finish, TypeOK, Tables, LedgerStates,
       Ledgers, Effective, Completions, Mem, Evidence, MarkerEvidence
  <2> QED BY <2>1, <2>2, <2>3, <2>4
<1>19. CASE RemoveCompletion
  BY <1>19 DEF RemoveCompletion, CompletionMatches, Goto, Finish, TypeOK, Mem,
     Evidence
<1>20. CASE RemovePoll
  <2>1. Coherence'
    BY <1>20 DEF RemovePoll, OwnedShape, Snapshot, Goto, Finish, TypeOK,
       Tables, LedgerStates, Ledgers, Effective, Completions, Mem, Evidence,
       MarkerEvidence
  <2>2. WritingLedger'
    BY <1>20 DEF RemovePoll, OwnedShape, Snapshot, Goto, Finish, TypeOK,
       Tables, LedgerStates, Ledgers, Effective, Completions, Mem, Evidence,
       MarkerEvidence
  <2>3. WritingEvidence'
    BY <1>20 DEF RemovePoll, OwnedShape, Snapshot, Goto, Finish, TypeOK,
       Tables, LedgerStates, Ledgers, Effective, Completions, Mem, Evidence,
       MarkerEvidence
  <2>4. Removing'
    <3>1. CASE mem' = mem
      BY <3>1, <1>20 DEF RemovePoll, Goto, Finish, Removing
    <3>2. CASE mem' # mem
      <4>1. /\ pc = "poll" /\ pc' = "poll" /\ mem' = [Snapshot EXCEPT !.polls = @ + 1]
            /\ UNCHANGED <<op, table, ledger, files, stages>>
        BY <3>2, <1>20 DEF RemovePoll, Goto, Finish
      <4>2. mem'.table = table /\ mem'.eff = mem.eff
        BY <4>1, SnapshotFields DEF Mem
      <4> QED BY <4>1, <4>2 DEF Removing
    <3> QED BY <3>1, <3>2
  <2> QED BY <2>1, <2>2, <2>3, <2>4
<1>21. CASE RemoveDelete
  BY <1>21 DEF RemoveDelete, Goto, Fault, Finish, TypeOK, Mem, Evidence
<1>22. CASE RemoveVerify
  <2>1. Coherence'
    BY <1>22 DEF RemoveVerify, Snapshot, Goto, Finish, TypeOK, Tables,
       LedgerStates, Ledgers, Effective, Completions, Mem, Evidence,
       MarkerEvidence
  <2>2. WritingLedger'
    BY <1>22 DEF RemoveVerify, Snapshot, Goto, Finish, TypeOK, Tables,
       LedgerStates, Ledgers, Effective, Completions, Mem, Evidence,
       MarkerEvidence
  <2>3. WritingEvidence'
    <3>1. CASE pc' = "idle"
      BY <3>1 DEF WritingEvidence
    <3>2. CASE pc' # "idle"
      <4>1. /\ pc = "verify_deleted" /\ pc' = "stage" /\ table = "absent"
            /\ foreign = ledger.pre
            /\ mem' = [Snapshot EXCEPT !.ev = "completion"]
            /\ UNCHANGED <<op, table, ledger, files, stages, orig>>
        BY <3>2, <1>22 DEF RemoveVerify, Goto, Finish
      <4>2. mem'.ev = "completion" /\ mem'.foreign = foreign /\ mem'.eff = mem.eff
        BY <4>1, SnapshotFields DEF Mem
      <4> QED BY <4>1, <4>2 DEF WritingEvidence, Removing, Coherence, TargetKept
    <3> QED BY <3>1, <3>2
  <2>4. Removing'
    BY <1>22 DEF RemoveVerify, Snapshot, Goto, Finish, TypeOK, Tables,
       LedgerStates, Ledgers, Effective, Completions, Mem, Evidence,
       MarkerEvidence
  <2> QED BY <2>1, <2>2, <2>3, <2>4
<1>23. CASE RetireLedger
  BY <1>23 DEF RetireLedger, Goto, TypeOK, Mem, Evidence
<1>24. CASE RetireIntent
  BY <1>24 DEF RetireIntent, Goto, TypeOK, Mem, Evidence
<1>25. CASE RetireInstalled
  BY <1>25 DEF RetireInstalled, Goto, Finish, TypeOK, Mem, Evidence
<1>26. CASE RetireCompletion
  BY <1>26 DEF RetireCompletion, Finish, TypeOK, Mem, Evidence
<1>27. CASE EvidenceFails
  BY <1>27 DEF EvidenceFails, Fault, Finish, TypeOK, Mem, Evidence
<1>28. CASE SystemFails
  BY <1>28 DEF SystemFails, Fault, Finish, TypeOK, Mem, Evidence
<1>29. CASE Drift
  BY <1>29 DEF Drift, process, TypeOK, Mem, Evidence
<1>30. CASE Kill
  BY <1>30 DEF Kill, Fault, Finish, TypeOK, Mem, Evidence
<1>31. CASE UNCHANGED vars
  BY <1>31 DEF vars, process
<1> QED
  BY <1>1, <1>2, <1>3, <1>4, <1>5, <1>6, <1>7, <1>8, <1>9, <1>10, <1>11,
     <1>12, <1>13, <1>14, <1>15, <1>16, <1>17, <1>18, <1>19, <1>20, <1>21,
     <1>22, <1>23, <1>24, <1>25, <1>26, <1>27, <1>28, <1>29, <1>30, <1>31 DEF
     Next, Command, Step, Disturbance, InstallStep, MarkerStep, EvidenceStep,
     RemoveStep

-----------------------------------------------------------------------------
(* Every reachable state of the firewall commands, under any kills, failing *)
(* calls and foreign drift, satisfies the inductive invariant.              *)
THEOREM Invariance == Spec => []Inv
<1>1. Init => Inv
  BY InitInv
<1>2. Inv /\ [Next]_vars => Inv'
  BY InvStep
<1> QED BY <1>1, <1>2, PTL DEF Spec

(* The variables of firewall_boundary.py's model keep their types. *)
THEOREM TypeCorrect == Spec => []TypeOK
<1>1. Inv => TypeOK
  BY DEF Inv
<1> QED BY <1>1, Invariance, PTL

(* At every instant, also in the middle of install-markers or remove, an   *)
(* installed table has its ledger file and, for marker rules, its intent,  *)
(* and no completion record denies it.                                     *)
THEOREM TableAccounted == Spec => []TableIsAccounted
<1>1. Inv => TableIsAccounted
  BY DEF Inv, Coherence
<1> QED BY <1>1, Invariance, PTL

(* No command replaces the restoration target that prepare recorded. *)
THEOREM TargetIsKept == Spec => []TargetKept
<1>1. Inv => TargetKept
  BY DEF Inv, Coherence
<1> QED BY <1>1, Invariance, PTL

(* write_completion only ever records a restoration that took place. *)
THEOREM CompletionTrue == Spec => []CompletionIsTrue
<1>1. Inv => CompletionIsTrue
  BY DEF Inv, Coherence
<1> QED BY <1>1, Invariance, PTL

-----------------------------------------------------------------------------
(* Commands start when none is running. *)
LEMMA CommandsStartIdle == Inv /\ Command => op = "none"
<1> SUFFICES ASSUME Inv, Command PROVE op = "none"
  OBVIOUS
<1>1. pc = "idle"
  BY DEF Command, Prepare, Install, InstallMarkers, Remove, Counters
<1> QED BY <1>1 DEF Inv, TypeOK

(* The commands that can end well, and where remove is when it does. *)
LEMMA RemoveEndsWell ==
  ASSUME Inv, Next, op = "remove", op' = "none", code' = "OK"
  PROVE  \/ RetireInstalled /\ ~mem.again
         \/ RetireCompletion
<1>1. CASE Command
  BY <1>1, CommandsStartIdle
<1>2. CASE InstallStep \/ MarkerStep \/ EvidenceStep
  BY <1>2 DEF InstallStep, MarkerStep, EvidenceStep, InstallApply, InstallVerify,
     LedgerOpen, LedgerWrite, MarkersApply, MarkersVerify, MarkersEnd, EvidenceStage,
     EvidenceLink, EvidenceUnstage, Goto, Finish, Inv, WritingLedger
<1>3. CASE RemoveStep
  BY <1>3 DEF RemoveStep, ReconcileStages, RemoveOrphan, RemoveMarkers,
     RemoveCompletion, RemovePoll, RemoveDelete, RemoveVerify, RetireLedger,
     RetireIntent, RetireInstalled, RetireCompletion, Goto, Finish, process
<1>4. CASE Disturbance
  BY <1>4 DEF Disturbance, EvidenceFails, SystemFails, Drift, Kill, Finish, process
<1> QED BY <1>1, <1>2, <1>3, <1>4 DEF Next, Step

(* A remove that reports success has removed the table and the ledger and  *)
(* all marker evidence, and has seen the original foreign ruleset.         *)
THEOREM RemoveComplete == Spec => RemoveIsComplete
<1> DEFINE Done == table' = "absent" /\ ledger'.status = "absent"
                   /\ files' \subseteq {"completion"} /\ stages' = {} /\ mem.foreign = orig
<1>1. ASSUME Inv, Next, op = "remove", op' = "none", code' = "OK"
      PROVE  Done
  <2>1. CASE RetireInstalled
    BY <1>1, <2>1 DEF RetireInstalled, Inv, TypeOK, Coherence, CompletionIsTrue, Removing,
       Evidence, ruleset
  <2>2. CASE RetireCompletion
    BY <1>1, <2>2 DEF RetireCompletion, Inv, TypeOK, Coherence, CompletionIsTrue, Removing,
       Evidence, ruleset
  <2> QED BY <1>1, <2>1, <2>2, RemoveEndsWell
<1>2. Inv /\ [Next]_vars
        => [(op = "remove" /\ op' = "none" /\ code' = "OK") => Done]_vars
  BY <1>1
<1> QED BY <1>2, Invariance, PTL DEF Spec, RemoveIsComplete

(* What stops a remove: never evidence that an earlier kill left behind.   *)
THEOREM RetryDoesNotWedge == Spec => RetryNeverWedges
<1> DEFINE Excused == \/ code' \in {"OK", "KILLED", "SYSTEM_FAILED"}
                      \/ code' = "FOREIGN_STATE_DRIFT"
                      \/ code' = "EVIDENCE_INVALID" /\ mem.foreign # orig
                      \/ code' = "LEDGER_INVALID" /\ ledger.status = "torn"
                      \/ code' = "EVIDENCE_MISSING" /\ files = {} /\ table = "absent"
<1>1. ASSUME Inv, Next, op = "remove", op' = "none"
      PROVE  Excused
  <2>1. CASE Command
    BY <1>1, <2>1, CommandsStartIdle
  <2>2. CASE InstallStep
    BY <1>1, <2>2 DEF InstallStep, InstallApply, InstallVerify, LedgerOpen, LedgerWrite,
       Goto, Finish, Inv, WritingLedger
  <2>3. CASE MarkerStep
    BY <1>1, <2>3 DEF MarkerStep, MarkersApply, MarkersVerify, MarkersEnd,
       Goto, Finish, Inv, WritingEvidence
  <2>4. CASE EvidenceStep
    BY <1>1, <2>4 DEF EvidenceStep, EvidenceStage, EvidenceLink, EvidenceUnstage,
       Goto, Finish, Inv, WritingEvidence
  <2>5. CASE RemoveOrphan
    <3>1. pc = "dispatch" /\ ledger.status = "absent" /\ mem.table = table
      BY <1>1, <2>5 DEF RemoveOrphan, Inv, Removing
    <3>2. table = "absent"
      BY <1>1, <3>1 DEF Inv, Coherence, TableIsAccounted
    <3>3. CASE "completion" \notin files
      BY <1>1, <2>5, <3>1, <3>2, <3>3 DEF RemoveOrphan, Finish, Inv, Coherence
    <3>4. CASE "completion" \in files
      <4>1. code' = "EVIDENCE_INVALID" /\ ~OrphanAccepted
        BY <1>1, <2>5, <3>1, <3>2, <3>4 DEF RemoveOrphan, Finish, Goto
      <4>2. done.image = orig /\ ("installed" \in files => done.eff = "markers")
        BY <1>1, <3>4 DEF Inv, Coherence, CompletionIsTrue
      <4>3. ("intent" \in files /\ "installed" \notin files) => done.eff = "base"
        BY <1>1, <3>4 DEF Inv, Coherence, TypeOK, Completions, Effective
      <4> QED BY <4>1, <4>2, <4>3 DEF OrphanAccepted
    <3> QED BY <3>3, <3>4
  <2>6. CASE RemoveMarkers
    BY <1>1, <2>6 DEF RemoveMarkers, Goto, Finish, Inv, TypeOK, Coherence, Readable,
       Ledgers, LedgerStates
  <2>7. CASE RemoveCompletion
    <3>1. /\ pc = "completion" /\ op # op'
          /\ Readable /\ EffSettled /\ mem.table = table
      BY <1>1, <2>7 DEF RemoveCompletion, Inv, Removing
    <3>2. "completion" \in files /\ code' = "EVIDENCE_INVALID"
      BY <1>1, <2>7 DEF RemoveCompletion, Goto, Finish
    <3>3. ~CompletionMatches
      BY <1>1, <2>7, <3>1, <3>2 DEF RemoveCompletion, Goto, Inv, Coherence, CompletionIsTrue
    <3>4. /\ table = "absent" /\ done.image = orig /\ ledger.pre = orig
          /\ done.eff = "markers" <=> "installed" \in files
      BY <1>1, <3>1, <3>2 DEF Inv, Coherence, CompletionIsTrue, TargetKept, Readable
    <3>5. done.eff = mem.eff
      BY <1>1, <3>1, <3>4 DEF Inv, TypeOK, EffSettled, Completions, Mem, Effective
    <3>6. mem.foreign # orig
      BY <1>1, <3>3, <3>4, <3>5 DEF CompletionMatches, Inv, TypeOK, Completions
    <3> QED BY <3>2, <3>6
  <2>8. CASE RemovePoll
    BY <1>1, <2>8 DEF RemovePoll, OwnedShape, Goto, Finish, Inv, Removing
  <2>9. CASE RemoveDelete \/ RemoveVerify
    BY <1>1, <2>9 DEF RemoveDelete, RemoveVerify, Goto, Finish, Inv, Removing
  <2>10. CASE ReconcileStages \/ RetireLedger \/ RetireIntent \/ RetireInstalled
              \/ RetireCompletion
    BY <1>1, <2>10 DEF ReconcileStages, RetireLedger, RetireIntent, RetireInstalled,
       RetireCompletion, Goto, Finish, process
  <2>11. CASE Disturbance
    BY <1>1, <2>11 DEF Disturbance, EvidenceFails, SystemFails, Drift, Kill, Finish, process
  <2> QED BY <1>1, <2>1, <2>2, <2>3, <2>4, <2>5, <2>6, <2>7, <2>8, <2>9, <2>10, <2>11
          DEF Next, Step, RemoveStep
<1>2. Inv /\ [Next]_vars => [(op = "remove" /\ op' = "none") => Excused]_vars
  BY <1>1
<1> QED BY <1>2, Invariance, PTL DEF Spec, RetryNeverWedges

-----------------------------------------------------------------------------
(* The commands hand the evidence over as FirewallEvidence says: the       *)
(* ledger appears first, the completion record before the ledger goes.     *)
THEOREM EvidenceRefined == Spec => ImplementsEvidence
<1>1. Init => FE!Init
  BY DEF Init, FE!Init, Phase
<1>2. ASSUME Inv, [Next]_vars
      PROVE  [FE!Next]_Phase
  <2>1. CASE UNCHANGED <<ledger, files>>
    BY <2>1 DEF Phase
  <2>2. CASE LedgerOpen
    BY <1>2, <2>2 DEF LedgerOpen, Phase, Inv, TypeOK, WritingLedger, Ledgers, FE!Next,
       FE!Prepare
  <2>3. CASE LedgerWrite
    BY <1>2, <2>3 DEF LedgerWrite, Phase, Inv, TypeOK, WritingLedger, Ledgers, FE!Next,
       FE!Prepare
  <2>4. CASE EvidenceLink
    BY <1>2, <2>4 DEF EvidenceLink, Phase, Inv, TypeOK, WritingEvidence, Readable, FE!Next,
       FE!Restore, FE!Later
  <2>5. CASE RetireLedger
    BY <1>2, <2>5 DEF RetireLedger, Phase, Inv, TypeOK, Removing, Ledgers, FE!Next,
       FE!Restore, FE!Later
  <2>6. CASE RetireIntent \/ RetireInstalled
    BY <1>2, <2>6 DEF RetireIntent, RetireInstalled, Phase
  <2>7. CASE RetireCompletion
    BY <1>2, <2>7 DEF RetireCompletion, Phase, Inv, Removing, FE!Next, FE!Restore, FE!Later
  <2>8. \/ UNCHANGED <<ledger, files>>
        \/ LedgerOpen \/ LedgerWrite \/ EvidenceLink
        \/ RetireLedger \/ RetireIntent \/ RetireInstalled \/ RetireCompletion
    <3>1. CASE Command
      BY <3>1 DEF Command, Prepare, Install, InstallMarkers, Remove, Counters, disk
    <3>2. CASE Step
      BY <3>2 DEF Step, InstallStep, MarkerStep, EvidenceStep, RemoveStep, InstallApply,
         InstallVerify, MarkersApply, MarkersVerify, MarkersEnd, EvidenceStage,
         EvidenceUnstage, ReconcileStages, RemoveOrphan, RemoveMarkers, RemoveCompletion,
         RemovePoll, RemoveDelete, RemoveVerify, disk
    <3>3. CASE Disturbance
      BY <3>3 DEF Disturbance, EvidenceFails, SystemFails, Drift, Kill, disk
    <3> QED BY <1>2, <3>1, <3>2, <3>3 DEF Next, vars, disk
  <2> QED BY <2>1, <2>2, <2>3, <2>4, <2>5, <2>6, <2>7, <2>8
<1> QED BY <1>1, <1>2, Invariance, PTL DEF Spec, ImplementsEvidence, FE!Spec

=============================================================================
