------------------------- MODULE FitnessReplayProofs -------------------------
(***************************************************************************)
(* The Fitness replay's receipt: proofs for any number of migrations, any  *)
(* sessions and any number of mishaps.  A PASS is written only for a right *)
(* candidate and stays true; a BLOCKED receipt is never replaced by one.   *)
(***************************************************************************)
EXTENDS FitnessReplay, WellFoundedInduction, TLAPS

-----------------------------------------------------------------------------
(* The inductive invariant, part by part *)

BeforeMigrations == {"stage", "attest", "network", "database", "inspect"}
BeforeSessions == BeforeMigrations \cup {"migrate", "candidate"}
RunSteps ==
    BeforeSessions \cup {"sessions", "automation", "immutability", "privileges", "rerun",
                         "canaries"}
Cleaning == {"remove", "count", "unstage", "close"}
Writing == {"truncate", "write"}

Databases == [candidate: BOOLEAN, numbers: SUBSET Nat, next: Nat, stamped: BOOLEAN,
              session: [Sessions -> {"idle", "open", "committed", "failed"}],
              given: [Sessions -> SUBSET Nat], touched: BOOLEAN]

DbShape == db \in Databases

(* Which command is at which step, and what it has written when it is there *)
StepsKnown ==
    /\ pc \in RunSteps => job = "run" /\ failure = "NONE"
    /\ pc = "read" => job = "recover"
    /\ pc # "off" => job \in {"run", "recover"}
    /\ job = "run" /\ pc # "write" => artifact = Missing
    /\ pc = "write" => artifact = Torn
    /\ pc \in Writing => ValidReceipt(receipt)
    /\ job = "run" /\ pc \in RunSteps \cup Cleaning => receipt.status = "BLOCKED"
    /\ pc # "off" => receipt.status \in {"PASS", "BLOCKED"}

(* How many migrations the receipt counts *)
RecordsKnown ==
    /\ pc \in BeforeMigrations => receipt.records = 0
    /\ pc = "migrate" => receipt.records < Base
    /\ pc = "candidate" => receipt.records = Base

Fixture == {0, 1, 2, 4, 5}
HasMaximum(S) == \E m \in S: \A n \in S: n <= m

(* What the sessions have taken so far; a candidate that fills the gap has *)
(* given it to the first of them.                                          *)
SessionsKnown ==
    /\ job = "run" /\ pc \in {"off"} \cup BeforeSessions => db = NewDatabase
    /\ pc \in {"sessions", "automation"} => db.stamped = (defect = "stamps the automation")
    /\ pc = "sessions" =>
          /\ Fixture \subseteq db.numbers /\ HasMaximum(db.numbers)
          /\ \A s \in Sessions:
                /\ db.session[s] \in {"open", "committed"} =>
                      \E n \in db.given[s]: db.given[s] = {n}
                /\ db.session[s] = "committed" => db.given[s] \subseteq db.numbers
          /\ defect = "takes the maximum" => db.next = 6
          /\ defect = "fills the gap" =>
                \/ db.numbers = Fixture /\ \A s \in Sessions: db.session[s] = "idle"
                \/ \E s \in Sessions: db.session[s] # "idle" /\
                      (db.session[s] = "failed" \/ db.given[s] = {3})

Joined == {"all succeeded", "distinct", "above high water", "next above all"}

(* What the receipt of a run shows of the candidate is true of it. *)
ProofsKnown ==
    job = "run" =>
       /\ pc \in BeforeSessions \cup {"sessions"} => receipt.shown \cap Joined = {}
       /\ Joined \subseteq receipt.shown =>
             /\ defect \notin {"takes the maximum", "fills the gap"}
             /\ Cardinality(Given) = Cardinality(Sessions)
       /\ "automation null" \in receipt.shown /\ BooleanText[TRUE] = "t" =>
             defect # "stamps the automation"
       /\ "immutable" \in receipt.shown => defect # "mutable"
       /\ "privileges" \in receipt.shown =>
             BooleanText[TRUE] = "t" /\ defect # "public sequence"
       /\ "same state" \in receipt.shown => defect # "not idempotent"

(* A run without a failure has given up on no request, and its cleanup()   *)
(* has left nothing if it says so.                                         *)
RunKnows ==
    /\ job = "run" /\ pc = "off" => failure = "NONE"
    /\ job = "run" /\ failure = "NONE" =>
          /\ daemon.late = {}
          /\ pc \in Cleaning \ {"remove"} /\ clean => daemon.objects = {}
    /\ pc = "close" /\ receipt.succeeded => clean /\ "source" \notin receipt.nonzero

Right ==
    /\ defect = "none" /\ Cardinality(Given) = Cardinality(Sessions)
    /\ daemon.objects = {} /\ daemon.late = {}

(* A PASS in the artifact, or about to be written, is right. *)
PassStands ==
    /\ pc # "off" /\ receipt.status = "PASS" => Right
    /\ artifact.status = "PASS" => Right

(* A job none of whose steps has failed so far goes on with a PASS.        *)
RecoveryKnows ==
    /\ job = "recover" /\ pc \in {"read", "remove", "count"} => failure = "NONE"
    /\ pc = "read" => ~clean /\ ~runtime /\ receipt.status = "BLOCKED"
    /\ job = "recover" /\ pc \in {"unstage", "close"} /\ clean => failure = "NONE"
    /\ job = "recover" /\ pc \in {"off", "read"} /\ ~failed => artifact.status = "PASS"
    /\ job = "recover" /\ pc \in Cleaning /\ ~failed => receipt.status = "PASS"
    /\ job = "recover" /\ pc \in Writing /\ ~failed /\ receipt.succeeded =>
          receipt.status = "PASS"
    /\ job \in {"verify", "done"} /\ ~failed => artifact.status = "PASS"

(* No PASS is there, or can come any more. *)
NeverPass ==
    /\ job # "run" /\ artifact.status # "PASS"
    /\ pc # "off" => receipt.status # "PASS"

BlockedKnown == artifact.status = "BLOCKED" => NeverPass

Inv ==
    /\ TypeOK /\ DbShape /\ StepsKnown /\ RecordsKnown /\ SessionsKnown /\ ProofsKnown
    /\ RunKnows /\ PassStands /\ RecoveryKnows /\ BlockedKnown

-----------------------------------------------------------------------------
(* Lemmas on receipts and mishaps *)

(* The receipts the commands start from *)
LEMMA DefaultsAre ==
  /\ DefaultReceipt \in Receipts /\ DefaultReceipt.status = "BLOCKED"
  /\ DefaultReceipt.shown = {} /\ DefaultReceipt.records = 0
  /\ Missing \in Receipts /\ Missing.status = "missing"
  /\ Torn \in Receipts /\ Torn.status = "torn"
<1>1. "INTERNAL_ERROR" \in Failures \cup {"NONE"} /\ 0 \in 0..(Base + 1) /\ 0 \in 0..1
      /\ Counters \in SUBSET Counters /\ {} \in SUBSET Proofs
  BY BoundsAssumption DEF Failures
<1> HIDE DEF Counters, Failures, Proofs
<1>2. /\ DefaultReceipt \in Receipts /\ DefaultReceipt.status = "BLOCKED"
      /\ DefaultReceipt.shown = {} /\ DefaultReceipt.records = 0
  BY <1>1 DEF DefaultReceipt, Receipts
<1>3. Missing \in Receipts /\ Missing.status = "missing"
  BY <1>2 DEF Missing, Receipts
<1>4. Torn \in Receipts /\ Torn.status = "torn"
  BY <1>2 DEF Torn, Receipts
<1> QED BY <1>2, <1>3, <1>4

(* A mishap stays within its bound. *)
LEMMA ChargeType ==
  ASSUME faults \in 0..MaxFaults, NEW ok, Charge(ok)
  PROVE  faults' \in 0..MaxFaults
BY BoundsAssumption DEF Charge

(* The names of the proofs, counters and failures used below *)
LEMMA NamesAre ==
  /\ {"attested", "same network", "canaries", "gap", "automation null", "immutable",
      "privileges", "same state"} \cup Joined \subseteq Proofs
  /\ Objects \cup {"source", "listeners", "runtime"} \subseteq Counters
  /\ {"NONE", "INTERNAL_ERROR", "CLEANUP_RESIDUE", "PRIVATE_RUNTIME_UNAVAILABLE",
      "CONTAINMENT_PROOF_FAILED", "SOURCE_STAGE_FAILED", "LOCAL_DATABASE_START_FAILED",
      "MIGRATION_REPLAY_FAILED", "FIXTURE_PROOF_FAILED", "IMMUTABILITY_PROOF_FAILED",
      "PRIVILEGE_PROOF_FAILED", "IDEMPOTENCY_PROOF_FAILED"} \subseteq Failures \cup {"NONE"}
BY DEF Proofs, Joined, Counters, Failures

(* A proof shown keeps the receipt a receipt. *)
LEMMA ShowsType ==
  ASSUME receipt \in Receipts, NEW what \in SUBSET Proofs, Shows(what)
  PROVE  receipt' \in Receipts
BY DEF Shows, Receipts

(* Every step leaves a receipt in the command's hands. *)
LEMMA ReceiptTyped ==
  ASSUME TypeOK, RecordsKnown, Next
  PROVE  receipt' \in Receipts
<1>1. CASE StartRun
  BY <1>1, DefaultsAre, BoundsAssumption DEF StartRun, TypeOK, Receipts
<1>2. CASE StageSource
  <2>1. UNCHANGED receipt \/ \E ok \in BOOLEAN: receipt' = [receipt EXCEPT !.staged = ok]
    BY <1>2 DEF StageSource
  <2> QED
    BY <2>1 DEF TypeOK, Receipts
<1>3. CASE Attest
  <2>1. {"attested"} \in SUBSET Proofs
    BY NamesAre, Zenon DEF Joined
  <2>2. UNCHANGED receipt \/ Shows({"attested"})
    BY <1>3 DEF Attest
  <2> QED
    BY <2>1, <2>2, ShowsType DEF TypeOK
<1>4. CASE CreateNetwork
  BY <1>4, DefaultsAre, BoundsAssumption DEF CreateNetwork, Request, Raise, Advance, TypeOK,
     Receipts
<1>5. CASE StartDatabase
  BY <1>5, DefaultsAre, BoundsAssumption DEF StartDatabase, Request, Raise, Advance, TypeOK,
     Receipts
<1>6. CASE InspectDatabase
  <2>1. receipt.shown \cup {"same network"} \in SUBSET Proofs
    BY NamesAre DEF TypeOK, Receipts
  <2>2. \/ UNCHANGED receipt
        \/ \E what \in SUBSET Proofs:
              receipt' = [receipt EXCEPT !.closed = TRUE, !.shown = what]
    BY <1>6, <2>1 DEF InspectDatabase
  <2>3. receipt \in Receipts
    BY DEF TypeOK
  <2>4. ASSUME NEW what \in SUBSET Proofs,
               receipt' = [receipt EXCEPT !.closed = TRUE, !.shown = what]
        PROVE  receipt' \in Receipts
    BY <2>3, <2>4 DEF Receipts
  <2> QED
    BY <2>2, <2>3, <2>4
<1>7. CASE ApplyBase
  <2>1. receipt.records + 1 \in 0..(Base + 1)
    BY <1>7, BoundsAssumption DEF ApplyBase, RecordsKnown, TypeOK, Receipts
  <2>2. \/ UNCHANGED receipt
        \/ \E n \in 0..(Base + 1): receipt' = [receipt EXCEPT !.records = n]
    BY <1>7, <2>1 DEF ApplyBase
  <2> QED
    BY <2>2 DEF TypeOK, Receipts
<1>8. CASE ApplyCandidate
  <2>1. receipt.shown \cup {"gap"} \in SUBSET Proofs
    BY NamesAre DEF TypeOK, Receipts
  <2>2. receipt.records + 1 \in 0..(Base + 1)
    BY <1>8, BoundsAssumption DEF ApplyCandidate, RecordsKnown
  <2>3. 1 \in 0..1
    OBVIOUS
  <2>4. \/ UNCHANGED receipt
        \/ \E n \in 0..(Base + 1), one \in 0..1, what \in SUBSET Proofs:
              receipt' = [receipt EXCEPT !.records = n, !.candidate = one, !.shown = what]
    BY <1>8, <2>1, <2>2, <2>3 DEF ApplyCandidate
  <2>5. receipt \in Receipts
    BY DEF TypeOK
  <2>6. ASSUME NEW n \in 0..(Base + 1), NEW one \in 0..1, NEW what \in SUBSET Proofs,
               receipt' = [receipt EXCEPT !.records = n, !.candidate = one, !.shown = what]
        PROVE  receipt' \in Receipts
    BY <2>5, <2>6 DEF Receipts
  <2> QED
    BY <2>4, <2>5, <2>6
<1>9. ASSUME NEW s \in Sessions, SessionAllocates(s)
      PROVE  receipt' \in Receipts
  BY <1>9, DefaultsAre, BoundsAssumption DEF SessionAllocates, process, TypeOK, Receipts
<1>10. ASSUME NEW s \in Sessions, SessionEnds(s)
      PROVE  receipt' \in Receipts
  BY <1>10, DefaultsAre, BoundsAssumption DEF SessionEnds, process, TypeOK, Receipts
<1>11. CASE JoinSessions
  <2>1. \A what \in SUBSET Joined: what \in SUBSET Proofs
    BY NamesAre, Zenon
  <2>2. UNCHANGED receipt \/ \E what \in SUBSET Joined: Shows(what)
    BY <1>11 DEF JoinSessions, Joined
  <2> QED
    BY <2>1, <2>2, ShowsType DEF TypeOK
<1>12. CASE CheckAutomation
  <2>1. {"automation null"} \in SUBSET Proofs
    BY NamesAre, Zenon DEF Joined
  <2>2. UNCHANGED receipt \/ Shows({"automation null"})
    BY <1>12 DEF CheckAutomation, Judge
  <2> QED
    BY <2>1, <2>2, ShowsType DEF TypeOK
<1>13. CASE CheckImmutability
  <2>1. {"immutable"} \in SUBSET Proofs
    BY NamesAre, Zenon DEF Joined
  <2>2. UNCHANGED receipt \/ Shows({"immutable"})
    BY <1>13 DEF CheckImmutability, Judge
  <2> QED
    BY <2>1, <2>2, ShowsType DEF TypeOK
<1>14. CASE CheckPrivileges
  <2>1. {"privileges"} \in SUBSET Proofs
    BY NamesAre, Zenon DEF Joined
  <2>2. UNCHANGED receipt \/ Shows({"privileges"})
    BY <1>14 DEF CheckPrivileges, Judge
  <2> QED
    BY <2>1, <2>2, ShowsType DEF TypeOK
<1>15. CASE RerunCandidate
  <2>1. receipt.shown \in SUBSET Proofs /\ receipt.shown \cup {"same state"} \in SUBSET Proofs
    BY NamesAre DEF TypeOK, Receipts
  <2>2. \/ UNCHANGED receipt
        \/ \E what \in SUBSET Proofs:
              receipt' = [receipt EXCEPT !.rerun = TRUE, !.shown = what]
    BY <1>15, <2>1 DEF RerunCandidate
  <2>3. receipt \in Receipts
    BY DEF TypeOK
  <2>4. ASSUME NEW what \in SUBSET Proofs,
               receipt' = [receipt EXCEPT !.rerun = TRUE, !.shown = what]
        PROVE  receipt' \in Receipts
    BY <2>3, <2>4 DEF Receipts
  <2> QED
    BY <2>2, <2>3, <2>4
<1>16. CASE NetworkCanaries
  <2>1. {"canaries"} \in SUBSET Proofs
    BY NamesAre, Zenon DEF Joined
  <2>2. UNCHANGED receipt \/ Shows({"canaries"})
    BY <1>16 DEF NetworkCanaries
  <2> QED
    BY <2>1, <2>2, ShowsType DEF TypeOK
<1>17. CASE RemoveObjects
  BY <1>17, DefaultsAre, BoundsAssumption DEF RemoveObjects, Advance, TypeOK, Receipts
<1>18. CASE CleanupRaises
  BY <1>18, DefaultsAre, BoundsAssumption DEF CleanupRaises, TypeOK, Receipts
<1>19. CASE CountObjects
  <2>1. PICK some \in SUBSET Counters:
               receipt' = [receipt EXCEPT !.attempted = TRUE, !.nonzero = some]
    <3>1. ASSUME NEW blind \in SUBSET Counters
          PROVE  daemon.objects \cup blind
                    \cup (IF daemon.objects = {} THEN {} ELSE {"runtime"})
                    \cup (IF "container" \in daemon.objects THEN {"listeners"} ELSE {})
                    \cup {"source"} \in SUBSET Counters
      BY NamesAre DEF TypeOK
    <3> QED
      BY <1>19, <3>1 DEF CountObjects
  <2> QED
    BY <2>1 DEF TypeOK, Receipts
<1>20. CASE RemoveSource
  <2>1. PICK one \in BOOLEAN, two \in BOOLEAN, some \in SUBSET Counters:
            receipt' = [receipt EXCEPT !.attempted = one, !.succeeded = two, !.nonzero = some]
    <3>1. /\ (receipt.attempted \/ job = "recover") \in BOOLEAN
          /\ receipt.nonzero \ {"source"} \in SUBSET Counters
          /\ receipt.nonzero \cup {"source"} \in SUBSET Counters
      BY NamesAre DEF TypeOK, Receipts
    <3>2. \A ok \in BOOLEAN: (clean /\ ok) \in BOOLEAN
      OBVIOUS
    <3> QED
      BY <1>20, <3>1, <3>2 DEF RemoveSource
  <2> QED
    BY <2>1 DEF TypeOK, Receipts
<1>21. CASE StartRecovery
  BY <1>21, DefaultsAre, BoundsAssumption DEF StartRecovery, TypeOK, Receipts
<1>22. CASE ReadReceipt
  BY <1>22, DefaultsAre, BoundsAssumption DEF ReadReceipt, Raise, Advance, TypeOK, Receipts
<1>23. CASE CloseReceipt
  <2>1. \A r \in Receipts, code \in Failures \cup {"NONE"}: Closed(r, code) \in Receipts
    BY DEF Closed, Receipts
  <2>2. "CLEANUP_RESIDUE" \in Failures \cup {"NONE"}
    BY NamesAre, Zenon
  <2>3. [receipt EXCEPT !.status = "BLOCKED"] \in Receipts
    BY DEF TypeOK, Receipts
  <2> QED
    BY <1>23, <2>1, <2>2, <2>3 DEF CloseReceipt, RecoveredClosed, TypeOK
<1>24. CASE TruncateArtifact
  BY <1>24, DefaultsAre, BoundsAssumption DEF TruncateArtifact, Advance, EndsBadly, TypeOK,
     Receipts
<1>25. CASE WriteArtifact
  BY <1>25, DefaultsAre, BoundsAssumption DEF WriteArtifact, Advance, TypeOK, Receipts
<1>26. CASE VerifyReceipt
  BY <1>26, DefaultsAre, BoundsAssumption DEF VerifyReceipt, process, TypeOK, Receipts
<1>27. CASE Die
  BY <1>27, DefaultsAre, BoundsAssumption DEF Die, EndsBadly, TypeOK, Receipts
<1>28. CASE ServeLate
  BY <1>28, DefaultsAre, BoundsAssumption DEF ServeLate, process, TypeOK, Receipts
<1> QED
  BY <1>1, <1>2, <1>3, <1>4, <1>5, <1>6, <1>7, <1>8, <1>9, <1>10, <1>11, <1>12, <1>13, <1>14,
     <1>15, <1>16, <1>17, <1>18, <1>19, <1>20, <1>21, <1>22, <1>23, <1>24, <1>25, <1>26,
     <1>27, <1>28
     DEF Next, Run, Finish

-----------------------------------------------------------------------------
(* Types of everything but the receipts *)

PcValues ==
    {"off", "read"} \cup RunSteps \cup Cleaning \cup Writing

(* TypeOK without the receipts *)
PlainTypes ==
    /\ job \in {"run", "recover", "verify", "done"} /\ failed \in BOOLEAN /\ pc \in PcValues
    /\ failure \in Failures \cup {"NONE"} /\ runtime \in BOOLEAN /\ clean \in BOOLEAN
    /\ daemon \in [objects: SUBSET Objects, late: SUBSET Objects]
    /\ source \in BOOLEAN /\ defect \in Defects /\ faults \in 0..MaxFaults

(* The split of TypeOK *)
LEMMA PlainTypesAre ==
  TypeOK <=> /\ PlainTypes /\ receipt \in Receipts /\ artifact \in Receipts
             /\ artifact \in {Missing, Torn} \/ ValidReceipt(artifact)
BY DEF TypeOK, PlainTypes, PcValues, RunSteps, BeforeSessions, BeforeMigrations, Cleaning,
   Writing

(* A request asks for objects of the daemon, or is given up on with them. *)
LEMMA RequestType ==
  ASSUME daemon \in [objects: SUBSET Objects, late: SUBSET Objects],
         NEW objects \in SUBSET Objects, NEW next, Request(objects, next)
  PROVE  daemon' \in [objects: SUBSET Objects, late: SUBSET Objects]
<1>1. PICK how \in {"made", "partly", "refused", "lost"}:
         \E some \in CASE how = "made" -> {objects} [] how = "partly" -> SUBSET objects
                       [] OTHER -> {{}}:
            daemon' = [daemon EXCEPT !.objects = @ \cup some,
                                     !.late = IF how = "lost" THEN @ \cup objects ELSE @]
  BY DEF Request
<1>2. PICK some \in SUBSET Objects:
         daemon' = [daemon EXCEPT !.objects = @ \cup some,
                                  !.late = IF how = "lost" THEN @ \cup objects ELSE @]
  BY <1>1
<1> QED
  BY <1>2

(* Every step keeps the types of everything but the receipts. *)
LEMMA PlainTyped ==
  ASSUME PlainTypes, Next
  PROVE  PlainTypes'
<1>1. CASE StartRun
  BY <1>1, NamesAre, ChargeType DEF StartRun, PlainTypes, PcValues, RunSteps, BeforeSessions,
     BeforeMigrations, Cleaning, Writing
<1>2. CASE StageSource
  BY <1>2, NamesAre, ChargeType DEF StageSource, Raise, Advance, PlainTypes, PcValues,
     RunSteps, BeforeSessions, BeforeMigrations, Cleaning, Writing
<1>3. CASE Attest
  BY <1>3, NamesAre, ChargeType DEF Attest, Shows, Advance, PlainTypes, PcValues, RunSteps,
     BeforeSessions, BeforeMigrations, Cleaning, Writing
<1>4. CASE CreateNetwork
  <2>1. {"network"} \in SUBSET Objects
    BY DEF Objects
  <2>2. Request({"network"}, "database")
    BY <1>4 DEF CreateNetwork
  <2>3. daemon' \in [objects: SUBSET Objects, late: SUBSET Objects]
    BY <2>1, <2>2, RequestType DEF PlainTypes
  <2>4. \/ Advance("database")
        \/ Raise("INTERNAL_ERROR") \/ Raise("LOCAL_DATABASE_START_FAILED")
    BY <2>2 DEF Request
  <2>5. faults' \in 0..MaxFaults
    BY <2>2, ChargeType DEF Request, PlainTypes
  <2> QED
    BY <1>4, <2>3, <2>4, <2>5, NamesAre DEF CreateNetwork, Raise, Advance, PlainTypes,
       PcValues, RunSteps,
       BeforeSessions, BeforeMigrations, Cleaning
<1>5. CASE StartDatabase
  <2>1. {"container", "volume"} \in SUBSET Objects
    BY DEF Objects
  <2>2. Request({"container", "volume"}, "inspect")
    BY <1>5 DEF StartDatabase
  <2>3. daemon' \in [objects: SUBSET Objects, late: SUBSET Objects]
    BY <2>1, <2>2, RequestType DEF PlainTypes
  <2>4. \/ Advance("inspect")
        \/ Raise("INTERNAL_ERROR") \/ Raise("LOCAL_DATABASE_START_FAILED")
    BY <2>2 DEF Request
  <2>5. faults' \in 0..MaxFaults
    BY <2>2, ChargeType DEF Request, PlainTypes
  <2> QED
    BY <1>5, <2>3, <2>4, <2>5, NamesAre DEF StartDatabase, Raise, Advance, PlainTypes,
       PcValues, RunSteps,
       BeforeSessions, BeforeMigrations, Cleaning
<1>6. CASE InspectDatabase
  BY <1>6, NamesAre, ChargeType DEF InspectDatabase, Raise, Advance, PlainTypes, PcValues,
     RunSteps, BeforeSessions, BeforeMigrations, Cleaning, Writing
<1>7. CASE ApplyBase
  BY <1>7, NamesAre, ChargeType DEF ApplyBase, Raise, Advance, PlainTypes, PcValues,
     RunSteps, BeforeSessions, BeforeMigrations, Cleaning, Writing
<1>8. CASE ApplyCandidate
  BY <1>8, NamesAre, ChargeType DEF ApplyCandidate, Raise, Advance, PlainTypes, PcValues,
     RunSteps, BeforeSessions, BeforeMigrations, Cleaning, Writing
<1>9. ASSUME NEW s \in Sessions, SessionAllocates(s)
      PROVE  PlainTypes'
  BY <1>9, NamesAre, ChargeType DEF SessionAllocates, process, PlainTypes, PcValues,
     RunSteps, BeforeSessions, BeforeMigrations, Cleaning, Writing
<1>10. ASSUME NEW s \in Sessions, SessionEnds(s)
      PROVE  PlainTypes'
  BY <1>10, NamesAre, ChargeType DEF SessionEnds, process, PlainTypes, PcValues, RunSteps,
     BeforeSessions, BeforeMigrations, Cleaning, Writing
<1>11. CASE JoinSessions
  BY <1>11, NamesAre, ChargeType DEF JoinSessions, Raise, Advance, Shows, PlainTypes,
     PcValues, RunSteps, BeforeSessions, BeforeMigrations, Cleaning, Writing
<1>12. CASE CheckAutomation
  BY <1>12, NamesAre, ChargeType DEF CheckAutomation, Judge, Raise, Advance, Shows,
     PlainTypes, PcValues, RunSteps, BeforeSessions, BeforeMigrations, Cleaning, Writing
<1>13. CASE CheckImmutability
  BY <1>13, NamesAre, ChargeType DEF CheckImmutability, Judge, Raise, Advance, Shows,
     PlainTypes, PcValues, RunSteps, BeforeSessions, BeforeMigrations, Cleaning, Writing
<1>14. CASE CheckPrivileges
  BY <1>14, NamesAre, ChargeType DEF CheckPrivileges, Judge, Raise, Advance, Shows,
     PlainTypes, PcValues, RunSteps, BeforeSessions, BeforeMigrations, Cleaning, Writing
<1>15. CASE RerunCandidate
  BY <1>15, NamesAre, ChargeType DEF RerunCandidate, Raise, Advance, PlainTypes, PcValues,
     RunSteps, BeforeSessions, BeforeMigrations, Cleaning, Writing
<1>16. CASE NetworkCanaries
  BY <1>16, NamesAre, ChargeType DEF NetworkCanaries, Raise, Advance, Shows, PlainTypes,
     PcValues, RunSteps, BeforeSessions, BeforeMigrations, Cleaning, Writing
<1>17. CASE RemoveObjects
  BY <1>17, NamesAre, ChargeType DEF RemoveObjects, Advance, PlainTypes, PcValues, RunSteps,
     BeforeSessions, BeforeMigrations, Cleaning, Writing
<1>18. CASE CleanupRaises
  BY <1>18, NamesAre, ChargeType DEF CleanupRaises, PlainTypes, PcValues, RunSteps,
     BeforeSessions, BeforeMigrations, Cleaning, Writing
<1>19. CASE CountObjects
  BY <1>19, NamesAre, ChargeType DEF CountObjects, Advance, PlainTypes, PcValues, RunSteps,
     BeforeSessions, BeforeMigrations, Cleaning, Writing
<1>20. CASE RemoveSource
  BY <1>20, NamesAre, ChargeType DEF RemoveSource, Advance, PlainTypes, PcValues, RunSteps,
     BeforeSessions, BeforeMigrations, Cleaning, Writing
<1>21. CASE StartRecovery
  BY <1>21, NamesAre, ChargeType DEF StartRecovery, PlainTypes, PcValues, RunSteps,
     BeforeSessions, BeforeMigrations, Cleaning, Writing
<1>22. CASE ReadReceipt
  BY <1>22, NamesAre, ChargeType DEF ReadReceipt, Raise, Advance, Raise, PlainTypes,
     PcValues, RunSteps, BeforeSessions, BeforeMigrations, Cleaning, Writing
<1>23. CASE CloseReceipt
  BY <1>23, NamesAre, ChargeType DEF CloseReceipt, Advance, EndsBadly, PlainTypes, PcValues,
     RunSteps, BeforeSessions, BeforeMigrations, Cleaning, Writing
<1>24. CASE TruncateArtifact
  BY <1>24, NamesAre, ChargeType DEF TruncateArtifact, Advance, EndsBadly, PlainTypes,
     PcValues, RunSteps, BeforeSessions, BeforeMigrations, Cleaning, Writing
<1>25. CASE WriteArtifact
  BY <1>25, NamesAre, ChargeType DEF WriteArtifact, Advance, PlainTypes, PcValues, RunSteps,
     BeforeSessions, BeforeMigrations, Cleaning, Writing
<1>26. CASE VerifyReceipt
  BY <1>26, NamesAre, ChargeType DEF VerifyReceipt, process, PlainTypes, PcValues, RunSteps,
     BeforeSessions, BeforeMigrations, Cleaning, Writing
<1>27. CASE Die
  <2>1. \E asked \in SUBSET Objects: daemon' = [daemon EXCEPT !.late = daemon.late \cup asked]
    BY <1>27 DEF Die, Objects
  <2>2. daemon' \in [objects: SUBSET Objects, late: SUBSET Objects]
    BY <2>1 DEF PlainTypes
  <2>3. faults' \in 0..MaxFaults
    BY <1>27, ChargeType DEF Die, PlainTypes
  <2> QED
    BY <1>27, <2>2, <2>3 DEF Die, EndsBadly, PlainTypes, PcValues
<1>28. CASE ServeLate
  <2>1. daemon' \in [objects: SUBSET Objects, late: SUBSET Objects]
    BY <1>28, ZenonT(40) DEF ServeLate, PlainTypes
  <2> QED
    BY <1>28, <2>1 DEF ServeLate, process, PlainTypes
<1> QED
  BY <1>1, <1>2, <1>3, <1>4, <1>5, <1>6, <1>7, <1>8, <1>9, <1>10, <1>11, <1>12, <1>13, <1>14,
     <1>15, <1>16, <1>17, <1>18, <1>19, <1>20, <1>21, <1>22, <1>23, <1>24, <1>25, <1>26,
     <1>27, <1>28
     DEF Next, Run, Finish

(* What is written over the receipt's file validates, or the file is torn. *)
LEMMA ArtifactStep ==
  ASSUME TypeOK, StepsKnown, Next
  PROVE  (artifact \in {Missing, Torn} \/ ValidReceipt(artifact))' /\ artifact' \in Receipts
<1>1. CASE StartRun
  BY <1>1, DefaultsAre DEF StartRun, TypeOK, StepsKnown, Writing
<1>2. CASE StageSource
  BY <1>2, DefaultsAre DEF StageSource, Raise, Advance, TypeOK, StepsKnown, Writing
<1>3. CASE Attest
  BY <1>3, DefaultsAre DEF Attest, Shows, Advance, TypeOK, StepsKnown, Writing
<1>4. CASE CreateNetwork
  BY <1>4, DefaultsAre DEF CreateNetwork, Request, Raise, Advance, TypeOK, StepsKnown,
     Writing
<1>5. CASE StartDatabase
  BY <1>5, DefaultsAre DEF StartDatabase, Request, Raise, Advance, TypeOK, StepsKnown,
     Writing
<1>6. CASE InspectDatabase
  BY <1>6, DefaultsAre DEF InspectDatabase, Raise, Advance, TypeOK, StepsKnown, Writing
<1>7. CASE ApplyBase
  BY <1>7, DefaultsAre DEF ApplyBase, Raise, Advance, TypeOK, StepsKnown, Writing
<1>8. CASE ApplyCandidate
  BY <1>8, DefaultsAre DEF ApplyCandidate, Raise, Advance, TypeOK, StepsKnown, Writing
<1>9. ASSUME NEW s \in Sessions, SessionAllocates(s)
      PROVE  (artifact \in {Missing, Torn} \/ ValidReceipt(artifact))' /\ artifact' \in Receipts
  BY <1>9, DefaultsAre DEF SessionAllocates, process, TypeOK, StepsKnown, Writing
<1>10. ASSUME NEW s \in Sessions, SessionEnds(s)
      PROVE  (artifact \in {Missing, Torn} \/ ValidReceipt(artifact))' /\ artifact' \in Receipts
  BY <1>10, DefaultsAre DEF SessionEnds, process, TypeOK, StepsKnown, Writing
<1>11. CASE JoinSessions
  BY <1>11, DefaultsAre DEF JoinSessions, Raise, Advance, Shows, TypeOK, StepsKnown, Writing
<1>12. CASE CheckAutomation
  BY <1>12, DefaultsAre DEF CheckAutomation, Judge, Raise, Advance, Shows, TypeOK,
     StepsKnown, Writing
<1>13. CASE CheckImmutability
  BY <1>13, DefaultsAre DEF CheckImmutability, Judge, Raise, Advance, Shows, TypeOK,
     StepsKnown, Writing
<1>14. CASE CheckPrivileges
  BY <1>14, DefaultsAre DEF CheckPrivileges, Judge, Raise, Advance, Shows, TypeOK,
     StepsKnown, Writing
<1>15. CASE RerunCandidate
  BY <1>15, DefaultsAre DEF RerunCandidate, Raise, Advance, TypeOK, StepsKnown, Writing
<1>16. CASE NetworkCanaries
  BY <1>16, DefaultsAre DEF NetworkCanaries, Raise, Advance, Shows, TypeOK, StepsKnown,
     Writing
<1>17. CASE RemoveObjects
  BY <1>17, DefaultsAre DEF RemoveObjects, Advance, TypeOK, StepsKnown, Writing
<1>18. CASE CleanupRaises
  BY <1>18, DefaultsAre DEF CleanupRaises, TypeOK, StepsKnown, Writing
<1>19. CASE CountObjects
  BY <1>19, DefaultsAre DEF CountObjects, Advance, TypeOK, StepsKnown, Writing
<1>20. CASE RemoveSource
  BY <1>20, DefaultsAre DEF RemoveSource, Advance, TypeOK, StepsKnown, Writing
<1>21. CASE StartRecovery
  BY <1>21, DefaultsAre DEF StartRecovery, TypeOK, StepsKnown, Writing
<1>22. CASE ReadReceipt
  BY <1>22, DefaultsAre DEF ReadReceipt, Raise, Advance, TypeOK, StepsKnown, Writing
<1>23. CASE CloseReceipt
  BY <1>23, DefaultsAre DEF CloseReceipt, Advance, EndsBadly, TypeOK, StepsKnown, Writing
<1>24. CASE TruncateArtifact
  BY <1>24, DefaultsAre DEF TruncateArtifact, Advance, EndsBadly, TypeOK, StepsKnown,
     Writing
<1>25. CASE WriteArtifact
  BY <1>25, DefaultsAre DEF WriteArtifact, Advance, TypeOK, StepsKnown, Writing
<1>26. CASE VerifyReceipt
  BY <1>26, DefaultsAre DEF VerifyReceipt, process, TypeOK, StepsKnown, Writing
<1>27. CASE Die
  BY <1>27, DefaultsAre DEF Die, EndsBadly, TypeOK, StepsKnown, Writing
<1>28. CASE ServeLate
  BY <1>28, DefaultsAre DEF ServeLate, process, TypeOK, StepsKnown, Writing
<1> QED
  BY <1>1, <1>2, <1>3, <1>4, <1>5, <1>6, <1>7, <1>8, <1>9, <1>10, <1>11, <1>12, <1>13, <1>14,
     <1>15, <1>16, <1>17, <1>18, <1>19, <1>20, <1>21, <1>22, <1>23, <1>24, <1>25, <1>26,
     <1>27, <1>28
     DEF Next, Run, Finish

-----------------------------------------------------------------------------
(* The steps of the commands and the migrations counted *)

(* Only reading, closing and the start of a command change the status. *)
LEMMA StatusStep ==
  ASSUME TypeOK, pc \notin {"off", "read", "close"}, Next
  PROVE  receipt'.status = receipt.status
<1>1. CASE StartRun
  BY <1>1 DEF StartRun, TypeOK, Receipts
<1>2. CASE StageSource
  BY <1>2 DEF StageSource, Raise, Advance, TypeOK, Receipts
<1>3. CASE Attest
  BY <1>3 DEF Attest, Shows, Advance, TypeOK, Receipts
<1>4. CASE CreateNetwork
  BY <1>4 DEF CreateNetwork, Request, Raise, Advance, TypeOK, Receipts
<1>5. CASE StartDatabase
  BY <1>5 DEF StartDatabase, Request, Raise, Advance, TypeOK, Receipts
<1>6. CASE InspectDatabase
  BY <1>6 DEF InspectDatabase, Raise, Advance, TypeOK, Receipts
<1>7. CASE ApplyBase
  BY <1>7 DEF ApplyBase, Raise, Advance, TypeOK, Receipts
<1>8. CASE ApplyCandidate
  BY <1>8 DEF ApplyCandidate, Raise, Advance, TypeOK, Receipts
<1>9. ASSUME NEW s \in Sessions, SessionAllocates(s)
      PROVE  receipt'.status = receipt.status
  BY <1>9 DEF SessionAllocates, process, TypeOK, Receipts
<1>10. ASSUME NEW s \in Sessions, SessionEnds(s)
      PROVE  receipt'.status = receipt.status
  BY <1>10 DEF SessionEnds, process, TypeOK, Receipts
<1>11. CASE JoinSessions
  BY <1>11 DEF JoinSessions, Raise, Advance, Shows, TypeOK, Receipts
<1>12. CASE CheckAutomation
  BY <1>12 DEF CheckAutomation, Judge, Raise, Advance, Shows, TypeOK, Receipts
<1>13. CASE CheckImmutability
  BY <1>13 DEF CheckImmutability, Judge, Raise, Advance, Shows, TypeOK, Receipts
<1>14. CASE CheckPrivileges
  BY <1>14 DEF CheckPrivileges, Judge, Raise, Advance, Shows, TypeOK, Receipts
<1>15. CASE RerunCandidate
  BY <1>15 DEF RerunCandidate, Raise, Advance, TypeOK, Receipts
<1>16. CASE NetworkCanaries
  BY <1>16 DEF NetworkCanaries, Raise, Advance, Shows, TypeOK, Receipts
<1>17. CASE RemoveObjects
  BY <1>17 DEF RemoveObjects, Advance, TypeOK, Receipts
<1>18. CASE CleanupRaises
  BY <1>18 DEF CleanupRaises, TypeOK, Receipts
<1>19. CASE CountObjects
  BY <1>19 DEF CountObjects, Advance, TypeOK, Receipts
<1>20. CASE RemoveSource
  BY <1>20 DEF RemoveSource, Advance, TypeOK, Receipts
<1>21. CASE StartRecovery
  BY <1>21 DEF StartRecovery, TypeOK, Receipts
<1>22. CASE ReadReceipt
  BY <1>22 DEF ReadReceipt, Raise, Advance, TypeOK, Receipts
<1>23. CASE CloseReceipt
  BY <1>23 DEF CloseReceipt, Advance, EndsBadly, TypeOK, Receipts
<1>24. CASE TruncateArtifact
  BY <1>24 DEF TruncateArtifact, Advance, EndsBadly, TypeOK, Receipts
<1>25. CASE WriteArtifact
  BY <1>25 DEF WriteArtifact, Advance, TypeOK, Receipts
<1>26. CASE VerifyReceipt
  BY <1>26 DEF VerifyReceipt, process, TypeOK, Receipts
<1>27. CASE Die
  BY <1>27 DEF Die, EndsBadly, TypeOK, Receipts
<1>28. CASE ServeLate
  BY <1>28 DEF ServeLate, process, TypeOK, Receipts
<1> QED
  BY <1>1, <1>2, <1>3, <1>4, <1>5, <1>6, <1>7, <1>8, <1>9, <1>10, <1>11, <1>12, <1>13, <1>14,
     <1>15, <1>16, <1>17, <1>18, <1>19, <1>20, <1>21, <1>22, <1>23, <1>24, <1>25, <1>26,
     <1>27, <1>28
     DEF Next, Run, Finish

(* A receipt that validates is PASS or BLOCKED. *)
LEMMA ValidStatus ==
  ASSUME NEW r, ValidReceipt(r)
  PROVE  r.status \in {"PASS", "BLOCKED"}
BY DEF ValidReceipt

(* StepsKnown is preserved. *)
LEMMA StepsStep ==
  ASSUME TypeOK, StepsKnown, Next
  PROVE  StepsKnown'
<1>1. CASE StartRun
  BY <1>1, StatusStep, DefaultsAre DEF StartRun, StepsKnown, RunSteps, BeforeSessions,
     BeforeMigrations, Cleaning, Writing
<1>2. CASE StageSource
  BY <1>2, StatusStep, DefaultsAre DEF StageSource, Raise, Advance, StepsKnown, RunSteps,
     BeforeSessions, BeforeMigrations, Cleaning, Writing
<1>3. CASE Attest
  BY <1>3, StatusStep, DefaultsAre DEF Attest, Shows, Advance, StepsKnown, RunSteps,
     BeforeSessions, BeforeMigrations, Cleaning, Writing
<1>4. CASE CreateNetwork
  BY <1>4, StatusStep, DefaultsAre DEF CreateNetwork, Request, Raise, Advance, StepsKnown,
     RunSteps, BeforeSessions, BeforeMigrations, Cleaning, Writing
<1>5. CASE StartDatabase
  BY <1>5, StatusStep, DefaultsAre DEF StartDatabase, Request, Raise, Advance, StepsKnown,
     RunSteps, BeforeSessions, BeforeMigrations, Cleaning, Writing
<1>6. CASE InspectDatabase
  BY <1>6, StatusStep, DefaultsAre DEF InspectDatabase, Raise, Advance, StepsKnown, RunSteps,
     BeforeSessions, BeforeMigrations, Cleaning, Writing
<1>7. CASE ApplyBase
  BY <1>7, StatusStep, DefaultsAre DEF ApplyBase, Raise, Advance, StepsKnown, RunSteps,
     BeforeSessions, BeforeMigrations, Cleaning, Writing
<1>8. CASE ApplyCandidate
  BY <1>8, StatusStep, DefaultsAre DEF ApplyCandidate, Raise, Advance, StepsKnown, RunSteps,
     BeforeSessions, BeforeMigrations, Cleaning, Writing
<1>9. ASSUME NEW s \in Sessions, SessionAllocates(s)
      PROVE  StepsKnown'
  BY <1>9, StatusStep, DefaultsAre DEF SessionAllocates, process, StepsKnown, RunSteps,
     BeforeSessions, BeforeMigrations, Cleaning, Writing
<1>10. ASSUME NEW s \in Sessions, SessionEnds(s)
      PROVE  StepsKnown'
  BY <1>10, StatusStep, DefaultsAre DEF SessionEnds, process, StepsKnown, RunSteps,
     BeforeSessions, BeforeMigrations, Cleaning, Writing
<1>11. CASE JoinSessions
  BY <1>11, StatusStep, DefaultsAre DEF JoinSessions, Raise, Advance, Shows, StepsKnown,
     RunSteps, BeforeSessions, BeforeMigrations, Cleaning, Writing
<1>12. CASE CheckAutomation
  BY <1>12, StatusStep, DefaultsAre DEF CheckAutomation, Judge, Raise, Advance, Shows,
     StepsKnown, RunSteps, BeforeSessions, BeforeMigrations, Cleaning, Writing
<1>13. CASE CheckImmutability
  BY <1>13, StatusStep, DefaultsAre DEF CheckImmutability, Judge, Raise, Advance, Shows,
     StepsKnown, RunSteps, BeforeSessions, BeforeMigrations, Cleaning, Writing
<1>14. CASE CheckPrivileges
  BY <1>14, StatusStep, DefaultsAre DEF CheckPrivileges, Judge, Raise, Advance, Shows,
     StepsKnown, RunSteps, BeforeSessions, BeforeMigrations, Cleaning, Writing
<1>15. CASE RerunCandidate
  BY <1>15, StatusStep, DefaultsAre DEF RerunCandidate, Raise, Advance, StepsKnown, RunSteps,
     BeforeSessions, BeforeMigrations, Cleaning, Writing
<1>16. CASE NetworkCanaries
  BY <1>16, StatusStep, DefaultsAre DEF NetworkCanaries, Raise, Advance, Shows, StepsKnown,
     RunSteps, BeforeSessions, BeforeMigrations, Cleaning, Writing
<1>17. CASE RemoveObjects
  BY <1>17, StatusStep, DefaultsAre DEF RemoveObjects, Advance, StepsKnown, RunSteps,
     BeforeSessions, BeforeMigrations, Cleaning, Writing
<1>18. CASE CleanupRaises
  BY <1>18, StatusStep, DefaultsAre DEF CleanupRaises, StepsKnown, RunSteps, BeforeSessions,
     BeforeMigrations, Cleaning, Writing
<1>19. CASE CountObjects
  BY <1>19, StatusStep, DefaultsAre DEF CountObjects, Advance, StepsKnown, RunSteps,
     BeforeSessions, BeforeMigrations, Cleaning, Writing
<1>20. CASE RemoveSource
  BY <1>20, StatusStep, DefaultsAre DEF RemoveSource, Advance, StepsKnown, RunSteps,
     BeforeSessions, BeforeMigrations, Cleaning, Writing
<1>21. CASE StartRecovery
  BY <1>21, StatusStep, DefaultsAre DEF StartRecovery, StepsKnown, RunSteps, BeforeSessions,
     BeforeMigrations, Cleaning, Writing
<1>22. CASE ReadReceipt
  <2>1. receipt'.status \in {"PASS", "BLOCKED"} /\ pc' \in {"remove", "unstage"}
    BY <1>22, DefaultsAre, ValidStatus DEF ReadReceipt, Raise, Advance, TypeOK, StepsKnown
  <2> QED
    BY <1>22, <2>1 DEF ReadReceipt, StepsKnown, RunSteps, BeforeSessions, BeforeMigrations,
       Cleaning,
       Writing
<1>23. CASE CloseReceipt
  <2>1. \/ ValidReceipt(receipt)' /\ pc' = "truncate" /\ UNCHANGED job
        \/ pc' = "off" /\ job' \in {"recover", "verify"}
    BY <1>23 DEF CloseReceipt, Advance, EndsBadly
  <2>2. pc = "close" /\ UNCHANGED artifact
    BY <1>23 DEF CloseReceipt
  <2> QED
    BY <2>1, <2>2, ValidStatus DEF StepsKnown, RunSteps, BeforeSessions, BeforeMigrations,
       Cleaning, Writing
<1>24. CASE TruncateArtifact
  BY <1>24, StatusStep, DefaultsAre DEF TruncateArtifact, Advance, EndsBadly, TypeOK,
     StepsKnown, RunSteps, BeforeSessions, BeforeMigrations, Cleaning, Writing
<1>25. CASE WriteArtifact
  BY <1>25, StatusStep, DefaultsAre DEF WriteArtifact, Advance, TypeOK, StepsKnown, RunSteps,
     BeforeSessions, BeforeMigrations, Cleaning, Writing
<1>26. CASE VerifyReceipt
  BY <1>26, StatusStep, DefaultsAre DEF VerifyReceipt, process, StepsKnown, RunSteps,
     BeforeSessions, BeforeMigrations, Cleaning, Writing
<1>27. CASE Die
  BY <1>27, StatusStep, DefaultsAre DEF Die, EndsBadly, StepsKnown, RunSteps, BeforeSessions,
     BeforeMigrations, Cleaning, Writing
<1>28. CASE ServeLate
  BY <1>28, StatusStep, DefaultsAre DEF ServeLate, process, StepsKnown, RunSteps,
     BeforeSessions, BeforeMigrations, Cleaning, Writing
<1> QED
  BY <1>1, <1>2, <1>3, <1>4, <1>5, <1>6, <1>7, <1>8, <1>9, <1>10, <1>11, <1>12, <1>13, <1>14,
     <1>15, <1>16, <1>17, <1>18, <1>19, <1>20, <1>21, <1>22, <1>23, <1>24, <1>25, <1>26,
     <1>27, <1>28
     DEF Next, Run, Finish

(* RecordsKnown is preserved. *)
LEMMA RecordsStep ==
  ASSUME TypeOK, StepsKnown, RecordsKnown, Next
  PROVE  RecordsKnown'
<1>1. CASE StartRun
  BY <1>1, DefaultsAre, BoundsAssumption DEF StartRun, RecordsKnown, RunSteps,
     BeforeSessions, BeforeMigrations, StepsKnown, TypeOK, Receipts
<1>2. CASE StageSource
  <2>1. receipt'.records = receipt.records
    BY <1>2 DEF StageSource, TypeOK, Receipts
  <2>2. pc = "stage" /\ pc' \in {"attest", "remove", "unstage"}
    BY <1>2 DEF StageSource, Raise, Advance
  <2> QED
    BY <2>1, <2>2 DEF RecordsKnown, BeforeMigrations
<1>3. CASE Attest
  BY <1>3, DefaultsAre, BoundsAssumption DEF Attest, Shows, Advance, RecordsKnown, RunSteps,
     BeforeSessions, BeforeMigrations, StepsKnown, TypeOK, Receipts
<1>4. CASE CreateNetwork
  BY <1>4, DefaultsAre, BoundsAssumption DEF CreateNetwork, Request, Raise, Advance,
     RecordsKnown, RunSteps, BeforeSessions, BeforeMigrations, StepsKnown, TypeOK, Receipts
<1>5. CASE StartDatabase
  BY <1>5, DefaultsAre, BoundsAssumption DEF StartDatabase, Request, Raise, Advance,
     RecordsKnown, RunSteps, BeforeSessions, BeforeMigrations, StepsKnown, TypeOK, Receipts
<1>6. CASE InspectDatabase
  <2>1. /\ receipt'.records = receipt.records
        /\ pc' \in {"migrate", "candidate", "remove", "unstage"}
        /\ (Base # 0 => pc' # "candidate")
    BY <1>6 DEF InspectDatabase, Raise, Advance, TypeOK, Receipts
  <2>2. receipt.records = 0
    BY <1>6 DEF InspectDatabase, RecordsKnown, BeforeMigrations
  <2>3. Base = 0 => pc' # "migrate"
    BY <1>6 DEF InspectDatabase, Raise, Advance
  <2> QED
    BY <2>1, <2>2, <2>3, BoundsAssumption DEF RecordsKnown, BeforeMigrations
<1>7. CASE ApplyBase
  BY <1>7, DefaultsAre, BoundsAssumption DEF ApplyBase, Raise, Advance, RecordsKnown,
     RunSteps, BeforeSessions, BeforeMigrations, StepsKnown, TypeOK, Receipts
<1>8. CASE ApplyCandidate
  BY <1>8, DefaultsAre, BoundsAssumption DEF ApplyCandidate, Raise, Advance, RecordsKnown,
     RunSteps, BeforeSessions, BeforeMigrations, StepsKnown, TypeOK, Receipts
<1>9. ASSUME NEW s \in Sessions, SessionAllocates(s)
      PROVE  RecordsKnown'
  BY <1>9, DefaultsAre, BoundsAssumption DEF SessionAllocates, process, RecordsKnown,
     RunSteps, BeforeSessions, BeforeMigrations, StepsKnown, TypeOK, Receipts
<1>10. ASSUME NEW s \in Sessions, SessionEnds(s)
      PROVE  RecordsKnown'
  BY <1>10, DefaultsAre, BoundsAssumption DEF SessionEnds, process, RecordsKnown, RunSteps,
     BeforeSessions, BeforeMigrations, StepsKnown, TypeOK, Receipts
<1>11. CASE JoinSessions
  BY <1>11, DefaultsAre, BoundsAssumption DEF JoinSessions, Raise, Advance, Shows,
     RecordsKnown, RunSteps, BeforeSessions, BeforeMigrations, StepsKnown, TypeOK, Receipts
<1>12. CASE CheckAutomation
  BY <1>12, DefaultsAre, BoundsAssumption DEF CheckAutomation, Judge, Raise, Advance, Shows,
     RecordsKnown, RunSteps, BeforeSessions, BeforeMigrations, StepsKnown, TypeOK, Receipts
<1>13. CASE CheckImmutability
  BY <1>13, DefaultsAre, BoundsAssumption DEF CheckImmutability, Judge, Raise, Advance,
     Shows, RecordsKnown, RunSteps, BeforeSessions, BeforeMigrations, StepsKnown, TypeOK,
     Receipts
<1>14. CASE CheckPrivileges
  BY <1>14, DefaultsAre, BoundsAssumption DEF CheckPrivileges, Judge, Raise, Advance, Shows,
     RecordsKnown, RunSteps, BeforeSessions, BeforeMigrations, StepsKnown, TypeOK, Receipts
<1>15. CASE RerunCandidate
  BY <1>15, DefaultsAre, BoundsAssumption DEF RerunCandidate, Raise, Advance, RecordsKnown,
     RunSteps, BeforeSessions, BeforeMigrations, StepsKnown, TypeOK, Receipts
<1>16. CASE NetworkCanaries
  BY <1>16, DefaultsAre, BoundsAssumption DEF NetworkCanaries, Raise, Advance, Shows,
     RecordsKnown, RunSteps, BeforeSessions, BeforeMigrations, StepsKnown, TypeOK, Receipts
<1>17. CASE RemoveObjects
  BY <1>17, DefaultsAre, BoundsAssumption DEF RemoveObjects, Advance, RecordsKnown, RunSteps,
     BeforeSessions, BeforeMigrations, StepsKnown, TypeOK, Receipts
<1>18. CASE CleanupRaises
  BY <1>18, DefaultsAre, BoundsAssumption DEF CleanupRaises, RecordsKnown, RunSteps,
     BeforeSessions, BeforeMigrations, StepsKnown, TypeOK, Receipts
<1>19. CASE CountObjects
  BY <1>19, DefaultsAre, BoundsAssumption DEF CountObjects, Advance, RecordsKnown, RunSteps,
     BeforeSessions, BeforeMigrations, StepsKnown, TypeOK, Receipts
<1>20. CASE RemoveSource
  BY <1>20, DefaultsAre, BoundsAssumption DEF RemoveSource, Advance, RecordsKnown, RunSteps,
     BeforeSessions, BeforeMigrations, StepsKnown, TypeOK, Receipts
<1>21. CASE StartRecovery
  BY <1>21, DefaultsAre, BoundsAssumption DEF StartRecovery, RecordsKnown, RunSteps,
     BeforeSessions, BeforeMigrations, StepsKnown, TypeOK, Receipts
<1>22. CASE ReadReceipt
  BY <1>22, DefaultsAre, BoundsAssumption DEF ReadReceipt, Raise, Advance, RecordsKnown,
     RunSteps, BeforeSessions, BeforeMigrations, StepsKnown, TypeOK, Receipts
<1>23. CASE CloseReceipt
  BY <1>23, DefaultsAre, BoundsAssumption DEF CloseReceipt, Advance, EndsBadly, RecordsKnown,
     RunSteps, BeforeSessions, BeforeMigrations, StepsKnown, TypeOK, Receipts
<1>24. CASE TruncateArtifact
  BY <1>24, DefaultsAre, BoundsAssumption DEF TruncateArtifact, Advance, EndsBadly,
     RecordsKnown, RunSteps, BeforeSessions, BeforeMigrations, StepsKnown, TypeOK, Receipts
<1>25. CASE WriteArtifact
  BY <1>25, DefaultsAre, BoundsAssumption DEF WriteArtifact, Advance, RecordsKnown, RunSteps,
     BeforeSessions, BeforeMigrations, StepsKnown, TypeOK, Receipts
<1>26. CASE VerifyReceipt
  BY <1>26, DefaultsAre, BoundsAssumption DEF VerifyReceipt, process, RecordsKnown, RunSteps,
     BeforeSessions, BeforeMigrations, StepsKnown, TypeOK, Receipts
<1>27. CASE Die
  BY <1>27, DefaultsAre, BoundsAssumption DEF Die, EndsBadly, RecordsKnown, RunSteps,
     BeforeSessions, BeforeMigrations, StepsKnown, TypeOK, Receipts
<1>28. CASE ServeLate
  BY <1>28, DefaultsAre, BoundsAssumption DEF ServeLate, process, RecordsKnown, RunSteps,
     BeforeSessions, BeforeMigrations, StepsKnown, TypeOK, Receipts
<1> QED
  BY <1>1, <1>2, <1>3, <1>4, <1>5, <1>6, <1>7, <1>8, <1>9, <1>10, <1>11, <1>12, <1>13, <1>14,
     <1>15, <1>16, <1>17, <1>18, <1>19, <1>20, <1>21, <1>22, <1>23, <1>24, <1>25, <1>26,
     <1>27, <1>28
     DEF Next, Run, Finish

-----------------------------------------------------------------------------
(* The database and its sessions *)

(* What Max is of a set that has a maximum *)
LEMMA MaximumIs ==
  ASSUME NEW S \in SUBSET Nat, HasMaximum(S)
  PROVE  Max(S) \in S /\ \A n \in S: n <= Max(S)
<1>1. PICK m \in S: \A n \in S: m >= n
  BY DEF HasMaximum
<1>2. \E x \in S: \A y \in S: x >= y
  BY <1>1
<1>3. Max(S) \in S /\ \A n \in S: Max(S) >= n
  BY <1>2, Zenon DEF Max
<1> QED
  BY <1>3

Less == {ss \in Nat \X Nat: ss[1] < ss[2]}

(* The order of the numbers as a relation *)
LEMMA LessIs == ASSUME NEW x \in Nat, NEW y \in Nat, x < y PROVE <<x, y>> \in Less
<1>1. <<x, y>> \in Nat \X Nat /\ <<x, y>>[1] = x /\ <<x, y>>[2] = y
  OBVIOUS
<1>2. <<x, y>>[1] < <<x, y>>[2]
  BY <1>1
<1> QED
  BY <1>1, <1>2, Zenon DEF Less

(* What Min is of any set of numbers *)
LEMMA MinimumIs ==
  ASSUME NEW S \in SUBSET Nat, S # {}
  PROVE  Min(S) \in S /\ \A n \in S: Min(S) <= n
<1>1. IsWellFoundedOn(Less, Nat)
  BY NatLessThanWellFounded DEF OpToRel, Less
<1>2. PICK m \in S: \A n \in S: ~(<<n, m>> \in Less)
  BY <1>1, WFMin
<1>3. ASSUME NEW n \in S
      PROVE  m =< n
  <2>1. ~(n < m)
    BY <1>2, LessIs
  <2> QED
    BY <2>1
<1>4. \E x \in S: \A y \in S: x =< y
  BY <1>3
<1> QED
  BY <1>4, Zenon DEF Min

(* The number the trigger gives; the first one given to fill the gap is it. *)
LEMMA AllocatedIs ==
  ASSUME DbShape, SessionsKnown, pc = "sessions"
  PROVE  /\ Allocated \in Nat
         /\ defect = "fills the gap" /\ db.numbers = Fixture => Allocated = 3
<1> DEFINE top == Max(db.numbers)
<1>1. db.numbers \in SUBSET Nat /\ HasMaximum(db.numbers) /\ db.next \in Nat
  BY DEF DbShape, Databases, SessionsKnown
<1>2. top \in Nat /\ top \in db.numbers /\ \A n \in db.numbers: n <= top
  BY <1>1, MaximumIs
<1> HIDE DEF top
<1> DEFINE free == {n \in 0..(top + 1): n \notin db.numbers}
<1>3. free \in SUBSET Nat /\ top + 1 \in free
  BY <1>2
<1>4. Min(free) \in free /\ \A n \in free: Min(free) <= n
  BY <1>3, MinimumIs
<1>5. ASSUME db.numbers = Fixture
      PROVE  Min(free) = 3
  <2>1. top \in {0, 1, 2, 4, 5} /\ 5 <= top
    BY <1>2, <1>5 DEF Fixture
  <2>2. 3 \in free /\ \A n \in free: n = 3 \/ n > 5
    BY <1>5, <2>1 DEF Fixture
  <2> HIDE DEF free
  <2>3. Min(free) \in Nat
    BY <1>3, <1>4
  <2> QED
    BY <1>4, <2>2, <2>3
<1>6. /\ defect = "fills the gap" => Allocated = Min(free)
      /\ defect = "takes the maximum" => Allocated = top + 1
      /\ defect \notin {"takes the maximum", "fills the gap"} => Allocated = db.next
  BY DEF Allocated, top
<1> HIDE DEF free
<1>7. Min(free) \in Nat
  BY <1>3, <1>4
<1>8. top + 1 \in Nat
  BY <1>2
<1>9. CASE defect = "takes the maximum"
  BY <1>6, <1>8, <1>9
<1>10. CASE defect = "fills the gap"
  BY <1>5, <1>6, <1>7, <1>10
<1>11. CASE defect \notin {"takes the maximum", "fills the gap"}
  BY <1>1, <1>6, <1>11
<1> QED
  BY <1>9, <1>10, <1>11

(* The database a run starts with *)
LEMMA NewDatabaseIs == NewDatabase \in Databases
BY DEF NewDatabase, Databases

(* The candidate is given once and for all. *)
LEMMA DefectStands ==
  ASSUME Next
  PROVE  defect' = defect
<1>1. CASE StartRun
  BY <1>1 DEF StartRun
<1>2. CASE StageSource
  BY <1>2 DEF StageSource, Raise, Advance
<1>3. CASE Attest
  BY <1>3 DEF Attest, Shows, Advance
<1>4. CASE CreateNetwork
  BY <1>4 DEF CreateNetwork, Request, Raise, Advance
<1>5. CASE StartDatabase
  BY <1>5 DEF StartDatabase, Request, Raise, Advance
<1>6. CASE InspectDatabase
  BY <1>6 DEF InspectDatabase, Raise, Advance
<1>7. CASE ApplyBase
  BY <1>7 DEF ApplyBase, Raise, Advance
<1>8. CASE ApplyCandidate
  BY <1>8 DEF ApplyCandidate, Raise, Advance
<1>9. ASSUME NEW s \in Sessions, SessionAllocates(s)
      PROVE  defect' = defect
  BY <1>9 DEF SessionAllocates, process
<1>10. ASSUME NEW s \in Sessions, SessionEnds(s)
      PROVE  defect' = defect
  BY <1>10 DEF SessionEnds, process
<1>11. CASE JoinSessions
  BY <1>11 DEF JoinSessions, Raise, Advance, Shows
<1>12. CASE CheckAutomation
  BY <1>12 DEF CheckAutomation, Judge, Raise, Advance, Shows
<1>13. CASE CheckImmutability
  BY <1>13 DEF CheckImmutability, Judge, Raise, Advance, Shows
<1>14. CASE CheckPrivileges
  BY <1>14 DEF CheckPrivileges, Judge, Raise, Advance, Shows
<1>15. CASE RerunCandidate
  BY <1>15 DEF RerunCandidate, Raise, Advance
<1>16. CASE NetworkCanaries
  BY <1>16 DEF NetworkCanaries, Raise, Advance, Shows
<1>17. CASE RemoveObjects
  BY <1>17 DEF RemoveObjects, Advance
<1>18. CASE CleanupRaises
  BY <1>18 DEF CleanupRaises
<1>19. CASE CountObjects
  BY <1>19 DEF CountObjects, Advance
<1>20. CASE RemoveSource
  BY <1>20 DEF RemoveSource, Advance
<1>21. CASE StartRecovery
  BY <1>21 DEF StartRecovery
<1>22. CASE ReadReceipt
  BY <1>22 DEF ReadReceipt, Raise, Advance
<1>23. CASE CloseReceipt
  BY <1>23 DEF CloseReceipt, Advance, EndsBadly
<1>24. CASE TruncateArtifact
  BY <1>24 DEF TruncateArtifact, Advance, EndsBadly
<1>25. CASE WriteArtifact
  BY <1>25 DEF WriteArtifact, Advance
<1>26. CASE VerifyReceipt
  BY <1>26 DEF VerifyReceipt, process
<1>27. CASE Die
  BY <1>27 DEF Die, EndsBadly
<1>28. CASE ServeLate
  BY <1>28 DEF ServeLate, process
<1> QED
  BY <1>1, <1>2, <1>3, <1>4, <1>5, <1>6, <1>7, <1>8, <1>9, <1>10, <1>11, <1>12, <1>13, <1>14,
     <1>15, <1>16, <1>17, <1>18, <1>19, <1>20, <1>21, <1>22, <1>23, <1>24, <1>25, <1>26,
     <1>27, <1>28
     DEF Next, Run, Finish

(* Who touches the database *)
LEMMA DbMoves ==
  ASSUME Next
  PROVE  \/ ApplyCandidate \/ RerunCandidate \/ UNCHANGED db
         \/ \E t \in Sessions: SessionAllocates(t) \/ SessionEnds(t)
<1>1. CASE StartRun
  BY <1>1 DEF StartRun
<1>2. CASE StageSource
  BY <1>2 DEF StageSource, Raise, Advance
<1>3. CASE Attest
  BY <1>3 DEF Attest, Shows, Advance
<1>4. CASE CreateNetwork
  BY <1>4 DEF CreateNetwork, Request, Raise, Advance
<1>5. CASE StartDatabase
  BY <1>5 DEF StartDatabase, Request, Raise, Advance
<1>6. CASE InspectDatabase
  BY <1>6 DEF InspectDatabase, Raise, Advance
<1>7. CASE ApplyBase
  BY <1>7 DEF ApplyBase, Raise, Advance
<1>8. CASE ApplyCandidate
  BY <1>8
<1>9. ASSUME NEW s \in Sessions, SessionAllocates(s)
      PROVE  \/ ApplyCandidate \/ RerunCandidate \/ UNCHANGED db
         \/ \E t \in Sessions: SessionAllocates(t) \/ SessionEnds(t)
  BY <1>9
<1>10. ASSUME NEW s \in Sessions, SessionEnds(s)
      PROVE  \/ ApplyCandidate \/ RerunCandidate \/ UNCHANGED db
         \/ \E t \in Sessions: SessionAllocates(t) \/ SessionEnds(t)
  BY <1>10
<1>11. CASE JoinSessions
  BY <1>11 DEF JoinSessions, Raise, Advance, Shows
<1>12. CASE CheckAutomation
  BY <1>12 DEF CheckAutomation, Judge, Raise, Advance, Shows
<1>13. CASE CheckImmutability
  BY <1>13 DEF CheckImmutability, Judge, Raise, Advance, Shows
<1>14. CASE CheckPrivileges
  BY <1>14 DEF CheckPrivileges, Judge, Raise, Advance, Shows
<1>15. CASE RerunCandidate
  BY <1>15
<1>16. CASE NetworkCanaries
  BY <1>16 DEF NetworkCanaries, Raise, Advance, Shows
<1>17. CASE RemoveObjects
  BY <1>17 DEF RemoveObjects, Advance
<1>18. CASE CleanupRaises
  BY <1>18 DEF CleanupRaises
<1>19. CASE CountObjects
  BY <1>19 DEF CountObjects, Advance
<1>20. CASE RemoveSource
  BY <1>20 DEF RemoveSource, Advance
<1>21. CASE StartRecovery
  BY <1>21 DEF StartRecovery
<1>22. CASE ReadReceipt
  BY <1>22 DEF ReadReceipt, Raise, Advance
<1>23. CASE CloseReceipt
  BY <1>23 DEF CloseReceipt, Advance, EndsBadly
<1>24. CASE TruncateArtifact
  BY <1>24 DEF TruncateArtifact, Advance, EndsBadly
<1>25. CASE WriteArtifact
  BY <1>25 DEF WriteArtifact, Advance
<1>26. CASE VerifyReceipt
  BY <1>26 DEF VerifyReceipt, process
<1>27. CASE Die
  BY <1>27 DEF Die, EndsBadly
<1>28. CASE ServeLate
  BY <1>28 DEF ServeLate, process
<1> QED
  BY <1>1, <1>2, <1>3, <1>4, <1>5, <1>6, <1>7, <1>8, <1>9, <1>10, <1>11, <1>12, <1>13, <1>14,
     <1>15, <1>16, <1>17, <1>18, <1>19, <1>20, <1>21, <1>22, <1>23, <1>24, <1>25, <1>26,
     <1>27, <1>28
     DEF Next, Run, Finish

(* How the sessions' step is reached and left *)
PcMoves ==
    /\ pc' \in BeforeSessions \cup {"off"} /\ job' = "run" =>
          pc \in BeforeSessions \cup {"off"} /\ job = "run" /\ UNCHANGED db
    /\ pc' = "sessions" => pc = "sessions" \/ ApplyCandidate
    /\ pc' = "automation" =>
          pc \in {"sessions", "automation"} /\ UNCHANGED db

(* PcMoves holds of every step. *)
LEMMA PcStep ==
  ASSUME StepsKnown, Next
  PROVE  PcMoves
<1>1. CASE StartRun
  BY <1>1 DEF StartRun, PcMoves, StepsKnown, RunSteps, BeforeSessions, BeforeMigrations
<1>2. CASE StageSource
  BY <1>2 DEF StageSource, Raise, Advance, PcMoves, StepsKnown, RunSteps, BeforeSessions,
     BeforeMigrations
<1>3. CASE Attest
  BY <1>3 DEF Attest, Shows, Advance, PcMoves, StepsKnown, RunSteps, BeforeSessions,
     BeforeMigrations
<1>4. CASE CreateNetwork
  BY <1>4 DEF CreateNetwork, Request, Raise, Advance, PcMoves, StepsKnown, RunSteps,
     BeforeSessions, BeforeMigrations
<1>5. CASE StartDatabase
  BY <1>5 DEF StartDatabase, Request, Raise, Advance, PcMoves, StepsKnown, RunSteps,
     BeforeSessions, BeforeMigrations
<1>6. CASE InspectDatabase
  BY <1>6 DEF InspectDatabase, Raise, Advance, PcMoves, StepsKnown, RunSteps, BeforeSessions,
     BeforeMigrations
<1>7. CASE ApplyBase
  BY <1>7 DEF ApplyBase, Raise, Advance, PcMoves, StepsKnown, RunSteps, BeforeSessions,
     BeforeMigrations
<1>8. CASE ApplyCandidate
  BY <1>8 DEF ApplyCandidate, Raise, Advance, PcMoves, StepsKnown, RunSteps, BeforeSessions,
     BeforeMigrations
<1>9. ASSUME NEW s \in Sessions, SessionAllocates(s)
      PROVE  PcMoves
  BY <1>9 DEF SessionAllocates, process, PcMoves, StepsKnown, RunSteps, BeforeSessions,
     BeforeMigrations
<1>10. ASSUME NEW s \in Sessions, SessionEnds(s)
      PROVE  PcMoves
  BY <1>10 DEF SessionEnds, process, PcMoves, StepsKnown, RunSteps, BeforeSessions,
     BeforeMigrations
<1>11. CASE JoinSessions
  BY <1>11 DEF JoinSessions, Raise, Advance, Shows, PcMoves, StepsKnown, RunSteps,
     BeforeSessions, BeforeMigrations
<1>12. CASE CheckAutomation
  BY <1>12 DEF CheckAutomation, Judge, Raise, Advance, Shows, PcMoves, StepsKnown, RunSteps,
     BeforeSessions, BeforeMigrations
<1>13. CASE CheckImmutability
  BY <1>13 DEF CheckImmutability, Judge, Raise, Advance, Shows, PcMoves, StepsKnown,
     RunSteps, BeforeSessions, BeforeMigrations
<1>14. CASE CheckPrivileges
  BY <1>14 DEF CheckPrivileges, Judge, Raise, Advance, Shows, PcMoves, StepsKnown, RunSteps,
     BeforeSessions, BeforeMigrations
<1>15. CASE RerunCandidate
  BY <1>15 DEF RerunCandidate, Raise, Advance, PcMoves, StepsKnown, RunSteps, BeforeSessions,
     BeforeMigrations
<1>16. CASE NetworkCanaries
  BY <1>16 DEF NetworkCanaries, Raise, Advance, Shows, PcMoves, StepsKnown, RunSteps,
     BeforeSessions, BeforeMigrations
<1>17. CASE RemoveObjects
  BY <1>17 DEF RemoveObjects, Advance, PcMoves, StepsKnown, RunSteps, BeforeSessions,
     BeforeMigrations
<1>18. CASE CleanupRaises
  BY <1>18 DEF CleanupRaises, PcMoves, StepsKnown, RunSteps, BeforeSessions,
     BeforeMigrations
<1>19. CASE CountObjects
  BY <1>19 DEF CountObjects, Advance, PcMoves, StepsKnown, RunSteps, BeforeSessions,
     BeforeMigrations
<1>20. CASE RemoveSource
  BY <1>20 DEF RemoveSource, Advance, PcMoves, StepsKnown, RunSteps, BeforeSessions,
     BeforeMigrations
<1>21. CASE StartRecovery
  BY <1>21 DEF StartRecovery, PcMoves, StepsKnown, RunSteps, BeforeSessions,
     BeforeMigrations
<1>22. CASE ReadReceipt
  BY <1>22 DEF ReadReceipt, Raise, Advance, PcMoves, StepsKnown, RunSteps, BeforeSessions,
     BeforeMigrations
<1>23. CASE CloseReceipt
  BY <1>23 DEF CloseReceipt, Advance, EndsBadly, PcMoves, StepsKnown, RunSteps,
     BeforeSessions, BeforeMigrations
<1>24. CASE TruncateArtifact
  BY <1>24 DEF TruncateArtifact, Advance, EndsBadly, PcMoves, StepsKnown, RunSteps,
     BeforeSessions, BeforeMigrations
<1>25. CASE WriteArtifact
  BY <1>25 DEF WriteArtifact, Advance, PcMoves, StepsKnown, RunSteps, BeforeSessions,
     BeforeMigrations
<1>26. CASE VerifyReceipt
  BY <1>26 DEF VerifyReceipt, process, PcMoves, StepsKnown, RunSteps, BeforeSessions,
     BeforeMigrations
<1>27. CASE Die
  BY <1>27 DEF Die, EndsBadly, PcMoves, StepsKnown, RunSteps, BeforeSessions,
     BeforeMigrations
<1>28. CASE ServeLate
  BY <1>28 DEF ServeLate, process, PcMoves, StepsKnown, RunSteps, BeforeSessions,
     BeforeMigrations
<1> QED
  BY <1>1, <1>2, <1>3, <1>4, <1>5, <1>6, <1>7, <1>8, <1>9, <1>10, <1>11, <1>12, <1>13, <1>14,
     <1>15, <1>16, <1>17, <1>18, <1>19, <1>20, <1>21, <1>22, <1>23, <1>24, <1>25, <1>26,
     <1>27, <1>28
     DEF Next, Run, Finish

(* The database keeps its shape. *)
LEMMA DbTyped ==
  ASSUME DbShape, SessionsKnown, Next
  PROVE  DbShape'
<1>1. CASE ApplyCandidate
  <2>1. Humans \ {Deleted} \in SUBSET Nat
    BY DEF Humans
  <2> QED
    BY <1>1, <2>1 DEF ApplyCandidate, DbShape, Databases
<1>2. ASSUME NEW s \in Sessions, SessionAllocates(s)
      PROVE  DbShape'
  <2>1. Allocated \in Nat
    BY <1>2, AllocatedIs DEF SessionAllocates
  <2>2. PICK n \in Nat, m \in Nat:
          db' = [db EXCEPT !.session[s] = "open", !.given[s] = {n}, !.next = m]
    <3>1. db.next \in Nat /\ db.next + 1 \in Nat
      BY DEF DbShape, Databases
    <3>2. PICK m \in Nat: m = IF defect \in {"takes the maximum", "fills the gap"} THEN db.next
                              ELSE db.next + 1
      BY <3>1
    <3>3. db' = [db EXCEPT !.session[s] = "open", !.given[s] = {Allocated}, !.next = m]
      BY <1>2, <3>2 DEF SessionAllocates
    <3> QED
      BY <2>1, <3>3
  <2> QED
    BY <2>2 DEF DbShape, Databases
<1>3. ASSUME NEW s \in Sessions, SessionEnds(s)
      PROVE  DbShape'
  <2>1. PICK n \in SUBSET Nat, g \in SUBSET Nat, how \in {"committed", "failed"}:
          db' = [db EXCEPT !.session[s] = how, !.given[s] = g, !.numbers = n]
    <3>1. CASE db' = [db EXCEPT !.session[s] = "committed", !.numbers = @ \cup db.given[s]]
      <4>1. db' = [db EXCEPT !.session[s] = "committed", !.given[s] = db.given[s],
                             !.numbers = db.numbers \cup db.given[s]]
        BY <3>1 DEF DbShape, Databases
      <4>2. db.given[s] \in SUBSET Nat /\ db.numbers \cup db.given[s] \in SUBSET Nat
        BY DEF DbShape, Databases
      <4> QED
        BY <4>1, <4>2
    <3>2. CASE db' = [db EXCEPT !.session[s] = "failed", !.given[s] = {}]
      <4>1. db' = [db EXCEPT !.session[s] = "failed", !.given[s] = {}, !.numbers = db.numbers]
        BY <3>2 DEF DbShape, Databases
      <4>2. db.numbers \in SUBSET Nat /\ {} \in SUBSET Nat
        BY DEF DbShape, Databases
      <4> QED
        BY <4>1, <4>2
    <3> QED
      BY <1>3, <3>1, <3>2 DEF SessionEnds
  <2> QED
    BY <2>1 DEF DbShape, Databases
<1>4. CASE RerunCandidate
  BY <1>4 DEF RerunCandidate, DbShape, Databases
<1> QED
  BY <1>1, <1>2, <1>3, <1>4, DbMoves DEF DbShape

(* One session at a time changes; what it has taken is one number. *)
TakesOne(s) ==
    db.session[s] \in {"open", "committed"} => \E n \in db.given[s]: db.given[s] = {n}
IsIn(s) == db.session[s] = "committed" => db.given[s] \subseteq db.numbers
GapGiven ==
    \/ db.numbers = Fixture /\ \A s \in Sessions: db.session[s] = "idle"
    \/ \E s \in Sessions: db.session[s] # "idle" /\
          (db.session[s] = "failed" \/ db.given[s] = {3})

(* SessionsKnown, with its parts about one session named *)
LEMMA SessionsAre ==
  SessionsKnown <=>
    /\ job = "run" /\ pc \in {"off"} \cup BeforeSessions => db = NewDatabase
    /\ pc \in {"sessions", "automation"} => db.stamped = (defect = "stamps the automation")
    /\ pc = "sessions" =>
          /\ Fixture \subseteq db.numbers /\ HasMaximum(db.numbers)
          /\ \A s \in Sessions: TakesOne(s) /\ IsIn(s)
          /\ defect = "takes the maximum" => db.next = 6
          /\ defect = "fills the gap" => GapGiven
BY DEF SessionsKnown, TakesOne, IsIn, GapGiven

(* SessionsKnown when a session takes its number *)
LEMMA SessionsAllocate ==
  ASSUME DbShape, SessionsKnown, Next, NEW s \in Sessions, SessionAllocates(s)
  PROVE  SessionsKnown'
<1> DEFINE n == Allocated
<1>1. /\ pc = "sessions" /\ pc' = "sessions" /\ db.session[s] = "idle"
      /\ db' = [db EXCEPT !.session[s] = "open", !.given[s] = {n},
                          !.next = IF defect \in {"takes the maximum", "fills the gap"} THEN @
                                   ELSE @ + 1]
  BY DEF SessionAllocates, process
<1>2. n \in Nat /\ (defect = "fills the gap" /\ db.numbers = Fixture => n = 3)
  BY <1>1, AllocatedIs
<1> HIDE DEF n
<1>3. /\ db'.numbers = db.numbers /\ db'.stamped = db.stamped
      /\ db'.given = [db.given EXCEPT ![s] = {n}]
      /\ db'.session = [db.session EXCEPT ![s] = "open"]
      /\ defect = "takes the maximum" => db'.next = db.next
  BY <1>1 DEF DbShape, Databases
<1>4. db.given \in [Sessions -> SUBSET Nat] /\ DOMAIN db.session = Sessions
  BY DEF DbShape, Databases
<1>5. ASSUME NEW t \in Sessions
      PROVE  (TakesOne(t) /\ IsIn(t))'
  <2>1. TakesOne(t) /\ IsIn(t)
    BY <1>1, SessionsAre
  <2>2. CASE t = s
    BY <1>3, <1>4, <2>2 DEF TakesOne, IsIn
  <2>3. CASE t # s
    BY <1>3, <1>4, <2>1, <2>3 DEF TakesOne, IsIn
  <2> QED
    BY <2>2, <2>3
<1>6. defect = "fills the gap" => GapGiven'
  <2>1. CASE db.numbers = Fixture
    BY <1>2, <1>3, <1>4, <2>1 DEF GapGiven
  <2>2. CASE \E t \in Sessions: db.session[t] # "idle" /\
               (db.session[t] = "failed" \/ db.given[t] = {3})
    <3>1. PICK t \in Sessions: db.session[t] # "idle" /\
               (db.session[t] = "failed" \/ db.given[t] = {3})
      BY <2>2
    <3>2. t # s
      BY <1>1, <3>1
    <3>3. db'.session[t] = db.session[t] /\ db'.given[t] = db.given[t]
      BY <1>3, <1>4, <3>2
    <3> QED
      BY <3>1, <3>3 DEF GapGiven
  <2> QED
    BY <1>1, <2>1, <2>2, SessionsAre DEF GapGiven
<1> QED
  BY <1>1, <1>3, <1>5, <1>6, SessionsAre, DefectStands DEF BeforeSessions, BeforeMigrations,
     SessionsKnown, TakesOne, IsIn, GapGiven

(* SessionsKnown when a session commits or fails *)
LEMMA SessionsEnd ==
  ASSUME DbShape, SessionsKnown, Next, NEW s \in Sessions, SessionEnds(s)
  PROVE  SessionsKnown'
<1>1. pc = "sessions" /\ pc' = "sessions" /\ db.session[s] = "open" /\ defect' = defect
  BY DEF SessionEnds, process
<1>2. /\ db.given \in [Sessions -> SUBSET Nat] /\ DOMAIN db.session = Sessions
      /\ db.numbers \in SUBSET Nat
  BY DEF DbShape, Databases
<1>3. PICK n \in Nat: db.given[s] = {n}
  BY <1>1, <1>2, SessionsAre DEF TakesOne
<1>4. CASE db' = [db EXCEPT !.session[s] = "committed", !.numbers = @ \cup db.given[s]]
  <2>1. /\ db'.numbers = db.numbers \cup {n} /\ db'.stamped = db.stamped
        /\ db'.given = db.given /\ db'.next = db.next
        /\ db'.session = [db.session EXCEPT ![s] = "committed"]
    BY <1>3, <1>4 DEF DbShape, Databases
  <2>2. ASSUME NEW t \in Sessions
        PROVE  (TakesOne(t) /\ IsIn(t))'
    <3>1. TakesOne(t) /\ IsIn(t) /\ TakesOne(s)
      BY <1>1, SessionsAre
    <3>2. CASE t = s
      BY <1>1, <1>2, <1>3, <2>1, <3>1, <3>2 DEF TakesOne, IsIn
    <3>3. CASE t # s
      BY <1>2, <2>1, <3>1, <3>3 DEF TakesOne, IsIn
    <3> QED
      BY <3>2, <3>3
  <2>3. HasMaximum(db'.numbers)
    <3>1. PICK m \in db.numbers: \A k \in db.numbers: k <= m
      BY <1>1, SessionsAre DEF HasMaximum
    <3>2. m \in Nat
      BY <1>2
    <3>3. CASE n <= m
      BY <2>1, <3>1, <3>3 DEF HasMaximum
    <3>4. CASE m < n
      <4>1. \A k \in db.numbers: k <= n
        BY <1>2, <3>1, <3>2, <3>4
      <4> QED
        BY <2>1, <4>1 DEF HasMaximum
    <3> QED
      BY <3>2, <3>3, <3>4
  <2>4. defect = "fills the gap" => GapGiven'
    <3> SUFFICES ASSUME defect = "fills the gap"
                 PROVE  GapGiven'
      OBVIOUS
    <3>1. PICK t \in Sessions: db.session[t] # "idle" /\
               (db.session[t] = "failed" \/ db.given[t] = {3})
      BY <1>1, SessionsAre DEF GapGiven
    <3>2. db'.given[t] = db.given[t] /\ (t # s => db'.session[t] = db.session[t])
          /\ (t = s => db'.session[t] = "committed")
      BY <1>2, <2>1
    <3> QED
      BY <1>1, <3>1, <3>2 DEF GapGiven
  <2> QED
    BY <1>1, <2>1, <2>2, <2>3, <2>4, SessionsAre DEF BeforeSessions, BeforeMigrations,
       SessionsKnown, TakesOne, IsIn, GapGiven
<1>5. CASE db' = [db EXCEPT !.session[s] = "failed", !.given[s] = {}]
  <2>1. /\ db'.numbers = db.numbers /\ db'.stamped = db.stamped /\ db'.next = db.next
        /\ db'.given = [db.given EXCEPT ![s] = {}]
        /\ db'.session = [db.session EXCEPT ![s] = "failed"]
    BY <1>5 DEF DbShape, Databases
  <2>2. ASSUME NEW t \in Sessions
        PROVE  (TakesOne(t) /\ IsIn(t))'
    <3>1. TakesOne(t) /\ IsIn(t)
      BY <1>1, SessionsAre
    <3>2. CASE t = s
      BY <1>2, <2>1, <3>2 DEF TakesOne, IsIn
    <3>3. CASE t # s
      BY <1>2, <2>1, <3>1, <3>3 DEF TakesOne, IsIn
    <3> QED
      BY <3>2, <3>3
  <2>3. GapGiven'
    BY <1>2, <2>1 DEF GapGiven
  <2> QED
    BY <1>1, <2>1, <2>2, <2>3, SessionsAre DEF BeforeSessions, BeforeMigrations,
       SessionsKnown, TakesOne, IsIn, GapGiven
<1> QED
  BY <1>4, <1>5 DEF SessionEnds

(* SessionsKnown is preserved. *)
LEMMA SessionsStep ==
  ASSUME StepsKnown, DbShape, SessionsKnown, Next
  PROVE  SessionsKnown'
<1>1. PcMoves /\ defect' = defect
  BY PcStep, DefectStands
<1>2. CASE ApplyCandidate
  <2>1. pc = "candidate" /\ job = "run" /\ db = NewDatabase
    BY <1>2 DEF ApplyCandidate, StepsKnown, SessionsKnown, RunSteps, BeforeSessions
  <2>2. Humans \ {Deleted} = Fixture
    BY DEF Humans, Deleted, Fixture
  <2>3. /\ db'.numbers = Fixture /\ db'.stamped = (defect = "stamps the automation")
        /\ db'.session = [t \in Sessions |-> "idle"] /\ db'.next = 6
    BY <1>2, <2>1, <2>2 DEF ApplyCandidate, NewDatabase
  <2>4. HasMaximum(Fixture)
    <3>1. 5 \in Fixture /\ \A k \in Fixture: k <= 5
      BY DEF Fixture
    <3> QED
      BY <3>1 DEF HasMaximum
  <2>5. \A t \in Sessions: db'.session[t] = "idle"
    BY <2>3
  <2>6. pc' \notin BeforeSessions \cup {"off", "automation"}
    BY <1>2 DEF ApplyCandidate, Raise, Advance, BeforeSessions, BeforeMigrations
  <2> QED
    BY <1>1, <2>3, <2>4, <2>5, <2>6 DEF SessionsKnown
<1>3. CASE RerunCandidate
  <2>1. pc = "rerun" /\ pc' \in {"canaries", "remove", "unstage"}
    BY <1>3 DEF RerunCandidate, Raise, Advance
  <2> QED
    BY <2>1 DEF SessionsKnown, BeforeSessions, BeforeMigrations
<1>4. CASE UNCHANGED db /\ ~ApplyCandidate
  BY <1>1, <1>4 DEF SessionsKnown, PcMoves
<1> QED
  BY <1>2, <1>3, <1>4, DbMoves, SessionsAllocate, SessionsEnd

-----------------------------------------------------------------------------
(* What the receipt of a run shows *)

(* What a query has seen when it shows a proof *)
Sees(p) ==
    /\ p = "automation null" => pc = "automation" /\ BooleanText[db.stamped] # "t"
    /\ p = "immutable" => defect # "mutable"
    /\ p = "privileges" =>
          /\ Rendered(SequencePrivileges.anon) = <<"f", "f", "f">>
          /\ Rendered(SequencePrivileges.service_role) = <<"f", "f", "t">>
    /\ p = "same state" => defect # "not idempotent"

ShownMoves ==
    \/ receipt'.shown = receipt.shown
    \/ receipt'.shown = {}
    \/ pc = "read" \/ JoinSessions
    \/ \E p \in Proofs \ Joined: Sees(p) /\ receipt'.shown = receipt.shown \cup {p}

(* ShownMoves holds of every step. *)
LEMMA ShownStep ==
  ASSUME TypeOK, DbShape, Next
  PROVE  ShownMoves
<1>1. CASE StartRun
  BY <1>1, DefaultsAre DEF StartRun, ShownMoves, TypeOK, Receipts
<1>2. CASE StageSource
  BY <1>2, DefaultsAre DEF StageSource, Raise, Advance, ShownMoves, TypeOK, Receipts
<1>3. CASE Attest
  <2>1. "attested" \in Proofs \ Joined
    BY DEF Proofs, Joined
  <2>2. \/ receipt'.shown = receipt.shown
        \/ Sees("attested") /\ receipt'.shown = receipt.shown \cup {"attested"}
    BY <1>3 DEF Attest, Shows, Sees, TypeOK, Receipts
  <2> QED
    BY <2>1, <2>2 DEF ShownMoves
<1>4. CASE CreateNetwork
  BY <1>4, DefaultsAre DEF CreateNetwork, Request, Raise, Advance, ShownMoves, TypeOK,
     Receipts
<1>5. CASE StartDatabase
  BY <1>5, DefaultsAre DEF StartDatabase, Request, Raise, Advance, ShownMoves, TypeOK,
     Receipts
<1>6. CASE InspectDatabase
  <2>1. "same network" \in Proofs \ Joined
    BY DEF Proofs, Joined
  <2>2. \/ receipt'.shown = receipt.shown
        \/ Sees("same network") /\ receipt'.shown = receipt.shown \cup {"same network"}
    BY <1>6 DEF InspectDatabase, Sees, TypeOK, Receipts
  <2> QED
    BY <2>1, <2>2 DEF ShownMoves
<1>7. CASE ApplyBase
  BY <1>7, DefaultsAre DEF ApplyBase, Raise, Advance, ShownMoves, TypeOK, Receipts
<1>8. CASE ApplyCandidate
  <2>1. "gap" \in Proofs \ Joined
    BY DEF Proofs, Joined
  <2>2. \/ receipt'.shown = receipt.shown
        \/ Sees("gap") /\ receipt'.shown = receipt.shown \cup {"gap"}
    BY <1>8 DEF ApplyCandidate, Sees, TypeOK, Receipts
  <2> QED
    BY <2>1, <2>2 DEF ShownMoves
<1>9. ASSUME NEW s \in Sessions, SessionAllocates(s)
      PROVE  ShownMoves
  BY <1>9, DefaultsAre DEF SessionAllocates, process, ShownMoves, TypeOK, Receipts
<1>10. ASSUME NEW s \in Sessions, SessionEnds(s)
      PROVE  ShownMoves
  BY <1>10, DefaultsAre DEF SessionEnds, process, ShownMoves, TypeOK, Receipts
<1>11. CASE JoinSessions
  BY <1>11 DEF ShownMoves
<1>12. CASE CheckAutomation
  <2>1. "automation null" \in Proofs \ Joined
    BY DEF Proofs, Joined
  <2>2. \/ receipt'.shown = receipt.shown
        \/ Sees("automation null") /\ receipt'.shown = receipt.shown \cup {"automation null"}
    BY <1>12 DEF CheckAutomation, Judge, Shows, Sees, TypeOK, Receipts
  <2> QED
    BY <2>1, <2>2 DEF ShownMoves
<1>13. CASE CheckImmutability
  <2>1. "immutable" \in Proofs \ Joined
    BY DEF Proofs, Joined
  <2>2. \/ receipt'.shown = receipt.shown
        \/ Sees("immutable") /\ receipt'.shown = receipt.shown \cup {"immutable"}
    BY <1>13 DEF CheckImmutability, Judge, Shows, Sees, TypeOK, Receipts
  <2> QED
    BY <2>1, <2>2 DEF ShownMoves
<1>14. CASE CheckPrivileges
  <2>1. "privileges" \in Proofs \ Joined
    BY DEF Proofs, Joined
  <2>2. \/ receipt'.shown = receipt.shown
        \/ Sees("privileges") /\ receipt'.shown = receipt.shown \cup {"privileges"}
    BY <1>14 DEF CheckPrivileges, Judge, Shows, Sees, TypeOK, Receipts
  <2> QED
    BY <2>1, <2>2 DEF ShownMoves
<1>15. CASE RerunCandidate
  <2>1. "same state" \in Proofs \ Joined
    BY DEF Proofs, Joined
  <2>2. db'.touched = (defect = "not idempotent")
    BY <1>15 DEF RerunCandidate, DbShape, Databases
  <2>3. \/ receipt'.shown = receipt.shown
        \/ Sees("same state") /\ receipt'.shown = receipt.shown \cup {"same state"}
    BY <1>15, <2>2 DEF RerunCandidate, Sees, TypeOK, Receipts
  <2> QED
    BY <2>1, <2>3 DEF ShownMoves
<1>16. CASE NetworkCanaries
  <2>1. "canaries" \in Proofs \ Joined
    BY DEF Proofs, Joined
  <2>2. \/ receipt'.shown = receipt.shown
        \/ Sees("canaries") /\ receipt'.shown = receipt.shown \cup {"canaries"}
    BY <1>16 DEF NetworkCanaries, Shows, Sees, TypeOK, Receipts
  <2> QED
    BY <2>1, <2>2 DEF ShownMoves
<1>17. CASE RemoveObjects
  BY <1>17, DefaultsAre DEF RemoveObjects, Advance, ShownMoves, TypeOK, Receipts
<1>18. CASE CleanupRaises
  BY <1>18, DefaultsAre DEF CleanupRaises, ShownMoves, TypeOK, Receipts
<1>19. CASE CountObjects
  BY <1>19, DefaultsAre DEF CountObjects, Advance, ShownMoves, TypeOK, Receipts
<1>20. CASE RemoveSource
  BY <1>20, DefaultsAre DEF RemoveSource, Advance, ShownMoves, TypeOK, Receipts
<1>21. CASE StartRecovery
  BY <1>21, DefaultsAre DEF StartRecovery, ShownMoves, TypeOK, Receipts
<1>22. CASE ReadReceipt
  BY <1>22, DefaultsAre DEF ReadReceipt, Raise, Advance, ShownMoves, TypeOK, Receipts
<1>23. CASE CloseReceipt
  <2>1. receipt'.shown = receipt.shown
    BY <1>23 DEF CloseReceipt, Closed, RecoveredClosed, TypeOK, Receipts
  <2> QED
    BY <2>1 DEF ShownMoves
<1>24. CASE TruncateArtifact
  BY <1>24, DefaultsAre DEF TruncateArtifact, Advance, EndsBadly, ShownMoves, TypeOK,
     Receipts
<1>25. CASE WriteArtifact
  BY <1>25, DefaultsAre DEF WriteArtifact, Advance, ShownMoves, TypeOK, Receipts
<1>26. CASE VerifyReceipt
  BY <1>26, DefaultsAre DEF VerifyReceipt, process, ShownMoves, TypeOK, Receipts
<1>27. CASE Die
  BY <1>27, DefaultsAre DEF Die, EndsBadly, ShownMoves, TypeOK, Receipts
<1>28. CASE ServeLate
  BY <1>28, DefaultsAre DEF ServeLate, process, ShownMoves, TypeOK, Receipts
<1> QED
  BY <1>1, <1>2, <1>3, <1>4, <1>5, <1>6, <1>7, <1>8, <1>9, <1>10, <1>11, <1>12, <1>13, <1>14,
     <1>15, <1>16, <1>17, <1>18, <1>19, <1>20, <1>21, <1>22, <1>23, <1>24, <1>25, <1>26,
     <1>27, <1>28
     DEF Next, Run, Finish

(* The job does not come back to the run. *)
LEMMA JobStep ==
  ASSUME Next
  PROVE  job' = "run" => job = "run"
<1>1. CASE StartRun
  BY <1>1 DEF StartRun
<1>2. CASE StageSource
  BY <1>2 DEF StageSource, Raise, Advance
<1>3. CASE Attest
  BY <1>3 DEF Attest, Shows, Advance
<1>4. CASE CreateNetwork
  BY <1>4 DEF CreateNetwork, Request, Raise, Advance
<1>5. CASE StartDatabase
  BY <1>5 DEF StartDatabase, Request, Raise, Advance
<1>6. CASE InspectDatabase
  BY <1>6 DEF InspectDatabase, Raise, Advance
<1>7. CASE ApplyBase
  BY <1>7 DEF ApplyBase, Raise, Advance
<1>8. CASE ApplyCandidate
  BY <1>8 DEF ApplyCandidate, Raise, Advance
<1>9. ASSUME NEW s \in Sessions, SessionAllocates(s)
      PROVE  job' = "run" => job = "run"
  BY <1>9 DEF SessionAllocates, process
<1>10. ASSUME NEW s \in Sessions, SessionEnds(s)
      PROVE  job' = "run" => job = "run"
  BY <1>10 DEF SessionEnds, process
<1>11. CASE JoinSessions
  BY <1>11 DEF JoinSessions, Raise, Advance, Shows
<1>12. CASE CheckAutomation
  BY <1>12 DEF CheckAutomation, Judge, Raise, Advance, Shows
<1>13. CASE CheckImmutability
  BY <1>13 DEF CheckImmutability, Judge, Raise, Advance, Shows
<1>14. CASE CheckPrivileges
  BY <1>14 DEF CheckPrivileges, Judge, Raise, Advance, Shows
<1>15. CASE RerunCandidate
  BY <1>15 DEF RerunCandidate, Raise, Advance
<1>16. CASE NetworkCanaries
  BY <1>16 DEF NetworkCanaries, Raise, Advance, Shows
<1>17. CASE RemoveObjects
  BY <1>17 DEF RemoveObjects, Advance
<1>18. CASE CleanupRaises
  BY <1>18 DEF CleanupRaises
<1>19. CASE CountObjects
  BY <1>19 DEF CountObjects, Advance
<1>20. CASE RemoveSource
  BY <1>20 DEF RemoveSource, Advance
<1>21. CASE StartRecovery
  BY <1>21 DEF StartRecovery
<1>22. CASE ReadReceipt
  BY <1>22 DEF ReadReceipt, Raise, Advance
<1>23. CASE CloseReceipt
  BY <1>23 DEF CloseReceipt, Advance, EndsBadly
<1>24. CASE TruncateArtifact
  BY <1>24 DEF TruncateArtifact, Advance, EndsBadly
<1>25. CASE WriteArtifact
  BY <1>25 DEF WriteArtifact, Advance
<1>26. CASE VerifyReceipt
  BY <1>26 DEF VerifyReceipt, process
<1>27. CASE Die
  BY <1>27 DEF Die, EndsBadly
<1>28. CASE ServeLate
  BY <1>28 DEF ServeLate, process
<1> QED
  BY <1>1, <1>2, <1>3, <1>4, <1>5, <1>6, <1>7, <1>8, <1>9, <1>10, <1>11, <1>12, <1>13, <1>14,
     <1>15, <1>16, <1>17, <1>18, <1>19, <1>20, <1>21, <1>22, <1>23, <1>24, <1>25, <1>26,
     <1>27, <1>28
     DEF Next, Run, Finish

(* A run starts with a receipt that shows nothing. *)
LEMMA StartShows ==
  ASSUME TypeOK, StepsKnown, job' = "run", pc = "off", pc' # "off", Next
  PROVE  receipt'.shown = {}
<1>1. CASE StartRun
  BY <1>1, DefaultsAre DEF StartRun, StepsKnown
<1>2. CASE StageSource
  BY <1>2, DefaultsAre DEF StageSource, Raise, Advance, StepsKnown
<1>3. CASE Attest
  BY <1>3, DefaultsAre DEF Attest, Shows, Advance, StepsKnown
<1>4. CASE CreateNetwork
  BY <1>4, DefaultsAre DEF CreateNetwork, Request, Raise, Advance, StepsKnown
<1>5. CASE StartDatabase
  BY <1>5, DefaultsAre DEF StartDatabase, Request, Raise, Advance, StepsKnown
<1>6. CASE InspectDatabase
  BY <1>6, DefaultsAre DEF InspectDatabase, Raise, Advance, StepsKnown
<1>7. CASE ApplyBase
  BY <1>7, DefaultsAre DEF ApplyBase, Raise, Advance, StepsKnown
<1>8. CASE ApplyCandidate
  BY <1>8, DefaultsAre DEF ApplyCandidate, Raise, Advance, StepsKnown
<1>9. ASSUME NEW s \in Sessions, SessionAllocates(s)
      PROVE  receipt'.shown = {}
  BY <1>9, DefaultsAre DEF SessionAllocates, process, StepsKnown
<1>10. ASSUME NEW s \in Sessions, SessionEnds(s)
      PROVE  receipt'.shown = {}
  BY <1>10, DefaultsAre DEF SessionEnds, process, StepsKnown
<1>11. CASE JoinSessions
  BY <1>11, DefaultsAre DEF JoinSessions, Raise, Advance, Shows, StepsKnown
<1>12. CASE CheckAutomation
  BY <1>12, DefaultsAre DEF CheckAutomation, Judge, Raise, Advance, Shows, StepsKnown
<1>13. CASE CheckImmutability
  BY <1>13, DefaultsAre DEF CheckImmutability, Judge, Raise, Advance, Shows, StepsKnown
<1>14. CASE CheckPrivileges
  BY <1>14, DefaultsAre DEF CheckPrivileges, Judge, Raise, Advance, Shows, StepsKnown
<1>15. CASE RerunCandidate
  BY <1>15, DefaultsAre DEF RerunCandidate, Raise, Advance, StepsKnown
<1>16. CASE NetworkCanaries
  BY <1>16, DefaultsAre DEF NetworkCanaries, Raise, Advance, Shows, StepsKnown
<1>17. CASE RemoveObjects
  BY <1>17, DefaultsAre DEF RemoveObjects, Advance, StepsKnown
<1>18. CASE CleanupRaises
  BY <1>18, DefaultsAre DEF CleanupRaises, StepsKnown
<1>19. CASE CountObjects
  BY <1>19, DefaultsAre DEF CountObjects, Advance, StepsKnown
<1>20. CASE RemoveSource
  BY <1>20, DefaultsAre DEF RemoveSource, Advance, StepsKnown
<1>21. CASE StartRecovery
  BY <1>21, DefaultsAre DEF StartRecovery, StepsKnown
<1>22. CASE ReadReceipt
  BY <1>22, DefaultsAre DEF ReadReceipt, Raise, Advance, StepsKnown
<1>23. CASE CloseReceipt
  BY <1>23, DefaultsAre DEF CloseReceipt, Advance, EndsBadly, StepsKnown
<1>24. CASE TruncateArtifact
  BY <1>24, DefaultsAre DEF TruncateArtifact, Advance, EndsBadly, StepsKnown
<1>25. CASE WriteArtifact
  BY <1>25, DefaultsAre DEF WriteArtifact, Advance, StepsKnown
<1>26. CASE VerifyReceipt
  BY <1>26, DefaultsAre DEF VerifyReceipt, process, StepsKnown
<1>27. CASE Die
  BY <1>27, DefaultsAre DEF Die, EndsBadly, StepsKnown
<1>28. CASE ServeLate
  BY <1>28, DefaultsAre DEF ServeLate, process, StepsKnown
<1> QED
  BY <1>1, <1>2, <1>3, <1>4, <1>5, <1>6, <1>7, <1>8, <1>9, <1>10, <1>11, <1>12, <1>13, <1>14,
     <1>15, <1>16, <1>17, <1>18, <1>19, <1>20, <1>21, <1>22, <1>23, <1>24, <1>25, <1>26,
     <1>27, <1>28
     DEF Next, Run, Finish

(* A row of three, as text *)
LEMMA RenderedIs ==
  ASSUME NEW one, NEW two, NEW three
  PROVE  /\ Rendered(<<one, two, three>>)[1] = BooleanText[one]
         /\ Rendered(<<one, two, three>>)[3] = BooleanText[three]
<1> DEFINE row == <<one, two, three>>
<1>1. DOMAIN row = 1..3 /\ row[1] = one /\ row[2] = two /\ row[3] = three
  OBVIOUS
<1> HIDE DEF row
<1>2. \A i \in 1..3: Rendered(row)[i] = BooleanText[row[i]]
  BY <1>1 DEF Rendered
<1>3. 1 \in 1..3 /\ 3 \in 1..3
  OBVIOUS
<1>4. Rendered(row)[1] = BooleanText[one] /\ Rendered(row)[3] = BooleanText[three]
  BY <1>1, <1>2, <1>3, Zenon
<1> QED
  BY <1>4 DEF row

(* The privileges can only be accepted if TRUE is rendered as "t". *)
LEMMA PrivilegesSeen ==
  ASSUME Sees("privileges")
  PROVE  BooleanText[TRUE] = "t" /\ defect # "public sequence"
<1>1. PICK public: public = (defect = "public sequence")
  OBVIOUS
<1>2. /\ Rendered(<<public, FALSE, FALSE>>) = <<"f", "f", "f">>
      /\ Rendered(<<FALSE, FALSE, TRUE>>) = <<"f", "f", "t">>
  BY <1>1 DEF Sees, SequencePrivileges
<1>3. \A no, one: Rendered(<<one, no, no>>)[1] = BooleanText[one]
  BY RenderedIs
<1>4. \A no, yes: Rendered(<<no, no, yes>>)[3] = BooleanText[yes]
  BY RenderedIs
<1>5. <<"f", "f", "t">>[3] = "t" /\ <<"f", "f", "f">>[1] = "f"
  OBVIOUS
<1>6. BooleanText[TRUE] = "t"
  <2>1. PICK no, yes: no = FALSE /\ yes = TRUE
    OBVIOUS
  <2>2. Rendered(<<no, no, yes>>) = <<"f", "f", "t">>
    BY <1>2, <2>1, Zenon
  <2>3. Rendered(<<no, no, yes>>)[3] = BooleanText[yes]
    BY <1>4
  <2>4. <<"f", "f", "t">>[3] = "t"
    BY <1>5
  <2>5. BooleanText[yes] = "t"
    BY <2>2, <2>3, <2>4, Zenon
  <2> QED
    BY <2>1, <2>5, Zenon
<1>7. BooleanText[public] = "f"
  <2>1. PICK no: no = FALSE
    OBVIOUS
  <2>2. Rendered(<<public, no, no>>) = <<"f", "f", "f">>
    BY <1>2, <2>1, Zenon
  <2>3. Rendered(<<public, no, no>>)[1] = BooleanText[public]
    BY <1>3
  <2>4. <<"f", "f", "f">>[1] = "f"
    BY <1>5
  <2> QED
    BY <2>2, <2>3, <2>4, Zenon
<1>8. public # TRUE
  BY <1>6, <1>7
<1> QED
  BY <1>1, <1>6, <1>8

(* The four observations of the sessions together leave no way to have     *)
(* given a number wrongly, whatever the order was: a maximum that was      *)
(* given leaves the sequence behind, and a gap that was filled is below.   *)
LEMMA JoinIsRight ==
  ASSUME TypeOK, DbShape, SessionsKnown, JoinSessions, receipt.shown \cap Joined = {},
         Joined \subseteq receipt'.shown
  PROVE  /\ defect \notin {"takes the maximum", "fills the gap"}
         /\ Cardinality(Given) = Cardinality(Sessions)
<1> DEFINE high == Max(Humans)
           distinct == Cardinality(Given) = Cardinality(Sessions)
           above == \A n \in Given: n > high
           next == db.next > Max(db.numbers)
           none == \E s \in Sessions: db.session[s] = "failed"
           what == {"all succeeded"} \cup (IF distinct THEN {"distinct"} ELSE {})
                        \cup (IF above THEN {"above high water"} ELSE {})
                        \cup (IF next THEN {"next above all"} ELSE {})
<1>1. pc = "sessions" /\ \A s \in Sessions: db.session[s] \in {"committed", "failed"}
  BY DEF JoinSessions
<1>2. IF none THEN UNCHANGED receipt ELSE Shows(what)
  BY DEF JoinSessions
<1> HIDE DEF distinct, above, next, none, high
<1>3. ~none /\ distinct /\ above /\ next
  <2>1. "distinct" \in Joined /\ "above high water" \in Joined /\ "next above all" \in Joined
    BY DEF Joined
  <2>2. ~none
    BY <1>2, <2>1
  <2>3. receipt'.shown = receipt.shown \cup what
    BY <1>2, <2>2 DEF Shows, TypeOK, Receipts
  <2>4. "distinct" \in what /\ "above high water" \in what /\ "next above all" \in what
    BY <2>1, <2>3
  <2> QED
    BY <2>2, <2>4
<1>4. PICK s \in Sessions: db.session[s] = "committed"
  BY <1>1, <1>3, SessionsAssumption DEF none
<1>5. high = 5
  <2>1. Humans \in SUBSET Nat /\ 5 \in Humans /\ \A n \in Humans: n <= 5
    BY DEF Humans
  <2>2. high \in Humans /\ \A n \in Humans: n <= high
    BY <2>1, MaximumIs DEF high, HasMaximum
  <2> QED
    BY <2>1, <2>2
<1>6. \A t \in Sessions: \A n \in db.given[t]: n > 5
  BY <1>3, <1>5 DEF above, Given
<1>7. db.given \in [Sessions -> SUBSET Nat] /\ db.numbers \in SUBSET Nat /\ db.next \in Nat
  BY DEF DbShape, Databases
<1>8. ASSUME defect = "takes the maximum"
      PROVE  FALSE
  <2>1. PICK n \in db.given[s]: n \in db.numbers
    BY <1>1, <1>4, SessionsAre DEF TakesOne, IsIn
  <2>2. Max(db.numbers) \in Nat /\ n <= Max(db.numbers)
    BY <1>1, <1>7, <2>1, SessionsAre, MaximumIs
  <2>3. db.next = 6 /\ db.next > Max(db.numbers)
    BY <1>1, <1>3, <1>8, SessionsAre DEF next
  <2>4. n \in Nat /\ n > 5
    BY <1>6, <1>7, <2>1
  <2> QED
    BY <2>2, <2>3, <2>4
<1>9. ASSUME defect = "fills the gap"
      PROVE  FALSE
  <2>1. GapGiven
    BY <1>1, <1>9, SessionsAre
  <2>2. PICK t \in Sessions: db.session[t] = "failed" \/ db.given[t] = {3}
    BY <1>4, <2>1 DEF GapGiven
  <2>3. db.given[t] = {3}
    BY <1>3, <2>2 DEF none
  <2>4. 3 \in db.given[t]
    BY <2>3
  <2>5. 3 > 5
    BY <1>6, <2>4
  <2> QED
    BY <2>5
<1> QED
  BY <1>3, <1>8, <1>9 DEF distinct

(* Nobody but a session changes what was given. *)
LEMMA GivenStands ==
  ASSUME DbShape, Next, pc # "sessions" \/ JoinSessions
  PROVE  Given' = Given
<1>1. CASE ApplyCandidate \/ RerunCandidate
  <2>1. db'.given = db.given
    BY <1>1 DEF ApplyCandidate, RerunCandidate, DbShape, Databases
  <2> QED
    BY <2>1 DEF Given
<1>2. CASE UNCHANGED db
  BY <1>2 DEF Given
<1>3. JoinSessions => UNCHANGED db
  BY DEF JoinSessions
<1>4. \A s \in Sessions: SessionAllocates(s) \/ SessionEnds(s) => pc = "sessions"
  BY DEF SessionAllocates, SessionEnds
<1> QED
  BY <1>1, <1>2, <1>3, <1>4, DbMoves

(* ProofsKnown is preserved. *)
LEMMA ProofsStep ==
  ASSUME TypeOK, StepsKnown, DbShape, SessionsKnown, ProofsKnown, Next
  PROVE  ProofsKnown'
<1>1. defect' = defect /\ PcMoves /\ ShownMoves
  BY DefectStands, PcStep, ShownStep
<1>2. SUFFICES ASSUME job' = "run"
               PROVE  ProofsKnown'
  BY DEF ProofsKnown
<1>3. job = "run" /\ pc # "read"
  <2>1. job' = "run" => job = "run"
    BY JobStep
  <2> QED
    BY <1>2, <2>1 DEF StepsKnown
<1>4. ASSUME pc' \in BeforeSessions \cup {"sessions"}
      PROVE  receipt'.shown \cap Joined = {}
  <2>1. ~JoinSessions
    BY <1>4 DEF JoinSessions, Raise, Advance, BeforeSessions, BeforeMigrations
  <2>2. pc \in BeforeSessions \cup {"sessions"} \/ receipt'.shown = {}
    BY <1>1, <1>2, <1>4, StartShows DEF PcMoves, ApplyCandidate, BeforeSessions
  <2> QED
    BY <1>1, <1>3, <2>1, <2>2 DEF ShownMoves, ProofsKnown
<1>5. ASSUME Joined \subseteq receipt'.shown
      PROVE  /\ defect \notin {"takes the maximum", "fills the gap"}
             /\ Cardinality(Given') = Cardinality(Sessions)
  <2>1. CASE JoinSessions
    <3>1. receipt.shown \cap Joined = {}
      BY <1>3, <2>1 DEF JoinSessions, ProofsKnown
    <3> QED
      BY <1>5, <2>1, <3>1, JoinIsRight, GivenStands
  <2>2. CASE ~JoinSessions
    <3>1. Joined \subseteq receipt.shown
      BY <1>1, <1>3, <1>5, <2>2 DEF ShownMoves, Joined
    <3>2. pc # "sessions"
      BY <1>3, <3>1 DEF ProofsKnown, Joined
    <3> QED
      BY <1>3, <3>1, <3>2, GivenStands DEF ProofsKnown
  <2> QED
    BY <2>1, <2>2
<1>6. \A p \in receipt'.shown \ Joined: p \in receipt.shown \/ Sees(p)
  <2>1. ASSUME JoinSessions
        PROVE  \A p \in receipt'.shown \ Joined: p \in receipt.shown
    <3>1. UNCHANGED receipt \/ \E what \in SUBSET Joined: Shows(what)
      BY <2>1 DEF JoinSessions, Joined
    <3>2. ASSUME NEW what \in SUBSET Joined, Shows(what)
          PROVE  receipt'.shown = receipt.shown \cup what
      BY <3>2 DEF Shows, TypeOK, Receipts
    <3> QED
      BY <3>1, <3>2
  <2> QED
    BY <1>1, <1>3, <2>1 DEF ShownMoves
<1>7. {"automation null", "immutable", "privileges", "same state"} \cap Joined = {}
  BY DEF Joined
<1>8. "automation null" \in receipt'.shown /\ BooleanText[TRUE] = "t" =>
         defect # "stamps the automation"
  <2>1. CASE "automation null" \in receipt.shown
    BY <1>3, <2>1 DEF ProofsKnown
  <2>2. CASE Sees("automation null")
    <3>1. pc = "automation" /\ BooleanText[db.stamped] # "t"
      BY <2>2 DEF Sees
    <3>2. db.stamped = (defect = "stamps the automation")
      BY <3>1, SessionsAre
    <3>3. defect = "stamps the automation" => db.stamped = TRUE
      BY <3>2
    <3> QED
      BY <3>1, <3>3
  <2> QED
    BY <1>6, <1>7, <2>1, <2>2
<1>9. "immutable" \in receipt'.shown => defect # "mutable"
  BY <1>3, <1>6, <1>7 DEF ProofsKnown, Sees
<1>10. "privileges" \in receipt'.shown =>
          BooleanText[TRUE] = "t" /\ defect # "public sequence"
  BY <1>3, <1>6, <1>7, PrivilegesSeen DEF ProofsKnown
<1>11. "same state" \in receipt'.shown => defect # "not idempotent"
  BY <1>3, <1>6, <1>7 DEF ProofsKnown, Sees
<1> QED
  BY <1>1, <1>4, <1>5, <1>8, <1>9, <1>10, <1>11 DEF ProofsKnown

-----------------------------------------------------------------------------
(* The objects and the requests given up on *)

(* A request that is given up on is a failure of the run. *)
LEMMA RequestKeeps ==
  ASSUME NEW objects, NEW next, TypeOK, Request(objects, next)
  PROVE  \/ failure' \in {"INTERNAL_ERROR", "LOCAL_DATABASE_START_FAILED"}
         \/ failure' = failure /\ pc' = next /\ daemon'.late = daemon.late
<1>1. PICK how \in {"made", "partly", "refused", "lost"}:
         /\ \E some:
               daemon' = [daemon EXCEPT !.objects = @ \cup some,
                                        !.late = IF how = "lost" THEN @ \cup objects ELSE @]
         /\ IF how = "made" THEN Advance(next)
            ELSE Raise(IF how = "lost" THEN "INTERNAL_ERROR" ELSE "LOCAL_DATABASE_START_FAILED")
  BY DEF Request
<1>2. CASE how = "made"
  BY <1>1, <1>2 DEF TypeOK, Advance
<1>3. CASE how # "made"
  BY <1>1, <1>3 DEF Raise
<1> QED
  BY <1>2, <1>3

(* RunKnows is preserved. *)
LEMMA RunStep ==
  ASSUME TypeOK, StepsKnown, RunKnows, Next
  PROVE  RunKnows'
<1>1. CASE StartRun
  BY <1>1, DefaultsAre DEF StartRun, RunKnows, TypeOK, Receipts, StepsKnown, RunSteps,
     BeforeSessions, BeforeMigrations, Cleaning, Writing
<1>2. CASE StageSource
  BY <1>2, DefaultsAre DEF StageSource, Raise, Advance, RunKnows, TypeOK, Receipts,
     StepsKnown, RunSteps, BeforeSessions, BeforeMigrations, Cleaning, Writing
<1>3. CASE Attest
  BY <1>3, DefaultsAre DEF Attest, Shows, Advance, RunKnows, TypeOK, Receipts, StepsKnown,
     RunSteps, BeforeSessions, BeforeMigrations, Cleaning, Writing
<1>4. CASE CreateNetwork
  <2>1. Request({"network"}, "database") /\ UNCHANGED <<job, receipt>>
    BY <1>4 DEF CreateNetwork
  <2>2. pc' # "off" /\ pc' # "close" /\ pc = "network"
    BY <1>4, <2>1 DEF CreateNetwork, Request, Raise, Advance
  <2>3. job = "run" /\ failure = "NONE"
    BY <2>2 DEF StepsKnown, RunSteps, BeforeSessions, BeforeMigrations, Cleaning, Writing
  <2>4. failure' = "NONE" => daemon'.late = daemon.late /\ pc' \notin Cleaning
    BY <2>1, <2>3, RequestKeeps DEF Cleaning
  <2> QED
    BY <2>1, <2>2, <2>3, <2>4 DEF RunKnows
<1>5. CASE StartDatabase
  <2>1. Request({"container", "volume"}, "inspect") /\ UNCHANGED <<job, receipt>>
    BY <1>5 DEF StartDatabase
  <2>2. pc' # "off" /\ pc' # "close" /\ pc = "database"
    BY <1>5, <2>1 DEF StartDatabase, Request, Raise, Advance
  <2>3. job = "run" /\ failure = "NONE"
    BY <2>2 DEF StepsKnown, RunSteps, BeforeSessions, BeforeMigrations, Cleaning, Writing
  <2>4. failure' = "NONE" => daemon'.late = daemon.late /\ pc' \notin Cleaning
    BY <2>1, <2>3, RequestKeeps DEF Cleaning
  <2> QED
    BY <2>1, <2>2, <2>3, <2>4 DEF RunKnows
<1>6. CASE InspectDatabase
  BY <1>6, DefaultsAre DEF InspectDatabase, Raise, Advance, RunKnows, TypeOK, Receipts,
     StepsKnown, RunSteps, BeforeSessions, BeforeMigrations, Cleaning, Writing
<1>7. CASE ApplyBase
  BY <1>7, DefaultsAre DEF ApplyBase, Raise, Advance, RunKnows, TypeOK, Receipts, StepsKnown,
     RunSteps, BeforeSessions, BeforeMigrations, Cleaning, Writing
<1>8. CASE ApplyCandidate
  BY <1>8, DefaultsAre DEF ApplyCandidate, Raise, Advance, RunKnows, TypeOK, Receipts,
     StepsKnown, RunSteps, BeforeSessions, BeforeMigrations, Cleaning, Writing
<1>9. ASSUME NEW s \in Sessions, SessionAllocates(s)
      PROVE  RunKnows'
  BY <1>9, DefaultsAre DEF SessionAllocates, process, RunKnows, TypeOK, Receipts, StepsKnown,
     RunSteps, BeforeSessions, BeforeMigrations, Cleaning, Writing
<1>10. ASSUME NEW s \in Sessions, SessionEnds(s)
      PROVE  RunKnows'
  BY <1>10, DefaultsAre DEF SessionEnds, process, RunKnows, TypeOK, Receipts, StepsKnown,
     RunSteps, BeforeSessions, BeforeMigrations, Cleaning, Writing
<1>11. CASE JoinSessions
  BY <1>11, DefaultsAre DEF JoinSessions, Raise, Advance, Shows, RunKnows, TypeOK, Receipts,
     StepsKnown, RunSteps, BeforeSessions, BeforeMigrations, Cleaning, Writing
<1>12. CASE CheckAutomation
  BY <1>12, DefaultsAre DEF CheckAutomation, Judge, Raise, Advance, Shows, RunKnows, TypeOK,
     Receipts, StepsKnown, RunSteps, BeforeSessions, BeforeMigrations, Cleaning, Writing
<1>13. CASE CheckImmutability
  BY <1>13, DefaultsAre DEF CheckImmutability, Judge, Raise, Advance, Shows, RunKnows,
     TypeOK, Receipts, StepsKnown, RunSteps, BeforeSessions, BeforeMigrations, Cleaning,
     Writing
<1>14. CASE CheckPrivileges
  BY <1>14, DefaultsAre DEF CheckPrivileges, Judge, Raise, Advance, Shows, RunKnows, TypeOK,
     Receipts, StepsKnown, RunSteps, BeforeSessions, BeforeMigrations, Cleaning, Writing
<1>15. CASE RerunCandidate
  BY <1>15, DefaultsAre DEF RerunCandidate, Raise, Advance, RunKnows, TypeOK, Receipts,
     StepsKnown, RunSteps, BeforeSessions, BeforeMigrations, Cleaning, Writing
<1>16. CASE NetworkCanaries
  BY <1>16, DefaultsAre DEF NetworkCanaries, Raise, Advance, Shows, RunKnows, TypeOK,
     Receipts, StepsKnown, RunSteps, BeforeSessions, BeforeMigrations, Cleaning, Writing
<1>17. CASE RemoveObjects
  BY <1>17, DefaultsAre DEF RemoveObjects, Advance, RunKnows, TypeOK, Receipts, StepsKnown,
     RunSteps, BeforeSessions, BeforeMigrations, Cleaning, Writing
<1>18. CASE CleanupRaises
  BY <1>18, DefaultsAre DEF CleanupRaises, RunKnows, TypeOK, Receipts, StepsKnown, RunSteps,
     BeforeSessions, BeforeMigrations, Cleaning, Writing
<1>19. CASE CountObjects
  BY <1>19, DefaultsAre DEF CountObjects, Advance, RunKnows, TypeOK, Receipts, StepsKnown,
     RunSteps, BeforeSessions, BeforeMigrations, Cleaning, Writing
<1>20. CASE RemoveSource
  BY <1>20, DefaultsAre DEF RemoveSource, Advance, RunKnows, TypeOK, Receipts, StepsKnown,
     RunSteps, BeforeSessions, BeforeMigrations, Cleaning, Writing
<1>21. CASE StartRecovery
  BY <1>21, DefaultsAre DEF StartRecovery, RunKnows, TypeOK, Receipts, StepsKnown, RunSteps,
     BeforeSessions, BeforeMigrations, Cleaning, Writing
<1>22. CASE ReadReceipt
  BY <1>22, DefaultsAre DEF ReadReceipt, Raise, Advance, RunKnows, TypeOK, Receipts,
     StepsKnown, RunSteps, BeforeSessions, BeforeMigrations, Cleaning, Writing
<1>23. CASE CloseReceipt
  BY <1>23, DefaultsAre DEF CloseReceipt, Advance, EndsBadly, RunKnows, TypeOK, Receipts,
     StepsKnown, RunSteps, BeforeSessions, BeforeMigrations, Cleaning, Writing
<1>24. CASE TruncateArtifact
  BY <1>24, DefaultsAre DEF TruncateArtifact, Advance, EndsBadly, RunKnows, TypeOK, Receipts,
     StepsKnown, RunSteps, BeforeSessions, BeforeMigrations, Cleaning, Writing
<1>25. CASE WriteArtifact
  BY <1>25, DefaultsAre DEF WriteArtifact, Advance, RunKnows, TypeOK, Receipts, StepsKnown,
     RunSteps, BeforeSessions, BeforeMigrations, Cleaning, Writing
<1>26. CASE VerifyReceipt
  BY <1>26, DefaultsAre DEF VerifyReceipt, process, RunKnows, TypeOK, Receipts, StepsKnown,
     RunSteps, BeforeSessions, BeforeMigrations, Cleaning, Writing
<1>27. CASE Die
  BY <1>27, DefaultsAre DEF Die, EndsBadly, RunKnows, TypeOK, Receipts, StepsKnown, RunSteps,
     BeforeSessions, BeforeMigrations, Cleaning, Writing
<1>28. CASE ServeLate
  BY <1>28, DefaultsAre DEF ServeLate, process, RunKnows, TypeOK, Receipts, StepsKnown,
     RunSteps, BeforeSessions, BeforeMigrations, Cleaning, Writing
<1> QED
  BY <1>1, <1>2, <1>3, <1>4, <1>5, <1>6, <1>7, <1>8, <1>9, <1>10, <1>11, <1>12, <1>13, <1>14,
     <1>15, <1>16, <1>17, <1>18, <1>19, <1>20, <1>21, <1>22, <1>23, <1>24, <1>25, <1>26,
     <1>27, <1>28
     DEF Next, Run, Finish

(* After the run's steps a daemon with nothing left and nothing late stays so. *)
LEMMA QuietStep ==
  ASSUME TypeOK, pc \notin RunSteps, daemon.objects = {}, daemon.late = {}, Next
  PROVE  daemon'.objects = {} /\ daemon'.late = {}
<1>1. CASE StartRun
  BY <1>1 DEF StartRun, TypeOK, RunSteps, BeforeSessions, BeforeMigrations
<1>2. CASE StageSource
  BY <1>2 DEF StageSource, Raise, Advance, TypeOK, RunSteps, BeforeSessions,
     BeforeMigrations
<1>3. CASE Attest
  BY <1>3 DEF Attest, Shows, Advance, TypeOK, RunSteps, BeforeSessions, BeforeMigrations
<1>4. CASE CreateNetwork
  BY <1>4 DEF CreateNetwork, Request, Raise, Advance, TypeOK, RunSteps, BeforeSessions,
     BeforeMigrations
<1>5. CASE StartDatabase
  BY <1>5 DEF StartDatabase, Request, Raise, Advance, TypeOK, RunSteps, BeforeSessions,
     BeforeMigrations
<1>6. CASE InspectDatabase
  BY <1>6 DEF InspectDatabase, Raise, Advance, TypeOK, RunSteps, BeforeSessions,
     BeforeMigrations
<1>7. CASE ApplyBase
  BY <1>7 DEF ApplyBase, Raise, Advance, TypeOK, RunSteps, BeforeSessions, BeforeMigrations
<1>8. CASE ApplyCandidate
  BY <1>8 DEF ApplyCandidate, Raise, Advance, TypeOK, RunSteps, BeforeSessions,
     BeforeMigrations
<1>9. ASSUME NEW s \in Sessions, SessionAllocates(s)
      PROVE  daemon'.objects = {} /\ daemon'.late = {}
  BY <1>9 DEF SessionAllocates, process, TypeOK, RunSteps, BeforeSessions, BeforeMigrations
<1>10. ASSUME NEW s \in Sessions, SessionEnds(s)
      PROVE  daemon'.objects = {} /\ daemon'.late = {}
  BY <1>10 DEF SessionEnds, process, TypeOK, RunSteps, BeforeSessions, BeforeMigrations
<1>11. CASE JoinSessions
  BY <1>11 DEF JoinSessions, Raise, Advance, Shows, TypeOK, RunSteps, BeforeSessions,
     BeforeMigrations
<1>12. CASE CheckAutomation
  BY <1>12 DEF CheckAutomation, Judge, Raise, Advance, Shows, TypeOK, RunSteps,
     BeforeSessions, BeforeMigrations
<1>13. CASE CheckImmutability
  BY <1>13 DEF CheckImmutability, Judge, Raise, Advance, Shows, TypeOK, RunSteps,
     BeforeSessions, BeforeMigrations
<1>14. CASE CheckPrivileges
  BY <1>14 DEF CheckPrivileges, Judge, Raise, Advance, Shows, TypeOK, RunSteps,
     BeforeSessions, BeforeMigrations
<1>15. CASE RerunCandidate
  BY <1>15 DEF RerunCandidate, Raise, Advance, TypeOK, RunSteps, BeforeSessions,
     BeforeMigrations
<1>16. CASE NetworkCanaries
  BY <1>16 DEF NetworkCanaries, Raise, Advance, Shows, TypeOK, RunSteps, BeforeSessions,
     BeforeMigrations
<1>17. CASE RemoveObjects
  BY <1>17 DEF RemoveObjects, Advance, TypeOK, RunSteps, BeforeSessions, BeforeMigrations
<1>18. CASE CleanupRaises
  BY <1>18 DEF CleanupRaises, TypeOK, RunSteps, BeforeSessions, BeforeMigrations
<1>19. CASE CountObjects
  BY <1>19 DEF CountObjects, Advance, TypeOK, RunSteps, BeforeSessions, BeforeMigrations
<1>20. CASE RemoveSource
  BY <1>20 DEF RemoveSource, Advance, TypeOK, RunSteps, BeforeSessions, BeforeMigrations
<1>21. CASE StartRecovery
  BY <1>21 DEF StartRecovery, TypeOK, RunSteps, BeforeSessions, BeforeMigrations
<1>22. CASE ReadReceipt
  BY <1>22 DEF ReadReceipt, Raise, Advance, TypeOK, RunSteps, BeforeSessions,
     BeforeMigrations
<1>23. CASE CloseReceipt
  BY <1>23 DEF CloseReceipt, Advance, EndsBadly, TypeOK, RunSteps, BeforeSessions,
     BeforeMigrations
<1>24. CASE TruncateArtifact
  BY <1>24 DEF TruncateArtifact, Advance, EndsBadly, TypeOK, RunSteps, BeforeSessions,
     BeforeMigrations
<1>25. CASE WriteArtifact
  BY <1>25 DEF WriteArtifact, Advance, TypeOK, RunSteps, BeforeSessions, BeforeMigrations
<1>26. CASE VerifyReceipt
  BY <1>26 DEF VerifyReceipt, process, TypeOK, RunSteps, BeforeSessions, BeforeMigrations
<1>27. CASE Die
  BY <1>27 DEF Die, EndsBadly, TypeOK, RunSteps, BeforeSessions, BeforeMigrations
<1>28. CASE ServeLate
  BY <1>28 DEF ServeLate, process, TypeOK, RunSteps, BeforeSessions, BeforeMigrations
<1> QED
  BY <1>1, <1>2, <1>3, <1>4, <1>5, <1>6, <1>7, <1>8, <1>9, <1>10, <1>11, <1>12, <1>13, <1>14,
     <1>15, <1>16, <1>17, <1>18, <1>19, <1>20, <1>21, <1>22, <1>23, <1>24, <1>25, <1>26,
     <1>27, <1>28
     DEF Next, Run, Finish

-----------------------------------------------------------------------------
(* What the receipts mean *)

(* What close_receipt changes *)
LEMMA ClosedIs ==
  ASSUME NEW r \in Receipts, NEW code
  PROVE  /\ Closed(r, code).status = IF code = "NONE" THEN "PASS" ELSE "BLOCKED"
         /\ Closed(r, code).shown = r.shown /\ Closed(r, code).succeeded = r.succeeded
BY DEF Closed, Receipts

(* What the end of a cleanup-only changes *)
LEMMA RecoveredIs ==
  ASSUME NEW r \in Receipts, NEW code
  PROVE  /\ RecoveredClosed(r, code).status = "PASS" => r.status = "PASS"
         /\ RecoveredClosed(r, code).succeeded = r.succeeded
         /\ r.status = "PASS" /\ "source" \notin r.nonzero /\ clean /\ code = "NONE" =>
               RecoveredClosed(r, code) = r
<1>1. [r EXCEPT !.status = "BLOCKED"].status = "BLOCKED"
      /\ [r EXCEPT !.status = "BLOCKED"].succeeded = r.succeeded
  BY DEF Receipts
<1>2. /\ Closed(r, "CLEANUP_RESIDUE").status = "BLOCKED"
      /\ Closed(r, "CLEANUP_RESIDUE").succeeded = r.succeeded
  BY ClosedIs
<1>3. /\ Closed(r, code).succeeded = r.succeeded
      /\ code # "NONE" => Closed(r, code).status = "BLOCKED"
  BY ClosedIs
<1> QED
  BY <1>1, <1>2, <1>3 DEF RecoveredClosed

(* What is right stays right. *)
LEMMA RightStands ==
  ASSUME TypeOK, DbShape, Right, Next, pc \notin RunSteps
  PROVE  Right'
<1>1. pc # "sessions"
  BY DEF RunSteps
<1>2. Given' = Given /\ defect' = defect
  BY <1>1, GivenStands, DefectStands
<1>3. daemon'.objects = {} /\ daemon'.late = {}
  BY QuietStep DEF Right
<1> QED
  BY <1>2, <1>3 DEF Right

(* The receipt of a run that closes as PASS is earned. *)
LEMMA CloseIsRight ==
  ASSUME TypeOK, StepsKnown, ProofsKnown, RunKnows, PassStands, CloseReceipt,
         ValidReceipt(receipt'), receipt'.status = "PASS"
  PROVE  Right
<1>1. pc = "close" /\ job \in {"run", "recover"} /\ receipt \in Receipts
  BY DEF CloseReceipt, StepsKnown, TypeOK
<1>2. CASE job = "recover"
  <2>1. receipt' = RecoveredClosed(receipt, failure)
    BY <1>2 DEF CloseReceipt
  <2>2. receipt.status = "PASS"
    BY <1>1, <2>1, RecoveredIs
  <2> QED
    BY <1>1, <2>2 DEF PassStands
<1>3. CASE job = "run"
  <2>1. PICK code: /\ code = IF failure = "NONE" /\ ~receipt.succeeded THEN "CLEANUP_RESIDUE"
                             ELSE failure
                   /\ receipt' = Closed(receipt, code)
    BY <1>3 DEF CloseReceipt
  <2>2. code = "NONE"
    BY <1>1, <2>1, ClosedIs
  <2>3. failure = "NONE" /\ receipt.succeeded
    BY <2>1, <2>2
  <2>4. daemon.objects = {} /\ daemon.late = {}
    BY <1>1, <1>3, <2>3 DEF RunKnows, Cleaning
  <2>5. receipt.shown = Proofs
    BY <1>1, <2>1, ClosedIs DEF ValidReceipt
  <2>6. /\ defect \notin {"takes the maximum", "fills the gap"}
        /\ Cardinality(Given) = Cardinality(Sessions)
    BY <1>3, <2>5, NamesAre DEF ProofsKnown
  <2>7. /\ "automation null" \in receipt.shown /\ "immutable" \in receipt.shown
        /\ "privileges" \in receipt.shown /\ "same state" \in receipt.shown
    BY <2>5 DEF Proofs
  <2>8. defect \notin {"stamps the automation", "mutable", "public sequence", "not idempotent"}
    BY <1>3, <2>7 DEF ProofsKnown
  <2>9. defect \in AllDefects
    BY DefectsAssumption DEF TypeOK
  <2>10. defect = "none"
    BY <2>6, <2>8, <2>9 DEF AllDefects
  <2> QED
    BY <2>4, <2>6, <2>10 DEF Right
<1> QED
  BY <1>1, <1>2, <1>3

(* How the receipt in hand and the file come by a status *)
ReceiptMoves ==
    \/ pc' = "off"
    \/ receipt'.status = "BLOCKED"
    \/ receipt'.status = receipt.status /\ pc # "off" /\ pc \notin RunSteps
    \/ pc = "read" /\ receipt' = artifact
    \/ CloseReceipt /\ ValidReceipt(receipt')

ArtifactMoves ==
    \/ UNCHANGED artifact
    \/ artifact'.status = "torn"
    \/ WriteArtifact /\ artifact' = receipt

(* ReceiptMoves holds of every step. *)
LEMMA ReceiptMove ==
  ASSUME TypeOK, StepsKnown, Next
  PROVE  ReceiptMoves
<1>1. CASE StartRun
  BY <1>1, DefaultsAre, StatusStep DEF StartRun, ReceiptMoves, StepsKnown, RunSteps,
     BeforeSessions, BeforeMigrations, Cleaning, Writing
<1>2. CASE StageSource
  BY <1>2, DefaultsAre, StatusStep DEF StageSource, Raise, Advance, ReceiptMoves, StepsKnown,
     RunSteps, BeforeSessions, BeforeMigrations, Cleaning, Writing
<1>3. CASE Attest
  BY <1>3, DefaultsAre, StatusStep DEF Attest, Shows, Advance, ReceiptMoves, StepsKnown,
     RunSteps, BeforeSessions, BeforeMigrations, Cleaning, Writing
<1>4. CASE CreateNetwork
  BY <1>4, DefaultsAre, StatusStep DEF CreateNetwork, Request, Raise, Advance, ReceiptMoves,
     StepsKnown, RunSteps, BeforeSessions, BeforeMigrations, Cleaning, Writing
<1>5. CASE StartDatabase
  BY <1>5, DefaultsAre, StatusStep DEF StartDatabase, Request, Raise, Advance, ReceiptMoves,
     StepsKnown, RunSteps, BeforeSessions, BeforeMigrations, Cleaning, Writing
<1>6. CASE InspectDatabase
  BY <1>6, DefaultsAre, StatusStep DEF InspectDatabase, Raise, Advance, ReceiptMoves,
     StepsKnown, RunSteps, BeforeSessions, BeforeMigrations, Cleaning, Writing
<1>7. CASE ApplyBase
  BY <1>7, DefaultsAre, StatusStep DEF ApplyBase, Raise, Advance, ReceiptMoves, StepsKnown,
     RunSteps, BeforeSessions, BeforeMigrations, Cleaning, Writing
<1>8. CASE ApplyCandidate
  BY <1>8, DefaultsAre, StatusStep DEF ApplyCandidate, Raise, Advance, ReceiptMoves,
     StepsKnown, RunSteps, BeforeSessions, BeforeMigrations, Cleaning, Writing
<1>9. ASSUME NEW s \in Sessions, SessionAllocates(s)
      PROVE  ReceiptMoves
  BY <1>9, DefaultsAre, StatusStep DEF SessionAllocates, process, ReceiptMoves, StepsKnown,
     RunSteps, BeforeSessions, BeforeMigrations, Cleaning, Writing
<1>10. ASSUME NEW s \in Sessions, SessionEnds(s)
      PROVE  ReceiptMoves
  BY <1>10, DefaultsAre, StatusStep DEF SessionEnds, process, ReceiptMoves, StepsKnown,
     RunSteps, BeforeSessions, BeforeMigrations, Cleaning, Writing
<1>11. CASE JoinSessions
  BY <1>11, DefaultsAre, StatusStep DEF JoinSessions, Raise, Advance, Shows, ReceiptMoves,
     StepsKnown, RunSteps, BeforeSessions, BeforeMigrations, Cleaning, Writing
<1>12. CASE CheckAutomation
  BY <1>12, DefaultsAre, StatusStep DEF CheckAutomation, Judge, Raise, Advance, Shows,
     ReceiptMoves, StepsKnown, RunSteps, BeforeSessions, BeforeMigrations, Cleaning, Writing
<1>13. CASE CheckImmutability
  BY <1>13, DefaultsAre, StatusStep DEF CheckImmutability, Judge, Raise, Advance, Shows,
     ReceiptMoves, StepsKnown, RunSteps, BeforeSessions, BeforeMigrations, Cleaning, Writing
<1>14. CASE CheckPrivileges
  BY <1>14, DefaultsAre, StatusStep DEF CheckPrivileges, Judge, Raise, Advance, Shows,
     ReceiptMoves, StepsKnown, RunSteps, BeforeSessions, BeforeMigrations, Cleaning, Writing
<1>15. CASE RerunCandidate
  BY <1>15, DefaultsAre, StatusStep DEF RerunCandidate, Raise, Advance, ReceiptMoves,
     StepsKnown, RunSteps, BeforeSessions, BeforeMigrations, Cleaning, Writing
<1>16. CASE NetworkCanaries
  BY <1>16, DefaultsAre, StatusStep DEF NetworkCanaries, Raise, Advance, Shows, ReceiptMoves,
     StepsKnown, RunSteps, BeforeSessions, BeforeMigrations, Cleaning, Writing
<1>17. CASE RemoveObjects
  BY <1>17, DefaultsAre, StatusStep DEF RemoveObjects, Advance, ReceiptMoves, StepsKnown,
     RunSteps, BeforeSessions, BeforeMigrations, Cleaning, Writing
<1>18. CASE CleanupRaises
  BY <1>18, DefaultsAre, StatusStep DEF CleanupRaises, ReceiptMoves, StepsKnown, RunSteps,
     BeforeSessions, BeforeMigrations, Cleaning, Writing
<1>19. CASE CountObjects
  BY <1>19, DefaultsAre, StatusStep DEF CountObjects, Advance, ReceiptMoves, StepsKnown,
     RunSteps, BeforeSessions, BeforeMigrations, Cleaning, Writing
<1>20. CASE RemoveSource
  BY <1>20, DefaultsAre, StatusStep DEF RemoveSource, Advance, ReceiptMoves, StepsKnown,
     RunSteps, BeforeSessions, BeforeMigrations, Cleaning, Writing
<1>21. CASE StartRecovery
  BY <1>21, DefaultsAre, StatusStep DEF StartRecovery, ReceiptMoves, StepsKnown, RunSteps,
     BeforeSessions, BeforeMigrations, Cleaning, Writing
<1>22. CASE ReadReceipt
  BY <1>22, DefaultsAre, StatusStep DEF ReadReceipt, Raise, Advance, ReceiptMoves,
     StepsKnown, RunSteps, BeforeSessions, BeforeMigrations, Cleaning, Writing
<1>23. CASE CloseReceipt
  BY <1>23 DEF CloseReceipt, Advance, EndsBadly, ReceiptMoves
<1>24. CASE TruncateArtifact
  BY <1>24, DefaultsAre, StatusStep DEF TruncateArtifact, Advance, EndsBadly, ReceiptMoves,
     StepsKnown, RunSteps, BeforeSessions, BeforeMigrations, Cleaning, Writing
<1>25. CASE WriteArtifact
  BY <1>25, DefaultsAre, StatusStep DEF WriteArtifact, Advance, ReceiptMoves, StepsKnown,
     RunSteps, BeforeSessions, BeforeMigrations, Cleaning, Writing
<1>26. CASE VerifyReceipt
  BY <1>26, DefaultsAre, StatusStep DEF VerifyReceipt, process, ReceiptMoves, StepsKnown,
     RunSteps, BeforeSessions, BeforeMigrations, Cleaning, Writing
<1>27. CASE Die
  BY <1>27, DefaultsAre, StatusStep DEF Die, EndsBadly, ReceiptMoves, StepsKnown, RunSteps,
     BeforeSessions, BeforeMigrations, Cleaning, Writing
<1>28. CASE ServeLate
  BY <1>28, DefaultsAre, StatusStep DEF ServeLate, process, ReceiptMoves, StepsKnown,
     RunSteps, BeforeSessions, BeforeMigrations, Cleaning, Writing
<1> QED
  BY <1>1, <1>2, <1>3, <1>4, <1>5, <1>6, <1>7, <1>8, <1>9, <1>10, <1>11, <1>12, <1>13, <1>14,
     <1>15, <1>16, <1>17, <1>18, <1>19, <1>20, <1>21, <1>22, <1>23, <1>24, <1>25, <1>26,
     <1>27, <1>28
     DEF Next, Run, Finish

(* ArtifactMoves holds of every step. *)
LEMMA ArtifactMove ==
  ASSUME Next
  PROVE  ArtifactMoves
<1>1. CASE StartRun
  BY <1>1, DefaultsAre DEF StartRun, ArtifactMoves
<1>2. CASE StageSource
  BY <1>2, DefaultsAre DEF StageSource, Raise, Advance, ArtifactMoves
<1>3. CASE Attest
  BY <1>3, DefaultsAre DEF Attest, Shows, Advance, ArtifactMoves
<1>4. CASE CreateNetwork
  BY <1>4, DefaultsAre DEF CreateNetwork, Request, Raise, Advance, ArtifactMoves
<1>5. CASE StartDatabase
  BY <1>5, DefaultsAre DEF StartDatabase, Request, Raise, Advance, ArtifactMoves
<1>6. CASE InspectDatabase
  BY <1>6, DefaultsAre DEF InspectDatabase, Raise, Advance, ArtifactMoves
<1>7. CASE ApplyBase
  BY <1>7, DefaultsAre DEF ApplyBase, Raise, Advance, ArtifactMoves
<1>8. CASE ApplyCandidate
  BY <1>8, DefaultsAre DEF ApplyCandidate, Raise, Advance, ArtifactMoves
<1>9. ASSUME NEW s \in Sessions, SessionAllocates(s)
      PROVE  ArtifactMoves
  BY <1>9, DefaultsAre DEF SessionAllocates, process, ArtifactMoves
<1>10. ASSUME NEW s \in Sessions, SessionEnds(s)
      PROVE  ArtifactMoves
  BY <1>10, DefaultsAre DEF SessionEnds, process, ArtifactMoves
<1>11. CASE JoinSessions
  BY <1>11, DefaultsAre DEF JoinSessions, Raise, Advance, Shows, ArtifactMoves
<1>12. CASE CheckAutomation
  BY <1>12, DefaultsAre DEF CheckAutomation, Judge, Raise, Advance, Shows, ArtifactMoves
<1>13. CASE CheckImmutability
  BY <1>13, DefaultsAre DEF CheckImmutability, Judge, Raise, Advance, Shows, ArtifactMoves
<1>14. CASE CheckPrivileges
  BY <1>14, DefaultsAre DEF CheckPrivileges, Judge, Raise, Advance, Shows, ArtifactMoves
<1>15. CASE RerunCandidate
  BY <1>15, DefaultsAre DEF RerunCandidate, Raise, Advance, ArtifactMoves
<1>16. CASE NetworkCanaries
  BY <1>16, DefaultsAre DEF NetworkCanaries, Raise, Advance, Shows, ArtifactMoves
<1>17. CASE RemoveObjects
  BY <1>17, DefaultsAre DEF RemoveObjects, Advance, ArtifactMoves
<1>18. CASE CleanupRaises
  BY <1>18, DefaultsAre DEF CleanupRaises, ArtifactMoves
<1>19. CASE CountObjects
  BY <1>19, DefaultsAre DEF CountObjects, Advance, ArtifactMoves
<1>20. CASE RemoveSource
  BY <1>20, DefaultsAre DEF RemoveSource, Advance, ArtifactMoves
<1>21. CASE StartRecovery
  BY <1>21, DefaultsAre DEF StartRecovery, ArtifactMoves
<1>22. CASE ReadReceipt
  BY <1>22, DefaultsAre DEF ReadReceipt, Raise, Advance, ArtifactMoves
<1>23. CASE CloseReceipt
  BY <1>23, DefaultsAre DEF CloseReceipt, Advance, EndsBadly, ArtifactMoves
<1>24. CASE TruncateArtifact
  BY <1>24, DefaultsAre DEF TruncateArtifact, Advance, EndsBadly, ArtifactMoves
<1>25. CASE WriteArtifact
  BY <1>25, DefaultsAre DEF WriteArtifact, Advance, ArtifactMoves
<1>26. CASE VerifyReceipt
  BY <1>26, DefaultsAre DEF VerifyReceipt, process, ArtifactMoves
<1>27. CASE Die
  BY <1>27, DefaultsAre DEF Die, EndsBadly, ArtifactMoves
<1>28. CASE ServeLate
  BY <1>28, DefaultsAre DEF ServeLate, process, ArtifactMoves
<1> QED
  BY <1>1, <1>2, <1>3, <1>4, <1>5, <1>6, <1>7, <1>8, <1>9, <1>10, <1>11, <1>12, <1>13, <1>14,
     <1>15, <1>16, <1>17, <1>18, <1>19, <1>20, <1>21, <1>22, <1>23, <1>24, <1>25, <1>26,
     <1>27, <1>28
     DEF Next, Run, Finish

(* PassStands is preserved. *)
LEMMA PassStep ==
  ASSUME TypeOK, DbShape, StepsKnown, ProofsKnown, RunKnows, PassStands, Next
  PROVE  PassStands'
<1>1. ReceiptMoves /\ ArtifactMoves
  BY ReceiptMove, ArtifactMove
<1>2. ASSUME Right, pc \notin RunSteps
      PROVE  Right'
  BY <1>2, RightStands
<1>3. ASSUME artifact.status = "PASS"
      PROVE  Right'
  <2>1. pc \notin RunSteps
    BY <1>3, DefaultsAre DEF StepsKnown, RunSteps, BeforeSessions, BeforeMigrations
  <2> QED
    BY <1>2, <1>3, <2>1 DEF PassStands
<1>4. ASSUME pc' # "off", receipt'.status = "PASS"
      PROVE  Right'
  <2>1. CASE receipt'.status = receipt.status /\ pc # "off" /\ pc \notin RunSteps
    BY <1>2, <1>4, <2>1 DEF PassStands
  <2>2. CASE pc = "read" /\ receipt' = artifact
    BY <1>3, <1>4, <2>2
  <2>3. CASE CloseReceipt /\ ValidReceipt(receipt')
    <3>1. Right
      BY <1>4, <2>3, CloseIsRight
    <3>2. pc \notin RunSteps
      BY <2>3 DEF CloseReceipt, RunSteps, BeforeSessions, BeforeMigrations
    <3> QED
      BY <1>2, <3>1, <3>2
  <2> QED
    BY <1>1, <1>4, <2>1, <2>2, <2>3 DEF ReceiptMoves
<1>5. ASSUME artifact'.status = "PASS"
      PROVE  Right'
  <2>1. CASE WriteArtifact /\ artifact' = receipt
    <3>1. pc = "write"
      BY <2>1 DEF WriteArtifact
    <3>2. pc # "off" /\ pc \notin RunSteps
      BY <3>1 DEF RunSteps, BeforeSessions, BeforeMigrations
    <3> QED
      BY <1>2, <1>5, <2>1, <3>2 DEF PassStands
  <2> QED
    BY <1>1, <1>3, <1>5, <2>1 DEF ArtifactMoves
<1> QED
  BY <1>4, <1>5 DEF PassStands

(* Once no PASS can come, none can come later. *)
LEMMA NeverStep ==
  ASSUME TypeOK, StepsKnown, NeverPass, Next
  PROVE  NeverPass'
<1>1. ReceiptMoves /\ ArtifactMoves /\ (job' = "run" => job = "run")
  BY ReceiptMove, ArtifactMove, JobStep
<1>2. artifact'.status # "PASS"
  <2>1. WriteArtifact => pc = "write"
    BY DEF WriteArtifact
  <2> QED
    BY <1>1, <2>1 DEF ArtifactMoves, NeverPass
<1>3. pc' # "off" => receipt'.status # "PASS"
  <2>1. CASE CloseReceipt
    <3>1. receipt' = RecoveredClosed(receipt, failure) /\ pc = "close"
      BY <2>1 DEF CloseReceipt, NeverPass
    <3> QED
      BY <3>1, RecoveredIs DEF NeverPass, TypeOK
  <2> QED
    BY <1>1, <2>1 DEF ReceiptMoves, NeverPass
<1> QED
  BY <1>1, <1>2, <1>3 DEF NeverPass

(* BlockedKnown is preserved. *)
LEMMA BlockedStep ==
  ASSUME TypeOK, StepsKnown, BlockedKnown, Next
  PROVE  BlockedKnown'
<1>1. CASE WriteArtifact
  BY <1>1 DEF WriteArtifact, Advance, BlockedKnown, NeverPass
<1>2. CASE UNCHANGED artifact
  BY <1>2, NeverStep DEF BlockedKnown
<1> QED
  BY <1>1, <1>2, ArtifactMove DEF ArtifactMoves, BlockedKnown

(* RecoveryKnows is preserved. *)
LEMMA RecoveryStep ==
  ASSUME TypeOK, StepsKnown, RunKnows, RecoveryKnows, Next
  PROVE  RecoveryKnows'
<1>1. CASE StartRun
  BY <1>1, DefaultsAre, StatusStep DEF StartRun, RecoveryKnows, TypeOK, StepsKnown, RunSteps,
     BeforeSessions, BeforeMigrations, Cleaning, Writing
<1>2. CASE StageSource
  BY <1>2, DefaultsAre, StatusStep DEF StageSource, Raise, Advance, RecoveryKnows, TypeOK,
     StepsKnown, RunSteps, BeforeSessions, BeforeMigrations, Cleaning, Writing
<1>3. CASE Attest
  BY <1>3, DefaultsAre, StatusStep DEF Attest, Shows, Advance, RecoveryKnows, TypeOK,
     StepsKnown, RunSteps, BeforeSessions, BeforeMigrations, Cleaning, Writing
<1>4. CASE CreateNetwork
  BY <1>4, DefaultsAre, StatusStep DEF CreateNetwork, Request, Raise, Advance, RecoveryKnows,
     TypeOK, StepsKnown, RunSteps, BeforeSessions, BeforeMigrations, Cleaning, Writing
<1>5. CASE StartDatabase
  BY <1>5, DefaultsAre, StatusStep DEF StartDatabase, Request, Raise, Advance, RecoveryKnows,
     TypeOK, StepsKnown, RunSteps, BeforeSessions, BeforeMigrations, Cleaning, Writing
<1>6. CASE InspectDatabase
  BY <1>6, DefaultsAre, StatusStep DEF InspectDatabase, Raise, Advance, RecoveryKnows,
     TypeOK, StepsKnown, RunSteps, BeforeSessions, BeforeMigrations, Cleaning, Writing
<1>7. CASE ApplyBase
  BY <1>7, DefaultsAre, StatusStep DEF ApplyBase, Raise, Advance, RecoveryKnows, TypeOK,
     StepsKnown, RunSteps, BeforeSessions, BeforeMigrations, Cleaning, Writing
<1>8. CASE ApplyCandidate
  BY <1>8, DefaultsAre, StatusStep DEF ApplyCandidate, Raise, Advance, RecoveryKnows, TypeOK,
     StepsKnown, RunSteps, BeforeSessions, BeforeMigrations, Cleaning, Writing
<1>9. ASSUME NEW s \in Sessions, SessionAllocates(s)
      PROVE  RecoveryKnows'
  BY <1>9, DefaultsAre, StatusStep DEF SessionAllocates, process, RecoveryKnows, TypeOK,
     StepsKnown, RunSteps, BeforeSessions, BeforeMigrations, Cleaning, Writing
<1>10. ASSUME NEW s \in Sessions, SessionEnds(s)
      PROVE  RecoveryKnows'
  BY <1>10, DefaultsAre, StatusStep DEF SessionEnds, process, RecoveryKnows, TypeOK,
     StepsKnown, RunSteps, BeforeSessions, BeforeMigrations, Cleaning, Writing
<1>11. CASE JoinSessions
  BY <1>11, DefaultsAre, StatusStep DEF JoinSessions, Raise, Advance, Shows, RecoveryKnows,
     TypeOK, StepsKnown, RunSteps, BeforeSessions, BeforeMigrations, Cleaning, Writing
<1>12. CASE CheckAutomation
  BY <1>12, DefaultsAre, StatusStep DEF CheckAutomation, Judge, Raise, Advance, Shows,
     RecoveryKnows, TypeOK, StepsKnown, RunSteps, BeforeSessions, BeforeMigrations, Cleaning,
     Writing
<1>13. CASE CheckImmutability
  BY <1>13, DefaultsAre, StatusStep DEF CheckImmutability, Judge, Raise, Advance, Shows,
     RecoveryKnows, TypeOK, StepsKnown, RunSteps, BeforeSessions, BeforeMigrations, Cleaning,
     Writing
<1>14. CASE CheckPrivileges
  BY <1>14, DefaultsAre, StatusStep DEF CheckPrivileges, Judge, Raise, Advance, Shows,
     RecoveryKnows, TypeOK, StepsKnown, RunSteps, BeforeSessions, BeforeMigrations, Cleaning,
     Writing
<1>15. CASE RerunCandidate
  BY <1>15, DefaultsAre, StatusStep DEF RerunCandidate, Raise, Advance, RecoveryKnows,
     TypeOK, StepsKnown, RunSteps, BeforeSessions, BeforeMigrations, Cleaning, Writing
<1>16. CASE NetworkCanaries
  BY <1>16, DefaultsAre, StatusStep DEF NetworkCanaries, Raise, Advance, Shows,
     RecoveryKnows, TypeOK, StepsKnown, RunSteps, BeforeSessions, BeforeMigrations, Cleaning,
     Writing
<1>17. CASE RemoveObjects
  BY <1>17, DefaultsAre, StatusStep DEF RemoveObjects, Advance, RecoveryKnows, TypeOK,
     StepsKnown, RunSteps, BeforeSessions, BeforeMigrations, Cleaning, Writing
<1>18. CASE CleanupRaises
  BY <1>18, DefaultsAre, StatusStep DEF CleanupRaises, RecoveryKnows, TypeOK, StepsKnown,
     RunSteps, BeforeSessions, BeforeMigrations, Cleaning, Writing
<1>19. CASE CountObjects
  BY <1>19, DefaultsAre, StatusStep DEF CountObjects, Advance, RecoveryKnows, TypeOK,
     StepsKnown, RunSteps, BeforeSessions, BeforeMigrations, Cleaning, Writing
<1>20. CASE RemoveSource
  BY <1>20, DefaultsAre, StatusStep DEF RemoveSource, Advance, RecoveryKnows, TypeOK,
     StepsKnown, RunSteps, BeforeSessions, BeforeMigrations, Cleaning, Writing
<1>21. CASE StartRecovery
  BY <1>21, DefaultsAre, StatusStep DEF StartRecovery, RecoveryKnows, TypeOK, StepsKnown,
     RunSteps, BeforeSessions, BeforeMigrations, Cleaning, Writing
<1>22. CASE ReadReceipt
  BY <1>22, DefaultsAre, StatusStep DEF ReadReceipt, Raise, Advance, RecoveryKnows, TypeOK,
     StepsKnown, RunSteps, BeforeSessions, BeforeMigrations, Cleaning, Writing
<1>23. CASE CloseReceipt
  <2>1. pc = "close" /\ artifact' = artifact
    BY <1>23 DEF CloseReceipt
  <2>2. CASE pc' = "off" /\ failed' = TRUE /\ job' \in {"recover", "verify"}
    BY <2>2 DEF RecoveryKnows, Cleaning, Writing
  <2>3. CASE pc' = "truncate" /\ UNCHANGED <<job, failed>>
    <3>1. SUFFICES ASSUME job = "recover", ~failed, receipt'.succeeded
                   PROVE  receipt'.status = "PASS"
      BY <2>1, <2>3 DEF RecoveryKnows, Cleaning, StepsKnown
    <3>2. receipt' = RecoveredClosed(receipt, failure) /\ receipt \in Receipts
      BY <1>23, <3>1 DEF CloseReceipt, TypeOK
    <3>3. receipt.status = "PASS"
      BY <2>1, <3>1 DEF RecoveryKnows, Cleaning
    <3>4. clean /\ "source" \notin receipt.nonzero
      BY <2>1, <3>1, <3>2, RecoveredIs DEF RunKnows
    <3>5. failure = "NONE"
      BY <2>1, <3>1, <3>4 DEF RecoveryKnows
    <3> QED
      BY <3>2, <3>3, <3>4, <3>5, RecoveredIs
  <2> QED
    BY <1>23, <2>2, <2>3 DEF CloseReceipt, Advance, EndsBadly
<1>24. CASE TruncateArtifact
  BY <1>24, DefaultsAre, StatusStep DEF TruncateArtifact, Advance, EndsBadly, RecoveryKnows,
     TypeOK, StepsKnown, RunSteps, BeforeSessions, BeforeMigrations, Cleaning, Writing
<1>25. CASE WriteArtifact
  BY <1>25, DefaultsAre, StatusStep DEF WriteArtifact, Advance, RecoveryKnows, TypeOK,
     StepsKnown, RunSteps, BeforeSessions, BeforeMigrations, Cleaning, Writing
<1>26. CASE VerifyReceipt
  BY <1>26, DefaultsAre, StatusStep DEF VerifyReceipt, process, RecoveryKnows, TypeOK,
     StepsKnown, RunSteps, BeforeSessions, BeforeMigrations, Cleaning, Writing
<1>27. CASE Die
  BY <1>27, DefaultsAre, StatusStep DEF Die, EndsBadly, RecoveryKnows, TypeOK, StepsKnown,
     RunSteps, BeforeSessions, BeforeMigrations, Cleaning, Writing
<1>28. CASE ServeLate
  BY <1>28, DefaultsAre, StatusStep DEF ServeLate, process, RecoveryKnows, TypeOK,
     StepsKnown, RunSteps, BeforeSessions, BeforeMigrations, Cleaning, Writing
<1> QED
  BY <1>1, <1>2, <1>3, <1>4, <1>5, <1>6, <1>7, <1>8, <1>9, <1>10, <1>11, <1>12, <1>13, <1>14,
     <1>15, <1>16, <1>17, <1>18, <1>19, <1>20, <1>21, <1>22, <1>23, <1>24, <1>25, <1>26,
     <1>27, <1>28
     DEF Next, Run, Finish

-----------------------------------------------------------------------------
(* The theorems *)

(* The invariant holds initially ... *)
LEMMA InvInit == Init => Inv
<1> SUFFICES ASSUME Init
             PROVE  Inv
  OBVIOUS
<1>1. /\ job = "run" /\ failed = FALSE /\ pc = "off" /\ failure = "NONE" /\ runtime = FALSE
      /\ clean = FALSE /\ receipt = DefaultReceipt /\ artifact = Missing
      /\ daemon = [objects |-> {}, late |-> {}] /\ source \in BOOLEAN /\ defect \in Defects
      /\ db = NewDatabase /\ faults = 0
  BY DEF Init
<1>2. faults \in 0..MaxFaults
  BY <1>1, BoundsAssumption
<1>3. PlainTypes
  BY <1>1, <1>2, NamesAre DEF PlainTypes, PcValues
<1>4. TypeOK
  BY <1>1, <1>3, DefaultsAre, PlainTypesAre
<1>5. DbShape /\ StepsKnown /\ RecordsKnown
  BY <1>1, NewDatabaseIs DEF DbShape, StepsKnown, RecordsKnown, RunSteps, BeforeSessions,
     BeforeMigrations, Cleaning, Writing
<1>6. SessionsKnown
  BY <1>1 DEF SessionsKnown
<1>7. ProofsKnown
  BY <1>1, DefaultsAre DEF ProofsKnown, Joined
<1>8. RunKnows /\ PassStands /\ RecoveryKnows /\ BlockedKnown
  BY <1>1, DefaultsAre DEF RunKnows, PassStands, RecoveryKnows, BlockedKnown, Cleaning
<1> QED
  BY <1>4, <1>5, <1>6, <1>7, <1>8 DEF Inv

(* ... and every step preserves it. *)
LEMMA InvNext == Inv /\ [Next]_vars => Inv'
<1> SUFFICES ASSUME Inv, [Next]_vars
             PROVE  Inv'
  OBVIOUS
<1> USE DEF Inv
<1>1. CASE Next
  <2>1. TypeOK'
    <3>1. PlainTypes'
      BY <1>1, PlainTypesAre, PlainTyped
    <3>2. receipt' \in Receipts
      BY <1>1, ReceiptTyped
    <3>3. artifact' \in Receipts /\ (artifact \in {Missing, Torn} \/ ValidReceipt(artifact))'
      BY <1>1, ArtifactStep
    <3> QED
      BY <3>1, <3>2, <3>3 DEF TypeOK, PlainTypes, PcValues, RunSteps, BeforeSessions,
         BeforeMigrations, Cleaning, Writing
  <2>2. DbShape'
    BY <1>1, DbTyped
  <2>3. StepsKnown'
    BY <1>1, StepsStep
  <2>4. RecordsKnown'
    BY <1>1, RecordsStep
  <2>5. SessionsKnown'
    BY <1>1, SessionsStep
  <2>6. ProofsKnown'
    BY <1>1, ProofsStep
  <2>7. RunKnows'
    BY <1>1, RunStep
  <2>8. PassStands'
    BY <1>1, PassStep
  <2>9. RecoveryKnows'
    BY <1>1, RecoveryStep
  <2>10. BlockedKnown'
    BY <1>1, BlockedStep
  <2> QED
    BY <2>1, <2>2, <2>3, <2>4, <2>5, <2>6, <2>7, <2>8, <2>9, <2>10
<1>2. CASE UNCHANGED vars
  <2>1. /\ UNCHANGED <<job, failed, pc, failure, runtime, clean, receipt, artifact>>
        /\ UNCHANGED <<daemon, source, defect, db, faults>>
    BY <1>2 DEF vars, process
  <2>2. TypeOK' /\ DbShape' /\ StepsKnown' /\ RecordsKnown'
    BY <2>1 DEF TypeOK, DbShape, StepsKnown, RecordsKnown, ValidReceipt
  <2>3. SessionsKnown'
    BY <2>1 DEF SessionsKnown, HasMaximum
  <2>4. Given' = Given
    BY <2>1 DEF Given
  <2>5. ProofsKnown'
    BY <2>1, <2>4 DEF ProofsKnown
  <2>6. RunKnows' /\ PassStands' /\ RecoveryKnows' /\ BlockedKnown'
    BY <2>1, <2>4 DEF RunKnows, PassStands, RecoveryKnows, BlockedKnown, NeverPass, Right
  <2> QED
    BY <2>2, <2>3, <2>5, <2>6
<1> QED
  BY <1>1, <1>2

(* The invariant of both commands, the database, the daemon and the        *)
(* receipts holds in every reachable state.                                *)
THEOREM Invariance == Spec => []Inv
<1> QED
  BY InvInit, InvNext, PTL DEF Spec

(* execute(), cleanup() and cleanup-only keep every variable in its type,  *)
(* and the receipt's file is missing, torn or one that validates.          *)
THEOREM TypeCorrect == Spec => []TypeOK
<1>1. Inv => TypeOK
  BY DEF Inv
<1> QED
  BY <1>1, Invariance, PTL

(* A PASS receipt means a right candidate, whatever order its sessions     *)
(* took and committed their numbers in, and that nothing of the replay is  *)
(* left or can still appear; a green job means a PASS receipt.             *)
THEOREM PassEarned == Spec => []PassIsEarned
<1>1. Inv => PassIsEarned
  BY DEF Inv, PassStands, Right, RecoveryKnows, PassIsEarned
<1> QED
  BY <1>1, Invariance, PTL

(* No recovery turns a BLOCKED receipt into a PASS.                        *)
THEOREM BlockedRemains == Spec => BlockedStays
<1>1. Inv /\ artifact.status = "BLOCKED" => NeverPass
  BY DEF Inv, BlockedKnown
<1>2. Inv /\ NeverPass /\ [Next]_vars => NeverPass'
  <2>1. Inv /\ NeverPass /\ Next => NeverPass'
    BY NeverStep DEF Inv
  <2>2. NeverPass /\ UNCHANGED vars => NeverPass'
    BY DEF vars, process, NeverPass
  <2> QED
    BY <2>1, <2>2
<1>3. NeverPass => artifact.status # "PASS"
  BY DEF NeverPass
<1> QED
  BY <1>1, <1>2, <1>3, Invariance, PTL DEF Spec, BlockedStays

=============================================================================
