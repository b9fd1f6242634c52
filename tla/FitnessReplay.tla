--------------------------- MODULE FitnessReplay ---------------------------
(***************************************************************************)
(* scripts/fitness_full_chain_replay.py and the workflow that runs it,     *)
(* .github/workflows/fitness-full-chain-replay.yml: `run` replays a chain  *)
(* of migrations in a private database, tries the last of them (the        *)
(* candidate) with several sessions at once, cleans up and writes a        *)
(* receipt; `cleanup-only` comes after it in any case; then the receipt is *)
(* validated.  A command may be killed anywhere, also in the middle of     *)
(* writing the receipt.                                                    *)
(*                                                                         *)
(* The candidate and the database are not part of the repository.  What    *)
(* the candidate does wrong, if anything, is an input of the model: the    *)
(* replay exists to find it.                                               *)
(***************************************************************************)
EXTENDS Naturals, FiniteSets, FiniteSetsExt

CONSTANTS
    Base,           \* number of migrations before the candidate (101 in the code)
    Sessions,       \* the concurrent sessions (eight in the code)
    Defects,        \* what may be wrong with the candidate, "none" included
    BooleanText,    \* how the database casts a boolean to text
    MaxFaults       \* bound on mishaps: a failing or timed out call, a kill

(* How the candidate gives numbers wrongly, or what it forgets to forbid   *)
AllDefects == {"none", "takes the maximum", "fills the gap", "mutable", "public sequence",
               "stamps the automation", "not idempotent"}

ASSUME BoundsAssumption == Base \in Nat /\ MaxFaults \in Nat
ASSUME SessionsAssumption == IsFiniteSet(Sessions) /\ Sessions # {}
ASSUME DefectsAssumption == Defects \subseteq AllDefects
ASSUME BooleanTextAssumption == BooleanText[TRUE] # BooleanText[FALSE]

Objects == {"container", "volume", "network"}

(* The counters of the receipt's cleanup section *)
Counters == Objects \cup {"listeners", "source", "runtime"}

(* What a receipt with status PASS must show besides its migrations: the   *)
(* containment booleans, the fixture and the security acceptances.         *)
Proofs == {"attested", "same network", "canaries", "gap", "all succeeded", "distinct",
           "automation null", "above high water", "next above all", "immutable",
           "privileges", "same state"}

Failures == {"ADAPTER_IDENTITY_MISMATCH", "SOURCE_STAGE_FAILED", "PRIVATE_RUNTIME_UNAVAILABLE",
             "LOCAL_DATABASE_START_FAILED", "MIGRATION_REPLAY_FAILED", "FIXTURE_PROOF_FAILED",
             "IMMUTABILITY_PROOF_FAILED", "PRIVILEGE_PROOF_FAILED", "IDEMPOTENCY_PROOF_FAILED",
             "CONTAINMENT_PROOF_FAILED", "CLEANUP_RESIDUE", "INTERNAL_ERROR"}

VARIABLES
    job,        \* the workflow's step: "run", "recover", "verify", "done"
    failed,     \* some step of the job has failed
    pc,         \* next step of the command that runs; "off" when none does
    failure,    \* the command's failure, "NONE" until there is one
    runtime,    \* run has its PrivateRuntime, so cleanup() will be called
    clean,      \* what cleanup() returned
    receipt,    \* the receipt in the command's hands
    artifact,   \* the receipt's file: a receipt, Missing or Torn
    daemon,     \* the private daemon: its objects, and requests given up on
    source,     \* the staged source on disk
    defect,     \* of the candidate
    db,         \* the database
    faults

process == <<pc, failure, runtime, clean, receipt>>
vars == <<job, failed, process, artifact, daemon, source, defect, db, faults>>

Charge(ok) == /\ ok \/ faults < MaxFaults
              /\ faults' = IF ok THEN faults ELSE faults + 1

-----------------------------------------------------------------------------
(* Receipts *)

DefaultReceipt ==
    [status |-> "BLOCKED", failure_class |-> "INTERNAL_ERROR", staged |-> FALSE, closed |-> FALSE,
     records |-> 0, candidate |-> 0, rerun |-> FALSE, shown |-> {},
     attempted |-> FALSE, succeeded |-> FALSE, nonzero |-> Counters]

Missing == [DefaultReceipt EXCEPT !.status = "missing"]
Torn == [DefaultReceipt EXCEPT !.status = "torn"]

(* Mutant of ValidReceipt: the allocator's next value is not looked at. *)
ValidReceiptAnyNext(r) ==
    /\ r.status \in {"PASS", "BLOCKED"}
    /\ (r.status = "PASS") = (r.failure_class = "NONE")
    /\ r.status = "PASS" =>
          /\ r.staged /\ r.closed
          /\ r.records = Base + 1 /\ r.candidate = 1 /\ r.rerun
          /\ r.attempted /\ r.succeeded /\ r.nonzero = {}
          /\ Proofs \ {"next above all"} \subseteq r.shown

(* validate_receipt *)
ValidReceipt(r) ==
    /\ r.status \in {"PASS", "BLOCKED"}
    /\ (r.status = "PASS") = (r.failure_class = "NONE")
    /\ r.status = "PASS" =>
          /\ r.staged /\ r.closed
          /\ r.records = Base + 1 /\ r.candidate = 1 /\ r.rerun
          /\ r.attempted /\ r.succeeded /\ r.nonzero = {}
          /\ r.shown = Proofs

-----------------------------------------------------------------------------
(* The database, seen through psql *)

Humans == 0..5
Deleted == 3
NewDatabase == [candidate |-> FALSE, numbers |-> {}, next |-> 6, stamped |-> FALSE,
                session |-> [s \in Sessions |-> "idle"], given |-> [s \in Sessions |-> {}],
                touched |-> FALSE]

(* The number the candidate's trigger gives to a new profile *)
Allocated ==
    CASE defect = "takes the maximum" -> Max(db.numbers) + 1
      [] defect = "fills the gap" -> Min({n \in 0..(Max(db.numbers) + 1): n \notin db.numbers})
      [] OTHER -> db.next

(* Whether a role may use, update, select the sequence *)
SequencePrivileges == [anon |-> <<defect = "public sequence", FALSE, FALSE>>,
                       authenticated |-> <<FALSE, FALSE, FALSE>>,
                       service_role |-> <<FALSE, FALSE, TRUE>>]

Rendered(row) == [i \in DOMAIN row |-> BooleanText[row[i]]]

Given == UNION {db.given[s]: s \in Sessions}

-----------------------------------------------------------------------------
(* run: execute() *)

Raise(code) == failure' = code /\ pc' = IF runtime THEN "remove" ELSE "unstage"
Advance(step) == pc' = step /\ UNCHANGED failure
Shows(what) == receipt' = [receipt EXCEPT !.shown = @ \cup what]

StartRun ==
    /\ job = "run" /\ pc = "off"
    /\ \E ok \in BOOLEAN:
          /\ Charge(ok)
          /\ IF ok  \* contract, manifest and adapter identity
             THEN pc' = "stage" /\ UNCHANGED <<job, failed>>
             ELSE failed' = TRUE /\ job' = "recover" /\ UNCHANGED pc
    /\ failure' = "NONE" /\ runtime' = FALSE /\ clean' = FALSE
    /\ receipt' = DefaultReceipt
    /\ UNCHANGED <<artifact, daemon, source, defect, db>>

(* The listener is looked for first.  A staging that fails leaves what it  *)
(* has staged; one that finds something in its place touches nothing, but  *)
(* the end of the command removes it all the same.                         *)
StageSource ==
    /\ pc = "stage"
    /\ \/ Charge(FALSE) /\ Raise("CONTAINMENT_PROOF_FAILED") /\ UNCHANGED <<source, receipt>>
       \/ /\ source
          /\ Raise("SOURCE_STAGE_FAILED") /\ UNCHANGED <<source, receipt, faults>>
       \/ /\ ~source /\ source' = TRUE
          /\ \E ok \in BOOLEAN:
                /\ Charge(ok)
                /\ IF ok THEN Advance("attest") ELSE Raise("SOURCE_STAGE_FAILED")
                /\ receipt' = [receipt EXCEPT !.staged = ok]
    /\ UNCHANGED <<job, failed, runtime, clean, artifact, daemon, defect, db>>

Attest ==
    /\ pc = "attest"
    /\ runtime' = TRUE
    /\ \E ok \in BOOLEAN:
          /\ Charge(ok)
          /\ IF ok
             THEN Shows({"attested"}) /\ Advance("network")
             ELSE /\ failure' = "PRIVATE_RUNTIME_UNAVAILABLE" /\ pc' = "remove"
                  /\ UNCHANGED receipt
    /\ UNCHANGED <<job, failed, clean, artifact, daemon, source, defect, db>>

(* A request of the replay for objects: made, refused, or given up on by   *)
(* the client while the daemon goes on with it.                            *)
Request(objects, next) ==
    \E how \in {"made", "partly", "refused", "lost"}:
       /\ Charge(how = "made")
       /\ \E some \in CASE how = "made" -> {objects} [] how = "partly" -> SUBSET objects
                        [] OTHER -> {{}}:
             daemon' = [daemon EXCEPT !.objects = @ \cup some,
                                      !.late = IF how = "lost" THEN @ \cup objects ELSE @]
       /\ IF how = "made" THEN Advance(next)
          ELSE Raise(IF how = "lost" THEN "INTERNAL_ERROR" ELSE "LOCAL_DATABASE_START_FAILED")

CreateNetwork ==
    /\ pc = "network"
    /\ Request({"network"}, "database")
    /\ UNCHANGED <<job, failed, runtime, clean, receipt, artifact, source, defect, db>>

StartDatabase ==
    /\ pc = "database"
    /\ Request({"container", "volume"}, "inspect")
    /\ UNCHANGED <<job, failed, runtime, clean, receipt, artifact, source, defect, db>>

InspectDatabase ==
    /\ pc = "inspect"
    /\ \E ok \in BOOLEAN:
          /\ Charge(ok)
          /\ IF ok
             THEN /\ receipt' = [receipt EXCEPT !.closed = TRUE, !.shown = @ \cup {"same network"}]
                  /\ Advance(IF Base = 0 THEN "candidate" ELSE "migrate")
             ELSE Raise("CONTAINMENT_PROOF_FAILED") /\ UNCHANGED receipt
    /\ UNCHANGED <<job, failed, runtime, clean, artifact, daemon, source, defect, db>>

ApplyBase ==
    /\ pc = "migrate"
    /\ \E ok \in BOOLEAN:
          /\ Charge(ok)
          /\ IF ok
             THEN /\ receipt' = [receipt EXCEPT !.records = @ + 1]
                  /\ Advance(IF receipt.records + 1 = Base THEN "candidate" ELSE "migrate")
             ELSE Raise("MIGRATION_REPLAY_FAILED") /\ UNCHANGED receipt
    /\ UNCHANGED <<job, failed, runtime, clean, artifact, daemon, source, defect, db>>

(* The fixture with its mapping, the candidate, and the deletion of one    *)
(* profile.  Whether the gap stays is recorded, and not looked at here.    *)
ApplyCandidate ==
    /\ pc = "candidate"
    /\ db' = [db EXCEPT !.candidate = TRUE, !.numbers = Humans \ {Deleted},
                        !.stamped = defect = "stamps the automation"]
    /\ \E ok \in BOOLEAN:
          /\ Charge(ok)
          /\ IF ok
             THEN /\ receipt' = [receipt EXCEPT !.records = @ + 1, !.candidate = 1,
                                                !.shown = @ \cup {"gap"}]
                  /\ Advance("sessions")
             ELSE Raise("MIGRATION_REPLAY_FAILED") /\ UNCHANGED receipt
    /\ UNCHANGED <<job, failed, runtime, clean, artifact, daemon, source, defect>>

(* A session takes a number and commits later, or fails; whoever takes the *)
(* maximum or a gap does not see what is not committed.                    *)
SessionAllocates(s) ==
    /\ pc = "sessions" /\ db.session[s] = "idle"
    /\ db' = [db EXCEPT !.session[s] = "open", !.given[s] = {Allocated},
                        !.next = IF defect \in {"takes the maximum", "fills the gap"} THEN @ ELSE @ + 1]
    /\ UNCHANGED <<job, failed, process, artifact, daemon, source, defect, faults>>

SessionEnds(s) ==
    /\ pc = "sessions" /\ db.session[s] = "open"
    /\ \E ok \in BOOLEAN:
          /\ Charge(ok)
          /\ db' = IF ok THEN [db EXCEPT !.session[s] = "committed", !.numbers = @ \cup db.given[s]]
                         ELSE [db EXCEPT !.session[s] = "failed", !.given[s] = {}]
    /\ UNCHANGED <<job, failed, process, artifact, daemon, source, defect>>

(* The pool waits for all of its threads before the failure of one counts. *)
JoinSessions ==
    /\ pc = "sessions"
    /\ \A s \in Sessions: db.session[s] \in {"committed", "failed"}
    /\ LET high == Max(Humans)
           distinct == Cardinality(Given) = Cardinality(Sessions)
           above == \A n \in Given: n > high
       IN IF \E s \in Sessions: db.session[s] = "failed"
          THEN Raise("MIGRATION_REPLAY_FAILED") /\ UNCHANGED receipt
          ELSE /\ Shows({"all succeeded"} \cup (IF distinct THEN {"distinct"} ELSE {})
                        \cup (IF above THEN {"above high water"} ELSE {})
                        \cup (IF db.next > Max(db.numbers) THEN {"next above all"} ELSE {}))
               /\ IF distinct /\ above THEN Advance("automation") ELSE Raise("FIXTURE_PROOF_FAILED")
    /\ UNCHANGED <<job, failed, runtime, clean, artifact, daemon, source, defect, db, faults>>

(* A query whose answer is judged *)
Judge(step, good, what, code, next) ==
    /\ pc = step
    /\ \E ok \in BOOLEAN:
          /\ Charge(ok)
          /\ IF ok /\ good THEN Shows({what}) /\ Advance(next)
             ELSE Raise(IF ok THEN code ELSE "MIGRATION_REPLAY_FAILED") /\ UNCHANGED receipt
    /\ UNCHANGED <<job, failed, runtime, clean, artifact, daemon, source, defect, db>>

(* fixture_mapping takes the column for a text that is "t" or not. *)
CheckAutomation ==
    Judge("automation", BooleanText[db.stamped] # "t", "automation null", "FIXTURE_PROOF_FAILED",
          "immutability")

CheckImmutability ==
    Judge("immutability", defect # "mutable", "immutable", "IMMUTABILITY_PROOF_FAILED", "privileges")

CheckPrivileges ==
    Judge("privileges",
          /\ Rendered(SequencePrivileges.anon) = <<"f", "f", "f">>
          /\ Rendered(SequencePrivileges.authenticated) = <<"f", "f", "f">>
          /\ Rendered(SequencePrivileges.service_role) = <<"f", "f", "t">>,
          "privileges", "PRIVILEGE_PROOF_FAILED", "rerun")

RerunCandidate ==
    /\ pc = "rerun"
    /\ \E ok \in BOOLEAN:
          /\ Charge(ok)
          /\ db' = [db EXCEPT !.touched = defect = "not idempotent"]
          /\ IF ~ok THEN Raise("MIGRATION_REPLAY_FAILED") /\ UNCHANGED receipt
             ELSE /\ receipt' = [receipt EXCEPT
                         !.rerun = TRUE,
                         !.shown = IF db'.touched THEN @ ELSE @ \cup {"same state"}]
                  /\ IF db'.touched THEN Raise("IDEMPOTENCY_PROOF_FAILED") ELSE Advance("canaries")
    /\ UNCHANGED <<job, failed, runtime, clean, artifact, daemon, source, defect>>

NetworkCanaries ==
    /\ pc = "canaries"
    /\ \E ok \in BOOLEAN:
          /\ Charge(ok)
          /\ IF ok THEN Shows({"canaries"}) /\ Advance("remove")
             ELSE Raise("CONTAINMENT_PROOF_FAILED") /\ UNCHANGED receipt
    /\ UNCHANGED <<job, failed, runtime, clean, artifact, daemon, source, defect, db>>

-----------------------------------------------------------------------------
(* cleanup(), of either command *)

(* List and remove, class by class; the daemon keeps a volume or a network *)
(* that a container uses.                                                  *)
RemoveObjects ==
    /\ pc = "remove"
    /\ \E left \in SUBSET daemon.objects:
          /\ "container" \in left => left = daemon.objects
          /\ Charge(left = {})
          /\ daemon' = [daemon EXCEPT !.objects = left]
          /\ clean' = (left = {})
    /\ Advance("count")
    /\ UNCHANGED <<job, failed, runtime, receipt, artifact, source, defect, db>>

(* A call of cleanup() that takes too long ends it.  For the run that is a *)
(* cleanup that did not succeed, for cleanup-only a failure of its own.    *)
CleanupRaises ==
    /\ pc \in {"remove", "count"}
    /\ Charge(FALSE)
    /\ clean' = FALSE
    /\ failure' = IF job = "run" THEN failure ELSE "INTERNAL_ERROR"
    /\ receipt' = [receipt EXCEPT !.attempted = TRUE]
    /\ pc' = "unstage"
    /\ UNCHANGED <<job, failed, runtime, artifact, daemon, source, defect, db>>

(* The counts, the listener and the rest of the daemon.  A count that      *)
(* cannot be taken is one.                                                 *)
CountObjects ==
    /\ pc = "count"
    /\ \E blind \in SUBSET Counters:
          /\ "source" \notin blind /\ Cardinality(blind) <= 1
          /\ Charge(blind = {})
          /\ LET nonzero == daemon.objects \cup blind
                            \cup (IF daemon.objects = {} THEN {} ELSE {"runtime"})
                            \cup (IF "container" \in daemon.objects THEN {"listeners"} ELSE {})
             IN /\ clean' = (clean /\ nonzero = {})
                /\ receipt' = [receipt EXCEPT !.attempted = TRUE,
                                              !.nonzero = nonzero \cup {"source"}]
    /\ Advance("unstage")
    /\ UNCHANGED <<job, failed, runtime, artifact, daemon, source, defect, db>>

(* cleanup_staged_source, and what follows from it for the receipt.  A     *)
(* cleanup-only says the cleanup was attempted, whether it was or not.     *)
RemoveSource ==
    /\ pc = "unstage"
    /\ \E ok \in BOOLEAN:
          /\ Charge(ok)
          /\ source' = (source /\ ~ok)
          /\ receipt' = [receipt EXCEPT
                !.attempted = @ \/ job = "recover",
                !.succeeded = clean /\ ok,
                !.nonzero = IF ok THEN @ \ {"source"} ELSE @ \cup {"source"}]
    /\ Advance("close")
    /\ UNCHANGED <<job, failed, runtime, clean, artifact, daemon, defect, db>>

-----------------------------------------------------------------------------
(* cleanup-only, and the end of either command *)

(* Without contract, manifest or adapter identity the command ends at once. *)
StartRecovery ==
    /\ job = "recover" /\ pc = "off"
    /\ \E ok \in BOOLEAN:
          /\ Charge(ok)
          /\ IF ok THEN pc' = "read" /\ UNCHANGED <<job, failed>>
             ELSE failed' = TRUE /\ job' = "verify" /\ UNCHANGED pc
    /\ failure' = "NONE" /\ runtime' = FALSE /\ clean' = FALSE
    /\ receipt' = DefaultReceipt
    /\ UNCHANGED <<artifact, daemon, source, defect, db>>

(* Mutant of ReadReceipt: a cleanup that was attempted is not repeated. *)
ReadReceiptOnce ==
    /\ pc = "read"
    /\ receipt' = IF artifact \in {Torn, Missing} THEN DefaultReceipt ELSE artifact
    /\ runtime' = ~receipt'.attempted
    /\ Advance(IF receipt'.attempted THEN "unstage" ELSE "remove")
    /\ UNCHANGED <<job, failed, clean, artifact, daemon, source, defect, db, faults>>

(* The receipt of the run, if it can be read; then the attestation.  A     *)
(* file that cannot be read leads straight to the end: cleanup() is not    *)
(* called.                                                                 *)
ReadReceipt ==
    /\ pc = "read"
    /\ IF artifact = Torn
       THEN Raise("INTERNAL_ERROR") /\ UNCHANGED <<receipt, runtime, faults>>
       ELSE /\ receipt' = IF artifact = Missing THEN DefaultReceipt ELSE artifact
            /\ runtime' = TRUE
            /\ \E ok \in BOOLEAN:
                  /\ Charge(ok)
                  /\ IF ok THEN Advance("remove")
                     ELSE failure' = "PRIVATE_RUNTIME_UNAVAILABLE" /\ pc' = "unstage"
    /\ UNCHANGED <<job, failed, clean, artifact, daemon, source, defect, db>>

(* The command ends with a failure; the job goes on with the next step. *)
EndsBadly ==
    /\ pc' = "off" /\ failed' = TRUE
    /\ job' = IF job = "run" THEN "recover" ELSE "verify"

Closed(r, code) ==
    [r EXCEPT !.status = IF code = "NONE" THEN "PASS" ELSE "BLOCKED", !.failure_class = code]

(* Mutant of RecoveredClosed: a cleanup without a failure passes the run. *)
RecoveredClosedByCleanup(r, code) ==
    Closed(r, IF code # "NONE" THEN code
              ELSE IF r.succeeded THEN "NONE" ELSE "CLEANUP_RESIDUE")

(* A recovery that fails replaces the failure of the run; one that does    *)
(* not leaves the receipt's disposition as it was.                         *)
RecoveredClosed(r, code) ==
    IF "source" \in r.nonzero \/ (code = "NONE" /\ ~clean) THEN Closed(r, "CLEANUP_RESIDUE")
    ELSE IF code # "NONE" THEN Closed(r, code)
    ELSE IF r.status = "PASS" THEN r ELSE [r EXCEPT !.status = "BLOCKED"]

(* Mutant of CloseReceipt: what is written is not validated first. *)
CloseReceiptUnvalidated ==
    /\ pc = "close"
    /\ LET code == IF failure = "NONE" /\ ~receipt.succeeded THEN "CLEANUP_RESIDUE" ELSE failure
       IN receipt' = IF job = "run" THEN Closed(receipt, code) ELSE RecoveredClosed(receipt, failure)
    /\ Advance("truncate")
    /\ UNCHANGED <<job, failed, runtime, clean, artifact, daemon, source, defect, db, faults>>

(* close_receipt, and the validation before anything is written *)
CloseReceipt ==
    /\ pc = "close"
    /\ LET code == IF failure = "NONE" /\ ~receipt.succeeded THEN "CLEANUP_RESIDUE" ELSE failure
           closed == IF job = "run" THEN Closed(receipt, code) ELSE RecoveredClosed(receipt, failure)
       IN /\ receipt' = closed
          /\ IF ValidReceipt(closed)
             THEN Advance("truncate") /\ UNCHANGED <<job, failed>>
             ELSE EndsBadly /\ UNCHANGED failure
    /\ UNCHANGED <<runtime, clean, artifact, daemon, source, defect, db, faults>>

(* write_bytes: open with truncation, then write *)
TruncateArtifact ==
    /\ pc = "truncate"
    /\ \E ok \in BOOLEAN:
          /\ Charge(ok)
          /\ IF ok
             THEN artifact' = Torn /\ Advance("write") /\ UNCHANGED <<job, failed>>
             ELSE EndsBadly /\ UNCHANGED <<artifact, failure>>
    /\ UNCHANGED <<runtime, clean, receipt, daemon, source, defect, db>>

WriteArtifact ==
    /\ pc = "write"
    /\ \E ok \in BOOLEAN:
          /\ Charge(ok)
          /\ artifact' = IF ok THEN receipt ELSE artifact
          /\ failed' = (\/ failed \/ ~ok
                        \/ IF job = "run" THEN receipt.status # "PASS" ELSE ~receipt.succeeded)
    /\ job' = IF job = "run" THEN "recover" ELSE "verify"
    /\ Advance("off")
    /\ UNCHANGED <<runtime, clean, receipt, daemon, source, defect, db>>

(* verify_fitness_replay_receipt.py; the upload takes any file. *)
VerifyReceipt ==
    /\ job = "verify"
    /\ failed' = (failed \/ ~ValidReceipt(artifact))
    /\ job' = "done"
    /\ UNCHANGED <<process, artifact, daemon, source, defect, db, faults>>

-----------------------------------------------------------------------------

(* A kill of the command; the job goes on with its always-run steps, and   *)
(* the daemon perhaps with the request the command was waiting for.        *)
Die ==
    /\ pc # "off"
    /\ Charge(FALSE)
    /\ EndsBadly
    /\ \E asked \in {{}, CASE pc = "network" -> {"network"}
                            [] pc = "database" -> {"container", "volume"} [] OTHER -> {}}:
          daemon' = [daemon EXCEPT !.late = @ \cup asked]
    /\ UNCHANGED <<failure, runtime, clean, receipt, artifact, source, defect, db>>

(* The daemon gets to a request that was given up on. *)
ServeLate ==
    /\ daemon.late # {}
    /\ daemon' = [daemon EXCEPT !.objects = @ \cup daemon.late, !.late = {}]
    /\ UNCHANGED <<job, failed, process, artifact, source, defect, db, faults>>

Init ==
    /\ job = "run" /\ failed = FALSE
    /\ pc = "off" /\ failure = "NONE" /\ runtime = FALSE /\ clean = FALSE
    /\ receipt = DefaultReceipt /\ artifact = Missing
    /\ daemon = [objects |-> {}, late |-> {}]
    /\ source \in BOOLEAN
    /\ defect \in Defects
    /\ db = NewDatabase
    /\ faults = 0

Run ==
    \/ StartRun \/ StageSource \/ Attest \/ CreateNetwork \/ StartDatabase \/ InspectDatabase
    \/ ApplyBase \/ ApplyCandidate
    \/ \E s \in Sessions: SessionAllocates(s) \/ SessionEnds(s)
    \/ JoinSessions \/ CheckAutomation \/ CheckImmutability \/ CheckPrivileges
    \/ RerunCandidate \/ NetworkCanaries

Finish ==
    \/ RemoveObjects \/ CleanupRaises \/ CountObjects \/ RemoveSource \/ StartRecovery \/ ReadReceipt
    \/ CloseReceipt \/ TruncateArtifact \/ WriteArtifact \/ VerifyReceipt

Next == Run \/ Finish \/ Die \/ ServeLate

Spec == Init /\ [][Next]_vars

(* Every call of either command has a time limit. *)
FairSpec == Spec /\ WF_vars(Run \/ Finish)

-----------------------------------------------------------------------------
(* Properties *)

Receipts ==
    [status: {"PASS", "BLOCKED", "missing", "torn"}, failure_class: Failures \cup {"NONE"},
     staged: BOOLEAN, closed: BOOLEAN, records: 0..(Base + 1), candidate: 0..1, rerun: BOOLEAN,
     shown: SUBSET Proofs, attempted: BOOLEAN, succeeded: BOOLEAN, nonzero: SUBSET Counters]

(* Every variable keeps to its type, and a receipt's file that is whole is *)
(* one that validates: the commands write no other.                        *)
TypeOK ==
    /\ job \in {"run", "recover", "verify", "done"} /\ failed \in BOOLEAN
    /\ pc \in {"off", "stage", "attest", "network", "database", "inspect", "migrate", "candidate",
               "sessions", "automation", "immutability", "privileges", "rerun", "canaries",
               "remove", "count", "unstage", "read", "close", "truncate", "write"}
    /\ failure \in Failures \cup {"NONE"}
    /\ runtime \in BOOLEAN /\ clean \in BOOLEAN
    /\ receipt \in Receipts /\ artifact \in Receipts
    /\ artifact \in {Missing, Torn} \/ ValidReceipt(artifact)
    /\ daemon \in [objects: SUBSET Objects, late: SUBSET Objects]
    /\ source \in BOOLEAN /\ defect \in Defects /\ faults \in 0..MaxFaults

(* A PASS receipt means that the candidate is right, in whatever order the *)
(* sessions took and committed their numbers, and that nothing of the      *)
(* replay is left or can still appear; a green job means a PASS receipt.   *)
PassIsEarned ==
    /\ artifact.status = "PASS" =>
          /\ defect = "none" /\ Cardinality(Given) = Cardinality(Sessions)
          /\ daemon.objects = {} /\ daemon.late = {}
    /\ job = "done" /\ ~failed => artifact.status = "PASS"

(* Once a receipt is BLOCKED none that follows is PASS: the recovery may    *)
(* clean up what the run could not, and the run's verdict stays.           *)
BlockedStays ==
    [](artifact.status = "BLOCKED" => [](artifact.status # "PASS"))

(* Wherever the run was killed or failed, a recovery that nothing disturbs *)
(* leaves a receipt, no object of the replay and no staged source, unless  *)
(* the receipt it finds is torn or the daemon still has a request to get   *)
(* to.  (With every fault spent, nothing disturbs it.)                     *)
RecoveryRestores ==
    (job = "recover" /\ pc = "read" /\ artifact # Torn /\ daemon.late = {} /\ faults = MaxFaults)
       ~> (job = "done" /\ daemon.objects = {} /\ ~source /\ ValidReceipt(artifact))

(* The replay refuses no candidate for its privileges that gives none but  *)
(* SELECT for service_role.                                                *)
PrivilegesAsRequired ==
    artifact.failure_class = "PRIVILEGE_PROOF_FAILED" => defect = "public sequence"

=============================================================================
