--------------------------- MODULE PacketReceipt ---------------------------
(***************************************************************************)
(* What the packet promises to whoever sees only the host and the two      *)
(* files that outlive its invocations: the mode contract, which tells the  *)
(* next cleanup-only what to tear down, and the public receipt.  Nothing   *)
(* is held without a contract that covers it, a contract is signed once    *)
(* and given up only when all is let go and the outcome is on record, and  *)
(* a PASS is of the run in progress, proven while nothing was held.        *)
(***************************************************************************)
CONSTANT Modes

VARIABLES
    contract,  \* the mode contract's mode, or "none"
    held,      \* what of the packet is on the host
    run,       \* the last run is "open", "proven" or, once blocked, "blocked"
    receipt    \* "none", "PASS" or "BLOCKED"

Things == {"resources", "firewall", "scratch"}

(* Only the rehearsal's contract has the firewall removed; the scratch     *)
(* root is removed under any and without one.                              *)
Covered(thing) ==
    CASE thing = "scratch" -> TRUE
      [] thing = "resources" -> contract # "none"
      [] thing = "firewall" -> contract = "firewall-rehearsal"

Init == contract = "none" /\ held = {} /\ run = "open" /\ receipt = "none"

(* A run begins over whatever the last one left, its receipt included. *)
Begin == /\ run' = "open" /\ held' \in {held, held \cup {"scratch"}}
         /\ UNCHANGED <<contract, receipt>>

Sign == /\ contract = "none" /\ contract' \in Modes
        /\ UNCHANGED <<held, run, receipt>>

Take == /\ \E thing \in Things \ held: Covered(thing) /\ held' = held \cup {thing}
        /\ UNCHANGED <<contract, run, receipt>>

LetGo == /\ held' \subseteq held
         /\ UNCHANGED <<contract, run, receipt>>

Prove == /\ run = "open" /\ held = {} /\ run' = "proven"
         /\ UNCHANGED <<contract, held, receipt>>

Pass == /\ run = "proven" /\ held = {} /\ receipt' = "PASS"
        /\ UNCHANGED <<contract, held, run>>

Block == /\ run' = "blocked" /\ receipt' = "BLOCKED"
         /\ UNCHANGED <<contract, held>>

Withdraw == /\ receipt' = "none"
            /\ UNCHANGED <<contract, held, run>>

Retire == /\ contract # "none" /\ held = {} /\ receipt # "none" /\ contract' = "none"
          /\ UNCHANGED <<held, run, receipt>>

Next == Begin \/ Sign \/ Take \/ LetGo \/ Prove \/ Pass \/ Block \/ Withdraw \/ Retire

Spec == Init /\ [][Next]_<<contract, held, run, receipt>>

=============================================================================
