-------------------------- MODULE FirewallEvidence --------------------------
(***************************************************************************)
(* What the host-firewall evidence promises to whoever looks at the disk:  *)
(* from the moment a ledger is prepared until the restoration is complete  *)
(* there is always a ledger or a completion record, the record appears     *)
(* before the ledger goes, and only a completed restoration ends in an     *)
(* empty directory.                                                        *)
(***************************************************************************)
VARIABLE phase  \* "none", "ledger", "both" (ledger and completion) or "restored"

(* The phases a removal may reach, in one attempt or several. *)
Later == [none |-> {}, ledger |-> {"both", "restored"},
          both |-> {"restored", "none"}, restored |-> {"none"}]

Init == phase = "none"

Prepare == phase = "none" /\ phase' = "ledger"

Restore == phase' \in Later[phase]

Next == Prepare \/ Restore

Spec == Init /\ [][Next]_phase

=============================================================================
