------------------------- MODULE MCFirewallBoundary -------------------------
(* Instances of FirewallBoundary for TLC. *)
EXTENDS FirewallBoundary, TLC

CONSTANTS f1, f2

Rulesets == {f1, f2}
RulesetSymmetry == Permutations(Rulesets)

=============================================================================
