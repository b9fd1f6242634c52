SPECIFICATION Spec
CONSTANTS
    f1 = f1
    f2 = f2
    Foreign <- Rulesets
    MaxPolls = 2
    MaxFaults = 1
    MaxDrifts = 0
INVARIANTS
    EnforcementIsCovered
SYMMETRY RulesetSymmetry
