SPECIFICATION FairSpec
CONSTANTS
    f1 = f1
    f2 = f2
    Foreign <- Rulesets
    MaxPolls = 2
    MaxFaults = 3
    MaxDrifts = 3
INVARIANTS
    TableIsAccounted
    TargetKept
    CompletionIsTrue
PROPERTIES
    RemoveIsComplete
    RetryNeverWedges
    CalmRemoveSucceeds
    ImplementsEvidence
