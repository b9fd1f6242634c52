SPECIFICATION Spec
CONSTANTS
    Modes <- AllModes
    MaxMains = 1
    MaxCleanups = 2
    MaxFaults = 2
INVARIANTS
    BlockedIsTerminal
    EvidenceRetained
PROPERTIES
    PublishedPassIsProven
    FirewallGuard
    FirstFailureKept
    ZeroClaimIsTrue
    ImplementsEvidence
CHECK_DEADLOCK FALSE
