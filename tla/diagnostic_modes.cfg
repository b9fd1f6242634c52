SPECIFICATION ModesSpec
CONSTANTS
    MaxFaults = 2
    HealthTimeout = 3
    StableSeconds = 1
    Horizon = 3
    MaxMishaps = 2
    Connections = {c1}
    MaxPieces = 4
INVARIANTS
    ModesTypeOK
    ProofIsReal
    ReceiptIsAdmitted
    LatchedBeforeMade
    DirectPassIsSound
    DirectFailureIsNamed
    WritesAreHeld
    SilenceIsReal
PROPERTIES
    ForeignIsKept
    PrivateVerdictIsReached
CHECK_DEADLOCK FALSE
