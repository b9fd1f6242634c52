SPECIFICATION FairSpec
CONSTANTS
    Modes <- EvidenceModes
    MaxMains = 2
    MaxCleanups = 2
    MaxFaults = 1
PROPERTIES
    InvocationEnds
    UndisturbedCleanupPublishes
    ImplementsReceipt
CHECK_DEADLOCK FALSE
