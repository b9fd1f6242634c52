SPECIFICATION Spec
CONSTANTS
    Modes <- OneMode
    MaxMains = 1
    MaxCleanups = 1
    MaxFaults = 1
PROPERTIES
    ZeroClaimCoversScratch
CHECK_DEADLOCK FALSE
