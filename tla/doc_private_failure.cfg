SPECIFICATION Spec
CONSTANTS
    Modes <- PrivateMode
    MaxMains = 1
    MaxCleanups = 1
    MaxFaults = 0
PROPERTIES
    PrivateFailureKept
CHECK_DEADLOCK FALSE
