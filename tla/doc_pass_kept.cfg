SPECIFICATION Spec
CONSTANTS
    Modes <- OneMode
    MaxMains = 1
    MaxCleanups = 1
    MaxFaults = 0
PROPERTIES
    CleanCleanupKeepsPass
CHECK_DEADLOCK FALSE
