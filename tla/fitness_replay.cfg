SPECIFICATION FairSpec
CONSTANTS
    Base = 1
    Sessions = {s1, s2, s3}
    Defects <- AllDefects
    BooleanText <- AdapterText
    MaxFaults = 2
INVARIANTS
    TypeOK
    PassIsEarned
PROPERTIES
    BlockedStays
    RecoveryRestores
CHECK_DEADLOCK FALSE
