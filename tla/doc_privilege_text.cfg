SPECIFICATION FairSpec
CONSTANTS
    Base = 1
    Sessions = {s1, s2}
    Defects <- OnlyGood
    BooleanText <- CastText
    MaxFaults = 0
INVARIANT PrivilegesAsRequired
CHECK_DEADLOCK FALSE
