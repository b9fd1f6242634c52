SPECIFICATION LiveSpec
CONSTANTS
    Conns = {k1, k2}
    Ids = {c1, c2}
    HealthLimit = 2
    MaxFaults = 1
INVARIANTS
    GateIsExact
    MigrationNeedsHealth
PROPERTIES
    ShutAfterViolation
    ImplementsScript
    AnExchangeEnds
CHECK_DEADLOCK FALSE
