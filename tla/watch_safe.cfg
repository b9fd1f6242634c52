SPECIFICATION Spec
CONSTANTS
    MaxContainers = 2
    MaxFaults = 1
    Shapes <- ScriptAndOffenders
INVARIANTS
    NoLineLost
    PassIsWatched
    GapIsReal
    ShellNeverWaits
CHECK_DEADLOCK FALSE
