SPECIFICATION Spec
CONSTANTS
    Worlds <- MCWorlds
    Level = {1, 2}
    SweepMax = 1
    FinMax = 2
    OpsMax = 3
INVARIANT SweepWhitens
CHECK_DEADLOCK FALSE
