SPECIFICATION Spec
CONSTANTS
    IntMin <- MCIntMin
    IntMax = 3
    World <- MCWorld
    Palette = {"stone", "dirt"}
    MaxOperations = 2
    MaxTargets = 4
    BuildPlans <- MCBuildPlans
INVARIANTS
    ConflictsAreRight
    ExpansionIsWhole
CHECK_DEADLOCK FALSE
