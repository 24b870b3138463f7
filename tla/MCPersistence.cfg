SPECIFICATION FairSpec
CONSTANTS
    g = g
    a = a
    air = air
    stone = stone
    Pos = {g, a}
    Block = {air, stone}
    Air = air
    Base <- MCBase
    Column = {0, 1}
    ColumnOf <- MCColumnOf
    RegionOf <- MCRegionOf
    FlushedBefore <- MCFlushedBefore
    Key = {"k1"}
    Plan <- MCPlan
    BatchLimit = 2
    MaxEdits = 3
    NoOverride = NoOverride
    NoBuild = NoBuild
    NoEdit = NoEdit
INVARIANTS
    TypeOK
    PendingExact
    LogInOrder
    ShutdownDrains
    LatestRecoverable
    CrashAtomic
    FlushedBlocksLoad
PROPERTIES
    EditsGetLogged
    ShutdownEnds
    ImplementsDurableWorld
