SPECIFICATION Spec
CONSTANTS
    MinX = 1
    MaxX = 2
    MinY = 0
    MaxY = 2
    MinZ = 1
    MaxZ = 1
    GroundY = 1
    ChunkSize = 1
    RegionSize = 1
    Palette = {"brick", "grass_block"}
    Key = {"k1"}
    Plan <- MCPlan
    BatchLimit = 2
    MaxEdits = 2
    NoOverride = NoOverride
    NoBuild = NoBuild
    NoEdit = NoEdit
    Digs <- MCDigs
    Sets <- MCSets
    Fills <- MCNoFills
    Reads <- MCNoReads
    FillLimit = 2
    ReadLimit = 2
    IntLimit = 4
    Players <- MCPlayers
    ViewRadius = 0
    ReadsMayFail = FALSE
    MayCrash = FALSE
    NoTask = NoTask
INVARIANT BuildsAreStored
