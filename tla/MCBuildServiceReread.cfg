SPECIFICATION Spec
CONSTANTS
    MinX = 1
    MaxX = 2
    MinY = 63
    MaxY = 66
    MinZ = 1
    MaxZ = 1
    GroundY = 64
    ChunkSize = 1
    RegionSize = 1
    Palette = {"brick", "grass_block"}
    Key = {"k1", "k2"}
    Plan <- MCPlan
    Occupied <- MCOccupied
    MaxEdits = 3
    NoBuild = NoBuild
INVARIANTS
    ErrorLeavesNoRecord
