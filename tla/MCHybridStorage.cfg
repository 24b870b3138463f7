SPECIFICATION Spec
CONSTANTS
    MinX <- MCMinX
    MaxX = 2
    MinY = 3
    MaxY = 4
    MinZ = 0
    MaxZ = 0
    GroundY = 3
    ChunkSize = 2
    RegionSize = 2
    Palette = {"brick", "stone", "dirt", "grass_block"}
    LongBits = 8
    MinBits = 1
    Tables <- MCTables
    AddedColumns <- MCAddedColumns
    SchemaVersion = 2
    SaveFormatVersion = 2
    Saves <- MCSaves
    NoRow = NoRow
    Key = {"k1"}
    Plan <- MCPlan
    BatchLimit = 2
    MaxEdits = 2
    NoOverride = NoOverride
    NoBuild = NoBuild
    NoEdit = NoEdit
    Edits <- MCEdits
    NoFile = NoFile
    Blank = Blank
    Unreadable = Unreadable
INVARIANTS
    ColumnsReadBack
    StampedSaveIsWhole
    BackupsHoldPromises
PROPERTIES
    VersionsNeverFall
    ImplementsPersistence
