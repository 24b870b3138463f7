---------------------------- MODULE WorldCommand ----------------------------
(***************************************************************************)
(* The rules of the world (src/src/world_command.rs): its bounds, its      *)
(* generated ground, its chunk columns, and the one validation every edit  *)
(* of a player, a tool or a build goes through.  Which error a refused     *)
(* command carries is left out; that the first failing check refuses it is *)
(* the conjunction below.                                                  *)
(***************************************************************************)
EXTENDS Integers

CONSTANTS
    MinX, MaxX, MinY, MaxY, MinZ, MaxZ, \* WORLD_BOUNDS
    GroundY,                            \* GROUND_Y
    ChunkSize,                          \* blocks along a side of a column, 16
    RegionSize,                         \* columns along a side of a region, 32
    Palette                             \* Build Palette v1

Air == "air"
Bedrock == "bedrock"
Block == Palette \cup {Air, Bedrock, "stone", "dirt", "grass_block"}

\* The palette holds the blocks of the generated ground but neither air nor
\* bedrock (build_palette.rs:30-34).
ASSUME WorldAssumption ==
    /\ {MinX, MaxX, MinY, MaxY, MinZ, MaxZ, GroundY} \subseteq Int
    /\ {ChunkSize, RegionSize} \subseteq Nat \ {0}
    /\ MinY \in (GroundY - 4)..GroundY \* the lowest layer is generated ground
    /\ Air \notin Palette /\ Bedrock \notin Palette

\* A position is a triple <<x, y, z>>.
Position == (MinX..MaxX) \X (MinY..MaxY) \X (MinZ..MaxZ)

\* WorldBounds::contains
InBounds(p) == p \in Position

\* base_block_state_at
BaseBlock(p) ==
    CASE p[2] = GroundY - 4 -> Bedrock
      [] p[2] = GroundY - 3 -> "stone"
      [] p[2] \in {GroundY - 2, GroundY - 1} -> "dirt"
      [] p[2] = GroundY -> "grass_block"
      [] OTHER -> Air

\* ChunkColumn::from_block_pos and the columns contains_chunk accepts
ColumnAt(p) == <<p[1] \div ChunkSize, p[3] \div ChunkSize>>
Column == ((MinX \div ChunkSize)..(MaxX \div ChunkSize))
          \X ((MinZ \div ChunkSize)..(MaxZ \div ChunkSize))

\* The order of ChunkColumn, and of a flush: regions first, columns within.
Lexicographic(c, d) == c[1] < d[1] \/ (c[1] = d[1] /\ c[2] < d[2])
RegionOf(c) == <<c[1] \div RegionSize, c[2] \div RegionSize>>
FlushedBefore(c, d) ==
    \/ Lexicographic(RegionOf(c), RegionOf(d))
    \/ RegionOf(c) = RegionOf(d) /\ Lexicographic(c, d)

\* The six faces of a block.
Neighbours(p) ==
    {<<p[1], p[2] - 1, p[3]>>, <<p[1], p[2] + 1, p[3]>>,
     <<p[1] - 1, p[2], p[3]>>, <<p[1] + 1, p[2], p[3]>>,
     <<p[1], p[2], p[3] - 1>>, <<p[1], p[2], p[3] + 1>>}

\* is_protected_spawn: the feet and head space around the spawn point
ProtectedSpawn(p) ==
    /\ p[1] \in -1..1 /\ p[3] \in -1..1
    /\ p[2] \in {GroundY + 1, GroundY + 2}

\* Faulty forms of the two checks below: a block may replace another one, may
\* fill the spawn space.
MaySetOverBlocks(p, block, target, anchored, headInside) ==
    /\ InBounds(p) /\ block \in Palette
    /\ ~ProtectedSpawn(p) /\ ~headInside
    /\ anchored
MaySetAtSpawn(p, block, target, anchored, headInside) ==
    /\ InBounds(p) /\ block \in Palette
    /\ ~headInside
    /\ target = Air /\ anchored

\* validate_world_command for SetBlock: bounds, palette, placement safety
MaySet(p, block, target, anchored, headInside) ==
    /\ InBounds(p)
    /\ block \in Palette
    /\ ~ProtectedSpawn(p)
    /\ ~headInside
    /\ target = Air
    /\ anchored

\* validate_world_command for RemoveBlock: bounds, nothing there, foundation
MayRemove(p, target) ==
    /\ InBounds(p)
    /\ target # Air
    /\ target # Bedrock /\ p[2] > MinY

\* A layer maps every position to its block, Air where no chunk is present, so
\* block_state_at needs no case for a missing chunk.
BlockAt(layer, p) == IF p \in Position THEN layer[p] ELSE Air

\* placement_anchor_in_layer finds an anchor: some face touches a block.
Anchored(layer, p) == \E q \in Neighbours(p) : BlockAt(layer, q) # Air
=============================================================================
