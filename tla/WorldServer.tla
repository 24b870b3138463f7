----------------------------- MODULE WorldServer -----------------------------
(***************************************************************************)
(* The game thread (src/src/server.rs) over Persistence: the live chunk    *)
(* layer, the loading and unloading of chunk columns around players, and   *)
(* the edits of players and MCP tools.  The systems of a tick all borrow   *)
(* the layer, so they run one after another; what they interleave with is  *)
(* the writer thread, between the reads and writes they make of the disk.  *)
(*                                                                         *)
(* A request that needs chunk columns first loads the missing ones, each   *)
(* in two reads (Anvil, then SQLite), and then runs.  Either read may fail *)
(* and abandons the request.                                               *)
(***************************************************************************)
EXTENDS BuildRules, FiniteSets, FiniteSetsExt

CONSTANTS
    Key, Plan, BatchLimit, MaxEdits, NoOverride, NoBuild, NoEdit,
    Digs, Sets,     \* requests players and tools make: positions to dig, and
                    \* pairs of a position and a block to set there
    Fills,          \* regions tools ask to fill: two corners and a block
    Reads,          \* regions tools ask to read: two corners
    FillLimit,      \* MAX_FILL_BLOCKS
    ReadLimit,      \* MAX_SNAPSHOT_BLOCKS
    IntLimit,       \* coordinates are of -IntLimit..IntLimit - 1: 2^31
    Players,        \* the sets of positions connected players may stand at
    ViewRadius,     \* view distance and CHUNK_LOAD_MARGIN, in columns
    ReadsMayFail,   \* reading a column, or a committed row, may fail
    MayCrash,       \* the process may crash and be started again
    NoTask          \* the game thread is between two requests

\* The size of the world is no trouble for 32 bits, nor its volume for 64.
ASSUME LimitsAssumption ==
    /\ {FillLimit, ReadLimit, ViewRadius} \subseteq Nat
    /\ IntLimit \in Nat \ {0}
    /\ \A size \in {MaxX - MinX, MaxY - MinY, MaxZ - MinZ} : size + 1 < IntLimit
    /\ (MaxX - MinX + 1) * (MaxY - MinY + 1) * (MaxZ - MinZ + 1) < 2 * IntLimit * IntLimit

\* parse_build_block_name knows the palette and air.
ASSUME RequestAssumption ==
    /\ Plan \subseteq Seq(Target)
    /\ \A s \in Sets : s[2] \in Block
    /\ \A f \in Fills : f.block \in Block

VARIABLES
    anvil, block_overrides, command_log, builds, queue, shutdown,
    pending_edits, writer, batch, todo, stopping, caller, edit,
    accepted, latest, committed, raced, masked,
    layer,    \* the live world: a block per position, Air where not loaded
    chunks,   \* columns present in the layer
    task,     \* the request the game thread is serving
    reading,  \* the column it is loading and what Anvil held of it
    loaded,   \* ChunkLifecycle.loaded, which server_status reports
    tainted,  \* history: positions a load may have left other than latest
    bare      \* history: columns present whose stored blocks failed to load

Base == [p \in Position |-> BaseBlock(p)]
ColumnOf == [p \in Position |-> ColumnAt(p)]
NotReading == [column |-> <<>>, blocks |-> <<>>]

\* The positions of a plan and the blocks it gives them.
PlanMap(targets) ==
    [p \in {targets[i].pos : i \in DOMAIN targets} |->
        targets[CHOOSE i \in DOMAIN targets : targets[i].pos = p].block]

\* A load may fail here at any time (LoadFails), so it need not be known which
\* columns cannot be read.
P == INSTANCE Persistence WITH
        Pos <- Position, unreadable <- {},
        Plan <- {PlanMap(t) : t \in {t \in Plan : DOMAIN PlanMap(t) \subseteq Position}}

ASSUME StoreAssumption == P!ConstantsAssumption

storeVars == <<anvil, block_overrides, command_log, builds, queue, shutdown,
               pending_edits, writer, batch, todo, stopping, caller, edit,
               accepted, latest, committed, raced, masked>>
liveVars == <<layer, chunks, task, reading, loaded, tainted, bare>>
vars == <<storeVars, liveVars>>

Stored(p) == P!Stored(p)
Settled == P!InFlight = <<>> /\ P!Receiving

\* The game thread is inside no call of the persistence runtime.
Free == caller = "idle" /\ reading = NotReading
Idle == Free /\ task = NoTask

\* load_or_generate_chunk notes a column it finds present as loaded: those a
\* request passes, after the one at i, before the next missing one.
Passed(columns, i) ==
    {columns[j] : j \in {k \in i + 1..Len(columns) :
                            \A n \in i + 1..k : columns[n] \in chunks}}
PassedNow == Passed(task.need, CHOOSE i \in DOMAIN task.need : task.need[i] = reading.column)

-----------------------------------------------------------------------------
Init ==
    /\ P!Init
    /\ layer = [p \in Position |-> Air]
    /\ chunks = {} /\ task = NoTask /\ reading = NotReading
    /\ loaded = {} /\ tainted = {} /\ bare = {}

-----------------------------------------------------------------------------
\* Faulty forms of actions defined below.

\* The overlay is not laid over what Anvil held.
LoadAnvilOnly ==
    /\ reading # NotReading
    /\ layer' = [p \in Position |->
                    IF p \in DOMAIN reading.blocks
                    THEN reading.blocks[p] ELSE layer[p]]
    /\ reading' = NotReading
    /\ loaded' = loaded \cup {reading.column} \cup PassedNow
    /\ UNCHANGED <<storeVars, chunks, task, tainted, bare>>

\* Unloaded columns keep their blocks in the layer.
ManageKeepingBlocks ==
    /\ task # NoTask /\ Free /\ task.request.kind = "manage"
    /\ \A i \in DOMAIN task.need : task.need[i] \in chunks
    /\ chunks' = chunks \cap task.request.desired
    /\ tainted' = {p \in tainted : ColumnAt(p) \in chunks'}
    /\ bare' = bare \cap chunks'
    /\ loaded' = loaded \cap chunks'
    /\ task' = NoTask
    /\ UNCHANGED <<storeVars, layer, reading>>

\* Unloaded columns stay in the lifecycle.
ManageKeepingLoaded ==
    /\ task # NoTask /\ Free /\ task.request.kind = "manage"
    /\ \A i \in DOMAIN task.need : task.need[i] \in chunks
    /\ chunks' = chunks \cap task.request.desired
    /\ layer' = [p \in Position |->
                    IF ColumnAt(p) \in chunks' THEN layer[p] ELSE Air]
    /\ tainted' = {p \in tainted : ColumnAt(p) \in chunks'}
    /\ bare' = bare \cap chunks'
    /\ task' = NoTask
    /\ UNCHANGED <<storeVars, reading, loaded>>

\* The region may reach out of the world, as long as it starts in it.
EnsureMinInBounds(min, max) == InBounds(min)

-----------------------------------------------------------------------------
\* Regions that tools are given.

\* Arithmetic of signed integers of -limit..limit - 1, as a release build does it:
\* extents are of 32 bits, the volume is of 64.
Wrap(n, limit) == ((n + limit) % (2 * limit)) - limit
Extent(min, max, i) == Wrap(max[i] - min[i] + 1, IntLimit)
Volume(min, max) ==
    Wrap(Extent(min, max, 1) * Extent(min, max, 2) * Extent(min, max, 3),
         2 * IntLimit * IntLimit)

\* required_region: the corners are in order and the volume is in the limit ...
RequiredRegion(min, max, limit) ==
    /\ \A i \in 1..3 : min[i] <= max[i]
    /\ Volume(min, max) <= limit

\* ... and ensure_region_in_bounds.
EnsureRegionInBounds(min, max) == InBounds(min) /\ InBounds(max)

\* ensure_region_chunks_loaded: the columns between those of the corners, row by
\* row of z.
RegionColumns(min, max) ==
    LET from == ColumnAt(min)
        width == ColumnAt(max)[1] - from[1] + 1
        rows == ColumnAt(max)[2] - from[2] + 1
    IN [n \in 1..width * rows |->
            <<from[1] + ((n - 1) % width), from[2] + ((n - 1) \div width)>>]

\* region_positions: layer by layer of y, in each x by x.
RegionPositions(min, max, reverseY) ==
    LET size == [i \in 1..3 |-> max[i] - min[i] + 1]
        above(n) == (n - 1) \div (size[1] * size[3])
    IN [n \in 1..size[1] * size[2] * size[3] |->
            <<min[1] + (((n - 1) \div size[3]) % size[1]),
              IF reverseY THEN max[2] - above(n) ELSE min[2] + above(n),
              min[3] + ((n - 1) % size[3])>>]

-----------------------------------------------------------------------------
\* Loading.

\* ensure_neighbor_chunks_loaded and ensure_chunk_loaded_for_position: the
\* columns of a position, and of its neighbours inside the bounds.
Near(p) == {ColumnAt(q) : q \in ({p} \cup Neighbours(p)) \cap Position}
Own(p) == {ColumnAt(p)}

NearTargets(targets) ==
    UNION {Near(targets[i].pos) : i \in {j \in DOMAIN targets : InBounds(targets[j].pos)}}

\* The request takes the columns it needs in turn, its own one first: the nth
\* is the one that has n - 1 before it.
TakenBefore(first, c, d) == d # first /\ (c = first \/ Lexicographic(c, d))
InOrder(columns, first) ==
    [n \in 1..Cardinality(columns) |->
        CHOOSE c \in columns :
            Cardinality({d \in columns : TakenBefore(first, d, c)}) = n - 1]

Begin(request, columns) ==
    /\ Idle
    /\ task' = [request |-> request, need |-> columns]
    /\ loaded' = loaded \cup Passed(columns, 0)
    /\ UNCHANGED <<storeVars, layer, chunks, reading, tainted, bare>>

Missing == {i \in DOMAIN task.need : task.need[i] \in Column \ chunks}
Ready == task # NoTask /\ Free /\ Missing = {}

\* load_or_generate_chunk inserts the generated column, then reads its region
\* file.  A present column is taken as loaded.
LoadAnvil ==
    /\ task # NoTask /\ Free /\ Missing # {}
    /\ LET column == task.need[CHOOSE i \in Missing : \A j \in Missing : i <= j]
           inside == {p \in Position : ColumnAt(p) = column}
       IN /\ chunks' = chunks \cup {column}
          /\ layer' = [p \in Position |->
                        IF p \in inside THEN Base[p] ELSE layer[p]]
          /\ reading' = [column |-> column, blocks |-> [p \in inside |-> anvil[p]]]
          /\ tainted' = (tainted \ inside)
                \cup (inside \cap (P!Written(P!InFlight) \cup raced \cup masked))
    /\ UNCHANGED <<storeVars, task, loaded, bare>>

\* HybridAnvilStorage::load_chunk lays the overlay, read second, over what
\* Anvil held; apply_stored_chunk puts the result into the layer.
LoadSqlite ==
    /\ reading # NotReading
    /\ layer' = [p \in Position |->
                    IF p \in DOMAIN reading.blocks
                    THEN P!Merge(reading.blocks[p], block_overrides[p])
                    ELSE layer[p]]
    /\ reading' = NotReading
    /\ loaded' = loaded \cup {reading.column} \cup PassedNow
    /\ UNCHANGED <<storeVars, chunks, task, tainted, bare>>

\* Either read fails, as that of a region file without a header does: the
\* generated column stays in the layer, not noted as loaded.  A tool gives the
\* error to its client; manage_world_chunks goes on with the next column.
LoadFails ==
    /\ ReadsMayFail /\ reading # NotReading
    /\ reading' = NotReading
    /\ tainted' = tainted \cup DOMAIN reading.blocks
    /\ bare' = bare \cup {reading.column}
    /\ task' = IF task.request.kind = "manage" THEN task ELSE NoTask
    /\ loaded' = IF task.request.kind = "manage" THEN loaded \cup PassedNow ELSE loaded
    /\ UNCHANGED <<storeVars, layer, chunks>>

\* desired_chunks_for_players: the columns of the world around any player.
Desired(players) ==
    {c \in Column : \E p \in players : \A i \in 1..2 :
        c[i] - ColumnAt(p)[i] \in -ViewRadius..ViewRadius}

\* manage_world_chunks, with players connected: load every column of interest,
\* then remove every other one.
BeginManage(players) ==
    LET desired == Desired(players)
    IN Begin([kind |-> "manage", desired |-> desired], InOrder(desired, <<>>))

Manage ==
    /\ Ready /\ task.request.kind = "manage"
    /\ chunks' = chunks \cap task.request.desired
    /\ layer' = [p \in Position |->
                    IF ColumnAt(p) \in chunks' THEN layer[p] ELSE Air]
    /\ tainted' = {p \in tainted : ColumnAt(p) \in chunks'}
    /\ bare' = bare \cap chunks'
    /\ loaded' = loaded \cap chunks'
    /\ task' = NoTask
    /\ UNCHANGED <<storeVars, reading>>

\* get_block (of one position), snapshot_region, and validate_build_plan, which
\* loads what apply_build_plan does: their columns are loaded, their answer is
\* read from the layer, nothing else changes.
BeginRead(min, max) ==
    /\ RequiredRegion(min, max, ReadLimit) /\ EnsureRegionInBounds(min, max)
    /\ Begin([kind |-> "read"], RegionColumns(min, max))
BeginValidate(targets) == Begin([kind |-> "read"], InOrder(NearTargets(targets), <<>>))

Read ==
    /\ Ready /\ task.request.kind = "read"
    /\ task' = NoTask
    /\ UNCHANGED <<storeVars, layer, chunks, reading, loaded, tainted, bare>>

-----------------------------------------------------------------------------
\* Edits.

\* execute_world_command: validation, then set_block on a present chunk.
MayExecute(p, block) ==
    /\ ColumnAt(p) \in chunks
    /\ IF block = Air THEN MayRemove(p, BlockAt(layer, p))
       ELSE MaySet(p, block, BlockAt(layer, p), Anchored(layer, p), FALSE)

\* The layer takes the block and queue_world_command takes the edit.
Execute(p, block) ==
    /\ MayExecute(p, block)
    /\ layer' = [layer EXCEPT ![p] = block]
    /\ P!RecordQueued(p, block)

\* handle_player_digging and handle_player_placement: no column is loaded,
\* but mark_dirty notes the edited one.
PlayerEdit(p, block) ==
    /\ Idle
    /\ Execute(p, block)
    /\ loaded' = loaded \cup Own(p)
    /\ UNCHANGED <<chunks, task, reading, tainted, bare>>

\* The tools set_block and remove_block ...
BeginTool(p, block) ==
    /\ Len(accepted) < MaxEdits /\ InBounds(p)
    /\ Begin([kind |-> "edit", cells |-> <<p>>, block |-> block],
             InOrder(IF block = Air THEN Own(p) ELSE Near(p), ColumnAt(p)))

\* ... and fill_region, which loads no neighbours of the region it fills from
\* below or empties from above.
BeginFill(min, max, block) ==
    /\ RequiredRegion(min, max, FillLimit) /\ EnsureRegionInBounds(min, max)
    /\ LET cells == RegionPositions(min, max, block = Air)
           editable == {i \in DOMAIN cells : InBounds(cells[i]) /\ cells[i][2] # MinY}
       IN /\ Len(accepted) + Cardinality(editable) <= MaxEdits
          /\ Begin([kind |-> "edit", cells |-> cells, block |-> block],
                   RegionColumns(min, max))

\* The next cell.  A refused one ends the tool and leaves the earlier ones
\* done; fill_region only passes over air it was to remove.
Tool ==
    /\ Ready /\ task.request.kind = "edit"
    /\ LET cells == task.request.cells
           block == task.request.block
           rest == IF Len(cells) = 1 THEN NoTask
                   ELSE [task EXCEPT !.request.cells = Tail(cells)]
       IN \/ Execute(Head(cells), block) /\ task' = rest
          \/ /\ ~MayExecute(Head(cells), block)
             /\ task' = IF block = Air /\ layer[Head(cells)] = Air THEN rest ELSE NoTask
             /\ UNCHANGED <<storeVars, layer>>
    /\ UNCHANGED <<chunks, reading, loaded, tainted, bare>>

\* Sender::send, in the middle of any of these.
HandOver ==
    /\ P!HandOver
    /\ tainted' = IF P!Receiving THEN tainted \ {edit.pos} ELSE tainted
    /\ UNCHANGED <<layer, chunks, task, reading, loaded, bare>>

-----------------------------------------------------------------------------
\* Builds.  BuildService models the loops; here each is one step.

Overlay(w) ==
    [p \in Position |-> IF p \in DOMAIN w THEN w[p] ELSE layer[p]]

BeginApply(k, targets) ==
    Begin([kind |-> "apply", key |-> k, plan |-> targets],
          InOrder(NearTargets(targets), <<>>))

\* A build transaction that wrote w was committed.  Then the layer keeps w; but
\* if the row cannot be read back, it is left as it was before.
Committed(w) ==
    \/ layer' = Overlay(w) /\ tainted' = tainted \ DOMAIN w
    \/ ReadsMayFail /\ layer' = layer /\ tainted' = tainted \cup DOMAIN w

\* player_occupied_blocks: feet and heads.
Occupied(players) == UNION {{p, <<p[1], p[2] + 1, p[3]>>} : p \in players}

\* apply_build_plan answers with an existing row, refuses an invalid plan, or
\* sets the blocks and commits.  A failed commit restores them all.
Apply ==
    /\ Ready /\ task.request.kind = "apply"
    /\ LET targets == task.request.plan
           w == PlanMap(targets)
       IN \/ /\ builds[task.request.key] = NoBuild
             /\ \E players \in Players \cup {{}} : Valid(targets, layer, Occupied(players))
             /\ P!PersistBuild(task.request.key, w, [p \in DOMAIN w |-> layer[p]])
             /\ Committed(w)
          \/ UNCHANGED <<storeVars, layer, tainted>>
    /\ task' = NoTask
    /\ UNCHANGED <<chunks, reading, loaded, bare>>

BeginUndo(k) ==
    /\ builds[k] # NoBuild
    /\ Begin([kind |-> "undo", key |-> k],
             InOrder(UNION {Own(p) : p \in DOMAIN builds[k].applied}, <<>>))

\* undo_build refuses a build that is undone or has drifted, or restores the
\* captured blocks and commits.  A failed commit sets the build again.
Undo ==
    /\ Ready /\ task.request.kind = "undo"
    /\ LET row == builds[task.request.key]
       IN \/ /\ \A p \in DOMAIN row.applied : layer[p] = row.applied[p]
             /\ P!MarkBuildUndone(task.request.key)
             /\ Committed(row.original)
          \/ UNCHANGED <<storeVars, layer, tainted>>
    /\ task' = NoTask
    /\ UNCHANGED <<chunks, reading, loaded, bare>>

-----------------------------------------------------------------------------
\* The writer thread, the end of the process and its next start.

WriterStep ==
    /\ P!Writer \/ P!FailFlush
    /\ UNCHANGED liveVars

Stop ==
    /\ P!BeginShutdown /\ Idle
    /\ UNCHANGED liveVars

Exit ==
    /\ P!JoinWriter \/ (MayCrash /\ P!Crash)
    /\ layer' = [p \in Position |-> Air]
    /\ chunks' = {} /\ task' = NoTask /\ reading' = NotReading
    /\ loaded' = {} /\ tainted' = {} /\ bare' = {}

Restart == P!Open /\ UNCHANGED liveVars

Next ==
    \/ \E players \in Players : BeginManage(players)
    \/ LoadAnvil \/ LoadSqlite \/ LoadFails \/ Manage
    \/ (\E r \in Reads : BeginRead(r.min, r.max)) \/ (\E t \in Plan : BeginValidate(t)) \/ Read
    \/ \E p \in Digs : PlayerEdit(p, Air) \/ BeginTool(p, Air)
    \/ \E s \in Sets : PlayerEdit(s[1], s[2]) \/ BeginTool(s[1], s[2])
    \/ \E f \in Fills : BeginFill(f.min, f.max, f.block)
    \/ Tool \/ HandOver
    \/ \E k \in Key, targets \in Plan : BeginApply(k, targets)
    \/ \E k \in Key : BeginUndo(k)
    \/ Apply \/ Undo
    \/ WriterStep \/ Stop \/ Exit \/ Restart

Spec == Init /\ [][Next]_vars

-----------------------------------------------------------------------------
\* Every variable keeps its type, and the layer is air where nothing is loaded.
TypeOK ==
    /\ layer \in [Position -> Block]
    /\ chunks \subseteq Column
    /\ \A p \in Position : ColumnAt(p) \notin chunks => layer[p] = Air
    /\ loaded \subseteq Column /\ bare \subseteq chunks
    /\ tainted \subseteq Position

\* Every call the game thread makes is one Persistence allows there, so what is
\* shown of Persistence holds under these callers too.
ImplementsPersistence == P!Spec

\* While the writer lives, a loaded block is what the last accepted edit or
\* committed build wrote there -- except where its column was loaded while an
\* edit was still in flight, a read failed, or a build had raced or been masked.
LiveIsLatestUnlessTainted ==
    P!Receiving =>
        \A p \in Position \ tainted :
            \/ ColumnAt(p) \notin chunks
            \/ p \in DOMAIN reading.blocks
            \/ caller = "sending" /\ edit.pos = p
            \/ layer[p] = latest[p]

\* No interleaving of edits, builds, loads, flushes and restarts touches the
\* lowest layer or fills the protected spawn space, in the world or on disk.
FoundationAndSpawnKept ==
    \A p \in Position :
        /\ p[2] = MinY => Stored(p) = Base[p] /\ layer[p] \in {Base[p], Air}
        /\ ProtectedSpawn(p) => Stored(p) = Air /\ layer[p] = Air

\* "Disconnect/reconnect keeps the in-memory world state valid while the server
\* process remains running" (docs/milestones.md:17) and "MCP reads/edits load
\* required chunks before accessing live world state" (docs/milestones.md:71): a
\* column that is loaded, and loaded again, shows the last edit made to it.  Not so
\* if it was loaded with the edit in flight, or its stored blocks were not read.
ReloadKeepsEdits ==
    P!Receiving =>
        \A p \in Position :
            \/ ColumnAt(p) \notin chunks
            \/ p \in DOMAIN reading.blocks
            \/ caller = "sending" /\ edit.pos = p
            \/ layer[p] = latest[p]

\* "Build plans with idempotent application and persistent undo records"
\* (README.md:11), "durable build transaction" (build_service.rs:175): with
\* nothing in flight, the block of an applied build that nothing has written
\* since is on disk.
BuildsAreStored ==
    Settled =>
        \A k \in Key : builds[k] # NoBuild /\ builds[k].state = "applied" =>
            \A p \in DOMAIN builds[k].applied :
                latest[p] = builds[k].applied[p] => Stored(p) = latest[p]

\* What server_status reports as loaded is what the layer holds, but for columns
\* whose load failed: however tools, players and manage_world_chunks load, edit
\* and drop columns, the lifecycle keeps none that is gone and misses none.
LifecycleTracksLayer ==
    /\ loaded \subseteq chunks
    /\ chunks \ loaded \subseteq bare \cup {reading.column}

\* However the volume of its region overflows, no tool edits more cells than its
\* limit, or cells outside the world: the two checks of a region only together
\* give that ("Edit tools are bounded", mcp.rs:380).
FillsWithinLimit ==
    task # NoTask /\ task.request.kind = "edit" =>
        /\ Len(task.request.cells) <= Max({1, FillLimit})
        /\ \A i \in DOMAIN task.request.cells : InBounds(task.request.cells[i])
=============================================================================
