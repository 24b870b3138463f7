# World Loom Server: a TLA+ development

World Loom Server is a Minecraft server with one world, a browser bridge and an
MCP endpoint through which tools build in that world. The specifications here
are written from the Rust sources in `src/src/`; the docs are quoted only where
a run shows that the program does something else.

    tlc -workers 2 -config MCPersistence.cfg MCPersistence     # a run
    tlapm Persistence_proofs.tla                               # its proofs

## The system

Four kinds of threads meet in the process.

* The **game thread** (`server.rs`) runs the systems of a tick one after
  another: loading chunks, players' digging and placing, MCP tools, the exit.
* The **writer thread** (`persistence.rs`) takes block edits from a channel and
  flushes them in batches.
* The **bridge runtime** (`bridge.rs`), a tokio runtime on a thread of its own,
  serves HTTP and WebSockets.
* An **MCP handler** (`mcp.rs`) per call, on a blocking thread of that runtime,
  waits for the game thread's answer.

| Component | State it keeps | Operations | Talks to | Correct when |
|---|---|---|---|---|
| World rules (`world_command.rs`) | none | validate and execute a command | game thread, build service | the lowest layer and the spawn space survive anything |
| Plan expansion (`build_plan.rs`) | loop state | `prepare_build_plan` | build service | every cell is a target or a conflict, in the same order always |
| Build service (`build_service.rs`) | world and rows while a tool runs | validate, apply, get, undo | layer, persistence | an operation succeeds whole or leaves nothing |
| Persistence (`persistence.rs`) | region files, SQLite, channel, batch, counters | queue an edit, commit a build or its undo, load, flush, shut down, open | game thread, disk | nothing accepted is lost or reordered; a crash leaves old or new blocks |
| Game thread (`server.rs`) | the live layer, the columns in it | load, unload, dig, place, tools, exit | all of the above | the live world shows the last write |
| MCP queue (`mcp.rs`, `server.rs`) | calls waiting, the answer channel of each | send, take, run, answer, time out | handlers, game thread | a call runs at most once, in order, and its answer goes to it |
| Connection pool (`bridge.rs`) | `pending_connections` | connect, take a token | browsers, game server | a stream has one owner |
| Proxy (`bridge.rs`) | one bounded channel, four tasks | forward, abort, join | browser, game server | order is kept, everything ends |
| HTTP surface (`bridge.rs`) | configuration | start, CORS, authentication, routes | browsers | stateless checks, but for the start |
| Region codec (`persistence.rs`) | region files | create, read, rewrite, remove; pack palettes | writer, disk | what is written is read back, and a crash shows no half of it and hides no block of it |
| Schema (`persistence.rs`) | tables, columns and versions of the SQLite file | create, upgrade, stamp, refuse | opening a save | a file that says it is current is |
| Backup (`persistence.rs`, `scripts/backup-save.sh`) | the copy | copy SQLite, copy each region file | writer, disk | what loads from the copy was not superseded before |

The hard behaviours are those where two of these threads meet in an order the
tests do not produce: a flush between the two reads of a load, a build committed
while an older edit is on its way to disk, a tool call whose client has gone, a
bridge torn down while its handlers wait, a backup beside a flush, an upgrade
begun twice, and every error path that leaves one of two steps done. `PROJECT.json` lists each one at its line under `hazards`.

## The modules

    WorldCommand   rules of the world: bounds, columns, generated blocks, validation
    BuildRules     EXTENDS WorldCommand   validation of a plan
    BuildService   EXTENDS BuildRules     apply and undo, target by target
    DurableWorld                          the abstract store
    Persistence    Abstract == INSTANCE DurableWorld WITH ...   channel, writer, disk, crash
    AnvilChunk     EXTENDS WorldCommand   a chunk's sections, encoded and decoded
    SchemaMigration                       the statements that open a save
    HybridStorage  EXTENDS AnvilChunk, SchemaMigration, P == INSTANCE Persistence WITH ...
                                          region files, opening, backup
    WorldServer    EXTENDS BuildRules, P == INSTANCE Persistence WITH ...
    BuildPlan                             prepare_build_plan
    McpQueue                              calls between handlers and game thread
    BridgeConnections                     connect_tcp and socket_ws
    BridgeProxy                           proxy_socket

The theorems about a module `M` are in `M_proofs`, which extends it; there is one for
`Persistence`, `WorldServer`, `BuildService`, `BuildPlan`, `HybridStorage`, `McpQueue`,
`BridgeConnections` and `BridgeProxy`.

`Persistence` stands in the middle of three levels.

* Above it, `DurableWorld` says in a few lines what one can rely on: a durable map
  of blocks, accepted edits that land in their order, builds that are durable at
  once, and a crash that loses edits and nothing else. `ImplementsDurableWorld`
  (run `MCPersistence`) is the refinement.
* Below it, `HybridStorage` replaces its map `anvil` and its set `unreadable` by region
  files that are created, given a header, rewritten chunk by chunk and removed.
  `ImplementsPersistence` (run `MCHybridStorage`) is that refinement; its mapping is what
  the files hold (`Held`) and which columns have a file without a header (`NoHeader`).
* Beside it, `WorldServer` replaces its free client by the code of the game thread.
  `ImplementsPersistence` (run `MCWorldServer`) checks that this caller keeps to it.

The theorems about `Persistence` then speak of the store under its real caller and over
its real files: both refinements are proved as well as checked.

### Where state and actions come from

**Persistence.** `anvil` is what the region files hold, `unreadable` the columns whose
region file has no header: `load_chunk` fails for them before it asks SQLite
(`persistence.rs:456`). `block_overrides` is the SQLite overlay that it lays over the other
ones, `command_log` and `builds` the tables. `queue`/`shutdown` are the mpsc channel, `batch`, `todo`, `stopping` the
locals of `run_writer_loop`, and `writer` its program counter. `queue_world_command`
is two steps, `RecordQueued` (the counter) and `SendAccepted` or `SendRefused`,
because the writer may stop in between. A flush is one `WriteColumn` per chunk
column, in the code's order of regions and columns, then `FlushSqlite`, then
`RecordFlushed`. Before a column its region file may be created (`CreateRegion`) and given
its header (`WriteHeader`), and the process die in between; `FlushedBlocksLoad` says what that can
not do: hide a block that was flushed. `FailFlush` is any I/O error: the writer returns for good and the
receiver is dropped. `Crash` may come between any two steps, `Open` starts
again from the files, and is also the first step, over an empty save. Five variables are history: `accepted`, `latest` and
`committed` say what was promised; `raced` holds positions where a build was
committed over an edit in flight and `masked` those where a build of the
generated block only dropped the overlay (`persistence.rs:1506`). Both are
weaknesses of the code which `BuildsAreStored` shows;
the properties of the store are stated for the positions outside them.

**DurableWorld.** `durable` is what a load after a restart gives wherever it gives
anything (a column without a header loads once its next edit is flushed), `pending` the accepted edits
that are not settled, `rows` the builds. Since the writer stores column by column,
some of the first pending edits may have landed and others not (`Land`); when the
overlay is dropped all of them have (`Settle`). The two weaknesses are part of
it: an edit lands after a build that was committed meanwhile, and a build of the
generated block promises nothing of that position.

**AnvilChunk, HybridStorage.** A section is encoded as the code does it: a palette,
the width of an index from its size (at least `MinBits`, 4 in the code), as many
indices to a long of `LongBits` as fit whole, and back. `files` maps a region to
its chunks, to `NoFile`, or to `Blank`: a file that was created
and has no header yet, which is what a crash between the two leaves.
`OpenRegion`, `WriteHeader`, `WriteChunk` and `FinishRegion` are the steps of
`persist_block_edits`, in its order. (`FinishRegion` leaves out that the file is cut to
the length it uses: no load sees that.) `Load` is `HybridAnvilStorage::load_chunk` in its
order: an error of the region file, `Unreadable`, comes first, then SQLite over the chunk.
A backup is `CopySqlite`, then `ListRegions`, one `CopyRegion` for each file found, in any
order and with the writer in between, then `RecordBackup`. The directory is listed in one
step, as one call of the system does it for a few files. A file that is gone when its copy is due
fails the backup (`LoseRegion`). A file that the writer has open may be copied torn, since
the copy takes several reads: the copy is then taken to be one that cannot be read.
(A torn copy in which some chunks can be read and are older than others is not modelled.)
A backup is taken while the writer is there, and ended by whatever ends the writer: after
that no file changes, so what it would still copy it could have copied before.

**SchemaMigration.** The statements of `initialize_schema`, one step each, since each
commits by itself. `CloseDatabase` may come between any two. A file is whatever
`Saves` allows: none, one of an older release with some tables and columns, a
current one, a newer one. `SavesAssumption` asks of a file only what the release that
stamped it did first: one with this release's schema has its row of the history, one
with this release's versions is whole. `HybridStorage` takes these steps while the server is
down, and opens the runtime only when they are through.

**BuildService.** One action per target of the loops in `apply_build_plan` and
`undo_build`, one for each commit, for each failure and for each reply. The rows
are what SQLite holds; a row is committed by `PersistBuild` and read back in a
step of its own, since the read may fail (`persistence.rs:1106`). A tool runs to
its end without another one, as in the game thread; a player edits between tools.
The two branches that handle a target refused halfway (`build_service.rs:153-159`,
`243-249`) are not actions: `NeverRefusedMidway` shows that they are not reached, since
validation has let through only what the loop can do.

**WorldServer.** A request names the columns it needs; `LoadAnvil` and `LoadSqlite`
are the two reads of one column, `LoadFails` an error in either, which may come at any
load (so the module gives its store `unreadable <- {}`: it does not tell why a load fails); then `Manage`,
`Tool`, `Apply` or `Undo` does the work. `Tool` takes one cell at a time, so that
`fill_region` may stop halfway; single-block tools have one cell. The tools that
only read (`get_block`, `snapshot_region`, `validate_build_plan`) load their columns
and then `Read`. The regions of `fill_region` and `snapshot_region` go through
`RequiredRegion` and `EnsureRegionInBounds`; their volume is computed in integers that
wrap, of -`IntLimit`..`IntLimit`-1 for a coordinate and of twice the width for the product,
as a release build does it (a debug build panics, which is not modelled), and `FillsWithinLimit` shows that the check of the corners makes up for
that. Players may stand at any set of positions in `Players`: `Desired` are the
columns around them, `Occupied` the blocks a plan may not cover. `loaded` is the set
that `ChunkLifecycle` keeps beside the layer: it is updated where the code inserts
or removes, also for columns a request merely passes. Apply and undo are one step,
since `BuildService` has their inside. `tainted` (history) holds the positions
that a load may have left other than the last write, `bare` the columns whose
load failed.

**McpQueue.** `queue` is the mpsc channel of `McpRuntime`, `answer` the reply
channel each call brings along, `game` the tick: `Take` up to `TickLimit`, `Run`,
`Respond`. A timeout is `GiveUp`, enabled whenever no answer is there: five
seconds may be any number of steps. `BridgeRuntime::start` waits for a confirmation
that it listens: the runtime may take calls before `Start`, and `StartFails` drops
it when the confirmation is late or says no. Clients repeat a call under its key. At exit
the queue and the bridge are dropped in either order, since nothing fixes the
order of resources; `JoinBridge` waits for the handlers. What a call does to
the world is reduced to the row of its key.

**BridgeConnections.** Tokens are random UUIDs, taken to be distinct, so
a token is named after the request that made it. A handler may be dropped at its
one await. `Insert` is check and insertion under the lock. **BridgeProxy.** A step
of a task ends at an await, where it can be aborted. The game server and the browser
are external: they send, close and break off at will. A server that is open is
taken to read what it is sent.

**BuildPlan.** The three nested loops of `prepare_build_plan` with one step per
cell. Coordinates have `IntMin`..`IntMax` in place of 32 bits.

### What is abstracted

Block states, keys, chunks and messages are members of small sets. Formatting,
JSON, hashing, logging and wording are left out. `Persistence` takes the write of one
column as atomic, which `HybridStorage` shows for everything but the write of one
chunk: that is the `fastanvil` crate's, and a crash or a reader in the middle of it is
not modelled (a torn chunk is not told from an error). Compression and NBT are
external and taken to be inverse to their decoding. SQLite statements and
transactions are atomic, and its online backup copies one committed state.
`dirty_chunks`, the counters that only grow and the telemetry are only reported.

## The runs

| Run | What it checks | Instance |
|---|---|---|
| MCPersistence | safety of the store, DurableWorld implemented, edits get logged, joining ends | 2 positions in 2 columns of 2 regions, 2 blocks, 3 edits, batches of 2, a build that puts generated ground back at one and a block at the other; 673 thousand states |
| MCHybridStorage | files behave as Persistence says, palettes read back, upgrades, backups | 4 columns of blocks in 3 chunk columns and 2 regions, one half outside the world, 2 edits (of two kinds), a build, 10 saves, crashes, a backup; longs of 8 bits; 269 thousand states |
| MCHybridStorageStartup | *violated*, see below | the same |
| MCBuildService | no midway refusal, all or nothing, captures of air only | 2 keys, 6 plans (right and wrong order, protected, outside), 3 edits |
| MCBuildServiceReread | *violated*: an error leaves no record | the same |
| MCWorldServer | the live world is the last write unless tainted; the lifecycle tracks the layer; fills keep to their limit; Persistence is implemented | 2 columns of 3 blocks, 2 edits, a fill and a read in the world and one that reaches out, 2 plans, failed reads, crashes; coordinates of -4..3; 637 thousand states |
| MCWorldServerReload, Race | *violated*, see below | the same without regions, with what each needs |
| MCMcpQueue | call order, definite answers, retries; calls run, leaving ends | 2 clients, 2 calls each, all under one key, 2 per tick, a start that may fail; 148 thousand states |
| MCBridgeConnections | pool limit, one owner, spent tokens, connecting ends | 3 requests, 3 sockets, limit 2 |
| MCBridgeProxy | order, nothing left behind; the server is heard out, the proxy ends | channel of 1, 2 chunks, 2 messages |
| MCBuildPlan | expansion against a definition by sets | plans of 0 to 3 operations in a 3x2x1 world, limit 4 targets |

**Why the bounds are enough.** The store's hazards need two positions (one column
written, one not), an edit in flight below a build, and a batch that is full
while the queue is not: three edits with batches of two give all of these, and
the proofs remove the bound. Builds need an anchor that is itself a target (order
matters), a target in the protected space and one outside. The live world needs one
column that unloads and one of another region; -4..3 are the fewest coordinates in which
the volume of a region of four blocks is negative. The files need a region with two
chunks (one is rewritten, the other must stay), one whose only chunk goes away
again, and palettes on both sides of a power of two; a backup needs a flush that
moves a block of the overlay after SQLite was copied; an upgrade needs two tables
and columns and a save that has one of two. A queue needs a call that timed out
with a later one of the same client behind it. A proxy's channel of one place is
the smallest that blocks, and two messages show a change of order. The pool needs
a limit below the number of requests and more sockets than tokens. `MaxEdits`, `MaxCalls`,
`MaxChunks` and `MaxInputs` bound what the environment offers and appear in the
guards of those actions only.

**Deadlock** is checked in `Persistence`, `HybridStorage`, `BuildService` and
`WorldServer`, where something can always go on (a stopped server may be started
again, and one that refused its save ends). `McpQueue`
ends when the process has left, `BridgeProxy` when the proxy has returned,
`BridgeConnections` when every request is served and `BuildPlan` when the plan is
expanded; their configurations say `CHECK_DEADLOCK FALSE`, and `LeavingEnds`,
`ProxyEnds` and `ConnectEnds` say what must be reached.

No run uses symmetry: the ones whose values are interchangeable also check liveness.

**Fairness.** The operating system runs the writer, a sender in the middle of
`send`, and a thread in `join`: weak fairness on `Writer`, `HandOver` and
`JoinWriter`. No fairness is asked of clients, failures or restarts. In `McpQueue`
the game thread ticks and handlers run and time out, since `recv_timeout` does so by
itself; no client has to call. In `BridgeProxy` the runtime runs every task that
can go on and the browser reads what it is sent or breaks off (a browser that keeps
its connection and never reads could hold the writer for ever; TCP's own
timeouts are what ends that). In `BridgeConnections` only the handler and its
timer are fair: the game server may never answer.

### Where the program and its documents disagree

Each has a run with one property, which TLC finds violated.

* `ErrorLeavesNoRecord` (`MCBuildServiceReread`): a committed build whose row
  cannot be read back is reported as failed and taken out of the live world, but
  stays committed. The next call with its key is told it was applied.
* `ReloadKeepsEdits` (`MCWorldServerReload`): a column that is unloaded and loaded
  before the writer has flushed shows the world before the last edits. In the same run
  a failed load leaves a generated column (`server.rs:463`) that the next tool takes as
  loaded, although "MCP reads/edits load required chunks before accessing live world
  state" (`docs/milestones.md:71`). Without builds these two are all there is: `tainted` names
  them position by position, and `LiveIsLatestUnlessTainted` holds of the others.
* `BuildsAreStored` (`MCWorldServerRace`): an edit in flight when a build of its
  position commits takes the build's block off the disk. In the same run a build of
  the generated block uncovers the older block in the region file, although
  "reverting a cell back to its generated base block removes the override"
  (`docs/milestones.md:27`): that holds of an edit, not of a build. These two are all
  there is: outside `raced` and `masked`, `LatestRecoverable` implies the property.
* `StartupLoadsOverrides` (`MCHybridStorageStartup`): a crash between the creation of a
  region file (`persistence.rs:393`) and its header (`401`) leaves a file that every load of
  its columns fails at, before it asks SQLite (`456`). A build committed there is not
  loaded after the restart, until an ordinary edit of the region is flushed, although
  "server startup loads saved `block_overrides`" (`docs/milestones.md:26`).

`LiveIsLatestUnlessTainted` and `LatestRecoverable` are the complements: outside
these causes the live world and the disk do hold the last write. `FlushedBlocksLoad` and
`BackupsHoldPromises` are those of the last: what was flushed always loads, and
what loads from a backup is not older than its beginning.

Four remarks that no run settles:

* A backup can meet the same file: one copied before it has its header, or torn, does not
  load from the copies, nor does what SQLite has of its region, and yet the backup is
  recorded as any other ("online-safe", `docs/milestones.md:64`).
  `BackupsHoldPromises` therefore allows a position to be `Unreadable`.
* `docs/tailscale-deployment.md:145-155` backs up the SQLite file alone, which holds
  neither the region files nor, therefore, an edit that has been flushed.
  `scripts/backup-save.sh` and `create_backup` copy both, in the order that
  `BackupsHoldPromises` needs: a position that loads has the block it had when the backup
  began, one then on its way to it, or that of an edit accepted since.
* A file of a newer release gains this release's tables before it is refused
  (`persistence.rs:1410`). `VersionsNeverFall` shows that its versions are left alone; no
  property speaks of the tables.
* A connection whose token is never used stays in the pool for the life of the process.

## The proofs

Each theorem holds for every value of the constants that its module's assumptions allow.
These are types and sizes: limits are positive, clients are finitely many, markers such as
`NoBuild` differ from the values they stand beside, the world fits its integers
(`LimitsAssumption`, and `PlanAssumption` of `BuildPlan`), plans and requests are made of blocks the parser knows
(`RequestAssumption`, and `PlanAssumption` of `BuildService`), `SavesAssumption` is as above, a long has room for an
index into the palette (`CodecAssumption`), and `StorageAssumption` is what `Persistence`
supposes of its own constants. TLC evaluates all of them in the runs. Nothing bounds the number of edits, calls, positions or steps but the
constants themselves.

**Persistence_proofs**: all seven invariants of its run, and the refinement.

* `TypeCorrect`, `PendingIsExact`, `LogKeepsOrder`, `ShutdownLosesNothing` rest on
  `IInv == TypeOK /\ PendingExact /\ LogInOrder /\ Flow`. The invariants alone are
  not inductive: that the writer drains everything before it returns depends on
  where it stands, on `Shutdown` being behind every edit on the channel and on
  `stopping` being set only when the channel is empty, which `Flow` says.
* `LatestIsRecoverable` and `CrashLeavesOldOrNew` rest on
  `Durable == IInv /\ ColumnsWritten /\ LatestInFlight /\ LatestStored /\ CrashAtomic`.
  `ColumnsWritten` says that the columns of a batch that are not in `todo` hold
  its final blocks; without it the step in which SQLite drops the overlay would
  uncover unknown blocks. `LatestRecoverable` is split into its two cases, since
  positions with an edit in flight are unaffected by what happens to the files.
* `DurableWorldIsImplemented` maps every step to one of `DurableWorld` or to a stutter:
  the write of a column to `Land`, the SQLite transaction of a flush to `Settle` (all
  edits of the batch leave `pending` at once, and only then), a build to its commit, a
  crash and a failed flush to the loss of what is pending. It rests on
  `Refining == Durable /\ Captured`: a flush has something to write, and what a build
  captured is air, so that its undo is the removal `DurableWorld` knows.

* `FlushedBlocksAreRead` rests on `Readable`, which adds that the columns of a batch that are
  not in `todo` are readable. A file is created only where the region has no stored block,
  and no column is written to a file without a header; so the set of unreadable columns and the
  stored blocks stay apart through every crash.

The argument goes by steps, one per action, over lemmas about sequences of edits
(which edit of a position is last, after one more edit or in a concatenation).
`StepKinds` sorts the actions by what they do to the files and the edits in
flight, so that each later lemma has about ten cases.

**WorldServer_proofs**: all five invariants of its run, and both refinements.
The module takes `Persistence_proofs` by `INSTANCE` with the game thread's world for the
constants, so nothing about the store is proved twice.

* `Live == Store!Refining /\ TypeOK /\ Serving /\ Loading`. `LiveStepKinds` says what
  each action is to the store: a step of `Persistence`, or none. It needs `Serving`
  (the plan that is applied was validated in the world that is there now, over columns
  that its request has loaded) to show that a build captures air only, which the
  store requires of its caller. From it `ServerUsesItsStore`, and with
  `DurableWorldIsImplemented` also `ServerIsDurable`.
* `FillsStayWithinLimit`: `EnsureRegionInBounds` leaves a region whose corners are in the
  world, its volume is then exact in the integers of the code, and `RegionPositions`
  lists no more cells than that. `Serving` carries it over the cells of the fill.
* `LifecycleIsExact` is inductive over `Live`.
* `FoundationAndSpawnAreKept` is not: a flush could still store an edit of a protected
  position, a load show it and an undo bring it back. `FixedKept` says that nothing on
  the way -- channel, batch, the edit being sent, the rows of builds, the column being
  read -- names a protected position (`Untouched`, `ShownAsGenerated`).
* `LiveIsLatest` rests on `Seen`, which adds `InStep`: an edit being sent is already in
  the layer, and what the first read of a load found at an untainted position is still
  what the file holds, with nothing in flight there. That second part is what makes the
  two reads of a column safe outside the named causes.

**BuildService_proofs**: all four invariants. Between two steps of a loop the world is the
one before with the first `done` targets placed (`Applying`), or with the last ones removed
again (`Undoing`), and each target still fits the world its predecessors leave.
`LoopsNeverRefuse` then follows from what validation looked at, and needs
`LowestLayerIsSolid` and that rows hold fitting plans whose captured blocks are air
(`RowsFit`); it is where the order of targets, anchors and protected positions meet.

**BuildPlan_proofs**: both invariants, for boxes of any size. `WellFormed` and the two
invariants speak of sets; `IInv` ties the loops to them: it divides each box into the cells
that are left and those the loops are past, and says that without a conflict the latter
are the targets, each from an operation, in order, and that nothing is wrong with them.
The two directions of `VerdictIsRight` differ. That a plan without a conflict is well formed
is `AllIsPast`, the invariant behind the last cell. That a conflict is the plan's fault is
shown where it is noted: an overlap, since a target that is there comes from another box
(`DuplicateIsOverlap`), and the limit, since the targets are distinct, covered, and one
more than the plan may have (`LimitIsExceeded`). `LoopOrder` says that the loops take each
cell of a box once, in order.

**HybridStorage_proofs**: all three invariants, the action property and the refinement.

* `StampedIsWhole` and `NoVersionFalls`, of the upgrade of a save under everything the server does
  meanwhile. `Upgrading` says that past the check of the versions the file is
  whole and not newer, and that a file of this schema has its row of the history; without
  the latter `StampedIsWhole` fails for a file that carries this schema under an older format.
* `CodecReadsBack`, and from it `ColumnsAlwaysReadBack`: any section reads back as it was
  packed. Three things have to meet. The width is enough for every index and a long has room
  for at least one (`WidthHolds`); the fields of a long do not touch, so shift and mask cut out
  each of them (`FieldsStayApart`, by induction over the fields, from `PowersMultiply`);
  and the palette has an entry for each state and no two alike, so that it has no more of them than
  there are blocks (`PaletteHolds`).
* `FilesImplementPersistence`. That sections read back makes whole chunks read back
  (`ChunkReadsBack`), by the arithmetic of cells, sections and slots: each position has one
  section, cell, column and slot, also for negative coordinates. `EditsApplied` says that
  edits applied to a chunk one after the other leave the last block of each position,
  with no override where that is the generated one; so `WriteChunk` is the write of one
  column that `Persistence` knows (`ChunkWritten`). Creating, heading and removing files
  change no block (`EmptyFiles`), but which columns can be read: the first two are
  `CreateRegion` and `WriteHeader` of `Persistence` (`EmptyFilesStep`). The invariant is
  `StorageHolds == Store!IInv /\ FilesHold`: what `Persistence_proofs`
  says of the store below, that each file is missing, blank or a map of chunks whose
  blocks differ from the generated ones, and that a blank file the writer has open is that of the next
  column it writes. `Store!IInv` is needed for the batch being a sequence of edits.
* `BackupsKeepPromises`. Under `BackingUp`, every edit in flight is one the backup
  may hold; a position that its copy of SQLite covers has such a block there; and one it does not
  cover has such a block in the file, and in its copy unless that cannot be read. The third is
  where the order matters: SQLite, copied first, lets go of a block only when the files have it, so
  the copy of a file can only be newer. `BackupCopies` covers the listing, whole and torn copies. `InFlightStep` and `FilesStep` bound what one step adds to the edits in flight and
  to the files, and the blocks that are allowed only grow until the backup is over.

**McpQueue_proofs**: all four invariants. `IInv` follows a call from its handler through
the channel and the game thread: a call on the channel or past it is over for its
handler or still waited for (`AllHeeded`), calls are everywhere in the order
their client made them (`InOrder`), one that has not run can only have timed out
(`OnlyTimedOut`), and an answer under way is true of the world (`AnswersAreTrue`).

**BridgeConnections_proofs** and **BridgeProxy_proofs**: all five invariants. The first
says where a stream is at each point of its life. The second keeps the order of what
was received, is being written, is in the channel and is about to be sent, one
against the other, and that no chunk is missing ahead of another as long as somebody
listens.

### What is only model-checked, and why

* All liveness: `EditsGetLogged`, `ShutdownEnds`, `SentCallsRun`, `LeavingEnds`,
  `ProxyEnds`, `ServerHeardToTheEnd`, `ConnectEnds`. The prover has neither fairness
  nor `ENABLED`.
* The four properties that are violated, of course.

## Not modelled

* The HTTP surface of the bridge: routes, CORS and allowed origins, bearer
  authentication, configuration from the environment, the ping socket. Each is a
  check of one request against constants, without state.
* The MCP tool schemas, `initialize`, `tools/list` and the parsing of arguments other
  than regions: pure functions of one request.
* The palette's table of names and blocks (`build_palette.rs`): data. The models take
  its set of blocks as the constant `Palette`.
* `init_clients`, `despawn_disconnected_clients` and tick timing: the framework's
  state. Its effect on the world, where players stand, is an input of `WorldServer`.
* `ServerTelemetry`, `PersistenceStats` and the other lifecycle counters: only reported.
* `SqliteDeltaStorage` as a storage of its own (its `persist_block_edits` and `create_backup`):
  only tests use it. What the server uses of it, `open` and `load_chunk`, is modelled.
* Scripts other than the backup, and the deployment.
* NBT, compression and sectors of region files, SQLite and tokio themselves: external.

## The plan

Done: all modules above; of the 40 properties of the passing runs 33 are theorems, that is
every one but those listed under "What is only model-checked".

What could still be modelled is the rest of `mcp.rs` and of `bridge.rs`, as far as it
has state; the survey found none that is not listed above.

Nothing is left to prove among the invariants, action properties and refinements that the
runs check. A further step would be an abstract specification of the tool queue, with
calls that run at most once and answers that are true or unknown, for `McpQueue` to implement as
`Persistence` does `DurableWorld`; its invariants are already those such a proof needs.
