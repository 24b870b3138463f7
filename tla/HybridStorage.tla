---------------------------- MODULE HybridStorage ----------------------------
(***************************************************************************)
(* HybridAnvilStorage (src/src/persistence.rs) file by file: what          *)
(* Persistence takes as one write of a column is here a region file that   *)
(* is opened, perhaps created, read, rewritten chunk by chunk and perhaps  *)
(* removed.  The server opens the save through the steps of                *)
(* SchemaMigration, and a backup may copy the files while all this goes    *)
(* on.  ImplementsPersistence says that Persistence is what one sees.      *)
(***************************************************************************)
EXTENDS AnvilChunk, SchemaMigration

CONSTANTS
    Key, Plan, BatchLimit, MaxEdits, NoOverride, NoBuild, NoEdit,
    Edits,      \* edits the server may make next, by the number it has made:
                \* pairs of a position and a block
    NoFile,     \* there is no region file
    Blank,      \* there is one that lacks its header, or whose copy is torn
    Unreadable  \* what load_chunk gives when it returns an error

VARIABLES
    \* As in Persistence, without its variables anvil and unreadable.
    block_overrides, command_log, builds, queue, shutdown, pending_edits,
    writer, batch, todo, stopping, caller, edit,
    accepted, latest, committed, raced, masked,
    files,    \* region files: chunks by their place in the region, each as
              \* the overrides that reading it gives
    region,   \* the region file the writer has open
    backup    \* a backup under way: what it has copied, the region files it has
              \* found and will copy, and of its beginning, as history, the
              \* state of the world

Base == [p \in Position |-> BaseBlock(p)]
ColumnOf == [p \in Position |-> ColumnAt(p)]
Regions == {RegionOf(c) : c \in Column}
Closed == <<>>
NoBackup == <<>>
EmptyRegion == <<>>

\* local_chunk_coords
Slot(c) == <<c[1] % RegionSize, c[2] % RegionSize>>

\* read_chunk_from_anvil_region, of a file that has a header or is missing; and
\* what it will give when a chunk has been written.
ReadChunk(file, c) ==
    IF file = NoFile \/ Slot(c) \notin DOMAIN file THEN <<>> ELSE file[Slot(c)]
ReadBack(c, blocks) == DecodeChunk(c, EncodeChunk(c, blocks))

\* AnvilChunkStorage::load_chunk, for a position: it fails at a file without a
\* header, and gives the generated block where the files have none.
InFiles(fs, p) ==
    LET file == fs[RegionOf(ColumnOf[p])]
        found == ReadChunk(file, ColumnOf[p])
    IN IF file = Blank THEN Unreadable
       ELSE IF p \in DOMAIN found THEN found[p] ELSE Base[p]

\* What the files hold, whether it can be read or not: one without a header holds
\* nothing.  And the columns that cannot be read.
Held(fs) ==
    [p \in Position |->
        IF fs[RegionOf(ColumnOf[p])] \in {NoFile, Blank} THEN Base[p] ELSE InFiles(fs, p)]
NoHeader(fs) == {c \in Column : fs[RegionOf(c)] = Blank}

P == INSTANCE Persistence WITH
        Pos <- Position, anvil <- Held(files), unreadable <- NoHeader(files)

\* HybridAnvilStorage::load_chunk: an error of the region file comes before SQLite
\* is asked.
Load(fs, overrides, p) ==
    LET block == InFiles(fs, p)
    IN IF block = Unreadable THEN Unreadable ELSE P!Merge(block, overrides[p])

\* The places a region has for chunks.
Slots == (0..RegionSize - 1) \X (0..RegionSize - 1)

\* What Persistence supposes of its constants; and the markers of a file are not
\* what a file may hold.
ASSUME StorageAssumption ==
    /\ BatchLimit \in Nat \ {0} /\ MaxEdits \in Nat
    /\ \A f \in Plan : DOMAIN f \subseteq Position /\ f \in [DOMAIN f -> Block]
    /\ NoOverride \notin Block /\ NoEdit \notin P!Edit
    /\ \A S, T \in SUBSET Position :
        LET row == [state : {"applied", "undone"}, applied : [S -> Block]]
            full == [state : {"applied", "undone"}, applied : [S -> Block],
                     original : [T -> Block]]
        IN NoBuild \notin row \cup full
    /\ NoFile # Blank /\ Unreadable \notin Block
    /\ \A S \in SUBSET Slots : {NoFile, Blank} \cap [S -> P!Partial(Position)] = {}
    /\ \A n \in 0..MaxEdits - 1 : Edits[n] \subseteq Position \X Block

\* The writer as Persistence knows it: past its last column it is at SQLite.
Refined == INSTANCE Persistence WITH
        Pos <- Position, anvil <- Held(files), unreadable <- NoHeader(files),
        writer <- IF writer = "anvil" /\ todo = {} THEN "sqlite" ELSE writer

storeVars == <<block_overrides, command_log, builds, queue, shutdown,
               pending_edits, writer, batch, todo, stopping, caller, edit,
               accepted, latest, committed, raced, masked>>
vars == <<storeVars, schemaVars, files, region, backup>>

\* The block a position has, with those of edits on their way to it; and those of
\* edits accepted since a backup began.
Promised(p) ==
    {P!Stored(p)}
    \cup {P!InFlight[i].block : i \in {j \in DOMAIN P!InFlight : P!InFlight[j].pos = p}}
Beginning ==
    [overrides |-> block_overrides, files |-> <<>>, found |-> {},
     began |-> [blocks |-> [p \in Position |-> Promised(p)],
                edits |-> Len(accepted)]]
WrittenSince(p) ==
    {accepted[i].block :
        i \in {j \in DOMAIN accepted : j > backup.began.edits /\ accepted[j].pos = p}}

-----------------------------------------------------------------------------
\* Faulty forms of actions defined below.

\* A region file is written with the one chunk.
WriteChunkAlone ==
    /\ writer = "anvil" /\ region # Closed /\ files[region] # Blank
    /\ \E c \in todo :
        /\ RegionOf(c) = region
        /\ \A d \in todo \ {c} : FlushedBefore(c, d)
        /\ LET blocks == ApplyEdits(c, ReadChunk(files[region], c), batch)
           IN files' = [files EXCEPT ![region] =
                IF blocks = <<>> THEN EmptyRegion ELSE Slot(c) :> ReadBack(c, blocks)]
        /\ todo' = todo \ {c}
    /\ UNCHANGED <<block_overrides, command_log, builds, queue, shutdown,
                   pending_edits, writer, batch, stopping, caller, edit, accepted,
                   latest, committed, raced, masked, schemaVars, region, backup>>

\* SQLite may be copied once more when a region has been.
CopySqliteAgain ==
    /\ P!Receiving
    /\ backup' = IF backup = NoBackup THEN Beginning
                 ELSE [backup EXCEPT !.overrides = block_overrides]
    /\ UNCHANGED <<storeVars, schemaVars, files, region>>

-----------------------------------------------------------------------------
Init ==
    /\ files = [r \in Regions |-> NoFile]
    /\ P!Init /\ SchemaInit
    /\ region = Closed /\ backup = NoBackup

-----------------------------------------------------------------------------
\* The server opens its save: SQLite first, then the runtime starts.
OpenDatabase ==
    /\ caller = "down" /\ SchemaStep
    /\ UNCHANGED <<storeVars, files, region, backup>>

OpenRuntime ==
    /\ opening = "ready"
    /\ UNCHANGED <<schemaVars, files, region, backup>>
    /\ P!Open

\* It dies, while it opens the save or later, or it leaves.  No region file
\* is written then: what a backup still copies it could have copied just before,
\* so it ends too.
Crash ==
    /\ region' = Closed /\ backup' = NoBackup
    /\ CloseDatabase
    /\ UNCHANGED files
    /\ \/ P!Crash
       \/ caller = "down" /\ UNCHANGED storeVars

Leave ==
    /\ CloseDatabase
    /\ backup' = NoBackup
    /\ UNCHANGED <<files, region>>
    /\ P!JoinWriter

\* What Persistence says of the callers and the channel needs no file.
InMemory ==
    /\ UNCHANGED <<schemaVars, files, region, backup>>
    /\ \/ Len(accepted) < MaxEdits /\ \E e \in Edits[Len(accepted)] : P!RecordQueued(e[1], e[2])
       \/ \E k \in Key, f \in Plan : P!PersistBuild(k, f, [p \in DOMAIN f |-> Air])
       \/ \E k \in Key : P!MarkBuildUndone(k)
       \/ P!BeginShutdown \/ P!HandOver
       \/ P!RecvEdit \/ P!TakeShutdown \/ P!DrainEdit \/ P!BeginFlush
       \/ P!FlushSqlite \/ P!RecordFlushed

-----------------------------------------------------------------------------
\* AnvilChunkStorage::persist_block_edits.

writerHolds == <<block_overrides, command_log, builds, queue, shutdown,
                 pending_edits, batch, stopping, caller, edit, accepted, latest,
                 committed, raced, masked, schemaVars, backup>>

\* open_region_for_write creates a missing file, with no byte in it ...
OpenRegion ==
    /\ writer = "anvil" /\ region = Closed
    /\ \E c \in todo :
        /\ \A d \in todo \ {c} : FlushedBefore(c, d)
        /\ region' = RegionOf(c)
    /\ files' = [files EXCEPT ![region'] = IF @ = NoFile THEN Blank ELSE @]
    /\ UNCHANGED <<writerHolds, writer, todo>>

\* ... and gives an empty one, of now or of an earlier crash, its header.
WriteHeader ==
    /\ writer = "anvil" /\ region # Closed /\ files[region] = Blank
    /\ files' = [files EXCEPT ![region] = EmptyRegion]
    /\ UNCHANGED <<writerHolds, writer, todo, region>>

\* The next chunk is read, edited, and written or removed.
WriteChunk ==
    /\ writer = "anvil" /\ region # Closed /\ files[region] # Blank
    /\ \E c \in todo :
        /\ RegionOf(c) = region
        /\ \A d \in todo \ {c} : FlushedBefore(c, d)
        /\ LET blocks == ApplyEdits(c, ReadChunk(files[region], c), batch)
           IN files' = [files EXCEPT ![region] =
                IF blocks = <<>> THEN [s \in DOMAIN @ \ {Slot(c)} |-> @[s]]
                ELSE Put(@, Slot(c), ReadBack(c, blocks))]
        /\ todo' = todo \ {c}
    /\ UNCHANGED <<writerHolds, writer, region>>

\* A region without a chunk loses its file; then comes the next one, or SQLite.
FinishRegion ==
    /\ writer = "anvil" /\ region # Closed /\ files[region] # Blank
    /\ \A c \in todo : RegionOf(c) # region
    /\ files' = [files EXCEPT ![region] = IF @ = EmptyRegion THEN NoFile ELSE @]
    /\ region' = Closed
    /\ writer' = IF todo = {} THEN "sqlite" ELSE "anvil"
    /\ UNCHANGED <<writerHolds, todo>>

FailFlush ==
    /\ region' = Closed /\ backup' = NoBackup
    /\ UNCHANGED <<schemaVars, files>>
    /\ P!FailFlush

-----------------------------------------------------------------------------
\* create_backup, or the script that does the same beside a running server.

\* SQLite's online backup copies one committed state of the database ...
CopySqlite ==
    /\ P!Receiving /\ backup = NoBackup
    /\ backup' = Beginning
    /\ UNCHANGED <<storeVars, schemaVars, files, region>>

\* ... then copy_dir_recursive lists the few region files there are ...
ListRegions ==
    /\ backup # NoBackup /\ backup.found = {} /\ backup.files = <<>>
    /\ LET missing == {r \in Regions : files[r] = NoFile}
       IN backup' = [backup EXCEPT !.found = Regions \ missing,
                                   !.files = [r \in missing |-> NoFile]]
    /\ UNCHANGED <<storeVars, schemaVars, files, region>>

\* ... and copies them, in any order.  Of a file the writer has open the copy may
\* mix what is old and what is new, which nothing can read.
CopyRegion(r) ==
    /\ backup # NoBackup /\ r \in backup.found /\ files[r] # NoFile
    /\ \E copy \in {files[r]} \cup (IF region = r THEN {Blank} ELSE {}) :
        backup' = [backup EXCEPT !.files = Put(@, r, copy), !.found = @ \ {r}]
    /\ UNCHANGED <<storeVars, schemaVars, files, region>>

\* A file removed since it was listed fails the backup, which is given up ...
LoseRegion(r) ==
    /\ backup # NoBackup /\ r \in backup.found /\ files[r] = NoFile
    /\ backup' = NoBackup
    /\ UNCHANGED <<storeVars, schemaVars, files, region>>

\* ... and a whole one is recorded.
Copied == backup # NoBackup /\ DOMAIN backup.files = Regions
RecordBackup ==
    /\ Copied
    /\ backup' = NoBackup
    /\ UNCHANGED <<storeVars, schemaVars, files, region>>

\* What a server started over the copies loads.
Restored(p) == Load(backup.files, backup.overrides, p)

-----------------------------------------------------------------------------
Next ==
    \/ OpenDatabase \/ OpenRuntime \/ Crash \/ Leave
    \/ InMemory
    \/ OpenRegion \/ WriteHeader \/ WriteChunk \/ FinishRegion \/ FailFlush
    \/ CopySqlite \/ ListRegions \/ RecordBackup
    \/ \E r \in Regions : CopyRegion(r) \/ LoseRegion(r)

Spec == Init /\ [][Next]_vars

-----------------------------------------------------------------------------
\* Whenever the writer is about to store columns, any blocks would be read back:
\* also those of edits beyond the few of a run.  (The code's tests write one block
\* into an otherwise generated chunk.)
ColumnsReadBack == todo # {} => SectionsRoundTrip

\* Creating, encoding, rewriting and removing region files, and dying between
\* any two of these, is what Persistence says of its map of stored blocks; so
\* what is proved of Persistence holds of the files.
ImplementsPersistence == Refined!Spec

\* A backup taken beside a running server never gives a position a block that had
\* been superseded before it began: what loads from the copies is of that moment
\* or was accepted since, although files are created, rewritten and removed between
\* being listed and being copied.  It is so because SQLite is copied before the
\* regions: a flush moves blocks out of SQLite into them.  (Not everything
\* loads: a file copied as it was created or written is Unreadable.)
BackupsHoldPromises ==
    Copied => \A p \in Position :
        Restored(p) \in {Unreadable} \cup backup.began.blocks[p] \cup WrittenSince(p)

-----------------------------------------------------------------------------
\* What the documentation promises and the code does not keep.

\* "Server startup loads saved block_overrides after generating the bounded base
\* world" (docs/milestones.md:26): whatever SQLite has of a position when a server
\* starts can be loaded.  Not so where a crash left a region file without a header.
StartupLoadsOverrides ==
    opening = "ready" /\ caller = "down" => \A p \in Position :
        block_overrides[p] # NoOverride => Load(files, block_overrides, p) # Unreadable
=============================================================================
