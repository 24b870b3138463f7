----------------------------- MODULE Persistence -----------------------------
(***************************************************************************)
(* The durable side of the server (src/src/persistence.rs).                *)
(*                                                                         *)
(* Two threads share it.  The game thread hands block edits to a channel   *)
(* (queue_world_command) and commits builds and their undo in SQLite       *)
(* transactions of its own (persist_build, mark_build_undone).  The writer *)
(* thread drains the channel in batches and flushes each batch in three    *)
(* steps: the Anvil region files one chunk column at a time, then one      *)
(* SQLite transaction, then the counters.  An I/O error ends the writer    *)
(* for good; the process may crash between any two steps and start again   *)
(* from the files.  A crash that leaves a region file without a header     *)
(* leaves columns that load_chunk fails for, whatever SQLite has of them.  *)
(*                                                                         *)
(* The callers are left open: any position may be edited to any block and  *)
(* any build may be committed over air (a validated build replaces only    *)
(* air).  WorldServer is the caller this code has.                         *)
(***************************************************************************)
EXTENDS Integers, Sequences

CONSTANTS
    Pos,        \* block positions inside the world bounds
    Block,      \* block states
    Air,        \* BlockState::AIR
    Base,       \* [Pos -> Block]: the generated superflat world
    Column,     \* chunk columns
    ColumnOf,   \* [Pos -> Column]
    RegionOf(_), \* the region file of a column
    FlushedBefore(_, _), \* the order a flush visits columns in: by region
                \* file, then by column inside the region
    Key,        \* idempotency keys; a build and its key are one to one
    Plan,       \* builds that may be committed: maps from positions to blocks
    BatchLimit, \* WRITE_BATCH_LIMIT
    MaxEdits,   \* bound on the edits the channel accepts, for TLC
    NoOverride, \* no row in block_overrides
    NoBuild,    \* no row in builds
    NoEdit      \* the game thread is handing no edit over

Edit == [pos : Pos, block : Block]

\* Blocks for some of the positions of S, and the rows of builds over them.
Partial(S) == UNION {[T -> Block] : T \in SUBSET S}
BuildRow(S) == [state : {"applied", "undone"},
                applied : Partial(S), original : Partial(S)]
\* What DurableWorld keeps of a row.
RowKept(S) == [state : {"applied", "undone"}, applied : Partial(S)]

ASSUME ConstantsAssumption ==
    /\ Air \in Block
    /\ Base \in [Pos -> Block]
    /\ ColumnOf \in [Pos -> Column]
    /\ Plan \subseteq Partial(Pos)
    /\ BatchLimit \in Nat \ {0}
    /\ MaxEdits \in Nat
    /\ NoOverride \notin Block
    /\ NoBuild \notin BuildRow(Pos) \cup RowKept(Pos)
    /\ NoEdit \notin Edit

VARIABLES
    \* On disk.
    anvil,            \* block in the region files; the base block if not stored
    unreadable,       \* columns of region files without a header: reading fails
    block_overrides,  \* the SQLite overlay, laid over Anvil by load_chunk
    command_log,      \* ordinary edits, in the order they were flushed
    builds,           \* build rows by key
    \* In memory, shared by the two threads.
    queue,            \* edits on the channel
    shutdown,         \* Shutdown is on the channel, behind every edit
    pending_edits,    \* PersistenceStats.pending_edits
    \* The writer thread.
    writer,           \* where it is
    batch,            \* the edits it has taken
    todo,             \* chunk columns of the batch still to be written
    stopping,         \* it has taken Shutdown
    \* The game thread.
    caller,           \* where it is
    edit,             \* the edit it is handing over
    \* History, read by no action of the program.
    accepted,         \* the log at start, then every edit the channel took
    latest,           \* what the last accepted edit or committed build wrote
    committed,        \* what the last SQLite transaction wrote
    raced,            \* a build was committed over an edit still in flight
    masked            \* a build of the base block dropped the overlay only

disk == <<anvil, unreadable, block_overrides, command_log, builds>>
channel == <<queue, shutdown, pending_edits>>
writerVars == <<writer, batch, todo, stopping>>
callerVars == <<caller, edit>>
history == <<accepted, latest, committed, raced, masked>>
vars == <<anvil, unreadable, block_overrides, command_log, builds, queue, shutdown,
          pending_edits, writer, batch, todo, stopping, caller, edit,
          accepted, latest, committed, raced, masked>>

-----------------------------------------------------------------------------
\* Edits of a sequence that no later edit of it overwrites.
LastEdits(s) ==
    {i \in DOMAIN s : \A j \in DOMAIN s : j > i => s[j].pos # s[i].pos}

\* Positions a sequence of edits writes, and what it leaves there: the last
\* edit of a position wins, as in apply_block_edits_to_overrides.
Written(s) == {s[i].pos : i \in LastEdits(s)}
FinalBlock(s, p) == s[CHOOSE i \in LastEdits(s) : s[i].pos = p].block

\* The row set_transactional_override leaves for a block.
OverrideFor(p, b) == IF b = Base[p] THEN NoOverride ELSE b

\* What load_chunk returns for a position, unless it fails for an unreadable
\* column before it comes to SQLite: SQLite laid over Anvil.
Merge(fromAnvil, fromSqlite) ==
    IF fromSqlite = NoOverride THEN fromAnvil ELSE fromSqlite
Stored(p) == Merge(anvil[p], block_overrides[p])

SameRegion(c) == {d \in Column : RegionOf(d) = RegionOf(c)}

\* Edits accepted and not yet in SQLite.
Unlogged == IF writer = "record" THEN <<>> ELSE batch
InFlight == Unlogged \o queue

\* The writer holds the receiving end of the channel.
Receiving == writer \in {"recv", "drain", "anvil", "sqlite", "record"}
Running == caller # "down"

-----------------------------------------------------------------------------
\* Faulty forms of actions defined below, to show that the properties notice.

\* The edit is sent without being counted.
RecordQueuedUncounted(p, b) ==
    /\ caller = "idle"
    /\ Len(accepted) < MaxEdits
    /\ edit' = [pos |-> p, block |-> b]
    /\ caller' = "sending"
    /\ UNCHANGED <<disk, channel, writerVars, history>>

\* A refused edit stays counted.
SendRefusedCounted ==
    /\ caller = "sending" /\ ~Receiving
    /\ caller' = "idle" /\ edit' = NoEdit
    /\ UNCHANGED <<disk, channel, writerVars, history>>

\* Shutdown overtakes the edits on the channel.
TakeShutdownEarly ==
    /\ shutdown
    /\ \/ writer = "recv"
       \/ writer = "drain" /\ Len(batch) < BatchLimit
    /\ shutdown' = FALSE /\ stopping' = TRUE
    /\ writer' = "drain"
    /\ UNCHANGED <<disk, queue, pending_edits, batch, todo, callerVars, history>>

\* Shutdown is taken and forgotten.
TakeShutdownForgotten ==
    /\ queue = <<>> /\ shutdown
    /\ \/ writer = "recv"
       \/ writer = "drain" /\ Len(batch) < BatchLimit
    /\ shutdown' = FALSE
    /\ writer' = "drain"
    /\ UNCHANGED <<disk, queue, pending_edits, batch, todo, stopping, callerVars, history>>

\* Drained edits pile up in front.
DrainEditInFront ==
    /\ writer = "drain" /\ queue # <<>>
    /\ Len(batch) < BatchLimit
    /\ batch' = <<Head(queue)>> \o batch /\ queue' = Tail(queue)
    /\ UNCHANGED <<disk, shutdown, pending_edits, writer, todo, stopping,
                   callerVars, history>>

\* A file is created over one that is there.
CreateRegionAnew(c) ==
    /\ writer = "anvil"
    /\ c \in todo /\ \A d \in todo \ {c} : FlushedBefore(c, d)
    /\ unreadable' = unreadable \cup SameRegion(c)
    /\ UNCHANGED <<anvil, block_overrides, command_log, builds, channel, writerVars,
                   callerVars, history>>

\* Only the first column of a batch is written.
WriteColumnAndStop(c) ==
    /\ writer = "anvil"
    /\ c \in todo /\ \A d \in todo \ {c} : FlushedBefore(c, d)
    /\ anvil' = [p \in Pos |->
            IF ColumnOf[p] = c /\ p \in Written(batch)
            THEN FinalBlock(batch, p) ELSE anvil[p]]
    /\ unreadable' = unreadable \ SameRegion(c)
    /\ todo' = {}
    /\ writer' = "sqlite"
    /\ UNCHANGED <<block_overrides, command_log, builds, channel, batch,
                   stopping, callerVars, history>>

\* The overlay of an edited position outlives the flush.
FlushSqliteKeepingOverlay ==
    /\ writer = "sqlite"
    /\ command_log' = command_log \o batch
    /\ committed' = [p \in Pos |->
            IF p \in Written(batch) THEN FinalBlock(batch, p) ELSE committed[p]]
    /\ masked' = masked \ Written(batch)
    /\ writer' = "record"
    /\ UNCHANGED <<anvil, unreadable, block_overrides, builds, channel, batch, todo,
                   stopping, callerVars, accepted, latest, raced>>

\* The loop returns after its first flush.
RecordFlushedAndReturn ==
    /\ writer = "record"
    /\ pending_edits' = pending_edits - Len(batch)
    /\ batch' = <<>>
    /\ writer' = "done"
    /\ UNCHANGED <<disk, queue, shutdown, todo, stopping, callerVars, history>>

-----------------------------------------------------------------------------
\* A new save, over which no server runs yet: as after a clean stop.
Init ==
    /\ anvil = Base /\ unreadable = {}
    /\ block_overrides = [p \in Pos |-> NoOverride]
    /\ command_log = <<>>
    /\ builds = [k \in Key |-> NoBuild]
    /\ queue = <<>> /\ shutdown = FALSE /\ pending_edits = 0
    /\ writer = "done" /\ batch = <<>> /\ todo = {} /\ stopping = TRUE
    /\ caller = "down" /\ edit = NoEdit
    /\ accepted = <<>> /\ latest = Base /\ committed = Base
    /\ raced = {} /\ masked = {}

-----------------------------------------------------------------------------
\* The game thread.

\* queue_world_command counts the edit before it sends it.
RecordQueued(p, b) ==
    /\ caller = "idle"
    /\ Len(accepted) < MaxEdits
    /\ edit' = [pos |-> p, block |-> b]
    /\ caller' = "sending"
    /\ pending_edits' = pending_edits + 1
    /\ UNCHANGED <<disk, queue, shutdown, writerVars, history>>

\* Sender::send while the writer holds the receiver.
SendAccepted ==
    /\ caller = "sending" /\ Receiving
    /\ queue' = Append(queue, edit)
    /\ accepted' = Append(accepted, edit)
    /\ latest' = [latest EXCEPT ![edit.pos] = edit.block]
    /\ raced' = raced \ {edit.pos}
    /\ masked' = masked
    /\ caller' = "idle" /\ edit' = NoEdit
    /\ UNCHANGED <<disk, shutdown, pending_edits, writerVars, committed>>

\* Sender::send after the writer stopped: record_queue_failed, and the edit
\* is dropped with a line on stderr.
SendRefused ==
    /\ caller = "sending" /\ ~Receiving
    /\ pending_edits' = pending_edits - 1
    /\ caller' = "idle" /\ edit' = NoEdit
    /\ UNCHANGED <<disk, queue, shutdown, writerVars, history>>

\* One SQLite transaction gives the positions of w the blocks of w.
CommitOverrides(w) ==
    /\ block_overrides' = [p \in Pos |->
            IF p \in DOMAIN w THEN OverrideFor(p, w[p]) ELSE block_overrides[p]]
    /\ latest' = [p \in Pos |-> IF p \in DOMAIN w THEN w[p] ELSE latest[p]]
    /\ committed' = [p \in Pos |-> IF p \in DOMAIN w THEN w[p] ELSE committed[p]]
    /\ raced' = (raced \ DOMAIN w) \cup (DOMAIN w \cap Written(InFlight))
    /\ masked' = (masked \ DOMAIN w)
            \cup {p \in DOMAIN w : w[p] = Base[p] /\ anvil[p] # Base[p]}

\* persist_build: the row, its blocks and their overrides in one transaction.
\* The key is UNIQUE, so a second insert of it aborts and changes nothing.
PersistBuild(k, applied, original) ==
    /\ caller = "idle"
    /\ builds[k] = NoBuild
    /\ builds' = [builds EXCEPT ![k] =
            [state |-> "applied", applied |-> applied, original |-> original]]
    /\ CommitOverrides(applied)
    /\ UNCHANGED <<anvil, unreadable, command_log, channel, writerVars, callerVars,
                   accepted>>

\* mark_build_undone: only a row still 'applied' is updated.
MarkBuildUndone(k) ==
    /\ caller = "idle"
    /\ builds[k] # NoBuild /\ builds[k].state = "applied"
    /\ builds' = [builds EXCEPT ![k].state = "undone"]
    /\ CommitOverrides(builds[k].original)
    /\ UNCHANGED <<anvil, unreadable, command_log, channel, writerVars, callerVars,
                   accepted>>

\* Drop for PersistenceRuntime sends Shutdown (an error is ignored) ...
BeginShutdown ==
    /\ caller = "idle"
    /\ shutdown' = Receiving
    /\ caller' = "joining"
    /\ UNCHANGED <<disk, queue, pending_edits, writerVars, edit, history>>

\* ... and joins the writer; then the process exits.
JoinWriter ==
    /\ caller = "joining" /\ ~Receiving
    /\ caller' = "down"
    /\ UNCHANGED <<disk, channel, writerVars, edit, history>>

-----------------------------------------------------------------------------
\* The writer thread.

\* recv_timeout returns an edit.  (A timeout finds the batch empty and loops.)
RecvEdit ==
    /\ writer = "recv" /\ queue # <<>>
    /\ batch' = <<Head(queue)>> /\ queue' = Tail(queue)
    /\ writer' = "drain"
    /\ UNCHANGED <<disk, shutdown, pending_edits, todo, stopping, callerVars, history>>

\* recv_timeout, or try_recv in drain_pending_messages, returns Shutdown.  The
\* first still drains, the second stops draining; either way nothing is behind
\* it and the writer will return after this flush.
TakeShutdown ==
    /\ queue = <<>> /\ shutdown
    /\ \/ writer = "recv"
       \/ writer = "drain" /\ Len(batch) < BatchLimit
    /\ shutdown' = FALSE /\ stopping' = TRUE
    /\ writer' = "drain"
    /\ UNCHANGED <<disk, queue, pending_edits, batch, todo, callerVars, history>>

\* One turn of drain_pending_messages that finds an edit.
DrainEdit ==
    /\ writer = "drain" /\ queue # <<>>
    /\ Len(batch) < BatchLimit
    /\ batch' = Append(batch, Head(queue)) /\ queue' = Tail(queue)
    /\ UNCHANGED <<disk, shutdown, pending_edits, writer, todo, stopping,
                   callerVars, history>>

\* The channel is empty or the batch is full: flush_edits_and_record starts.
\* An empty batch (Shutdown alone) has no region to write.
BeginFlush ==
    /\ writer = "drain"
    /\ \/ queue = <<>> /\ ~shutdown
       \/ Len(batch) >= BatchLimit
    /\ todo' = {ColumnOf[p] : p \in Written(batch)}
    /\ writer' = IF batch = <<>> THEN "sqlite" ELSE "anvil"
    /\ UNCHANGED <<disk, channel, batch, stopping, callerVars, history>>

\* AnvilChunkStorage::persist_block_edits comes to the region of the next chunk
\* column.  A missing file is created, with no byte in it; one that has none, of
\* now or of an earlier crash, is given its header.
CreateRegion(c) ==
    /\ writer = "anvil"
    /\ c \in todo /\ \A d \in todo \ {c} : FlushedBefore(c, d)
    /\ \A p \in Pos : ColumnOf[p] \in SameRegion(c) => anvil[p] = Base[p]
    /\ unreadable' = unreadable \cup SameRegion(c)
    /\ UNCHANGED <<anvil, block_overrides, command_log, builds, channel, writerVars,
                   callerVars, history>>

WriteHeader(c) ==
    /\ writer = "anvil"
    /\ c \in todo /\ \A d \in todo \ {c} : FlushedBefore(c, d)
    /\ unreadable' = unreadable \ SameRegion(c)
    /\ UNCHANGED <<anvil, block_overrides, command_log, builds, channel, writerVars,
                   callerVars, history>>

\* Then the column is rewritten; a file is given its header before that.
WriteColumn(c) ==
    /\ writer = "anvil"
    /\ c \in todo /\ \A d \in todo \ {c} : FlushedBefore(c, d)
    /\ anvil' = [p \in Pos |->
            IF ColumnOf[p] = c /\ p \in Written(batch)
            THEN FinalBlock(batch, p) ELSE anvil[p]]
    /\ unreadable' = unreadable \ SameRegion(c)
    /\ todo' = todo \ {c}
    /\ writer' = IF todo = {c} THEN "sqlite" ELSE "anvil"
    /\ UNCHANGED <<block_overrides, command_log, builds, channel, batch,
                   stopping, callerVars, history>>

\* flush_command_log_and_dirty_index: one transaction drops the overlay of
\* every edited position and appends the batch to the command log.
FlushSqlite ==
    /\ writer = "sqlite"
    /\ block_overrides' = [p \in Pos |->
            IF p \in Written(batch) THEN NoOverride ELSE block_overrides[p]]
    /\ command_log' = command_log \o batch
    /\ committed' = [p \in Pos |->
            IF p \in Written(batch) THEN FinalBlock(batch, p) ELSE committed[p]]
    /\ masked' = masked \ Written(batch)
    /\ writer' = "record"
    /\ UNCHANGED <<anvil, unreadable, builds, channel, batch, todo, stopping,
                   callerVars, accepted, latest, raced>>

\* record_flushed, then the loop goes on or returns.
RecordFlushed ==
    /\ writer = "record"
    /\ pending_edits' = pending_edits - Len(batch)
    /\ batch' = <<>>
    /\ writer' = IF stopping THEN "done" ELSE "recv"
    /\ UNCHANGED <<disk, queue, shutdown, todo, stopping, callerVars, history>>

\* A flush fails at a region file or in SQLite (whose transaction rolls back).
\* run_writer_loop returns, the receiver is dropped and with it the channel.
\* The batch is kept here as history: CrashAtomic speaks of what it held.
FailFlush ==
    /\ writer \in {"anvil", "sqlite"}
    /\ writer' = "failed"
    /\ queue' = <<>> /\ shutdown' = FALSE
    /\ UNCHANGED <<disk, pending_edits, batch, todo, stopping, callerVars, history>>

-----------------------------------------------------------------------------
\* The process dies; its memory is out of reach until Open replaces it.
Crash ==
    /\ Running
    /\ caller' = "down"
    /\ edit' = NoEdit
    /\ writer' = IF Receiving THEN "killed" ELSE writer
    /\ UNCHANGED <<disk, channel, batch, todo, stopping, history>>

\* PersistenceRuntime::open: a new channel, writer and counters over the files.
Open ==
    /\ caller = "down"
    /\ caller' = "idle" /\ edit' = NoEdit
    /\ queue' = <<>> /\ shutdown' = FALSE /\ pending_edits' = 0
    /\ writer' = "recv" /\ batch' = <<>> /\ todo' = {} /\ stopping' = FALSE
    /\ accepted' = command_log
    /\ latest' = [p \in Pos |-> Stored(p)]
    /\ committed' = latest'
    /\ raced' = {} /\ masked' = {}
    /\ UNCHANGED disk

-----------------------------------------------------------------------------
Client ==
    \/ \E p \in Pos, b \in Block : RecordQueued(p, b)
    \/ \E k \in Key, f \in Plan : PersistBuild(k, f, [p \in DOMAIN f |-> Air])
    \/ \E k \in Key : MarkBuildUndone(k)
    \/ BeginShutdown

HandOver == SendAccepted \/ SendRefused

Writer ==
    \/ RecvEdit \/ TakeShutdown \/ DrainEdit \/ BeginFlush
    \/ \E c \in Column : WriteColumn(c)
    \/ FlushSqlite \/ RecordFlushed

\* How a region file comes to be, which a flush may do in one with its first
\* column: no progress of its own.
Creating == \E c \in Column : CreateRegion(c) \/ WriteHeader(c)

Next == Writer \/ Creating \/ HandOver \/ JoinWriter \/ FailFlush \/ Crash \/ Open \/ Client

Spec == Init /\ [][Next]_vars

\* The operating system runs both threads.  Nothing obliges a caller to edit,
\* the server to stop, or a stopped server to start again.
Fairness == WF_vars(Writer) /\ WF_vars(HandOver) /\ WF_vars(JoinWriter)
FairSpec == Spec /\ Fairness
-----------------------------------------------------------------------------
\* Every variable keeps its type; pending_edits in particular, a usize in
\* the code, never falls below zero (persistence.rs:902-920).
TypeOK ==
    /\ anvil \in [Pos -> Block]
    /\ unreadable \subseteq Column
    /\ block_overrides \in [Pos -> Block \cup {NoOverride}]
    /\ command_log \in Seq(Edit)
    /\ builds \in [Key -> BuildRow(Pos) \cup {NoBuild}]
    /\ queue \in Seq(Edit)
    /\ shutdown \in BOOLEAN
    /\ pending_edits \in Nat
    /\ writer \in {"recv", "drain", "anvil", "sqlite", "record", "done",
                   "failed", "killed"}
    /\ batch \in Seq(Edit)
    /\ todo \subseteq Column
    /\ stopping \in BOOLEAN
    /\ caller \in {"idle", "sending", "joining", "down"}
    /\ edit \in Edit \cup {NoEdit}
    /\ caller = "sending" => edit \in Edit
    /\ accepted \in Seq(Edit)
    /\ latest \in [Pos -> Block]
    /\ committed \in [Pos -> Block]
    /\ raced \subseteq Pos
    /\ masked \subseteq Pos

\* pending_edits counts exactly the edits the game thread has counted and the
\* writer has not recorded, through refused sends and a dead writer alike,
\* although the two threads update it without a common lock.
PendingExact ==
    Running =>
        pending_edits = Len(accepted) - Len(command_log)
                        + (IF writer = "record" THEN Len(batch) ELSE 0)
                        + (IF caller = "sending" THEN 1 ELSE 0)

\* While the writer lives, the command log followed by what is in flight is
\* what the channel accepted: no edit is lost, repeated or reordered.
LogInOrder ==
    Receiving \/ writer = "done" => accepted = command_log \o InFlight

\* Dropping PersistenceRuntime loses nothing: a writer that returned without
\* an error has logged every edit the channel accepted, at the batch limit too.
ShutdownDrains == writer = "done" => accepted = command_log

\* While the writer lives, the files and what is in flight together hold the
\* last write of every position, build or edit -- except where a build
\* overtook an edit in flight (raced) or merely dropped the overlay (masked).
LatestRecoverable ==
    Receiving \/ writer = "done" =>
        \A p \in Pos \ (raced \cup masked) :
            latest[p] = IF p \in Written(InFlight)
                        THEN FinalBlock(InFlight, p) ELSE Stored(p)

\* Whenever the process may crash or the writer may fail, the block load_chunk
\* gives a position, if it gives one, is that of the last transaction, or of the
\* interrupted flush.
CrashAtomic ==
    \A p \in Pos \ masked :
        \/ Stored(p) = committed[p]
        \/ /\ writer \in {"anvil", "sqlite", "failed", "killed"}
           /\ p \in Written(batch) /\ Stored(p) = FinalBlock(batch, p)

\* A column no load succeeds for hides nothing that is in the region files, however
\* flushes and crashes follow each other; and before SQLite drops the overlay of a
\* flushed position its column can be read.  So a flushed block always loads.
FlushedBlocksLoad ==
    /\ \A p \in Pos : ColumnOf[p] \in unreadable => anvil[p] = Base[p]
    /\ writer \in {"sqlite", "record"} =>
        \A p \in Written(batch) : ColumnOf[p] \notin unreadable

\* The files and the channel together are a DurableWorld: edits land in the
\* order of the calls and none leaves the channel before it has landed, builds
\* commit whole, and a crash or a failed flush loses only edits on their way.
Abstract == INSTANCE DurableWorld WITH
        durable <- [p \in Pos |-> Stored(p)],
        pending <- IF Receiving THEN InFlight ELSE <<>>,
        rows <- [k \in Key |-> IF builds[k] = NoBuild THEN NoBuild
                    ELSE [state |-> builds[k].state, applied |-> builds[k].applied]]
ImplementsDurableWorld == Abstract!Spec

\* An accepted edit is logged in the end, unless the writer fails or the
\* process dies first.
EditsGetLogged ==
    \A n \in 1..MaxEdits :
        Len(accepted) >= n ~>
            \/ Len(command_log) >= n
            \/ writer \in {"failed", "killed"}

\* Joining the writer never hangs: neither thread waits on the other for ever.
ShutdownEnds == caller = "joining" ~> caller = "down"
=============================================================================
