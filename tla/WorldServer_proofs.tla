-------------------------- MODULE WorldServer_proofs --------------------------
(***************************************************************************)
(* Proofs about WorldServer, for any world, plans, requests, limits and    *)
(* positions of players.                                                   *)
(*                                                                         *)
(* First every step is shown to be one of Persistence (the store this      *)
(* server has), so what Persistence_proofs shows of that store holds here. *)
(* Then one invariant after the other is laid over it: what the game       *)
(* thread has under way, the lifecycle's columns, the positions nobody may *)
(* change, and the live world against the last write.                      *)
(***************************************************************************)
EXTENDS WorldServer, SequenceTheorems, TLAPS, FiniteSetTheorems, WellFoundedInduction

\* What is proved of Persistence, for the store of this server.
Store == INSTANCE Persistence_proofs WITH
        Pos <- Position, unreadable <- {},
        Plan <- {PlanMap(t) : t \in {t \in Plan : DOMAIN PlanMap(t) \subseteq Position}}

-----------------------------------------------------------------------------
(* Numbers, columns and regions.                                           *)

\* Division with remainder, as Integers defines it.
LEMMA Division ==
    ASSUME NEW a \in Int, NEW d \in Nat \ {0}
    PROVE  /\ a \div d \in Int /\ a % d \in 0..d - 1
           /\ a = d * (a \div d) + (a % d)
    OBVIOUS

\* A quotient does not fall when the dividend grows.
LEMMA DivisionIsMonotone ==
    ASSUME NEW a \in Int, NEW b \in Int, NEW d \in Nat \ {0}, a <= b
    PROVE  a \div d <= b \div d
<1> DEFINE q == a \div d
           r == b \div d
<1>1. /\ q \in Int /\ a % d \in 0..d - 1 /\ a = d * q + (a % d)
      /\ r \in Int /\ b % d \in 0..d - 1 /\ b = d * r + (b % d)
    BY Division
<1> HIDE DEF q, r
<1>2. SUFFICES ASSUME q >= r + 1 PROVE FALSE
    BY <1>1 DEF q, r
<1>3. d * q >= d * (r + 1)
    BY <1>1, <1>2
<1>4. d * (r + 1) = d * r + d
    BY <1>1
<1> QED
    BY <1>1, <1>3, <1>4

\* Every position of the world is in one of its columns.
LEMMA ColumnInWorld == \A p \in Position : ColumnAt(p) \in Column
<1> SUFFICES ASSUME NEW p \in Position PROVE ColumnAt(p) \in Column
    OBVIOUS
<1>1. /\ p[1] \in Int /\ MinX <= p[1] /\ p[1] <= MaxX
      /\ p[3] \in Int /\ MinZ <= p[3] /\ p[3] <= MaxZ
      /\ MinX \in Int /\ MaxX \in Int /\ MinZ \in Int /\ MaxZ \in Int
      /\ ChunkSize \in Nat \ {0}
    BY WorldAssumption DEF Position
<1>2. /\ MinX \div ChunkSize <= p[1] \div ChunkSize
      /\ p[1] \div ChunkSize <= MaxX \div ChunkSize
      /\ MinZ \div ChunkSize <= p[3] \div ChunkSize
      /\ p[3] \div ChunkSize <= MaxZ \div ChunkSize
    BY <1>1, DivisionIsMonotone
<1>3. /\ p[1] \div ChunkSize \in Int /\ p[3] \div ChunkSize \in Int
      /\ MinX \div ChunkSize \in Int /\ MaxX \div ChunkSize \in Int
      /\ MinZ \div ChunkSize \in Int /\ MaxZ \div ChunkSize \in Int
    BY <1>1, Division
<1> QED
    BY <1>2, <1>3 DEF ColumnAt, Column

\* The columns of the world are pairs of integers, finitely many.
LEMMA ColumnsFinite ==
    /\ IsFiniteSet(Column) /\ Column \subseteq Int \X Int
    /\ <<>> \notin Column
<1>1. /\ MinX \div ChunkSize \in Int /\ MaxX \div ChunkSize \in Int
      /\ MinZ \div ChunkSize \in Int /\ MaxZ \div ChunkSize \in Int
    BY WorldAssumption, Division
<1>2. /\ IsFiniteSet((MinX \div ChunkSize)..(MaxX \div ChunkSize))
      /\ IsFiniteSet((MinZ \div ChunkSize)..(MaxZ \div ChunkSize))
    BY <1>1, FS_Interval
<1>3. IsFiniteSet(Column)
    BY <1>2, FS_Product DEF Column
<1> QED
    BY <1>1, <1>3 DEF Column

\* A request takes every column it needs.
LEMMA InOrderCovers ==
    ASSUME NEW columns \in SUBSET Column, NEW first
    PROVE  /\ Cardinality(columns) \in Nat
           /\ DOMAIN InOrder(columns, first) = 1..Cardinality(columns)
           /\ \A c \in columns : \E n \in 1..Cardinality(columns) :
                InOrder(columns, first)[n] = c
<1> DEFINE Before(c) == {d \in columns : TakenBefore(first, d, c)}
<1>1. /\ IsFiniteSet(columns) /\ Cardinality(columns) \in Nat
      /\ columns \subseteq Int \X Int
    BY ColumnsFinite, FS_Subset, FS_CardinalityType
<1>2. ASSUME NEW c \in columns
      PROVE  /\ IsFiniteSet(Before(c)) /\ Cardinality(Before(c)) \in Nat
             /\ Cardinality(Before(c)) < Cardinality(columns)
    <2>1. c \notin Before(c)
        BY <1>1 DEF TakenBefore, Lexicographic
    <2>2. Before(c) \subseteq columns /\ Before(c) # columns
        BY <2>1
    <2> QED
        BY <1>1, <2>2, FS_Subset, FS_CardinalityType
<1>3. ASSUME NEW c \in columns, NEW d \in columns, TakenBefore(first, c, d)
      PROVE  Cardinality(Before(c)) < Cardinality(Before(d))
    <2>1. \A e \in columns : TakenBefore(first, e, c) => TakenBefore(first, e, d)
        BY <1>1, <1>3 DEF TakenBefore, Lexicographic
    <2>2. ~TakenBefore(first, c, c)
        BY <1>1 DEF TakenBefore, Lexicographic
    <2>3. Before(c) \subseteq Before(d) /\ Before(c) # Before(d)
        BY <1>3, <2>1, <2>2
    <2>4. IsFiniteSet(Before(c)) /\ IsFiniteSet(Before(d))
          /\ Cardinality(Before(c)) \in Nat /\ Cardinality(Before(d)) \in Nat
        BY <1>2
    <2> HIDE DEF Before
    <2> QED
        BY <2>3, <2>4, FS_Subset
<1>4. ASSUME NEW c \in columns, NEW d \in columns, c # d
      PROVE  TakenBefore(first, c, d) \/ TakenBefore(first, d, c)
    BY <1>1, <1>4 DEF TakenBefore, Lexicographic
<1>5. ASSUME NEW c \in columns, NEW d \in columns,
             Cardinality(Before(c)) = Cardinality(Before(d))
      PROVE  c = d
    BY <1>2, <1>3, <1>4, <1>5
<1>6. ASSUME NEW c \in columns
      PROVE  \E n \in 1..Cardinality(columns) : InOrder(columns, first)[n] = c
    <2> DEFINE n == Cardinality(Before(c)) + 1
    <2>0. Cardinality(Before(c)) \in Nat /\ Cardinality(Before(c)) < Cardinality(columns)
        BY <1>2
    <2> HIDE DEF Before
    <2>1. n \in 1..Cardinality(columns) /\ Cardinality(Before(c)) = n - 1
        BY <1>1, <2>0
    <2>2. \A d \in columns : Cardinality(Before(d)) = n - 1 => d = c
        BY <1>2, <1>5, <2>1
    <2> HIDE DEF n
    <2>3. InOrder(columns, first)[n] = CHOOSE d \in columns : Cardinality(Before(d)) = n - 1
        BY <2>1 DEF InOrder, Before
    <2>4. (CHOOSE d \in columns : Cardinality(Before(d)) = n - 1) = c
        BY <2>1, <2>2
    <2> QED
        BY <2>1, <2>3, <2>4
<1> QED
    BY <1>1, <1>6 DEF InOrder

\* A dividend below a multiple of the divisor has a quotient below the factor.
LEMMA QuotientBelow ==
    ASSUME NEW a \in Nat, NEW d \in Nat \ {0}, NEW m \in Nat, a < d * m
    PROVE  a \div d \in 0..m - 1
<1> DEFINE q == a \div d
<1>1. q \in Int /\ a % d \in 0..d - 1 /\ a = d * q + (a % d)
    BY Division
<1> HIDE DEF q
<1>2. ASSUME q >= m PROVE FALSE
    <2>1. d * q >= d * m
        BY <1>1, <1>2
    <2> QED
        BY <1>1, <2>1
<1>3. ASSUME q <= -1 PROVE FALSE
    <2>1. d * q <= d * (-1)
        BY <1>1, <1>3
    <2> QED
        BY <1>1, <2>1
<1>4. q \in 0..m - 1
    BY <1>1, <1>2, <1>3
<1> QED
    BY <1>4 DEF q

\* A dividend below the divisor is its own remainder.
LEMMA RemainderBelow ==
    ASSUME NEW a \in Nat, NEW d \in Nat \ {0}, a < d
    PROVE  a % d = a
<1>1. a \div d = 0
    BY QuotientBelow
<1> QED
    BY <1>1, Division

\* A number that fits does not wrap.
LEMMA WrapFits ==
    ASSUME NEW n \in Nat, NEW limit \in Nat \ {0}, n < limit
    PROVE  Wrap(n, limit) = n
<1>1. n + limit \in Nat /\ 2 * limit \in Nat \ {0} /\ n + limit < 2 * limit
    OBVIOUS
<1>2. (n + limit) % (2 * limit) = n + limit
    BY <1>1, RemainderBelow
<1> QED
    BY <1>2 DEF Wrap

\* A product does not fall when its factors grow.
LEMMA ProductGrows ==
    ASSUME NEW a \in Nat, NEW b \in Nat, NEW c \in Nat, NEW d \in Nat, a <= c, b <= d
    PROVE  a * b \in Nat /\ c * d \in Nat /\ a * b <= c * d
<1>1. a * b <= c * b
    OBVIOUS
<1>2. c * b <= c * d
    OBVIOUS
<1> QED
    BY <1>1, <1>2

\* Along an axis of the world a region has as many cells as it says.
Size(min, max, i) == max[i] - min[i] + 1

\* The volume a tool checks is the number of the region's cells, if its corners
\* are in order and in the world: only outside of it can the product wrap.
LEMMA VolumeIsExact ==
    ASSUME NEW min \in Position, NEW max \in Position,
           \A i \in 1..3 : min[i] <= max[i]
    PROVE  /\ \A i \in 1..3 : Size(min, max, i) \in Nat \ {0}
           /\ Size(min, max, 1) * Size(min, max, 2) * Size(min, max, 3) \in Nat \ {0}
           /\ Volume(min, max) =
                Size(min, max, 1) * Size(min, max, 2) * Size(min, max, 3)
<1> DEFINE x == Size(min, max, 1)
           y == Size(min, max, 2)
           z == Size(min, max, 3)
           X == MaxX - MinX + 1
           Y == MaxY - MinY + 1
           Z == MaxZ - MinZ + 1
<1>1. /\ MinX \in Int /\ MaxX \in Int /\ MinY \in Int /\ MaxY \in Int
      /\ MinZ \in Int /\ MaxZ \in Int
      /\ IntLimit \in Nat \ {0}
      /\ X < IntLimit /\ Y < IntLimit /\ Z < IntLimit
      /\ X * Y * Z < 2 * IntLimit * IntLimit
    BY WorldAssumption, LimitsAssumption
<1>2. /\ min[1] \in MinX..MaxX /\ min[2] \in MinY..MaxY /\ min[3] \in MinZ..MaxZ
      /\ max[1] \in MinX..MaxX /\ max[2] \in MinY..MaxY /\ max[3] \in MinZ..MaxZ
    BY DEF Position
<1>3. min[1] <= max[1] /\ min[2] <= max[2] /\ min[3] <= max[3]
    OBVIOUS
<1>4. /\ x \in Nat \ {0} /\ x <= X
      /\ y \in Nat \ {0} /\ y <= Y
      /\ z \in Nat \ {0} /\ z <= Z
    BY <1>1, <1>2, <1>3 DEF Size
<1>5. X \in Nat /\ Y \in Nat /\ Z \in Nat
    BY <1>1, <1>2
<1>6. Extent(min, max, 1) = x /\ Extent(min, max, 2) = y /\ Extent(min, max, 3) = z
    <2>1. x < IntLimit /\ y < IntLimit /\ z < IntLimit
        BY <1>1, <1>4, <1>5
    <2> QED
        BY <1>1, <1>4, <2>1, WrapFits DEF Extent, Size
<1>7. \A i \in 1..3 : Size(min, max, i) \in Nat \ {0}
    BY <1>4
<1> HIDE DEF x, y, z, X, Y, Z
<1>8. x * y \in Nat \ {0} /\ X * Y \in Nat /\ x * y <= X * Y
    BY <1>4, <1>5, ProductGrows
<1>9. x * y * z \in Nat \ {0} /\ x * y * z <= X * Y * Z /\ X * Y * Z \in Nat
    BY <1>4, <1>5, <1>8, ProductGrows
<1>10. 2 * IntLimit * IntLimit \in Nat \ {0} /\ x * y * z < 2 * IntLimit * IntLimit
    BY <1>1, <1>9
<1>11. Wrap(x * y * z, 2 * IntLimit * IntLimit) = x * y * z
    BY <1>9, <1>10, WrapFits
<1>12. Volume(min, max) = x * y * z
    BY <1>6, <1>11 DEF Volume
<1> QED
    BY <1>7, <1>9, <1>12 DEF x, y, z

\* The cells a fill visits are as many as the volume it checked, and all of them
\* in the world.
LEMMA RegionInWorld ==
    ASSUME NEW min \in Position, NEW max \in Position,
           \A i \in 1..3 : min[i] <= max[i], NEW reverseY
    PROVE  /\ RegionPositions(min, max, reverseY) \in Seq(Position)
           /\ Len(RegionPositions(min, max, reverseY)) = Volume(min, max)
           /\ Volume(min, max) \in Nat \ {0}
<1> DEFINE x == Size(min, max, 1)
           y == Size(min, max, 2)
           z == Size(min, max, 3)
           above(n) == (n - 1) \div (x * z)
           cell(n) == <<min[1] + (((n - 1) \div z) % x),
                        IF reverseY THEN max[2] - above(n) ELSE min[2] + above(n),
                        min[3] + ((n - 1) % z)>>
<1>1. /\ x \in Nat \ {0} /\ y \in Nat \ {0} /\ z \in Nat \ {0}
      /\ x * y * z \in Nat \ {0} /\ Volume(min, max) = x * y * z
    BY VolumeIsExact
<1>2. /\ MinX \in Int /\ MaxX \in Int /\ MinY \in Int /\ MaxY \in Int
      /\ MinZ \in Int /\ MaxZ \in Int
    BY WorldAssumption
<1>3. /\ min[1] \in MinX..MaxX /\ min[2] \in MinY..MaxY /\ min[3] \in MinZ..MaxZ
      /\ max[1] \in MinX..MaxX /\ max[2] \in MinY..MaxY /\ max[3] \in MinZ..MaxZ
    BY DEF Position
<1>4. x = max[1] - min[1] + 1 /\ y = max[2] - min[2] + 1 /\ z = max[3] - min[3] + 1
    BY DEF Size
<1>5. RegionPositions(min, max, reverseY) = [n \in 1..x * y * z |-> cell(n)]
    BY <1>4 DEF RegionPositions
<1> HIDE DEF x, y, z
<1>6. x * z \in Nat \ {0} /\ x * y * z = (x * z) * y
    BY <1>1
<1>7. ASSUME NEW n \in 1..x * y * z
      PROVE  cell(n) \in Position
    <2>1. n - 1 \in Nat /\ n - 1 < (x * z) * y
        BY <1>1, <1>6
    <2>2. above(n) \in 0..y - 1
        BY <1>1, <1>6, <2>1, QuotientBelow
    <2> HIDE DEF above
    <2>3. (n - 1) % z \in 0..z - 1 /\ (n - 1) \div z \in Int
        <3>1. n - 1 \in Int /\ z \in Nat \ {0}
            BY <1>1, <2>1
        <3> QED
            BY <3>1, Division
    <2>4. ((n - 1) \div z) % x \in 0..x - 1
        BY <1>1, <2>3, Division
    <2>5. min[1] + (((n - 1) \div z) % x) \in MinX..MaxX
        BY <1>1, <1>2, <1>3, <1>4, <2>4
    <2>6. min[3] + ((n - 1) % z) \in MinZ..MaxZ
        BY <1>1, <1>2, <1>3, <1>4, <2>3
    <2>7. (IF reverseY THEN max[2] - above(n) ELSE min[2] + above(n)) \in MinY..MaxY
        BY <1>1, <1>2, <1>3, <1>4, <2>2
    <2> QED
        BY <2>5, <2>6, <2>7 DEF Position
<1> HIDE DEF cell
<1>8. RegionPositions(min, max, reverseY) \in [1..x * y * z -> Position]
    BY <1>5, <1>7
<1>9. RegionPositions(min, max, reverseY) \in Seq(Position)
    BY <1>1, <1>8, SeqDef
<1>10. Len(RegionPositions(min, max, reverseY)) = x * y * z
    BY <1>1, <1>8, <1>9, LenProperties
<1> QED
    BY <1>1, <1>9, <1>10

-----------------------------------------------------------------------------
(* The store and what is proved of Persistence.                            *)

\* The store this server has and the one the proofs speak of are the same, in
\* its states and its steps.
LEMMA SameStore ==
    /\ (P!Init <=> Store!Init)
    /\ ([P!Next]_(P!vars) <=> [Store!Next]_(Store!vars))
    /\ (P!Writer <=> Store!Writer) /\ (P!FailFlush <=> Store!FailFlush)
    /\ (P!HandOver <=> Store!HandOver) /\ (P!BeginShutdown <=> Store!BeginShutdown)
    /\ (P!JoinWriter <=> Store!JoinWriter) /\ (P!Crash <=> Store!Crash)
    /\ (P!Open <=> Store!Open)
    /\ \A p, b : P!RecordQueued(p, b) <=> Store!RecordQueued(p, b)
    /\ \A k, f, o : P!PersistBuild(k, f, o) <=> Store!PersistBuild(k, f, o)
    /\ \A k : P!MarkBuildUndone(k) <=> Store!MarkBuildUndone(k)
    /\ (P!Receiving <=> Store!Receiving) /\ P!InFlight = Store!InFlight
    /\ \A s : P!Written(s) = Store!Written(s)
    /\ \A a, b : P!Merge(a, b) = Store!Merge(a, b)
    /\ \A p : Stored(p) = Store!Stored(p)
    BY
    DEF P!disk, Store!disk, P!channel, Store!channel, P!writerVars, Store!writerVars,
        P!callerVars, Store!callerVars, P!history, Store!history, P!vars, Store!vars,
        P!LastEdits, Store!LastEdits, P!Written, Store!Written, P!FinalBlock,
        Store!FinalBlock, P!OverrideFor, Store!OverrideFor, P!Merge, Store!Merge,
        P!Stored, Store!Stored, Stored, P!Unlogged, Store!Unlogged, P!InFlight,
        Store!InFlight, P!Receiving, Store!Receiving, P!Running, Store!Running,
        P!Init, Store!Init, P!RecordQueued, Store!RecordQueued, P!SendAccepted,
        Store!SendAccepted, P!SendRefused, Store!SendRefused, P!CommitOverrides,
        Store!CommitOverrides, P!PersistBuild, Store!PersistBuild, P!MarkBuildUndone,
        Store!MarkBuildUndone, P!BeginShutdown, Store!BeginShutdown, P!JoinWriter,
        Store!JoinWriter, P!RecvEdit, Store!RecvEdit, P!TakeShutdown,
        Store!TakeShutdown, P!DrainEdit, Store!DrainEdit, P!BeginFlush,
        Store!BeginFlush, P!WriteColumn, Store!WriteColumn, P!FlushSqlite,
        Store!FlushSqlite, P!RecordFlushed, Store!RecordFlushed, P!FailFlush,
        Store!FailFlush, P!Crash, Store!Crash, P!Open, Store!Open, P!Client,
        Store!Client, P!HandOver, Store!HandOver, P!Writer, Store!Writer, P!SameRegion,
        Store!SameRegion, P!CreateRegion, Store!CreateRegion, P!WriteHeader,
        Store!WriteHeader, P!Creating, Store!Creating, P!Next,
        Store!Next

\* What the proofs of Persistence suppose of their constants is what WorldServer
\* supposes of its store.
LEMMA StoreConstants == Store!ConstantsAssumption
    BY StoreAssumption
    DEF P!ConstantsAssumption, Store!ConstantsAssumption, P!Partial, Store!Partial,
        P!BuildRow, Store!BuildRow, P!RowKept, Store!RowKept, P!Edit, Store!Edit

-----------------------------------------------------------------------------
(* The inductive invariant.                                                *)

\* Requests the game thread may be serving.
Request ==
    [kind : {"manage"}, desired : SUBSET Column]
    \cup [kind : {"read"}]
    \cup [kind : {"edit"}, cells : Seq(Position) \ {<<>>}, block : Block]
    \cup [kind : {"apply"}, key : Key, plan : Plan]
    \cup [kind : {"undo"}, key : Key]

\* A request takes its columns by number, a build those of its targets among them;
\* and it edits no more cells than a tool may.
RequestOK(request, columns) ==
    /\ request \in Request
    /\ Len(columns) \in Nat /\ DOMAIN columns = 1..Len(columns)
    /\ request.kind = "edit" => Len(request.cells) <= Max({1, FillLimit})
    /\ request.kind = "apply" =>
        \A i \in DOMAIN request.plan : InBounds(request.plan[i].pos) =>
            \E n \in DOMAIN columns : columns[n] = ColumnAt(request.plan[i].pos)

Serving ==
    task # NoTask =>
        /\ task = [request |-> task.request, need |-> task.need]
        /\ RequestOK(task.request, task.need)

\* The game thread loads a column in the middle of a request that needs it.
Loading ==
    reading # NotReading =>
        /\ task # NoTask /\ caller = "idle"
        /\ reading.column \in chunks
        /\ \E i \in DOMAIN task.need : task.need[i] = reading.column
        /\ reading.blocks \in [{p \in Position : ColumnAt(p) = reading.column} -> Block]

\* Positions nobody may ever change.
Fixed(p) == p[2] = MinY \/ ProtectedSpawn(p)

\* They are as generated on disk, and no edit and no build on its way names them ...
Untouched(p) ==
    /\ anvil[p] = Base[p] /\ block_overrides[p] = NoOverride
    /\ \A i \in DOMAIN batch : batch[i].pos # p
    /\ \A i \in DOMAIN queue : queue[i].pos # p
    /\ caller = "sending" => edit.pos # p
    /\ \A k \in Key : builds[k] # NoBuild => p \notin DOMAIN builds[k].original

\* ... and so they are in the layer and in a column being loaded.
ShownAsGenerated(p) ==
    /\ layer[p] = IF ColumnAt(p) \in chunks THEN Base[p] ELSE Air
    /\ p \in DOMAIN reading.blocks => reading.blocks[p] = Base[p]

FixedKept == \A p \in Position : Fixed(p) => Untouched(p) /\ ShownAsGenerated(p)

\* An edit on its way to the channel is already in the layer; and what Anvil gave
\* for an untainted position is still what it holds, with nothing on its way there.
\* No server is down with columns loaded.
InStep ==
    /\ caller = "down" => chunks = {}
    /\ caller = "sending" => layer[edit.pos] = edit.block
    /\ Store!Receiving =>
        \A p \in DOMAIN reading.blocks \ tainted :
            /\ p \notin Store!Written(Store!InFlight) \cup raced \cup masked
            /\ reading.blocks[p] = anvil[p]

Live == Store!Refining /\ TypeOK /\ Serving /\ Loading

\* Types of the live half, and what they say of a request in one place.
LEMMA LiveTypes ==
    ASSUME Live
    PROVE  /\ Store!TypeOK /\ Store!Durable /\ Store!Captured
           /\ layer \in [Position -> Block] /\ chunks \subseteq Column
           /\ loaded \subseteq Column /\ bare \subseteq chunks
           /\ tainted \subseteq Position
    BY DEF Live, Store!Refining, Store!Durable, Store!IInv, TypeOK

\* Generated blocks are blocks; the lowest layer is solid, the spawn space empty.
LEMMA GeneratedBlocks ==
    /\ Base \in [Position -> Block]
    /\ \A p \in Position : /\ p[2] = MinY => Base[p] # Air
                           /\ ProtectedSpawn(p) => Base[p] = Air /\ p[2] # MinY
<1> SUFFICES ASSUME NEW p \in Position
             PROVE  /\ BaseBlock(p) \in Block
                    /\ p[2] = MinY => BaseBlock(p) # Air
                    /\ ProtectedSpawn(p) => BaseBlock(p) = Air /\ p[2] # MinY
    BY DEF Base
<1>1. p[2] \in Int /\ GroundY \in Int /\ MinY \in (GroundY - 4)..GroundY
    BY WorldAssumption DEF Position
<1>2. BaseBlock(p) \in {Bedrock, "stone", "dirt", "grass_block", Air}
    BY DEF BaseBlock
<1>3. p[2] \in (GroundY - 4)..GroundY => BaseBlock(p) # Air
    BY <1>1 DEF BaseBlock, Air, Bedrock
<1>4. ProtectedSpawn(p) => BaseBlock(p) = Air /\ p[2] # MinY
    BY <1>1 DEF ProtectedSpawn, BaseBlock
<1> QED
    BY <1>1, <1>2, <1>3, <1>4 DEF Block

\* A plan as a map: its positions, and blocks at them.
LEMMA PlanMapTyped ==
    ASSUME NEW t \in Plan
    PROVE  /\ DOMAIN PlanMap(t) = {t[i].pos : i \in DOMAIN t}
           /\ PlanMap(t) \in [DOMAIN PlanMap(t) -> Block]
<1>1. t \in Seq(Target) /\ \A i \in DOMAIN t : t[i] \in Target
    BY RequestAssumption, LenProperties, ElementOfSeq
<1>2. DOMAIN PlanMap(t) = {t[i].pos : i \in DOMAIN t}
    BY DEF PlanMap
<1>3. ASSUME NEW p \in DOMAIN PlanMap(t)
      PROVE  PlanMap(t)[p] \in Block
    <2> DEFINE i == CHOOSE i \in DOMAIN t : t[i].pos = p
    <2>1. i \in DOMAIN t
        BY <1>2
    <2>2. PlanMap(t)[p] = t[i].block
        BY <1>2 DEF PlanMap
    <2> QED
        BY <1>1, <2>1, <2>2 DEF Target
<1> QED
    BY <1>2, <1>3 DEF PlanMap

\* A valid plan replaces only air, inside the world and off the spawn space.
LEMMA ValidReplacesAir ==
    ASSUME NEW t \in Plan, layer \in [Position -> Block], NEW occupied,
           Valid(t, layer, occupied), NEW i \in DOMAIN t
    PROVE  /\ t[i].pos \in Position /\ layer[t[i].pos] = Air
           /\ ~ProtectedSpawn(t[i].pos)
<1>1. t \in Seq(Target) /\ DOMAIN t = 1..Len(t) /\ Len(t) \in Nat
    BY RequestAssumption, LenProperties, ElementOfSeq
<1>2. \A n \in DOMAIN t : TargetFits(Placed(layer, t, n - 1), t[n])
    BY DEF Valid
<1>3. \A n \in DOMAIN t : /\ t[n].pos \in Position /\ t[n].block \in Palette
                          /\ ~ProtectedSpawn(t[n].pos)
                          /\ Placed(layer, t, n - 1)[t[n].pos] = Air
    BY <1>2 DEF TargetFits, MaySet, InBounds, BlockAt
<1> DEFINE p == t[i].pos
           earlier == CHOOSE j \in 1..i - 1 : t[j].pos = p
<1>4. p \in Position /\ Placed(layer, t, i - 1)[p] = Air /\ ~ProtectedSpawn(p)
    BY <1>3
<1>5. Placed(layer, t, i - 1)[p] =
        IF \E j \in 1..i - 1 : t[j].pos = p THEN t[earlier].block ELSE layer[p]
    BY <1>4 DEF Placed
<1>6. ASSUME \E j \in 1..i - 1 : t[j].pos = p PROVE FALSE
    <2>1. earlier \in 1..i - 1
        BY <1>6
    <2>2. earlier \in DOMAIN t
        BY <1>1, <2>1
    <2>3. t[earlier].block \in Palette
        BY <1>3, <2>2
    <2> QED
        BY <1>4, <1>5, <1>6, <2>3, WorldAssumption
<1> QED
    BY <1>4, <1>5, <1>6

-----------------------------------------------------------------------------
(* The server's calls into its store.                                      *)

\* An edit that may be executed is of a block the world knows, in a column that
\* is present, and not at a position nobody may change.
LEMMA MayExecuteWhere ==
    ASSUME NEW p, NEW block, MayExecute(p, block)
    PROVE  p \in Position /\ block \in Block /\ ColumnAt(p) \in chunks
    BY DEF MayExecute, MaySet, MayRemove, InBounds, Block

\* A build that is applied: what its key, its plan and its captured blocks are.
LEMMA ApplyCaptures ==
    ASSUME Live, Ready, task.request.kind = "apply", NEW occupied,
           Valid(task.request.plan, layer, occupied)
    PROVE  LET w == PlanMap(task.request.plan)
           IN /\ task.request.key \in Key /\ task.request.plan \in Plan
              /\ DOMAIN w \subseteq Position /\ w \in [DOMAIN w -> Block]
              /\ [p \in DOMAIN w |-> layer[p]] = [p \in DOMAIN w |-> Air]
              /\ \A p \in DOMAIN w : layer[p] = Air /\ ~ProtectedSpawn(p)
                                     /\ ColumnAt(p) \in chunks
<1> DEFINE t == task.request.plan
           w == PlanMap(t)
<1>1. RequestOK(task.request, task.need)
    BY DEF Live, Serving, Ready
<1>2. task.request.key \in Key /\ t \in Plan
    BY <1>1 DEF RequestOK, Request
<1>3. layer \in [Position -> Block]
    BY LiveTypes
<1>4. DOMAIN w = {t[i].pos : i \in DOMAIN t} /\ w \in [DOMAIN w -> Block]
    BY <1>2, PlanMapTyped
<1>5. \A i \in DOMAIN t : /\ t[i].pos \in Position /\ layer[t[i].pos] = Air
                          /\ ~ProtectedSpawn(t[i].pos)
    BY <1>2, <1>3, ValidReplacesAir
<1>6. ASSUME NEW i \in DOMAIN t PROVE ColumnAt(t[i].pos) \in chunks
    <2>1. PICK n \in DOMAIN task.need : task.need[n] = ColumnAt(t[i].pos)
        BY <1>1, <1>5 DEF RequestOK, InBounds
    <2>2. ColumnAt(t[i].pos) \in Column
        BY <1>5, ColumnInWorld
    <2> QED
        BY <2>1, <2>2 DEF Ready, Missing
<1> HIDE DEF w, t
<1>7. \A p \in DOMAIN w : p \in Position /\ layer[p] = Air /\ ~ProtectedSpawn(p)
                          /\ ColumnAt(p) \in chunks
    BY <1>4, <1>5, <1>6
<1> QED
    BY <1>2, <1>4, <1>7 DEF w, t

\* A build that is undone: its key has a row and its captured blocks are air.
LEMMA UndoRestores ==
    ASSUME Live, Ready, task.request.kind = "undo",
           P!MarkBuildUndone(task.request.key)
    PROVE  LET row == builds[task.request.key]
           IN /\ task.request.key \in Key /\ row # NoBuild
              /\ DOMAIN row.original \subseteq Position
              /\ row.original \in [DOMAIN row.original -> Block]
              /\ row.original = [p \in DOMAIN row.applied |-> Air]
              /\ \A p \in DOMAIN row.original : row.original[p] = Air
<1> DEFINE k == task.request.key
<1>1. RequestOK(task.request, task.need)
    BY DEF Live, Serving, Ready
<1>2. k \in Key
    BY <1>1 DEF RequestOK, Request
<1>3. builds[k] # NoBuild
    BY SameStore DEF Store!MarkBuildUndone
<1>4. builds[k] \in Store!BuildRow(Position)
    BY <1>2, <1>3, LiveTypes DEF Store!TypeOK
<1>5. /\ builds[k].original \in [DOMAIN builds[k].original -> Block]
      /\ DOMAIN builds[k].original \subseteq Position
    BY <1>4, StoreConstants, Store!RowTyped
<1>6. builds[k].original = [p \in DOMAIN builds[k].applied |-> Air]
    BY <1>2, <1>3, LiveTypes DEF Store!Captured
<1> QED
    BY <1>2, <1>3, <1>5, <1>6

\* Every step of the server is one Persistence allows or none of its.
LEMMA StepInStore ==
    ASSUME Live, [Next]_vars
    PROVE  [P!Next]_(P!vars)
<1>1. (P!vars)' = P!vars <=> UNCHANGED storeVars
    BY DEF P!vars, storeVars
<1>2. ASSUME UNCHANGED storeVars PROVE [P!Next]_(P!vars)
    BY <1>1, <1>2
<1>3. ASSUME P!Next PROVE [P!Next]_(P!vars)
    BY <1>3
<1>4. ASSUME NEW p, NEW block, Execute(p, block) PROVE P!Next
    <2>1. p \in Position /\ block \in Block /\ P!RecordQueued(p, block)
        BY <1>4, MayExecuteWhere DEF Execute
    <2> QED
        BY <2>1 DEF P!Next, P!Client
<1>5. CASE \/ \E players \in Players : BeginManage(players)
           \/ \E r \in Reads : BeginRead(r.min, r.max)
           \/ \E t \in Plan : BeginValidate(t)
           \/ \E p \in Digs : BeginTool(p, Air)
           \/ \E s \in Sets : BeginTool(s[1], s[2])
           \/ \E f \in Fills : BeginFill(f.min, f.max, f.block)
           \/ \E k \in Key, targets \in Plan : BeginApply(k, targets)
           \/ \E k \in Key : BeginUndo(k)
    BY <1>2, <1>5 DEF BeginManage, BeginRead, BeginValidate, BeginTool, BeginFill,
                      BeginApply, BeginUndo, Begin
<1>6. CASE LoadAnvil \/ LoadSqlite \/ LoadFails \/ Manage \/ Read \/ UNCHANGED vars
    BY <1>2, <1>6 DEF LoadAnvil, LoadSqlite, LoadFails, Manage, Read, vars
<1>7. CASE \/ \E p \in Digs : PlayerEdit(p, Air)
           \/ \E s \in Sets : PlayerEdit(s[1], s[2])
    BY <1>3, <1>4, <1>7 DEF PlayerEdit
<1>8. CASE Tool
    BY <1>2, <1>3, <1>4, <1>8 DEF Tool
<1>9. CASE HandOver
    BY <1>3, <1>9 DEF HandOver, P!Next
<1>10. CASE Apply
    <2> DEFINE w == PlanMap(task.request.plan)
    <2>1. CASE UNCHANGED storeVars
        BY <1>2, <2>1
    <2>2. ASSUME NEW occupied, Valid(task.request.plan, layer, occupied),
                 P!PersistBuild(task.request.key, w, [p \in DOMAIN w |-> layer[p]])
          PROVE  P!Next
        <3>1. Ready /\ task.request.kind = "apply"
            BY <1>10 DEF Apply
        <3>2. /\ task.request.key \in Key /\ task.request.plan \in Plan
              /\ DOMAIN w \subseteq Position
              /\ [p \in DOMAIN w |-> layer[p]] = [p \in DOMAIN w |-> Air]
            BY <2>2, <3>1, ApplyCaptures
        <3>3. w \in {PlanMap(t) : t \in {t \in Plan : DOMAIN PlanMap(t) \subseteq Position}}
            BY <3>2
        <3>4. P!PersistBuild(task.request.key, w, [p \in DOMAIN w |-> Air])
            BY <2>2, <3>2
        <3> QED
            BY <3>2, <3>3, <3>4 DEF P!Next, P!Client
    <2> QED
        BY <1>3, <1>10, <2>1, <2>2 DEF Apply
<1>11. CASE Undo
    <2>1. CASE UNCHANGED storeVars
        BY <1>2, <2>1
    <2>2. CASE P!MarkBuildUndone(task.request.key)
        <3>1. task.request.key \in Key
            BY <1>11, <2>2, UndoRestores DEF Undo
        <3> QED
            BY <1>3, <2>2, <3>1 DEF P!Next, P!Client
    <2> QED
        BY <1>11, <2>1, <2>2 DEF Undo
<1>12. CASE WriterStep \/ Stop \/ Exit \/ Restart
    BY <1>3, <1>12 DEF WriterStep, Stop, Exit, Restart, P!Next, P!Client
<1> QED
    BY <1>5, <1>6, <1>7, <1>8, <1>9, <1>10, <1>11, <1>12 DEF Next

\* So what is invariant of the store stays so under this server.
LEMMA StoreKept ==
    ASSUME Live, [Next]_vars
    PROVE  Store!Refining'
<1>1. [Store!Next]_(Store!vars)
    BY StepInStore, SameStore
<1>2. Store!Refining
    BY DEF Live
<1> QED
    BY <1>1, <1>2, StoreConstants, Store!RefiningStep

-----------------------------------------------------------------------------
(* Requests.                                                               *)

\* The larger of two numbers is at least each.
LEMMA MaxOfTwo ==
    /\ Max({1, FillLimit}) \in Nat
    /\ 1 <= Max({1, FillLimit}) /\ FillLimit <= Max({1, FillLimit})
<1>1. FillLimit \in Nat
    BY LimitsAssumption
<1>2. \E x \in {1, FillLimit} : \A y \in {1, FillLimit} : x >= y
    BY <1>1
<1>3. /\ Max({1, FillLimit}) \in {1, FillLimit}
      /\ \A y \in {1, FillLimit} : Max({1, FillLimit}) >= y
    BY <1>2 DEF Max
<1> QED
    BY <1>1, <1>3

\* The columns a request takes in order are numbered from one.
LEMMA InOrderNumbered ==
    ASSUME NEW columns \in SUBSET Column, NEW first
    PROVE  /\ Len(InOrder(columns, first)) \in Nat
           /\ DOMAIN InOrder(columns, first) = 1..Len(InOrder(columns, first))
           /\ \A c \in columns : \E n \in DOMAIN InOrder(columns, first) :
                InOrder(columns, first)[n] = c
<1>1. /\ Cardinality(columns) \in Nat
      /\ DOMAIN InOrder(columns, first) = 1..Cardinality(columns)
      /\ \A c \in columns : \E n \in 1..Cardinality(columns) :
                InOrder(columns, first)[n] = c
    BY InOrderCovers, SMTT(30)
<1>2. Len(InOrder(columns, first)) = Cardinality(columns)
    BY <1>1 DEF InOrder
<1> QED
    BY <1>1, <1>2

\* So are those of a region.
LEMMA RegionColumnsNumbered ==
    ASSUME NEW min \in Position, NEW max \in Position,
           \A i \in 1..3 : min[i] <= max[i]
    PROVE  /\ Len(RegionColumns(min, max)) \in Nat
           /\ DOMAIN RegionColumns(min, max) = 1..Len(RegionColumns(min, max))
<1> DEFINE width == ColumnAt(max)[1] - ColumnAt(min)[1] + 1
           rows == ColumnAt(max)[2] - ColumnAt(min)[2] + 1
<1>1. /\ min[1] \in Int /\ max[1] \in Int /\ min[1] <= max[1]
      /\ min[3] \in Int /\ max[3] \in Int /\ min[3] <= max[3]
      /\ ChunkSize \in Nat \ {0}
    BY WorldAssumption DEF Position
<1>2. /\ min[1] \div ChunkSize \in Int /\ max[1] \div ChunkSize \in Int
      /\ min[3] \div ChunkSize \in Int /\ max[3] \div ChunkSize \in Int
    BY <1>1, Division
<1>3. /\ min[1] \div ChunkSize <= max[1] \div ChunkSize
      /\ min[3] \div ChunkSize <= max[3] \div ChunkSize
    BY <1>1, DivisionIsMonotone
<1>4. width \in Nat /\ rows \in Nat
    BY <1>2, <1>3 DEF ColumnAt
<1> HIDE DEF width, rows
<1>5. width * rows \in Nat
    BY <1>4
<1>6. DOMAIN RegionColumns(min, max) = 1..width * rows
    BY DEF RegionColumns, width, rows
<1>7. Len(RegionColumns(min, max)) = width * rows
    BY <1>5 DEF RegionColumns, width, rows
<1> QED
    BY <1>5, <1>6, <1>7

\* The columns around a position of the world are columns of the world.
LEMMA NearInWorld ==
    /\ \A p \in Position : Own(p) \subseteq Column
    /\ \A p : Near(p) \subseteq Column
    /\ \A targets : NearTargets(targets) \subseteq Column
<1>1. \A p \in Position : Own(p) \subseteq Column
    BY ColumnInWorld DEF Own
<1>2. \A p : Near(p) \subseteq Column
    BY ColumnInWorld DEF Near
<1> QED
    BY <1>1, <1>2 DEF NearTargets

\* Every request that begins is one of those, with its columns in order.
LEMMA BegunRequests ==
    ASSUME Live,
           \/ \E players \in Players : BeginManage(players)
           \/ \E r \in Reads : BeginRead(r.min, r.max)
           \/ \E t \in Plan : BeginValidate(t)
           \/ \E p \in Digs : BeginTool(p, Air)
           \/ \E s \in Sets : BeginTool(s[1], s[2])
           \/ \E f \in Fills : BeginFill(f.min, f.max, f.block)
           \/ \E k \in Key, targets \in Plan : BeginApply(k, targets)
           \/ \E k \in Key : BeginUndo(k)
    PROVE  \E request, columns : RequestOK(request, columns) /\ Begin(request, columns)
<1>1. ASSUME NEW players \in Players, BeginManage(players)
      PROVE  \E request, columns : RequestOK(request, columns) /\ Begin(request, columns)
    <2> DEFINE desired == Desired(players)
    <2>1. desired \in SUBSET Column
        BY DEF Desired
    <2>2. Begin([kind |-> "manage", desired |-> desired], InOrder(desired, <<>>))
        BY <1>1 DEF BeginManage
    <2> HIDE DEF desired
    <2>3. RequestOK([kind |-> "manage", desired |-> desired], InOrder(desired, <<>>))
        BY <2>1, InOrderNumbered DEF RequestOK, Request
    <2> QED
        BY <2>2, <2>3
<1>2. ASSUME NEW r \in Reads, BeginRead(r.min, r.max)
      PROVE  \E request, columns : RequestOK(request, columns) /\ Begin(request, columns)
    <2>1. r.min \in Position /\ r.max \in Position /\ \A i \in 1..3 : r.min[i] <= r.max[i]
        BY <1>2 DEF BeginRead, RequiredRegion, EnsureRegionInBounds, InBounds
    <2>2. RequestOK([kind |-> "read"], RegionColumns(r.min, r.max))
        BY <2>1, RegionColumnsNumbered DEF RequestOK, Request
    <2> QED
        BY <1>2, <2>2 DEF BeginRead
<1>3. ASSUME NEW t \in Plan, BeginValidate(t)
      PROVE  \E request, columns : RequestOK(request, columns) /\ Begin(request, columns)
    <2>1. NearTargets(t) \in SUBSET Column
        BY NearInWorld
    <2>2. RequestOK([kind |-> "read"], InOrder(NearTargets(t), <<>>))
        BY <2>1, InOrderNumbered DEF RequestOK, Request
    <2> QED
        BY <1>3, <2>2 DEF BeginValidate
<1>4. ASSUME NEW p, NEW block \in Block, BeginTool(p, block)
      PROVE  \E request, columns : RequestOK(request, columns) /\ Begin(request, columns)
    <2> DEFINE columns == IF block = Air THEN Own(p) ELSE Near(p)
               request == [kind |-> "edit", cells |-> <<p>>, block |-> block]
    <2>1. p \in Position
        BY <1>4 DEF BeginTool, InBounds
    <2>2. columns \in SUBSET Column
        BY <2>1, NearInWorld
    <2>3. Begin(request, InOrder(columns, ColumnAt(p)))
        BY <1>4 DEF BeginTool
    <2> HIDE DEF columns
    <2>4. /\ <<p>> \in Seq(Position) \ {<<>>} /\ Len(<<p>>) = 1
        BY <2>1
    <2>5. request \in Request /\ request.kind = "edit" /\ request.cells = <<p>>
        BY <2>4 DEF Request
    <2> HIDE DEF request
    <2>6. RequestOK(request, InOrder(columns, ColumnAt(p)))
        BY <2>2, <2>4, <2>5, InOrderNumbered, MaxOfTwo DEF RequestOK
    <2> QED
        BY <2>3, <2>6
<1>5. ASSUME NEW f \in Fills, BeginFill(f.min, f.max, f.block)
      PROVE  \E request, columns : RequestOK(request, columns) /\ Begin(request, columns)
    <2> DEFINE cells == RegionPositions(f.min, f.max, f.block = Air)
               columns == RegionColumns(f.min, f.max)
               request == [kind |-> "edit", cells |-> cells, block |-> f.block]
    <2>1. /\ f.min \in Position /\ f.max \in Position
          /\ \A i \in 1..3 : f.min[i] <= f.max[i]
          /\ Volume(f.min, f.max) <= FillLimit
        BY <1>5 DEF BeginFill, RequiredRegion, EnsureRegionInBounds, InBounds
    <2>2. /\ cells \in Seq(Position) /\ Len(cells) = Volume(f.min, f.max)
          /\ Volume(f.min, f.max) \in Nat \ {0}
        BY <2>1, RegionInWorld
    <2>3. Len(columns) \in Nat /\ DOMAIN columns = 1..Len(columns)
        BY <2>1, RegionColumnsNumbered
    <2>4. Begin(request, columns)
        BY <1>5 DEF BeginFill
    <2> HIDE DEF cells, columns
    <2>5. cells # <<>>
        BY <2>2, EmptySeq
    <2>6. request \in Request /\ request.kind = "edit" /\ request.cells = cells
        BY <2>2, <2>5, RequestAssumption DEF Request
    <2> HIDE DEF request
    <2>7. Len(cells) <= Max({1, FillLimit})
        BY <2>1, <2>2, MaxOfTwo, LimitsAssumption
    <2>8. RequestOK(request, columns)
        BY <2>3, <2>6, <2>7 DEF RequestOK
    <2> QED
        BY <2>4, <2>8
<1>6. ASSUME NEW k \in Key, NEW t \in Plan, BeginApply(k, t)
      PROVE  \E request, columns : RequestOK(request, columns) /\ Begin(request, columns)
    <2> DEFINE columns == InOrder(NearTargets(t), <<>>)
               request == [kind |-> "apply", key |-> k, plan |-> t]
    <2>1. NearTargets(t) \in SUBSET Column
        BY NearInWorld
    <2>2. /\ Len(columns) \in Nat /\ DOMAIN columns = 1..Len(columns)
          /\ \A c \in NearTargets(t) : \E n \in DOMAIN columns : columns[n] = c
        BY <2>1, InOrderNumbered
    <2>3. Begin(request, columns)
        BY <1>6 DEF BeginApply
    <2>4. \A i \in DOMAIN t : InBounds(t[i].pos) => ColumnAt(t[i].pos) \in NearTargets(t)
        BY DEF NearTargets, Near, InBounds
    <2>5. request \in Request /\ request.kind = "apply" /\ request.plan = t
        BY DEF Request
    <2> HIDE DEF columns, request
    <2>6. RequestOK(request, columns)
        BY <2>2, <2>4, <2>5 DEF RequestOK
    <2> QED
        BY <2>3, <2>6
<1>7. ASSUME NEW k \in Key, BeginUndo(k)
      PROVE  \E request, columns : RequestOK(request, columns) /\ Begin(request, columns)
    <2> DEFINE need == UNION {Own(p) : p \in DOMAIN builds[k].applied}
               request == [kind |-> "undo", key |-> k]
    <2>1. builds[k] \in Store!BuildRow(Position)
        BY <1>7, LiveTypes DEF BeginUndo, Store!TypeOK
    <2>2. DOMAIN builds[k].applied \subseteq Position
        BY <2>1 DEF Store!BuildRow, Store!Partial
    <2>3. need \in SUBSET Column
        BY <2>2, NearInWorld
    <2>4. Begin(request, InOrder(need, <<>>))
        BY <1>7 DEF BeginUndo
    <2>5. request \in Request /\ request.kind = "undo"
        BY DEF Request
    <2> HIDE DEF need, request
    <2>6. RequestOK(request, InOrder(need, <<>>))
        BY <2>3, <2>5, InOrderNumbered DEF RequestOK
    <2> QED
        BY <2>4, <2>6
<1>8. Air \in Block
    BY DEF Block
<1> QED
    BY <1>1, <1>2, <1>3, <1>4, <1>5, <1>6, <1>7, <1>8, RequestAssumption

-----------------------------------------------------------------------------
(* The kinds of steps there are.                                           *)

\* A request is over, or an edit takes its next cell.
Answered ==
    /\ Ready
    /\ \/ task' = NoTask
       \/ /\ task.request.kind = "edit" /\ Len(task.request.cells) # 1
          /\ task' = [task EXCEPT !.request.cells = Tail(task.request.cells)]

\* An edit is in the layer and on its way to the channel.
Executed(p, block) ==
    /\ Free /\ Execute(p, block)
    /\ Answered \/ task' = task
    /\ loaded' \in {loaded, loaded \cup Own(p)}
    /\ UNCHANGED <<chunks, reading, tainted, bare>>

\* A build over air has a new row, or an old row is marked undone.
Built(w) ==
    \E k \in Key :
        \/ /\ builds' = [builds EXCEPT ![k] =
                [state |-> "applied", applied |-> w, original |-> [p \in DOMAIN w |-> Air]]]
           /\ \A p \in DOMAIN w : layer[p] = Air /\ ~ProtectedSpawn(p)
                                  /\ ColumnAt(p) \in chunks
        \/ /\ builds[k] # NoBuild /\ w = builds[k].original
           /\ builds' = [builds EXCEPT ![k].state = "undone"]
           /\ \A p \in DOMAIN w : w[p] = Air

\* A build, or its undo, is committed and gives w to the layer.
BuildKept(w) ==
    /\ Built(w)
    /\ w \in [DOMAIN w -> Block] /\ DOMAIN w \subseteq Position
    /\ P!CommitOverrides(w) /\ Committed(w)
    /\ UNCHANGED <<anvil, command_log, queue, shutdown, pending_edits, writer, batch,
                   todo, stopping, caller, edit, accepted>>
    /\ Ready /\ task' = NoTask
    /\ UNCHANGED <<chunks, reading, loaded, bare>>

\* The writer, or the runtime as it opens or closes, takes a step of its own.
Elsewhere ==
    /\ UNCHANGED liveVars
    /\ \/ UNCHANGED vars \/ P!Writer \/ P!FailFlush \/ P!Open
       \/ P!BeginShutdown /\ Idle

\* Every step of the server is one of these.
LEMMA LiveStepKinds ==
    ASSUME Live, [Next]_vars
    PROVE  \/ \E request, columns : RequestOK(request, columns) /\ Begin(request, columns)
           \/ Answered /\ UNCHANGED <<storeVars, layer, chunks, reading, loaded, tainted, bare>>
           \/ LoadAnvil \/ LoadSqlite \/ LoadFails \/ Manage
           \/ \E p \in Position, block \in Block : Executed(p, block)
           \/ HandOver
           \/ \E w : BuildKept(w)
           \/ Elsewhere \/ Exit
<1>1. ASSUME NEW p, NEW block, Execute(p, block)
      PROVE  p \in Position /\ block \in Block
    BY <1>1, MayExecuteWhere DEF Execute
<1>2. CASE \/ \E players \in Players : BeginManage(players)
           \/ \E r \in Reads : BeginRead(r.min, r.max)
           \/ \E t \in Plan : BeginValidate(t)
           \/ \E p \in Digs : BeginTool(p, Air)
           \/ \E s \in Sets : BeginTool(s[1], s[2])
           \/ \E f \in Fills : BeginFill(f.min, f.max, f.block)
           \/ \E k \in Key, targets \in Plan : BeginApply(k, targets)
           \/ \E k \in Key : BeginUndo(k)
    <2>1. \E request, columns : RequestOK(request, columns) /\ Begin(request, columns)
        BY <1>2, BegunRequests
    <2> QED
        BY <2>1
<1>3. CASE LoadAnvil \/ LoadSqlite \/ LoadFails \/ Manage \/ HandOver \/ Exit
    BY <1>3
<1>4. CASE Read
    BY <1>4 DEF Read, Answered
<1>5. CASE \/ \E p \in Digs : PlayerEdit(p, Air)
           \/ \E s \in Sets : PlayerEdit(s[1], s[2])
    <2>1. PICK p, block : PlayerEdit(p, block)
        BY <1>5
    <2>2. Executed(p, block)
        BY <2>1 DEF PlayerEdit, Executed, Idle
    <2>3. p \in Position /\ block \in Block
        BY <1>1, <2>1 DEF PlayerEdit
    <2> QED
        BY <2>2, <2>3
<1>6. CASE Tool
    <2> DEFINE cells == task.request.cells
               block == task.request.block
               p == Head(cells)
               rest == IF Len(cells) = 1 THEN NoTask
                       ELSE [task EXCEPT !.request.cells = Tail(cells)]
    <2>1. /\ Ready /\ task.request.kind = "edit"
          /\ UNCHANGED <<chunks, reading, loaded, tainted, bare>>
          /\ \/ Execute(p, block) /\ task' = rest
             \/ task' \in {rest, NoTask} /\ UNCHANGED <<storeVars, layer>>
        BY <1>6 DEF Tool
    <2>2. task' \in {rest, NoTask} => Answered
        BY <2>1 DEF Answered
    <2>3. CASE Execute(p, block) /\ task' = rest
        <3>1. p \in Position /\ block \in Block
            BY <1>1, <2>3
        <3>2. Free
            BY <2>1 DEF Ready
        <3> HIDE DEF p, block, rest
        <3>3. Executed(p, block)
            BY <2>1, <2>2, <2>3, <3>2 DEF Executed
        <3> QED
            BY <3>1, <3>3
    <2>4. CASE task' \in {rest, NoTask} /\ UNCHANGED <<storeVars, layer>>
        BY <2>1, <2>2, <2>4
    <2> QED
        BY <2>1, <2>3, <2>4
<1>7. CASE Apply
    <2> DEFINE w == PlanMap(task.request.plan)
    <2>1. /\ Ready /\ task.request.kind = "apply" /\ task' = NoTask
          /\ UNCHANGED <<chunks, reading, loaded, bare>>
        BY <1>7 DEF Apply
    <2>2. CASE UNCHANGED <<storeVars, layer, tainted>>
        BY <2>1, <2>2 DEF Answered
    <2>3. ASSUME NEW occupied, Valid(task.request.plan, layer, occupied),
                 P!PersistBuild(task.request.key, w, [p \in DOMAIN w |-> layer[p]]),
                 Committed(w)
          PROVE  BuildKept(w)
        <3>1. /\ w \in [DOMAIN w -> Block] /\ DOMAIN w \subseteq Position
              /\ [p \in DOMAIN w |-> layer[p]] = [p \in DOMAIN w |-> Air]
              /\ \A p \in DOMAIN w : layer[p] = Air /\ ~ProtectedSpawn(p)
                                     /\ ColumnAt(p) \in chunks
              /\ task.request.key \in Key
            BY <2>1, <2>3, ApplyCaptures
        <3> HIDE DEF w
        <3>3. builds' = [builds EXCEPT ![task.request.key] =
                [state |-> "applied", applied |-> w, original |-> [p \in DOMAIN w |-> Air]]]
            BY <2>3, <3>1 DEF P!PersistBuild
        <3>4. Built(w)
            BY <3>1, <3>3 DEF Built
        <3>2. /\ P!CommitOverrides(w)
              /\ UNCHANGED <<anvil, command_log, queue, shutdown, pending_edits,
                             writer, batch, todo, stopping, caller, edit, accepted>>
            BY <2>3 DEF P!PersistBuild, P!channel, P!writerVars, P!callerVars
        <3> QED
            BY <2>1, <2>3, <3>1, <3>2, <3>4 DEF BuildKept
    <2> HIDE DEF w
    <2>4. \/ UNCHANGED <<storeVars, layer, tainted>>
          \/ /\ \E occupied : Valid(task.request.plan, layer, occupied)
             /\ P!PersistBuild(task.request.key, w, [p \in DOMAIN w |-> layer[p]])
             /\ Committed(w)
        BY <1>7 DEF Apply, w
    <2>5. CASE /\ \E occupied : Valid(task.request.plan, layer, occupied)
               /\ P!PersistBuild(task.request.key, w, [p \in DOMAIN w |-> layer[p]])
               /\ Committed(w)
        BY <2>3, <2>5
    <2> QED
        BY <2>2, <2>4, <2>5
<1>8. CASE Undo
    <2> DEFINE w == builds[task.request.key].original
    <2>1. /\ Ready /\ task.request.kind = "undo" /\ task' = NoTask
          /\ UNCHANGED <<chunks, reading, loaded, bare>>
        BY <1>8 DEF Undo
    <2>2. CASE UNCHANGED <<storeVars, layer, tainted>>
        BY <2>1, <2>2 DEF Answered
    <2>3. CASE P!MarkBuildUndone(task.request.key) /\ Committed(w)
        <3>1. /\ w \in [DOMAIN w -> Block] /\ DOMAIN w \subseteq Position
              /\ \A p \in DOMAIN w : w[p] = Air
            BY <2>1, <2>3, UndoRestores
        <3>2. P!CommitOverrides(w)
            BY <2>3 DEF P!MarkBuildUndone
        <3>5. /\ builds[task.request.key] # NoBuild /\ task.request.key \in Key
              /\ builds' = [builds EXCEPT ![task.request.key].state = "undone"]
            BY <2>1, <2>3, UndoRestores DEF P!MarkBuildUndone
        <3>6. Built(w)
            BY <3>1, <3>5 DEF Built
        <3> HIDE DEF w
        <3>3. UNCHANGED <<anvil, command_log, queue, shutdown, pending_edits,
                          writer, batch, todo, stopping, caller, edit, accepted>>
            BY <2>3 DEF P!MarkBuildUndone, P!channel, P!writerVars, P!callerVars
        <3>4. BuildKept(w)
            BY <2>1, <2>3, <3>1, <3>2, <3>3, <3>6 DEF BuildKept
        <3> QED
            BY <3>4
    <2> QED
        BY <1>8, <2>2, <2>3 DEF Undo
<1>9. CASE WriterStep \/ Stop \/ Restart \/ UNCHANGED vars
    BY <1>9 DEF WriterStep, Stop, Restart, Elsewhere, vars, liveVars
<1> QED
    BY <1>2, <1>3, <1>4, <1>5, <1>6, <1>7, <1>8, <1>9 DEF Next

-----------------------------------------------------------------------------
(* The live half keeps its types and its request.                          *)

\* Columns passed on the way are present.
LEMMA PassedPresent ==
    ASSUME NEW columns, Len(columns) \in Nat, NEW i \in Int
    PROVE  Passed(columns, i) \subseteq chunks
<1> SUFFICES ASSUME NEW j \in i + 1..Len(columns),
                    \A n \in i + 1..j : columns[n] \in chunks
             PROVE  columns[j] \in chunks
    BY DEF Passed
<1> QED
    OBVIOUS

\* So are those passed after the column just read.
LEMMA PassedNowPresent ==
    ASSUME Live, reading # NotReading
    PROVE  PassedNow \subseteq chunks
<1> DEFINE i == CHOOSE i \in DOMAIN task.need : task.need[i] = reading.column
<1>1. /\ Len(task.need) \in Nat /\ DOMAIN task.need = 1..Len(task.need)
      /\ \E n \in DOMAIN task.need : task.need[n] = reading.column
    BY DEF Live, Serving, Loading, RequestOK
<1>2. i \in DOMAIN task.need
    BY <1>1
<1>3. PassedNow = Passed(task.need, i)
    BY DEF PassedNow
<1> HIDE DEF i
<1> QED
    BY <1>1, <1>2, <1>3, PassedPresent

\* The column that is loaded next is the first that is missing.
LEMMA FirstMissing ==
    ASSUME Live, task # NoTask, Missing # {}
    PROVE  LET i == CHOOSE i \in Missing : \A j \in Missing : i <= j
           IN i \in Missing /\ task.need[i] \in Column \ chunks
<1>1. Missing \subseteq Nat
    BY DEF Missing, Live, Serving, RequestOK
<1>2. \E i \in Missing : \A j \in Missing : <<j, i>> \notin OpToRel(<, Nat)
    BY <1>1, NatLessThanWellFounded, WFMin
<1>3. PICK least \in Missing : \A j \in Missing : ~(j < least)
    BY <1>1, <1>2 DEF OpToRel
<1> DEFINE i == CHOOSE i \in Missing : \A j \in Missing : i <= j
<1>4. i \in Missing
    <2>1. \A j \in Missing : least <= j
        BY <1>1, <1>3
    <2> QED
        BY <2>1
<1> HIDE DEF i
<1>5. task.need[i] \in Column \ chunks
    BY <1>4 DEF Missing
<1> QED
    BY <1>4, <1>5 DEF i

\* What LoadAnvil does, with its column by name.
LEMMA AnvilLoads ==
    ASSUME Live, LoadAnvil
    PROVE  \E column \in Column \ chunks :
            LET inside == {p \in Position : ColumnAt(p) = column}
            IN /\ \E i \in DOMAIN task.need : task.need[i] = column
               /\ chunks' = chunks \cup {column}
               /\ layer' = [p \in Position |-> IF p \in inside THEN Base[p] ELSE layer[p]]
               /\ reading' = [column |-> column, blocks |-> [p \in inside |-> anvil[p]]]
               /\ tainted' = (tainted \ inside)
                    \cup (inside \cap (P!Written(P!InFlight) \cup raced \cup masked))
<1> DEFINE i == CHOOSE i \in Missing : \A j \in Missing : i <= j
<1>1. i \in Missing /\ task.need[i] \in Column \ chunks
    BY FirstMissing DEF LoadAnvil
<1> DEFINE column == task.need[i]
           inside == {p \in Position : ColumnAt(p) = column}
<1>2. /\ chunks' = chunks \cup {column}
      /\ layer' = [p \in Position |-> IF p \in inside THEN Base[p] ELSE layer[p]]
      /\ reading' = [column |-> column, blocks |-> [p \in inside |-> anvil[p]]]
      /\ tainted' = (tainted \ inside)
            \cup (inside \cap (P!Written(P!InFlight) \cup raced \cup masked))
    BY DEF LoadAnvil
<1>3. i \in DOMAIN task.need /\ task.need[i] = column
    BY <1>1 DEF Missing
<1> HIDE DEF i
<1> QED
    BY <1>1, <1>2, <1>3

\* What Anvil held and the overlay merge to blocks.
LEMMA LoadedTyped ==
    ASSUME Live, reading # NotReading, NEW p \in DOMAIN reading.blocks
    PROVE  /\ p \in Position /\ ColumnAt(p) = reading.column
           /\ reading.column \in chunks
           /\ P!Merge(reading.blocks[p], block_overrides[p]) \in Block
<1>1. /\ p \in Position /\ ColumnAt(p) = reading.column
      /\ reading.blocks[p] \in Block /\ reading.column \in chunks
    BY DEF Live, Loading
<1>2. block_overrides[p] \in Block \cup {NoOverride}
    BY <1>1, LiveTypes DEF Store!TypeOK
<1> QED
    BY <1>1, <1>2 DEF P!Merge

\* No step breaks the types.
LEMMA TypeStep ==
    ASSUME Live, [Next]_vars
    PROVE  TypeOK'
<1>0. /\ layer \in [Position -> Block] /\ chunks \subseteq Column
      /\ \A p \in Position : ColumnAt(p) \notin chunks => layer[p] = Air
      /\ loaded \subseteq Column /\ bare \subseteq chunks /\ tainted \subseteq Position
      /\ Air \in Block
    BY DEF Live, TypeOK, Block
<1>1. ASSUME NEW request, NEW columns, RequestOK(request, columns), Begin(request, columns)
      PROVE  TypeOK'
    <2>1. Passed(columns, 0) \subseteq chunks
        BY <1>1, PassedPresent DEF RequestOK
    <2> QED
        BY <1>0, <1>1, <2>1 DEF Begin, TypeOK
<1>2. CASE Answered /\ UNCHANGED <<storeVars, layer, chunks, reading, loaded, tainted, bare>>
    BY <1>0, <1>2 DEF TypeOK
<1>3. CASE LoadAnvil
    <2>1. UNCHANGED <<loaded, bare>>
        BY <1>3 DEF LoadAnvil
    <2>2. PICK column \in Column \ chunks :
            /\ chunks' = chunks \cup {column}
            /\ layer' = [p \in Position |->
                            IF p \in {q \in Position : ColumnAt(q) = column}
                            THEN Base[p] ELSE layer[p]]
            /\ tainted' \subseteq Position
        BY <1>0, <1>3, AnvilLoads
    <2>3. layer' \in [Position -> Block]
        BY <1>0, <2>2, GeneratedBlocks
    <2>4. \A p \in Position : ColumnAt(p) \notin chunks' => layer'[p] = Air
        BY <1>0, <2>2
    <2> QED
        BY <1>0, <2>1, <2>2, <2>3, <2>4 DEF TypeOK
<1>4. CASE LoadSqlite
    <2>1. /\ reading # NotReading /\ UNCHANGED <<chunks, tainted, bare>>
          /\ loaded' = loaded \cup {reading.column} \cup PassedNow
          /\ layer' = [p \in Position |->
                IF p \in DOMAIN reading.blocks
                THEN P!Merge(reading.blocks[p], block_overrides[p]) ELSE layer[p]]
        BY <1>4 DEF LoadSqlite
    <2>2. layer' \in [Position -> Block]
        BY <1>0, <2>1, LoadedTyped
    <2>3. \A p \in Position : ColumnAt(p) \notin chunks' => layer'[p] = Air
        BY <1>0, <2>1, LoadedTyped
    <2>4. loaded' \subseteq Column
        BY <1>0, <2>1, PassedNowPresent DEF Live, Loading
    <2> QED
        BY <1>0, <2>1, <2>2, <2>3, <2>4 DEF TypeOK
<1>5. CASE LoadFails
    <2>1. /\ reading # NotReading /\ UNCHANGED <<layer, chunks>>
          /\ tainted' = tainted \cup DOMAIN reading.blocks
          /\ bare' = bare \cup {reading.column}
          /\ loaded' \in {loaded \cup PassedNow, loaded}
        BY <1>5 DEF LoadFails
    <2>2. /\ DOMAIN reading.blocks \subseteq Position /\ reading.column \in chunks
        BY <2>1 DEF Live, Loading
    <2>3. PassedNow \subseteq chunks
        BY <2>1, PassedNowPresent
    <2> QED
        BY <1>0, <2>1, <2>2, <2>3 DEF TypeOK
<1>6. CASE Manage
    <2>1. /\ chunks' \subseteq chunks
          /\ layer' = [p \in Position |-> IF ColumnAt(p) \in chunks' THEN layer[p] ELSE Air]
          /\ tainted' \subseteq tainted /\ bare' = bare \cap chunks'
          /\ loaded' = loaded \cap chunks'
        BY <1>6 DEF Manage
    <2> QED
        BY <1>0, <2>1 DEF TypeOK
<1>7. ASSUME NEW p \in Position, NEW block \in Block, Executed(p, block)
      PROVE  TypeOK'
    <2>1. /\ layer' = [layer EXCEPT ![p] = block] /\ ColumnAt(p) \in chunks
          /\ loaded' \in {loaded, loaded \cup Own(p)}
          /\ UNCHANGED <<chunks, tainted, bare>>
        BY <1>7 DEF Executed, Execute, MayExecute
    <2>2. layer' \in [Position -> Block]
        BY <1>0, <2>1
    <2>3. \A q \in Position : ColumnAt(q) \notin chunks => layer'[q] = Air
        BY <1>0, <2>1
    <2> QED
        BY <1>0, <2>1, <2>2, <2>3, NearInWorld DEF TypeOK
<1>8. CASE HandOver
    BY <1>0, <1>8 DEF HandOver, TypeOK
<1>9. ASSUME NEW w, BuildKept(w) PROVE TypeOK'
    <2>1. /\ w \in [DOMAIN w -> Block] /\ DOMAIN w \subseteq Position
          /\ \A p \in DOMAIN w : w[p] = Air \/ ColumnAt(p) \in chunks
          /\ layer' \in {layer, Overlay(w)} /\ tainted' \in {tainted \ DOMAIN w, tainted \cup DOMAIN w}
          /\ UNCHANGED <<chunks, loaded, bare>>
        BY <1>9 DEF BuildKept, Built, Committed
    <2>2. layer' \in [Position -> Block]
        BY <1>0, <2>1 DEF Overlay
    <2>3. \A p \in Position : ColumnAt(p) \notin chunks => layer'[p] = Air
        BY <1>0, <2>1 DEF Overlay
    <2> QED
        BY <1>0, <2>1, <2>2, <2>3 DEF TypeOK
<1>10. CASE Elsewhere
    BY <1>0, <1>10 DEF Elsewhere, liveVars, TypeOK
<1>11. CASE Exit
    BY <1>0, <1>11 DEF Exit, TypeOK
<1> QED
    BY <1>1, <1>2, <1>3, <1>4, <1>5, <1>6, <1>7, <1>8, <1>9, <1>10, <1>11, LiveStepKinds

\* No step breaks the request that is served.
LEMMA ServingStep ==
    ASSUME Live, [Next]_vars
    PROVE  Serving'
<1>1. ASSUME NEW request, NEW columns, RequestOK(request, columns), Begin(request, columns)
      PROVE  Serving'
    BY <1>1 DEF Begin, Serving
<1>2. CASE task' = task
    BY <1>2 DEF Live, Serving
<1>3. CASE task' = NoTask
    BY <1>3 DEF Serving
<1>4. CASE Answered
    <2>1. SUFFICES ASSUME task.request.kind = "edit", Len(task.request.cells) # 1,
                          task' = [task EXCEPT !.request.cells = Tail(task.request.cells)]
                   PROVE  Serving'
        BY <1>3, <1>4 DEF Answered
    <2> DEFINE request == task.request
               columns == task.need
               cells == request.cells
               later == [request EXCEPT !.cells = Tail(cells)]
    <2>2. /\ task = [request |-> request, need |-> columns]
          /\ RequestOK(request, columns)
        BY <1>4 DEF Answered, Ready, Live, Serving
    <2>3. request \in [kind : {"edit"}, cells : Seq(Position) \ {<<>>}, block : Block]
        BY <2>1, <2>2 DEF RequestOK, Request
    <2>4. /\ Tail(cells) \in Seq(Position) /\ Len(Tail(cells)) = Len(cells) - 1
          /\ Len(cells) \in Nat /\ Len(cells) <= Max({1, FillLimit})
        BY <2>1, <2>2, <2>3, HeadTailProperties, LenProperties, EmptySeq, ElementOfSeq DEF RequestOK
    <2>5. Tail(cells) # <<>>
        <3>1. Len(Tail(cells)) # 0
            BY <2>1, <2>4
        <3> QED
            BY <2>4, <3>1, EmptySeq
    <2>6. later \in [kind : {"edit"}, cells : Seq(Position) \ {<<>>}, block : Block]
        BY <2>3, <2>4, <2>5
    <2>7. later.kind = "edit" /\ later.cells = Tail(cells)
        BY <2>3
    <2>8. task' = [request |-> later, need |-> columns]
        BY <2>1, <2>2
    <2>9. Len(Tail(cells)) <= Max({1, FillLimit})
        BY <2>4, MaxOfTwo
    <2>10. Len(columns) \in Nat /\ DOMAIN columns = 1..Len(columns)
        BY <2>2 DEF RequestOK
    <2> HIDE DEF later, columns, cells, request
    <2>11. later \in Request
        BY <2>6 DEF Request
    <2>12. RequestOK(later, columns)
        BY <2>7, <2>9, <2>10, <2>11 DEF RequestOK
    <2> QED
        BY <2>8, <2>12 DEF Serving
<1>5. CASE LoadAnvil \/ LoadSqlite \/ LoadFails \/ Manage \/ HandOver \/ Elsewhere \/ Exit
    <2>1. task' \in {task, NoTask}
        BY <1>5 DEF LoadAnvil, LoadSqlite, LoadFails, Manage, HandOver, Elsewhere, Exit, liveVars
    <2> QED
        BY <1>2, <1>3, <2>1
<1>6. ASSUME NEW p \in Position, NEW block \in Block, Executed(p, block)
      PROVE  Serving'
    BY <1>2, <1>4, <1>6 DEF Executed
<1>7. ASSUME NEW w, BuildKept(w) PROVE Serving'
    BY <1>3, <1>7 DEF BuildKept
<1> QED
    BY <1>1, <1>4, <1>5, <1>6, <1>7, LiveStepKinds

\* The writer's own steps leave the game thread where it is.
LEMMA WriterLeavesCaller ==
    ASSUME P!Writer \/ P!FailFlush
    PROVE  UNCHANGED <<caller, edit, builds>>
    BY DEF P!Writer, P!FailFlush, P!RecvEdit, P!TakeShutdown, P!DrainEdit, P!BeginFlush,
           P!WriteColumn, P!FlushSqlite, P!RecordFlushed, P!disk, P!callerVars

\* No step breaks the loading of a column.
LEMMA LoadingStep ==
    ASSUME Live, [Next]_vars
    PROVE  Loading'
<1>1. CASE Free /\ reading' = reading
    BY <1>1 DEF Free, Loading
<1>2. CASE reading' = NotReading
    BY <1>2 DEF Loading, NotReading
<1>3. CASE LoadAnvil
    <2>1. task # NoTask /\ task' = task /\ caller = "idle" /\ caller' = caller
        BY <1>3 DEF LoadAnvil, Free, storeVars
    <2>2. PICK column \in Column \ chunks :
            /\ \E i \in DOMAIN task.need : task.need[i] = column
            /\ chunks' = chunks \cup {column}
            /\ reading' = [column |-> column,
                           blocks |-> [p \in {q \in Position : ColumnAt(q) = column} |-> anvil[p]]]
        BY <1>3, AnvilLoads
    <2>3. anvil \in [Position -> Block]
        BY LiveTypes DEF Store!TypeOK
    <2>4. reading'.blocks \in [{p \in Position : ColumnAt(p) = reading'.column} -> Block]
        BY <2>2, <2>3
    <2> QED
        BY <2>1, <2>2, <2>4 DEF Loading
<1>4. CASE HandOver \/ Elsewhere
    <2>1. SUFFICES ASSUME reading' # NotReading PROVE FALSE \/ Loading'
        BY DEF Loading
    <2>2. reading' = reading /\ task' = task /\ chunks' = chunks
        BY <1>4 DEF HandOver, Elsewhere, liveVars
    <2>3. reading # NotReading /\ caller = "idle"
        BY <2>1, <2>2 DEF Live, Loading, NotReading
    <2>4. caller' = "idle"
        BY <1>4, <2>3, WriterLeavesCaller
        DEF HandOver, P!HandOver, P!SendAccepted, P!SendRefused, Elsewhere, P!Open,
            Idle, Free, vars, storeVars
    <2> QED
        BY <2>2, <2>3, <2>4 DEF Live, Loading
<1>5. ASSUME NEW p \in Position, NEW block \in Block, Executed(p, block)
      PROVE  Loading'
    BY <1>1, <1>5 DEF Executed
<1>6. ASSUME NEW w, BuildKept(w) PROVE Loading'
    BY <1>1, <1>6 DEF BuildKept, Ready
<1>7. ASSUME NEW request, NEW columns, Begin(request, columns) PROVE Loading'
    BY <1>1, <1>7 DEF Begin, Idle
<1>8. CASE Answered /\ UNCHANGED <<storeVars, layer, chunks, reading, loaded, tainted, bare>>
    BY <1>1, <1>8 DEF Answered, Ready
<1>9. CASE LoadSqlite \/ LoadFails \/ Exit
    BY <1>2, <1>9 DEF LoadSqlite, LoadFails, Exit
<1>10. CASE Manage
    BY <1>1, <1>10 DEF Manage, Ready
<1> QED
    BY <1>3, <1>4, <1>5, <1>6, <1>7, <1>8, <1>9, <1>10, LiveStepKinds

\* The first state.
LEMMA LiveInit ==
    ASSUME Init
    PROVE  Live
<1>1. Store!Refining
    BY SameStore, StoreConstants, Store!RefiningInit DEF Init
<1>2. TypeOK /\ Serving /\ Loading
    BY DEF Init, TypeOK, Serving, Loading, Block
<1> QED
    BY <1>1, <1>2 DEF Live

\* Live is inductive.
LEMMA LiveStep ==
    ASSUME Live, [Next]_vars
    PROVE  Live'
    BY StoreKept, TypeStep, ServingStep, LoadingStep DEF Live

-----------------------------------------------------------------------------
(* Theorems.                                                               *)

\* The invariant holds in every state.
LEMMA LiveAlways == Spec => []Live
<1>1. Init => Live
    BY LiveInit
<1>2. Live /\ [Next]_vars => Live'
    BY LiveStep
<1> QED
    BY <1>1, <1>2, PTL DEF Spec

\* The types of the live world hold, and air stands where no column is loaded
\* (server.rs, world_command.rs).
THEOREM TypeCorrect == Spec => []TypeOK
<1>1. Live => TypeOK
    BY DEF Live
<1> QED
    BY <1>1, LiveAlways, PTL

\* Whatever the game thread does with requests, loads, edits and builds, its calls
\* into the persistence runtime are calls Persistence allows, so all that is proved
\* of Persistence holds of the running server.
THEOREM ServerUsesItsStore == Spec => ImplementsPersistence
<1>1. Init => P!Init
    BY DEF Init
<1>2. Live /\ [Next]_vars => [P!Next]_(P!vars)
    BY StepInStore
<1> QED
    BY <1>1, <1>2, LiveAlways, PTL DEF Spec, ImplementsPersistence, P!Spec

\* So edits of players and tools land in the order of their calls and leave the
\* channel only when they have landed, and builds and undos of this server are
\* durable as a whole: the game thread over its store is a DurableWorld too.
THEOREM ServerIsDurable == Spec => Store!ImplementsDurableWorld
<1>1. Spec => Store!Spec
    <2>1. Init => Store!Init
        BY SameStore DEF Init
    <2>2. Live /\ [Next]_vars => [Store!Next]_(Store!vars)
        BY StepInStore, SameStore
    <2> QED
        BY <2>1, <2>2, LiveAlways, PTL DEF Spec, Store!Spec
<1>2. Store!Spec => Store!ImplementsDurableWorld
    BY StoreConstants, Store!DurableWorldIsImplemented
<1> QED
    BY <1>1, <1>2, PTL

\* However the volume of a region wraps around, a tool never edits more cells than
\* its limit, nor any outside the world (mcp.rs required_region, server.rs
\* ensure_region_in_bounds and region_positions).
THEOREM FillsStayWithinLimit == Spec => []FillsWithinLimit
<1>1. ASSUME Live PROVE FillsWithinLimit
    <2> SUFFICES ASSUME task # NoTask, task.request.kind = "edit"
                 PROVE  /\ Len(task.request.cells) <= Max({1, FillLimit})
                        /\ \A i \in DOMAIN task.request.cells : InBounds(task.request.cells[i])
        BY DEF FillsWithinLimit
    <2>1. RequestOK(task.request, task.need)
        BY <1>1 DEF Live, Serving
    <2>2. task.request.cells \in Seq(Position)
        BY <2>1 DEF RequestOK, Request
    <2>3. \A i \in DOMAIN task.request.cells : task.request.cells[i] \in Position
        BY <2>2, LenProperties, ElementOfSeq
    <2> QED
        BY <2>1, <2>3 DEF RequestOK, InBounds
<1> QED
    BY <1>1, LiveAlways, PTL

-----------------------------------------------------------------------------
(* The lifecycle.                                                          *)

\* No step loses track of a column.
LEMMA LifecycleStep ==
    ASSUME Live, LifecycleTracksLayer, [Next]_vars
    PROVE  LifecycleTracksLayer'
<1>0. /\ loaded \subseteq chunks /\ chunks \subseteq Column
      /\ chunks \ loaded \subseteq bare \cup {reading.column}
      /\ reading = NotReading => chunks \ loaded \subseteq bare
    <2>1. NotReading.column = <<>>
        BY DEF NotReading
    <2> QED
        BY <2>1, LiveTypes, ColumnsFinite DEF LifecycleTracksLayer
<1>1. ASSUME NEW request, NEW columns, RequestOK(request, columns), Begin(request, columns)
      PROVE  LifecycleTracksLayer'
    <2>1. Passed(columns, 0) \subseteq chunks
        BY <1>1, PassedPresent DEF RequestOK
    <2> QED
        BY <1>0, <1>1, <2>1 DEF Begin, LifecycleTracksLayer
<1>2. CASE UNCHANGED <<chunks, reading, loaded, bare>>
    BY <1>0, <1>2 DEF LifecycleTracksLayer
<1>3. CASE LoadAnvil
    <2>1. reading = NotReading /\ UNCHANGED <<loaded, bare>>
        BY <1>3 DEF LoadAnvil, Free
    <2>2. PICK column \in Column \ chunks :
            /\ chunks' = chunks \cup {column}
            /\ reading' = [column |-> column,
                           blocks |-> [p \in {q \in Position : ColumnAt(q) = column} |-> anvil[p]]]
        BY <1>3, AnvilLoads
    <2>3. reading'.column = column
        BY <2>2
    <2> QED
        BY <1>0, <2>1, <2>2, <2>3 DEF LifecycleTracksLayer
<1>4. CASE LoadSqlite
    <2>1. /\ reading # NotReading /\ UNCHANGED <<chunks, bare>>
          /\ loaded' = loaded \cup {reading.column} \cup PassedNow
        BY <1>4 DEF LoadSqlite
    <2>2. PassedNow \subseteq chunks /\ reading.column \in chunks
        BY <2>1, PassedNowPresent DEF Live, Loading
    <2> QED
        BY <1>0, <2>1, <2>2 DEF LifecycleTracksLayer
<1>5. CASE LoadFails
    <2>1. /\ reading # NotReading /\ chunks' = chunks
          /\ bare' = bare \cup {reading.column}
          /\ loaded' \in {loaded, loaded \cup PassedNow}
        BY <1>5 DEF LoadFails
    <2>2. PassedNow \subseteq chunks
        BY <2>1, PassedNowPresent
    <2> QED
        BY <1>0, <2>1, <2>2 DEF LifecycleTracksLayer
<1>6. CASE Manage
    <2>1. /\ reading = NotReading /\ chunks' \subseteq chunks
          /\ bare' = bare \cap chunks' /\ loaded' = loaded \cap chunks'
        BY <1>6 DEF Manage, Ready, Free
    <2> QED
        BY <1>0, <2>1 DEF LifecycleTracksLayer
<1>7. ASSUME NEW p \in Position, NEW block \in Block, Executed(p, block)
      PROVE  LifecycleTracksLayer'
    <2>1. /\ ColumnAt(p) \in chunks /\ UNCHANGED <<chunks, reading, bare>>
          /\ loaded' \in {loaded, loaded \cup {ColumnAt(p)}}
        BY <1>7 DEF Executed, Execute, MayExecute, Own
    <2> QED
        BY <1>0, <2>1 DEF LifecycleTracksLayer
<1>8. CASE Exit
    BY <1>8 DEF Exit, LifecycleTracksLayer
<1>9. CASE HandOver \/ Elsewhere \/ \E w : BuildKept(w)
    BY <1>2, <1>9 DEF HandOver, Elsewhere, liveVars, BuildKept
<1> QED
    BY <1>1, <1>2, <1>3, <1>4, <1>5, <1>6, <1>7, <1>8, <1>9, LiveStepKinds

\* The lifecycle that server_status reports never holds a column that is gone, and
\* misses none that is present but those whose load failed or is under way, however
\* loads, edits, fills and manage_world_chunks take turns (server.rs ChunkLifecycle).
THEOREM LifecycleIsExact == Spec => []LifecycleTracksLayer
<1>1. Init => LifecycleTracksLayer
    BY DEF Init, LifecycleTracksLayer
<1>2. Live /\ LifecycleTracksLayer /\ [Next]_vars => LifecycleTracksLayer'
    BY LifecycleStep
<1> QED
    BY <1>1, <1>2, LiveAlways, PTL DEF Spec

-----------------------------------------------------------------------------
(* Foundation and spawn space.                                             *)

\* No edit that may be executed is of a position nobody may change.
LEMMA ExecuteSparesFixed ==
    ASSUME FixedKept, NEW p \in Position, NEW block \in Block, MayExecute(p, block)
    PROVE  ~Fixed(p)
<1> SUFFICES ASSUME Fixed(p) PROVE FALSE
    OBVIOUS
<1>1. layer[p] = Base[p] /\ BlockAt(layer, p) = Base[p]
    BY DEF FixedKept, ShownAsGenerated, MayExecute, BlockAt
<1>2. /\ p[2] = MinY => Base[p] # Air
      /\ ProtectedSpawn(p) => Base[p] = Air /\ p[2] # MinY
    BY GeneratedBlocks
<1>3. p[2] \in Int /\ MinY \in Int
    BY WorldAssumption DEF Position
<1>4. CASE block = Air
    BY <1>1, <1>2, <1>3, <1>4 DEF MayExecute, MayRemove, Fixed
<1>5. CASE block # Air
    BY <1>1, <1>2, <1>5 DEF MayExecute, MaySet, Fixed
<1> QED
    BY <1>4, <1>5

\* Nor is any block of a build, nor of its undo.
LEMMA BuildSparesFixed ==
    ASSUME FixedKept, NEW w, BuildKept(w), NEW p \in Position, Fixed(p)
    PROVE  p \notin DOMAIN w
<1> SUFFICES ASSUME p \in DOMAIN w PROVE FALSE
    OBVIOUS
<1>1. PICK k \in Key :
        \/ layer[p] = Air /\ ~ProtectedSpawn(p) /\ ColumnAt(p) \in chunks
        \/ builds[k] # NoBuild /\ w = builds[k].original
    BY DEF BuildKept, Built
<1>2. layer[p] = Air /\ ~ProtectedSpawn(p) /\ ColumnAt(p) \in chunks => FALSE
    BY GeneratedBlocks DEF FixedKept, ShownAsGenerated, Fixed
<1>3. builds[k] # NoBuild /\ w = builds[k].original => FALSE
    BY DEF FixedKept, Untouched
<1> QED
    BY <1>1, <1>2, <1>3

\* The writer and the runtime touch only what edits on their way name.
LEMMA UntouchedElsewhere ==
    ASSUME Live, NEW p \in Position, Untouched(p), Elsewhere \/ HandOver \/ Exit
    PROVE  Untouched(p)'
<1>0. /\ batch \in Seq(Store!Edit) /\ queue \in Seq(Store!Edit)
      /\ caller = "sending" => edit \in Store!Edit
    BY LiveTypes DEF Store!TypeOK
<1>1. p \notin Store!Written(batch)
    BY DEF Untouched, Store!Written, Store!LastEdits
<1>2. CASE UNCHANGED <<anvil, block_overrides, batch, queue, caller, edit, builds>>
    BY <1>2 DEF Untouched
<1>3. CASE P!SendAccepted
    <2>1. /\ queue' = Append(queue, edit) /\ edit \in Store!Edit /\ edit.pos # p
          /\ caller' = "idle" /\ UNCHANGED <<anvil, block_overrides, batch, builds>>
        BY <1>0, <1>3 DEF P!SendAccepted, P!disk, P!writerVars, Untouched
    <2>2. \A i \in DOMAIN queue' : (i \in DOMAIN queue /\ queue'[i] = queue[i]) \/ queue'[i] = edit
        BY <1>0, <2>1, AppendProperties, LenProperties
    <2>3. \A i \in DOMAIN queue' : queue'[i].pos # p
        BY <2>1, <2>2 DEF Untouched
    <2> QED
        BY <2>1, <2>3 DEF Untouched
<1>4. CASE P!SendRefused \/ P!Crash \/ P!JoinWriter \/ P!BeginShutdown
    <2>1. caller' # "sending" /\ UNCHANGED <<anvil, block_overrides, batch, queue, builds>>
        BY <1>4 DEF P!SendRefused, P!Crash, P!JoinWriter, P!BeginShutdown, P!disk,
                    P!writerVars, P!channel
    <2> QED
        BY <2>1 DEF Untouched
<1>5. CASE P!RecvEdit \/ P!DrainEdit
    <2>1. /\ queue # <<>> /\ queue' = Tail(queue)
          /\ batch' \in {<<Head(queue)>>, Append(batch, Head(queue))}
          /\ UNCHANGED <<anvil, block_overrides, caller, edit, builds>>
        BY <1>5 DEF P!RecvEdit, P!DrainEdit, P!disk, P!callerVars
    <2>2. /\ Head(queue) = queue[1] /\ 1 \in DOMAIN queue /\ Head(queue) \in Store!Edit
          /\ \A i \in DOMAIN Tail(queue) : i + 1 \in DOMAIN queue /\ Tail(queue)[i] = queue[i + 1]
        BY <1>0, <2>1, HeadTailProperties, LenProperties, EmptySeq
    <2>3. Head(queue).pos # p
        BY <2>2 DEF Untouched
    <2>4. \A i \in DOMAIN queue' : queue'[i].pos # p
        BY <2>1, <2>2 DEF Untouched
    <2>5. \A i \in DOMAIN Append(batch, Head(queue)) :
            \/ i \in DOMAIN batch /\ Append(batch, Head(queue))[i] = batch[i]
            \/ Append(batch, Head(queue))[i] = Head(queue)
        BY <1>0, <2>2, AppendProperties, LenProperties
    <2>6. \A i \in DOMAIN <<Head(queue)>> : <<Head(queue)>>[i] = Head(queue)
        OBVIOUS
    <2> DEFINE first == Head(queue)
    <2> HIDE DEF first
    <2>7. \A i \in DOMAIN batch' : batch'[i].pos # p
        BY <2>1, <2>3, <2>5, <2>6 DEF Untouched
    <2> QED
        BY <2>1, <2>4, <2>7 DEF Untouched
<1>6. CASE P!TakeShutdown \/ P!BeginFlush
    BY <1>2, <1>6 DEF P!TakeShutdown, P!BeginFlush, P!disk, P!callerVars, P!channel
<1>7. ASSUME NEW c, P!WriteColumn(c) PROVE Untouched(p)'
    <2>1. /\ anvil'[p] = anvil[p]
          /\ UNCHANGED <<block_overrides, batch, queue, caller, edit, builds>>
        BY <1>1, <1>7, SameStore DEF P!WriteColumn, P!callerVars, P!channel
    <2> QED
        BY <2>1 DEF Untouched
<1>8. CASE P!FlushSqlite
    <2>1. /\ block_overrides'[p] = block_overrides[p]
          /\ UNCHANGED <<anvil, batch, queue, caller, edit, builds>>
        BY <1>1, <1>8, SameStore DEF P!FlushSqlite, P!callerVars, P!channel
    <2> QED
        BY <2>1 DEF Untouched
<1>9. CASE P!RecordFlushed \/ P!FailFlush \/ P!Open
    <2>1. /\ batch' \in {<<>>, batch} /\ queue' \in {<<>>, queue}
          /\ UNCHANGED <<anvil, block_overrides, builds>>
          /\ caller' # "sending" \/ UNCHANGED <<caller, edit>>
        BY <1>9 DEF P!RecordFlushed, P!FailFlush, P!Open, P!disk, P!callerVars
    <2>2. DOMAIN <<>> = {}
        OBVIOUS
    <2> QED
        BY <2>1, <2>2 DEF Untouched
<1> QED
    BY <1>2, <1>3, <1>4, <1>5, <1>6, <1>7, <1>8, <1>9
    DEF Elsewhere, HandOver, Exit, P!HandOver, P!Writer, vars, storeVars

\* No step touches a position nobody may change.
LEMMA FixedStep ==
    ASSUME Live, FixedKept, [Next]_vars
    PROVE  FixedKept'
<1> SUFFICES ASSUME NEW p \in Position, Fixed(p)
             PROVE  Untouched(p)' /\ ShownAsGenerated(p)'
    BY DEF FixedKept
<1>0. Untouched(p) /\ ShownAsGenerated(p)
    BY DEF FixedKept
<1>1. ASSUME UNCHANGED storeVars PROVE Untouched(p)'
    BY <1>0, <1>1 DEF storeVars, Untouched, Base
<1>2. ASSUME UNCHANGED <<layer, chunks, reading>> PROVE ShownAsGenerated(p)'
    BY <1>0, <1>2 DEF ShownAsGenerated, Base
<1>3. NotReading.blocks = <<>> /\ p \notin DOMAIN NotReading.blocks
    BY DEF NotReading
<1>4. ASSUME NEW request, NEW columns, Begin(request, columns)
      PROVE  Untouched(p)' /\ ShownAsGenerated(p)'
    BY <1>1, <1>2, <1>4 DEF Begin
<1>5. CASE Answered /\ UNCHANGED <<storeVars, layer, chunks, reading, loaded, tainted, bare>>
    BY <1>1, <1>2, <1>5
<1>6. CASE LoadAnvil
    <2>1. PICK column \in Column \ chunks :
            /\ chunks' = chunks \cup {column}
            /\ layer' = [q \in Position |->
                            IF q \in {r \in Position : ColumnAt(r) = column}
                            THEN Base[q] ELSE layer[q]]
            /\ reading' = [column |-> column,
                           blocks |-> [q \in {r \in Position : ColumnAt(r) = column} |-> anvil[q]]]
        BY <1>6, AnvilLoads
    <2>2. p \in DOMAIN reading'.blocks => reading'.blocks[p] = anvil[p]
        BY <2>1
    <2>3. layer'[p] = IF ColumnAt(p) \in chunks' THEN Base[p] ELSE Air
        BY <1>0, <2>1 DEF ShownAsGenerated
    <2>4. ShownAsGenerated(p)'
        BY <1>0, <2>2, <2>3 DEF ShownAsGenerated, Untouched, Base
    <2> QED
        BY <1>1, <1>6, <2>4 DEF LoadAnvil
<1>7. CASE LoadSqlite
    <2>1. /\ reading # NotReading /\ reading' = NotReading /\ chunks' = chunks
          /\ layer' = [q \in Position |->
                IF q \in DOMAIN reading.blocks
                THEN P!Merge(reading.blocks[q], block_overrides[q]) ELSE layer[q]]
        BY <1>7 DEF LoadSqlite
    <2>2. CASE p \in DOMAIN reading.blocks
        <3>1. layer'[p] = Base[p] /\ ColumnAt(p) \in chunks
            BY <1>0, <2>1, <2>2, LoadedTyped DEF P!Merge, Untouched, ShownAsGenerated
        <3> QED
            BY <1>1, <1>3, <1>7, <2>1, <3>1 DEF LoadSqlite, ShownAsGenerated, Base
    <2>3. CASE p \notin DOMAIN reading.blocks
        BY <1>0, <1>1, <1>3, <1>7, <2>1, <2>3 DEF LoadSqlite, ShownAsGenerated
    <2> QED
        BY <2>2, <2>3
<1>8. CASE LoadFails
    BY <1>0, <1>1, <1>3, <1>8 DEF LoadFails, ShownAsGenerated
<1>9. CASE Manage
    <2>1. /\ chunks' \subseteq chunks /\ reading' = reading
          /\ layer' = [q \in Position |-> IF ColumnAt(q) \in chunks' THEN layer[q] ELSE Air]
        BY <1>9 DEF Manage
    <2>2. ShownAsGenerated(p)'
        BY <1>0, <2>1 DEF ShownAsGenerated
    <2> QED
        BY <1>1, <1>9, <2>2 DEF Manage
<1>10. ASSUME NEW q \in Position, NEW block \in Block, Executed(q, block)
       PROVE  Untouched(p)' /\ ShownAsGenerated(p)'
    <2>1. /\ layer' = [layer EXCEPT ![q] = block] /\ UNCHANGED <<chunks, reading>>
          /\ MayExecute(q, block) /\ P!RecordQueued(q, block)
        BY <1>10 DEF Executed, Execute
    <2>2. p # q
        BY <2>1, ExecuteSparesFixed
    <2>3. /\ edit'.pos # p
          /\ UNCHANGED <<anvil, block_overrides, batch, queue, builds>>
        BY <2>1, <2>2 DEF P!RecordQueued, P!disk, P!writerVars
    <2>4. layer'[p] = layer[p]
        BY <2>1, <2>2, LiveTypes
    <2> QED
        BY <1>0, <2>1, <2>3, <2>4 DEF Untouched, ShownAsGenerated
<1>11. CASE HandOver \/ Elsewhere
    <2>1. Untouched(p)'
        BY <1>0, <1>11, UntouchedElsewhere
    <2> QED
        BY <1>2, <1>11, <2>1 DEF HandOver, Elsewhere, liveVars
<1>12. ASSUME NEW w, BuildKept(w) PROVE Untouched(p)' /\ ShownAsGenerated(p)'
    <2>1. p \notin DOMAIN w
        BY <1>12, BuildSparesFixed
    <2>2. /\ block_overrides'[p] = block_overrides[p]
          /\ UNCHANGED <<anvil, batch, queue, caller, edit, chunks, reading>>
        BY <1>12, <2>1 DEF BuildKept, P!CommitOverrides
    <2>3. layer'[p] = layer[p]
        BY <1>12, <2>1 DEF BuildKept, Committed, Overlay
    <2>4. \A k \in Key : builds'[k] # NoBuild => p \notin DOMAIN builds'[k].original
        <3>1. PICK j \in Key :
                \/ builds' = [builds EXCEPT ![j] =
                    [state |-> "applied", applied |-> w, original |-> [q \in DOMAIN w |-> Air]]]
                \/ builds[j] # NoBuild /\ builds' = [builds EXCEPT ![j].state = "undone"]
            BY <1>12 DEF BuildKept, Built
        <3>2. builds \in [Key -> Store!BuildRow(Position) \cup {NoBuild}]
            BY LiveTypes DEF Store!TypeOK
        <3>3. ASSUME NEW k \in Key, k # j PROVE builds'[k] = builds[k]
            BY <3>1, <3>2, <3>3
        <3>4. \/ builds'[j].original = [q \in DOMAIN w |-> Air]
              \/ builds[j] # NoBuild /\ builds'[j].original = builds[j].original
            <4>1. CASE builds' = [builds EXCEPT ![j] =
                    [state |-> "applied", applied |-> w, original |-> [q \in DOMAIN w |-> Air]]]
                BY <3>2, <4>1
            <4>2. CASE builds[j] # NoBuild /\ builds' = [builds EXCEPT ![j].state = "undone"]
                <5>1. builds[j] \in Store!BuildRow(Position)
                    BY <3>2, <4>2
                <5>2. builds'[j] = [builds[j] EXCEPT !.state = "undone"]
                    BY <3>2, <4>2
                <5> QED
                    BY <4>2, <5>1, <5>2 DEF Store!BuildRow
            <4> QED
                BY <3>1, <4>1, <4>2
        <3>5. p \notin DOMAIN builds'[j].original
            BY <1>0, <2>1, <3>4 DEF Untouched
        <3> QED
            BY <1>0, <3>3, <3>5 DEF Untouched
    <2> QED
        BY <1>0, <2>2, <2>3, <2>4 DEF Untouched, ShownAsGenerated
<1>13. CASE Exit
    <2>1. Untouched(p)'
        BY <1>0, <1>13, UntouchedElsewhere
    <2>2. ShownAsGenerated(p)'
        BY <1>3, <1>13 DEF Exit, ShownAsGenerated
    <2> QED
        BY <2>1, <2>2
<1> QED
    BY <1>4, <1>5, <1>6, <1>7, <1>8, <1>9, <1>10, <1>11, <1>12, <1>13, LiveStepKinds

\* No edit of a player, a tool or a build, no load, flush, restart or undo changes
\* the lowest layer of the world or fills the protected spawn space, in the layer or
\* on disk (world_command.rs validate_world_command, build_service.rs).
THEOREM FoundationAndSpawnAreKept == Spec => []FoundationAndSpawnKept
<1>1. Init => FixedKept
    BY EmptySeq DEF Init, P!Init, FixedKept, Untouched, ShownAsGenerated, NotReading
<1>2. Live /\ FixedKept /\ [Next]_vars => FixedKept'
    BY FixedStep
<1>3. Live /\ FixedKept => FoundationAndSpawnKept
    <2> SUFFICES ASSUME FixedKept, NEW p \in Position, Fixed(p)
                 PROVE  Stored(p) = Base[p] /\ layer[p] \in {Base[p], Air}
                        /\ (ProtectedSpawn(p) => Base[p] = Air)
        BY DEF FoundationAndSpawnKept, Fixed
    <2> QED
        BY GeneratedBlocks DEF FixedKept, Untouched, ShownAsGenerated, Stored, P!Stored, P!Merge
<1> QED
    BY <1>1, <1>2, <1>3, LiveAlways, PTL DEF Spec

-----------------------------------------------------------------------------
(* What the world shows.                                                   *)

\* What the parts of Persistence's invariant say of a stored position.
LEMMA LatestIsStored ==
    ASSUME Live, Store!Receiving,
           NEW p \in Position \ (Store!Written(Store!InFlight) \cup raced \cup masked)
    PROVE  latest[p] = Store!Merge(anvil[p], block_overrides[p])
    BY LiveTypes DEF Store!Durable, Store!LatestStored, Store!Stored

\* The writer takes nothing new on its way, and writes nothing in Anvil or in the
\* history but what is on its way.
LEMMA WriterOnItsWay ==
    ASSUME Live, P!Writer, Store!Receiving'
    PROVE  /\ Store!Receiving
           /\ Store!Written(Store!InFlight)' \subseteq Store!Written(Store!InFlight)
           /\ raced' = raced /\ masked' \subseteq masked /\ latest' = latest
           /\ \A p \in Position \ Store!Written(Store!InFlight) : anvil'[p] = anvil[p]
<1>0. /\ Store!TypeOK /\ Store!Flow
      /\ batch \in Seq(Store!Edit) /\ queue \in Seq(Store!Edit)
    BY LiveTypes DEF Store!TypeOK, Store!Durable, Store!IInv
<1>1. CASE P!RecvEdit \/ P!DrainEdit
    <2>1. Store!InFlight' = Store!InFlight
        BY <1>0, <1>1, StoreConstants, Store!InFlightMoves
        DEF P!RecvEdit, Store!RecvEdit, P!DrainEdit, Store!DrainEdit, P!disk, Store!disk,
            P!callerVars, Store!callerVars, P!history, Store!history
    <2>2. Store!Written(Store!InFlight)' = Store!Written(Store!InFlight)
        BY <2>1 DEF Store!Written, Store!LastEdits
    <2> QED
        BY <1>1, <2>2 DEF P!RecvEdit, P!DrainEdit, P!disk, P!history, Store!Receiving
<1>2. ASSUME UNCHANGED <<anvil, latest, raced, masked, batch, queue>>,
             Store!Receiving, Store!Unlogged' = Store!Unlogged
      PROVE  /\ Store!Receiving
             /\ Store!Written(Store!InFlight)' \subseteq Store!Written(Store!InFlight)
             /\ raced' = raced /\ masked' \subseteq masked /\ latest' = latest
             /\ \A p \in Position \ Store!Written(Store!InFlight) : anvil'[p] = anvil[p]
    BY <1>2 DEF Store!InFlight, Store!Written, Store!LastEdits
<1>3. CASE P!TakeShutdown \/ P!BeginFlush
    BY <1>2, <1>3 DEF P!TakeShutdown, P!BeginFlush, P!disk, P!channel, P!history,
                      Store!Receiving, Store!Unlogged
<1>4. ASSUME NEW c, P!WriteColumn(c)
      PROVE  /\ Store!Receiving
             /\ Store!Written(Store!InFlight)' \subseteq Store!Written(Store!InFlight)
             /\ raced' = raced /\ masked' \subseteq masked /\ latest' = latest
             /\ \A p \in Position \ Store!Written(Store!InFlight) : anvil'[p] = anvil[p]
    <2>1. /\ writer = "anvil" /\ writer' # "record"
          /\ UNCHANGED <<batch, queue, raced, masked, latest>>
          /\ \A p \in Position \ Store!Written(batch) : anvil'[p] = anvil[p]
        BY <1>4, SameStore DEF P!WriteColumn, P!channel, P!history
    <2>2. Store!InFlight = batch \o queue /\ Store!InFlight' = Store!InFlight
        BY <2>1 DEF Store!InFlight, Store!Unlogged
    <2>3. Store!Written(batch) \subseteq Store!Written(Store!InFlight)
        BY <1>0, <2>2, StoreConstants, Store!FinalOfConcat
    <2>4. Store!Written(Store!InFlight)' = Store!Written(Store!InFlight)
        BY <2>2 DEF Store!Written, Store!LastEdits
    <2> QED
        BY <2>1, <2>3, <2>4 DEF Store!Receiving
<1>5. CASE P!FlushSqlite
    <2>1. Store!InFlight = batch \o queue /\ Store!InFlight' = queue
        <3>1. Store!FlushSqlite
            BY <1>5
            DEF P!FlushSqlite, Store!FlushSqlite, P!channel, Store!channel, P!callerVars,
                Store!callerVars, P!Written, Store!Written, P!LastEdits, Store!LastEdits,
                P!FinalBlock, Store!FinalBlock
        <3> QED
            BY <1>0, <3>1, StoreConstants, Store!InFlightMoves
    <2>2. Store!Written(queue) \subseteq Store!Written(Store!InFlight)
        BY <1>0, <2>1, StoreConstants, Store!FinalOfConcat
    <2>3. Store!Written(Store!InFlight)' = Store!Written(queue)
        BY <2>1 DEF Store!Written, Store!LastEdits
    <2>4. /\ writer = "sqlite" /\ UNCHANGED <<anvil, raced, latest>>
          /\ masked' \subseteq masked
        BY <1>5 DEF P!FlushSqlite
    <2> QED
        BY <2>2, <2>3, <2>4 DEF Store!Receiving
<1>6. CASE P!RecordFlushed
    <2>1. /\ writer = "record" /\ writer' # "record" /\ batch' = <<>>
          /\ UNCHANGED <<anvil, latest, raced, masked, queue>>
        BY <1>6 DEF P!RecordFlushed, P!disk, P!history
    <2>2. Store!InFlight' = Store!InFlight
        BY <2>1 DEF Store!InFlight, Store!Unlogged
    <2>3. Store!Written(Store!InFlight)' = Store!Written(Store!InFlight)
        BY <2>2 DEF Store!Written, Store!LastEdits
    <2> QED
        BY <2>1, <2>3 DEF Store!Receiving
<1> QED
    BY <1>1, <1>3, <1>4, <1>5, <1>6 DEF P!Writer

Seen == InStep /\ LiveIsLatestUnlessTainted

\* LiveIsLatestUnlessTainted for one position.
Current(p) ==
    \/ p \in tainted \/ ColumnAt(p) \notin chunks
    \/ p \in DOMAIN reading.blocks
    \/ caller = "sending" /\ edit.pos = p
    \/ layer[p] = latest[p]

\* Between two reads nothing is being loaded.
LEMMA NothingRead == NotReading.blocks = <<>> /\ DOMAIN NotReading.blocks = {}
    BY DEF NotReading

\* An edit and a build change layer and history together, or taint what they change.
LEMMA SeenAfterEdits ==
    ASSUME Live, Seen,
           \/ \E p \in Position, block \in Block : Executed(p, block)
           \/ HandOver
           \/ \E w : BuildKept(w)
    PROVE  Seen'
<1>0. /\ layer \in [Position -> Block] /\ latest \in [Position -> Block]
      /\ caller = "sending" => edit \in Store!Edit /\ layer[edit.pos] = edit.block
      /\ caller = "sending" => reading = NotReading
      /\ Store!Receiving => \A p \in Position : Current(p)
    BY LiveTypes, SameStore
    DEF Store!TypeOK, Live, Loading, Seen, InStep, LiveIsLatestUnlessTainted, Current
<1>1. ASSUME NEW q \in Position, NEW block \in Block, Executed(q, block)
      PROVE  Seen'
    <2>1. /\ layer' = [layer EXCEPT ![q] = block] /\ caller = "idle" /\ caller' = "sending"
          /\ edit' = [pos |-> q, block |-> block]
          /\ reading = NotReading
          /\ UNCHANGED <<chunks, reading, tainted, writer, latest>>
        BY <1>1 DEF Executed, Execute, P!RecordQueued, P!writerVars, P!history, Free
    <2>2. Store!Receiving' = Store!Receiving
        BY <2>1 DEF Store!Receiving
    <2>3. ASSUME NEW p \in Position, Store!Receiving PROVE Current(p)'
        BY <1>0, <2>1, <2>3, NothingRead DEF Current
    <2>4. layer'[q] = block
        BY <1>0, <2>1
    <2>5. InStep'
        BY <2>1, <2>4, NothingRead DEF InStep
    <2> QED
        BY <2>2, <2>3, <2>5, SameStore DEF Seen, LiveIsLatestUnlessTainted, Current,
            P!Receiving, Store!Receiving
<1>2. CASE HandOver /\ P!SendAccepted
    <2>1. /\ caller = "sending" /\ caller' = "idle" /\ Store!Receiving
          /\ latest' = [latest EXCEPT ![edit.pos] = edit.block]
          /\ tainted' = tainted \ {edit.pos}
          /\ UNCHANGED <<layer, chunks, reading>>
        BY <1>2, SameStore DEF HandOver, P!SendAccepted
    <2>2. ASSUME NEW p \in Position PROVE Current(p)'
        <3>1. CASE p = edit.pos
            BY <1>0, <2>1, <3>1 DEF Current
        <3>2. CASE p # edit.pos
            BY <1>0, <2>1, <3>2 DEF Current
        <3> QED
            BY <3>1, <3>2
    <2>3. InStep' /\ reading' = NotReading
        BY <1>0, <2>1, NothingRead DEF InStep
    <2> QED
        BY <2>2, <2>3 DEF Seen, LiveIsLatestUnlessTainted, Current
<1>3. CASE HandOver /\ P!SendRefused
    <2>1. /\ caller = "sending" /\ caller' = "idle" /\ ~Store!Receiving /\ writer' = writer
          /\ UNCHANGED <<layer, chunks, reading>>
        BY <1>3, SameStore DEF HandOver, P!SendRefused, P!writerVars
    <2>2. ~Store!Receiving' /\ ~P!Receiving'
        BY <2>1 DEF Store!Receiving, P!Receiving
    <2> QED
        BY <1>0, <2>1, <2>2 DEF Seen, InStep, LiveIsLatestUnlessTainted
<1>4. ASSUME NEW w, BuildKept(w) PROVE Seen'
    <2>1. /\ w \in [DOMAIN w -> Block] /\ DOMAIN w \subseteq Position
          /\ latest' = [p \in Position |-> IF p \in DOMAIN w THEN w[p] ELSE latest[p]]
          /\ caller = "idle" /\ reading = NotReading
          /\ UNCHANGED <<writer, caller, edit, chunks, reading>>
          /\ \/ layer' = Overlay(w) /\ tainted' = tainted \ DOMAIN w
             \/ layer' = layer /\ tainted' = tainted \cup DOMAIN w
        BY <1>4 DEF BuildKept, Committed, P!CommitOverrides, Ready, Free
    <2>2. Store!Receiving' = Store!Receiving
        BY <2>1 DEF Store!Receiving
    <2>3. ASSUME NEW p \in Position, Store!Receiving PROVE Current(p)'
        <3>1. CASE p \in DOMAIN w
            BY <1>0, <2>1, <2>3, <3>1 DEF Current, Overlay
        <3>2. CASE p \notin DOMAIN w
            BY <1>0, <2>1, <2>3, <3>2 DEF Current, Overlay
        <3> QED
            BY <3>1, <3>2
    <2>4. InStep'
        BY <2>1, NothingRead DEF InStep
    <2> QED
        BY <2>2, <2>3, <2>4 DEF Seen, LiveIsLatestUnlessTainted, Current,
            P!Receiving, Store!Receiving
<1> QED
    BY <1>1, <1>2, <1>3, <1>4 DEF HandOver, P!HandOver

\* A column being loaded becomes current when its second read is laid over it, unless
\* something was on its way there.
LEMMA SeenAfterLoads ==
    ASSUME Live, Seen, LoadAnvil \/ LoadSqlite \/ LoadFails \/ Manage
    PROVE  Seen'
<1>0. /\ Store!Receiving => \A p \in Position : Current(p)
      /\ caller = "idle"
    BY SameStore DEF Seen, LiveIsLatestUnlessTainted, Current, Live, Loading, LoadAnvil,
                     LoadSqlite, LoadFails, Manage, Ready, Free
<1>1. /\ UNCHANGED <<caller, edit, latest, writer>>
      /\ Store!Receiving' = Store!Receiving
      /\ caller' = "idle"
    BY <1>0 DEF LoadAnvil, LoadSqlite, LoadFails, Manage, storeVars, Store!Receiving
<1>2. ASSUME Store!Receiving => \A p \in Position : Current(p)',
             Store!Receiving => \A p \in (DOMAIN reading.blocks)' \ tainted' :
                    /\ p \notin (Store!Written(Store!InFlight))' \cup raced' \cup masked'
                    /\ reading'.blocks[p] = anvil'[p]
      PROVE  Seen'
    BY <1>1, <1>2, SameStore DEF Seen, InStep, LiveIsLatestUnlessTainted, Current,
        P!Receiving, Store!Receiving
<1>3. CASE LoadAnvil
    <2>1. PICK column \in Column \ chunks :
            /\ chunks' = chunks \cup {column}
            /\ layer' = [p \in Position |->
                            IF p \in {q \in Position : ColumnAt(q) = column}
                            THEN Base[p] ELSE layer[p]]
            /\ reading' = [column |-> column,
                           blocks |-> [p \in {q \in Position : ColumnAt(q) = column} |-> anvil[p]]]
            /\ tainted' = (tainted \ {q \in Position : ColumnAt(q) = column})
                  \cup ({q \in Position : ColumnAt(q) = column}
                            \cap (P!Written(P!InFlight) \cup raced \cup masked))
        BY <1>3, AnvilLoads
    <2>2. reading = NotReading /\ UNCHANGED <<anvil, raced, masked, writer, batch, queue>>
        BY <1>3 DEF LoadAnvil, Free, storeVars
    <2>3. /\ Store!Written(Store!InFlight)' = Store!Written(Store!InFlight)
          /\ P!Written(P!InFlight) = Store!Written(Store!InFlight)
        BY <2>2, SameStore DEF Store!InFlight, Store!Unlogged, Store!Written, Store!LastEdits
    <2>4. DOMAIN reading'.blocks = {q \in Position : ColumnAt(q) = column}
        BY <2>1
    <2>5. ASSUME NEW p \in Position, Store!Receiving PROVE Current(p)'
        <3>1. CASE ColumnAt(p) = column
            BY <2>4, <3>1 DEF Current
        <3>2. CASE ColumnAt(p) # column
            BY <1>0, <1>1, <2>1, <2>2, <2>5, <3>2, NothingRead DEF Current
        <3> QED
            BY <3>1, <3>2
    <2>6. ASSUME NEW p \in (DOMAIN reading.blocks)' \ tainted'
          PROVE  /\ p \notin (Store!Written(Store!InFlight))' \cup raced' \cup masked'
                 /\ reading'.blocks[p] = anvil'[p]
        <3>1. p \in Position /\ ColumnAt(p) = column
            BY <2>4
        <3>2. reading'.blocks[p] = anvil[p]
            BY <2>1, <3>1
        <3> QED
            BY <2>1, <2>2, <2>3, <3>1, <3>2
    <2> QED
        BY <1>2, <2>5, <2>6
<1>4. CASE LoadSqlite
    <2>1. /\ reading # NotReading /\ reading' = NotReading /\ UNCHANGED <<chunks, tainted>>
          /\ layer' = [q \in Position |->
                IF q \in DOMAIN reading.blocks
                THEN P!Merge(reading.blocks[q], block_overrides[q]) ELSE layer[q]]
        BY <1>4 DEF LoadSqlite
    <2>2. ASSUME NEW p \in Position, Store!Receiving PROVE Current(p)'
        <3>1. CASE p \in tainted
            BY <2>1, <3>1 DEF Current
        <3>2. CASE p \in DOMAIN reading.blocks \ tainted
            <4>1. /\ p \notin Store!Written(Store!InFlight) \cup raced \cup masked
                  /\ reading.blocks[p] = anvil[p]
                BY <2>2, <3>2 DEF Seen, InStep
            <4>2. layer'[p] = Store!Merge(anvil[p], block_overrides[p])
                BY <2>1, <3>2, <4>1, SameStore
            <4>3. layer'[p] = latest[p]
                BY <2>2, <4>1, <4>2, LatestIsStored
            <4> QED
                BY <1>1, <4>3 DEF Current
        <3>3. CASE p \notin DOMAIN reading.blocks
            BY <1>0, <1>1, <2>1, <2>2, <3>3 DEF Current
        <3> QED
            BY <3>1, <3>2, <3>3
    <2> QED
        BY <1>2, <2>1, <2>2, NothingRead
<1>5. CASE LoadFails
    <2>1. /\ reading' = NotReading /\ UNCHANGED <<layer, chunks>>
          /\ tainted' = tainted \cup DOMAIN reading.blocks
        BY <1>5 DEF LoadFails
    <2>2. ASSUME NEW p \in Position, Store!Receiving PROVE Current(p)'
        BY <1>0, <1>1, <2>1, <2>2 DEF Current
    <2> QED
        BY <1>2, <2>1, <2>2, NothingRead
<1>6. CASE Manage
    <2>1. /\ reading = NotReading /\ reading' = reading /\ chunks' \subseteq chunks
          /\ layer' = [p \in Position |-> IF ColumnAt(p) \in chunks' THEN layer[p] ELSE Air]
          /\ tainted' = {p \in tainted : ColumnAt(p) \in chunks'}
        BY <1>6 DEF Manage, Ready, Free
    <2>2. ASSUME NEW p \in Position, Store!Receiving PROVE Current(p)'
        BY <1>0, <1>1, <2>1, <2>2, NothingRead DEF Current
    <2> QED
        BY <1>2, <2>1, <2>2, NothingRead
<1> QED
    BY <1>3, <1>4, <1>5, <1>6

\* No step makes an untainted block another than the last one written there.
LEMMA SeenStep ==
    ASSUME Live, Seen, [Next]_vars
    PROVE  Seen'
<1>0. Store!Receiving => \A p \in Position : Current(p)
    BY SameStore DEF Seen, LiveIsLatestUnlessTainted, Current
<1>1. ASSUME UNCHANGED <<storeVars, layer, chunks, reading, tainted>>
      PROVE  Seen'
    BY <1>1 DEF Seen, InStep, LiveIsLatestUnlessTainted, storeVars, P!Receiving,
        Store!Receiving, Store!InFlight, Store!Unlogged, Store!Written, Store!LastEdits
<1>2. ASSUME NEW request, NEW columns, Begin(request, columns) PROVE Seen'
    BY <1>1, <1>2 DEF Begin
<1>3. CASE Answered /\ UNCHANGED <<storeVars, layer, chunks, reading, loaded, tainted, bare>>
    BY <1>1, <1>3
<1>4. CASE LoadAnvil \/ LoadSqlite \/ LoadFails \/ Manage
    BY <1>4, SeenAfterLoads
<1>5. CASE \/ \E p \in Position, block \in Block : Executed(p, block)
           \/ HandOver
           \/ \E w : BuildKept(w)
    BY <1>5, SeenAfterEdits
<1>6. CASE Elsewhere /\ UNCHANGED vars
    BY <1>1, <1>6 DEF vars, liveVars
<1>7. CASE Elsewhere /\ P!Writer
    <2>1. UNCHANGED liveVars /\ UNCHANGED <<caller, edit>>
        BY <1>7, WriterLeavesCaller DEF Elsewhere
    <2>2. SUFFICES ASSUME Store!Receiving' PROVE Seen'
        BY <2>1, SameStore DEF Seen, InStep, LiveIsLatestUnlessTainted, liveVars,
            P!Receiving, Store!Receiving
    <2>3. /\ Store!Receiving
          /\ Store!Written(Store!InFlight)' \subseteq Store!Written(Store!InFlight)
          /\ raced' = raced /\ masked' \subseteq masked /\ latest' = latest
          /\ \A p \in Position \ Store!Written(Store!InFlight) : anvil'[p] = anvil[p]
        BY <1>7, <2>2, WriterOnItsWay
    <2>4. DOMAIN reading.blocks \subseteq Position
        BY NothingRead DEF Live, Loading
    <2>5. InStep'
        BY <2>1, <2>3, <2>4 DEF Seen, InStep, liveVars
    <2> QED
        BY <1>0, <2>1, <2>3, <2>5 DEF Seen, LiveIsLatestUnlessTainted, Current, liveVars
<1>8. CASE Elsewhere /\ P!FailFlush
    <2>1. UNCHANGED liveVars /\ UNCHANGED <<caller, edit>> /\ writer' = "failed"
        BY <1>8, WriterLeavesCaller DEF Elsewhere, P!FailFlush
    <2> QED
        BY <2>1 DEF Seen, InStep, LiveIsLatestUnlessTainted, liveVars, P!Receiving,
            Store!Receiving
<1>9. CASE Elsewhere /\ P!Open
    <2>1. /\ UNCHANGED liveVars /\ caller = "down" /\ caller' = "idle"
        BY <1>9 DEF Elsewhere, P!Open
    <2>2. chunks = {} /\ reading = NotReading
        BY <2>1 DEF Seen, InStep, Live, Loading
    <2> QED
        BY <2>1, <2>2, NothingRead DEF Seen, InStep, LiveIsLatestUnlessTainted, liveVars
<1>10. CASE Elsewhere /\ P!BeginShutdown /\ Idle
    <2>1. /\ UNCHANGED liveVars /\ caller = "idle" /\ caller' = "joining"
          /\ reading = NotReading /\ UNCHANGED <<writer, latest>>
        BY <1>10 DEF Elsewhere, P!BeginShutdown, Idle, Free, P!writerVars, P!history
    <2>2. Store!Receiving' = Store!Receiving
        BY <2>1 DEF Store!Receiving
    <2> QED
        BY <1>0, <2>1, <2>2, NothingRead
        DEF Seen, InStep, LiveIsLatestUnlessTainted, Current, liveVars, P!Receiving,
            Store!Receiving
<1>11. CASE Exit
    <2>1. /\ caller' = "down" /\ chunks' = {} /\ reading' = NotReading
        BY <1>11 DEF Exit, P!JoinWriter, P!Crash
    <2> QED
        BY <2>1, NothingRead DEF Seen, InStep, LiveIsLatestUnlessTainted
<1>12. CASE Elsewhere
    BY <1>6, <1>7, <1>8, <1>9, <1>10, <1>12 DEF Elsewhere
<1> QED
    BY <1>2, <1>3, <1>4, <1>5, <1>11, <1>12, LiveStepKinds

\* While the writer lives, a block of the live world is what the last accepted edit
\* or committed build wrote there, but where its column was loaded with an edit in
\* flight, a read failed, or a build raced an edit or masked one: nothing else makes
\* the world and what will be stored part (server.rs, persistence.rs load_chunk).
THEOREM LiveIsLatest == Spec => []LiveIsLatestUnlessTainted
<1>1. Init => Seen
    BY NothingRead
    DEF Init, P!Init, Seen, InStep, LiveIsLatestUnlessTainted, P!Receiving, Store!Receiving
<1>2. Live /\ Seen /\ [Next]_vars => Seen'
    BY SeenStep
<1>3. Seen => LiveIsLatestUnlessTainted
    BY DEF Seen
<1> QED
    BY <1>1, <1>2, <1>3, LiveAlways, PTL DEF Spec

===============================================================================
