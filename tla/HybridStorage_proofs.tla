------------------------- MODULE HybridStorage_proofs -------------------------
(***************************************************************************)
(* Proofs about HybridStorage, for any columns, positions, blocks, saves   *)
(* and versions, with the server, the writer and a backup going on at      *)
(* once: what opening a save does to its versions; that the region files   *)
(* are the stored blocks Persistence speaks of; and what a backup taken    *)
(* beside the writer holds.                                                *)
(***************************************************************************)
EXTENDS HybridStorage, SequenceTheorems, FiniteSetTheorems, WellFoundedInduction, TLAPS

\* What is proved of Persistence, for the store this storage is.
Store == INSTANCE Persistence_proofs WITH
        Pos <- Position, anvil <- Held(files), unreadable <- NoHeader(files),
        writer <- IF writer = "anvil" /\ todo = {} THEN "sqlite" ELSE writer

\* Past the check of the versions a file is whole, and not newer; one that carries
\* this release's schema has its row of the history.
Upgrading ==
    /\ metadata \in Version \cup {NoRow}
    /\ migrations \in BOOLEAN
    /\ opening \in {"stamp", "ready"} => Whole /\ ~Newer
    /\ metadata # NoRow /\ metadata.schema = SchemaVersion => migrations
    /\ StampedSaveIsWhole

\* Every step of the server is one of opening its save, closes it, or leaves the
\* schema alone.
LEMMA SchemaSteps ==
    ASSUME [Next]_vars
    PROVE  SchemaStep \/ CloseDatabase \/ UNCHANGED schemaVars
    BY DEF Next, vars, schemaVars, OpenDatabase, OpenRuntime, Crash, Leave, InMemory,
           OpenRegion, WriteHeader, WriteChunk, FinishRegion, writerHolds, FailFlush,
           CopySqlite, ListRegions, CopyRegion, LoseRegion, RecordBackup

\* A save of any release begins so.
LEMMA UpgradingInit == Init => Upgrading
    BY SavesAssumption DEF Init, SchemaInit, Upgrading, StampedSaveIsWhole, Whole, Current

\* No step of an upgrade, and no interruption of it, ends it.
LEMMA UpgradingStep ==
    ASSUME Upgrading, [Next]_vars
    PROVE  Upgrading'
<1>1. CASE UNCHANGED schemaVars
    BY <1>1 DEF schemaVars, Upgrading, StampedSaveIsWhole, Whole, Newer
<1>2. CASE CloseDatabase
    BY <1>2 DEF CloseDatabase, Upgrading, StampedSaveIsWhole, Whole
<1>3. CASE CreateTable
    <2>1. PICK t \in TableSet : t \notin tables
        BY <1>3 DEF CreateTable, IsNext
    <2>2. ~Whole /\ metadata # Current
        BY <2>1 DEF Whole, Upgrading, StampedSaveIsWhole
    <2> QED
        BY <1>3, <2>2 DEF CreateTable, Upgrading, StampedSaveIsWhole
<1>4. CASE EnsureColumn
    <2>1. PICK c \in ColumnSet : c \notin columns
        BY <1>4 DEF EnsureColumn, IsNext
    <2>2. ~Whole /\ metadata # Current
        BY <2>1 DEF Whole, Upgrading, StampedSaveIsWhole
    <2> QED
        BY <1>4, <2>2 DEF EnsureColumn, Upgrading, StampedSaveIsWhole
<1>5. CASE CheckVersions
    <2>1. /\ tables = TableSet /\ columns = ColumnSet
          /\ UNCHANGED <<tables, columns, metadata>>
        BY <1>5 DEF CheckVersions
    <2>2. CASE Newer
        BY <1>5, <2>1, <2>2 DEF CheckVersions, Upgrading, StampedSaveIsWhole, Whole
    <2>3. CASE ~Newer
        <3>1. /\ opening' = "stamp"
              /\ migrations' = (migrations \/ metadata = NoRow \/ metadata.schema < SchemaVersion)
            BY <1>5, <2>3 DEF CheckVersions
        <3>2. metadata # NoRow => /\ metadata.schema \in Nat /\ metadata.schema <= SchemaVersion
                                  /\ SchemaVersion \in Nat
            BY <2>3, SavesAssumption DEF Newer, Upgrading, Version, Current
        <3>3. \/ metadata = NoRow \/ metadata.schema < SchemaVersion
              \/ metadata # NoRow /\ metadata.schema = SchemaVersion
            BY <3>2
        <3>4. migrations \/ metadata = NoRow \/ metadata.schema < SchemaVersion
            BY <3>3 DEF Upgrading
        <3>5. migrations' = TRUE
            BY <3>1, <3>4
        <3> QED
            BY <2>1, <2>3, <3>1, <3>5 DEF Upgrading, StampedSaveIsWhole, Whole, Newer
    <2> QED
        BY <2>2, <2>3
<1>6. CASE Stamp
    <2>1. /\ Whole /\ metadata' = Current /\ UNCHANGED <<tables, columns, migrations>>
        BY <1>6 DEF Stamp, Upgrading
    <2>2. SchemaVersion \in Nat /\ SaveFormatVersion \in Nat
        BY SavesAssumption DEF Version, Current
    <2>3. ~Newer'
        BY <2>1, <2>2 DEF Newer, Current
    <2> QED
        BY <2>1, <2>3, SavesAssumption DEF Upgrading, StampedSaveIsWhole, Whole
<1> QED
    BY <1>1, <1>2, <1>3, <1>4, <1>5, <1>6, SchemaSteps DEF SchemaStep

\* A file stamped with this release's versions has every table, every added column
\* and its row of the history, however often its upgrade was interrupted
\* (persistence.rs:1268-1470 initialize_schema).
THEOREM StampedIsWhole == Spec => []StampedSaveIsWhole
<1>1. Upgrading => StampedSaveIsWhole
    BY DEF Upgrading
<1> QED
    BY <1>1, UpgradingInit, UpgradingStep, PTL DEF Spec

\* No step lowers a version that a file carries (persistence.rs:1407-1420).
THEOREM NoVersionFalls == Spec => VersionsNeverFall
<1>1. ASSUME Upgrading, [Next]_vars
      PROVE  [metadata # NoRow => /\ metadata' # NoRow
                                  /\ metadata'.schema >= metadata.schema
                                  /\ metadata'.format >= metadata.format]_metadata
    <2>1. CASE metadata' = metadata
        BY <2>1
    <2>2. CASE Stamp
        <3> SUFFICES ASSUME metadata # NoRow
                     PROVE  /\ Current # NoRow /\ Current.schema >= metadata.schema
                            /\ Current.format >= metadata.format
            BY <2>2 DEF Stamp
        <3>1. /\ metadata \in Version /\ Current \in Version /\ Current # NoRow
              /\ ~(metadata.schema > SchemaVersion) /\ ~(metadata.format > SaveFormatVersion)
            BY <1>1, <2>2, SavesAssumption DEF Stamp, Upgrading, Newer
        <3> QED
            BY <3>1 DEF Version, Current
    <2> QED
        BY <1>1, <2>1, <2>2, SchemaSteps
        DEF SchemaStep, CreateTable, EnsureColumn, CheckVersions, CloseDatabase, schemaVars
<1> QED
    BY <1>1, UpgradingInit, UpgradingStep, PTL DEF Spec, VersionsNeverFall

-----------------------------------------------------------------------------
(* Cells, sections, columns and regions.                                   *)

\* Division with remainder, as Integers defines it.
LEMMA Division ==
    ASSUME NEW a \in Int, NEW d \in Nat \ {0}
    PROVE  /\ a \div d \in Int /\ a % d \in 0..d - 1
           /\ a = d * (a \div d) + (a % d)
    OBVIOUS

\* There is one quotient and one remainder.
LEMMA DivisionIsUnique ==
    ASSUME NEW q \in Int, NEW d \in Nat \ {0}, NEW r \in 0..d - 1
    PROVE  (d * q + r) \div d = q /\ (d * q + r) % d = r
<1> DEFINE a == d * q + r
           k == a \div d
           m == a % d
<1>1. a \in Int
    OBVIOUS
<1>2. k \in Int /\ m \in 0..d - 1 /\ a = d * k + m
    BY <1>1, Division
<1>3. a = d * q + r
    OBVIOUS
<1> HIDE DEF a, k, m
<1>4. ASSUME k >= q + 1 PROVE FALSE
    <2>1. d * k >= d * (q + 1) /\ d * (q + 1) = d * q + d
        BY <1>2, <1>4
    <2> QED
        BY <1>2, <1>3, <2>1
<1>5. ASSUME q >= k + 1 PROVE FALSE
    <2>1. d * q >= d * (k + 1) /\ d * (k + 1) = d * k + d
        BY <1>2, <1>5
    <2> QED
        BY <1>2, <1>3, <2>1
<1>6. k = q
    BY <1>2, <1>4, <1>5
<1>7. m = r
    BY <1>2, <1>3, <1>6
<1> QED
    BY <1>6, <1>7 DEF k, m, a

\* A quotient does not fall when the dividend grows.
LEMMA DivisionIsMonotone ==
    ASSUME NEW a \in Int, NEW b \in Int, NEW d \in Nat \ {0}, a <= b
    PROVE  a \div d <= b \div d
<1> DEFINE q == a \div d
           r == b \div d
<1>1. /\ q \in Int /\ a % d \in 0..d - 1 /\ a = d * q + (a % d)
      /\ r \in Int /\ b % d \in 0..d - 1 /\ b = d * r + (b % d)
    BY Division
<1> HIDE DEF q, r
<1>2. SUFFICES ASSUME q >= r + 1 PROVE FALSE
    BY <1>1 DEF q, r
<1>3. d * q >= d * (r + 1)
    BY <1>1, <1>2
<1>4. d * (r + 1) = d * r + d
    BY <1>1
<1> QED
    BY <1>1, <1>3, <1>4

\* The coordinates of a position, by section and cell.
LEMMA Coordinates ==
    ASSUME NEW p \in Position
    PROVE  /\ ChunkSize \in Nat \ {0} /\ RegionSize \in Nat \ {0}
           /\ p = <<p[1], p[2], p[3]>>
           /\ \A i \in 1..3 :
                /\ p[i] \in Int
                /\ p[i] \div ChunkSize \in Int /\ p[i] % ChunkSize \in 0..ChunkSize - 1
                /\ p[i] = ChunkSize * (p[i] \div ChunkSize) + (p[i] % ChunkSize)
<1>1. ChunkSize \in Nat \ {0} /\ RegionSize \in Nat \ {0}
    BY WorldAssumption
<1>2. p = <<p[1], p[2], p[3]>> /\ p[1] \in Int /\ p[2] \in Int /\ p[3] \in Int
    BY DEF Position
<1>3. \A i \in 1..3 : p[i] \in Int
    BY <1>2
<1> QED
    BY <1>1, <1>2, <1>3, Division

\* Every position of the world is in one of its columns and sections.
LEMMA ColumnInWorld ==
    ASSUME NEW p \in Position
    PROVE  /\ ColumnAt(p) \in Column /\ p[2] \div ChunkSize \in SectionYs
           /\ Column \subseteq Int \X Int /\ SectionYs \subseteq Int
<1>1. /\ p[1] \in Int /\ MinX <= p[1] /\ p[1] <= MaxX
      /\ p[2] \in Int /\ MinY <= p[2] /\ p[2] <= MaxY
      /\ p[3] \in Int /\ MinZ <= p[3] /\ p[3] <= MaxZ
      /\ MinX \in Int /\ MaxX \in Int /\ MinY \in Int /\ MaxY \in Int
      /\ MinZ \in Int /\ MaxZ \in Int /\ ChunkSize \in Nat \ {0}
    BY WorldAssumption DEF Position
<1>2. /\ MinX \div ChunkSize <= p[1] \div ChunkSize
      /\ p[1] \div ChunkSize <= MaxX \div ChunkSize
      /\ MinY \div ChunkSize <= p[2] \div ChunkSize
      /\ p[2] \div ChunkSize <= MaxY \div ChunkSize
      /\ MinZ \div ChunkSize <= p[3] \div ChunkSize
      /\ p[3] \div ChunkSize <= MaxZ \div ChunkSize
    BY <1>1, DivisionIsMonotone
<1>3. /\ p[1] \div ChunkSize \in Int /\ p[2] \div ChunkSize \in Int
      /\ p[3] \div ChunkSize \in Int
      /\ MinX \div ChunkSize \in Int /\ MaxX \div ChunkSize \in Int
      /\ MinY \div ChunkSize \in Int /\ MaxY \div ChunkSize \in Int
      /\ MinZ \div ChunkSize \in Int /\ MaxZ \div ChunkSize \in Int
    BY <1>1, Division
<1>4. Column \subseteq Int \X Int /\ SectionYs \subseteq Int
    BY <1>3 DEF Column, SectionYs
<1>5. ColumnAt(p) \in Column
    BY <1>2, <1>3 DEF ColumnAt, Column
<1>6. p[2] \div ChunkSize \in SectionYs
    BY <1>2, <1>3 DEF SectionYs
<1> QED
    BY <1>4, <1>5, <1>6

\* The generated world has a block everywhere.
LEMMA GeneratedBlocks == \A p \in Position : BaseBlock(p) \in Block
    BY DEF BaseBlock, Block

\* A cell's number reads back as its three coordinates within the section.
LEMMA CellReadsBack ==
    ASSUME NEW p \in Position
    PROVE  /\ CellOf(p) \in Cells
           /\ CellPosition(ColumnAt(p), p[2] \div ChunkSize, CellOf(p)) = p
<1> DEFINE n == ChunkSize
           x == p[1] % n
           y == p[2] % n
           z == p[3] % n
           above == y * n + z
           i == above * n + x
<1>1. /\ n \in Nat \ {0} /\ x \in 0..n - 1 /\ y \in 0..n - 1 /\ z \in 0..n - 1
      /\ p = <<p[1], p[2], p[3]>>
      /\ p[1] = n * (p[1] \div n) + x /\ p[2] = n * (p[2] \div n) + y
      /\ p[3] = n * (p[3] \div n) + z
      /\ p[1] \div n \in Int /\ p[2] \div n \in Int /\ p[3] \div n \in Int
    BY Coordinates
<1>2. CellOf(p) = i
    BY DEF CellOf
<1> HIDE DEF n, x, y, z
<1>3. above \in Nat /\ above = n * y + z
    BY <1>1
<1>4. above \div n = y /\ above % n = z
    BY <1>1, <1>3, DivisionIsUnique
<1>5. above <= n * n - 1
    <2>1. y * n <= (n - 1) * n
        BY <1>1
    <2>2. (n - 1) * n = n * n - n
        BY <1>1
    <2> QED
        BY <1>1, <2>1, <2>2
<1> HIDE DEF above
<1>6. i = n * above + x
    BY <1>1, <1>3
<1>7. i \div n = above /\ i % n = x
    BY <1>1, <1>3, <1>6, DivisionIsUnique
<1>8. i \in 0..n * n * n - 1
    <2>1. above * n <= (n * n - 1) * n
        BY <1>1, <1>3, <1>5
    <2>2. (n * n - 1) * n = n * n * n - n
        BY <1>1
    <2>3. above * n \in Nat /\ n * n * n \in Nat
        BY <1>1, <1>3
    <2> QED
        BY <1>1, <2>1, <2>2, <2>3
<1>9. i \div (n * n) = y
    <2>1. z * n + x \in 0..n * n - 1
        <3>1. z * n <= (n - 1) * n
            BY <1>1
        <3>2. (n - 1) * n = n * n - n
            BY <1>1
        <3>3. z * n \in Nat
            BY <1>1
        <3> QED
            BY <1>1, <3>1, <3>2, <3>3
    <2>2. i = (n * n) * y + (z * n + x)
        <3>1. above * n = (n * y + z) * n
            BY <1>3
        <3>2. (n * y + z) * n = (n * n) * y + z * n
            BY <1>1
        <3> QED
            BY <1>1, <3>1, <3>2
    <2>3. n * n \in Nat \ {0} /\ y \in Int
        BY <1>1
    <2> HIDE DEF i
    <2> QED
        BY <2>1, <2>2, <2>3, DivisionIsUnique
<1> HIDE DEF i
<1>10. /\ CellPosition(ColumnAt(p), p[2] \div n, i)
            = <<(p[1] \div n) * n + x, (p[2] \div n) * n + y, (p[3] \div n) * n + z>>
    BY <1>4, <1>7, <1>9 DEF CellPosition, ColumnAt, n
<1>11. /\ (p[1] \div n) * n + x = p[1] /\ (p[2] \div n) * n + y = p[2]
       /\ (p[3] \div n) * n + z = p[3]
    BY <1>1
<1>12. CellPosition(ColumnAt(p), p[2] \div n, i) = p
    BY <1>1, <1>10, <1>11
<1> QED
    BY <1>2, <1>8, <1>12 DEF Cells, n

\* The positions of a section are those of the column at its height.
LEMMA SectionHolds ==
    ASSUME NEW c \in Int \X Int, NEW y \in Int
    PROVE  \A p : p \in SectionPositions(c, y) <=>
                    /\ p \in Position /\ ColumnAt(p) = c
                    /\ p[2] \div ChunkSize = y
<1> DEFINE n == ChunkSize
<1>1. n \in Nat \ {0} /\ n * n \in Nat \ {0}
    BY WorldAssumption
<1>2. ASSUME NEW p \in Position, ColumnAt(p) = c, p[2] \div ChunkSize = y
      PROVE  p \in SectionPositions(c, y)
    BY <1>2, CellReadsBack DEF SectionPositions, InBounds
<1>3. ASSUME NEW i \in Cells
      PROVE  /\ ColumnAt(CellPosition(c, y, i)) = c
             /\ CellPosition(c, y, i)[2] \div n = y
    <2>1. i \in Int /\ i >= 0 /\ i < n * n * n
        BY <1>1 DEF Cells, n
    <2> HIDE DEF n
    <2>2. i % n \in 0..n - 1 /\ i \div n \in Int
        BY <1>1, <2>1, Division
    <2>3. (i \div n) % n \in 0..n - 1
        BY <1>1, <2>2, Division
    <2>4. i \div (n * n) \in 0..n - 1
        <3> DEFINE q == i \div (n * n)
                   r == i % (n * n)
        <3>1. q \in Int /\ r \in 0..n * n - 1 /\ i = (n * n) * q + r
            BY <1>1, <2>1, Division
        <3> HIDE DEF q, r
        <3>2. ASSUME q >= n PROVE FALSE
            <4>1. (n * n) * q >= (n * n) * n
                BY <1>1, <3>1, <3>2
            <4> QED
                BY <1>1, <2>1, <3>1, <4>1
        <3>3. ASSUME q <= -1 PROVE FALSE
            <4>1. (n * n) * q <= (n * n) * (-1)
                BY <1>1, <3>1, <3>3
            <4> QED
                BY <1>1, <2>1, <3>1, <4>1
        <3>4. q \in 0..n - 1
            BY <1>1, <3>1, <3>2, <3>3
        <3> QED
            BY <3>4 DEF q
    <2> DEFINE x == i % n
               h == i \div (n * n)
               z == (i \div n) % n
    <2>5. CellPosition(c, y, i) = <<c[1] * n + x, y * n + h, c[2] * n + z>>
        BY DEF CellPosition, n
    <2>6. x \in 0..n - 1 /\ h \in 0..n - 1 /\ z \in 0..n - 1
        BY <2>2, <2>3, <2>4
    <2> HIDE DEF x, h, z
    <2>7. /\ c[1] * n + x = n * c[1] + x /\ y * n + h = n * y + h
          /\ c[2] * n + z = n * c[2] + z /\ c = <<c[1], c[2]>>
          /\ c[1] \in Int /\ c[2] \in Int
        BY <1>1, <2>6
    <2>8. /\ (n * c[1] + x) \div n = c[1] /\ (n * y + h) \div n = y
          /\ (n * c[2] + z) \div n = c[2]
        BY <1>1, <2>6, <2>7, DivisionIsUnique
    <2> QED
        BY <2>5, <2>7, <2>8 DEF ColumnAt, n
<1> QED
    BY <1>2, <1>3 DEF SectionPositions, InBounds

\* A region has one place for each of its columns.
LEMMA SlotIsUnique ==
    ASSUME NEW c \in Int \X Int, NEW d \in Int \X Int,
           RegionOf(c) = RegionOf(d), Slot(c) = Slot(d)
    PROVE  c = d
<1>1. /\ c = <<c[1], c[2]>> /\ d = <<d[1], d[2]>>
      /\ c[1] \in Int /\ c[2] \in Int /\ d[1] \in Int /\ d[2] \in Int
      /\ RegionSize \in Nat \ {0}
    BY WorldAssumption
<1>2. /\ c[1] \div RegionSize = d[1] \div RegionSize
      /\ c[2] \div RegionSize = d[2] \div RegionSize
      /\ c[1] % RegionSize = d[1] % RegionSize
      /\ c[2] % RegionSize = d[2] % RegionSize
    BY DEF RegionOf, Slot
<1>3. /\ c[1] = RegionSize * (c[1] \div RegionSize) + (c[1] % RegionSize)
      /\ d[1] = RegionSize * (d[1] \div RegionSize) + (d[1] % RegionSize)
      /\ c[2] = RegionSize * (c[2] \div RegionSize) + (c[2] % RegionSize)
      /\ d[2] = RegionSize * (d[2] \div RegionSize) + (d[2] % RegionSize)
    BY <1>1, Division
<1>4. c[1] = d[1] /\ c[2] = d[2]
    BY <1>2, <1>3
<1> QED
    BY <1>1, <1>4

\* A column of the world has a region and a place in it.
LEMMA SlotInRegion ==
    ASSUME NEW c \in Column
    PROVE  RegionOf(c) \in Regions /\ Slot(c) \in Slots /\ c \in Int \X Int
<1>1. /\ MinX \div ChunkSize \in Int /\ MaxX \div ChunkSize \in Int
      /\ MinZ \div ChunkSize \in Int /\ MaxZ \div ChunkSize \in Int
    BY WorldAssumption, Division
<1>2. c \in Int \X Int
    BY <1>1 DEF Column
<1>3. Slot(c) \in Slots
    BY <1>2, WorldAssumption, Division DEF Slot, Slots
<1> QED
    BY <1>2, <1>3 DEF Regions

-----------------------------------------------------------------------------
(* Recursive functions.                                                    *)

\* Induction, over a set of numbers.
LEMMA InEveryNumber ==
    ASSUME NEW S, 0 \in S, \A n \in Nat : n \in S => n + 1 \in S
    PROVE  \A n \in Nat : n \in S
<1> DEFINE Missing == Nat \ S
<1>1. SUFFICES ASSUME Missing # {} PROVE FALSE
    OBVIOUS
<1>2. \E n \in Missing : \A m \in Missing : <<m, n>> \notin OpToRel(<, Nat)
    BY <1>1, NatLessThanWellFounded, WFMin
<1>3. PICK n \in Missing : \A m \in Missing : ~(m < n)
    BY <1>2 DEF OpToRel
<1>4. n - 1 \in Nat /\ n - 1 \notin Missing
    BY <1>3
<1> QED
    BY <1>3, <1>4

\* A function on 0..N with values in V goes from o by steps.
GoesBy(g, N, V, o, step) ==
    /\ g \in [0..N -> V]
    /\ g[0] = o /\ \A n \in 1..N : g[n] = step[n][g[n - 1]]

\* There is one.
LEMMA StepByStep ==
    ASSUME NEW N \in Nat, NEW V, NEW o \in V, NEW step,
           \A n \in 1..N : \A v \in V : step[n][v] \in V
    PROVE  \E g : GoesBy(g, N, V, o, step)
<1> DEFINE Steps(g, m) == g[0] = o /\ \A n \in 1..m : g[n] = step[n][g[n - 1]]
           Done == {m \in Nat : m <= N => \E g \in [0..m -> V] : Steps(g, m)}
<1>1. 0 \in Done
    <2>1. [n \in 0..0 |-> o] \in [0..0 -> V] /\ Steps([n \in 0..0 |-> o], 0)
        OBVIOUS
    <2> QED
        BY <2>1
<1>2. ASSUME NEW m \in Nat, m \in Done, m + 1 <= N PROVE m + 1 \in Done
    <2>1. PICK g \in [0..m -> V] : Steps(g, m)
        BY <1>2
    <2> DEFINE h == [n \in 0..m + 1 |-> IF n = m + 1 THEN step[m + 1][g[m]] ELSE g[n]]
    <2>2. m + 1 \in 1..N /\ g[m] \in V
        BY <1>2, <2>1
    <2>3. h \in [0..m + 1 -> V]
        BY <2>1, <2>2
    <2>4. /\ h[0] = g[0] /\ h[m + 1] = step[m + 1][h[m]]
          /\ \A n \in 1..m : h[n] = g[n] /\ h[n - 1] = g[n - 1]
        OBVIOUS
    <2> HIDE DEF h
    <2>5. Steps(h, m + 1)
        <3>1. ASSUME NEW n \in 1..m + 1 PROVE h[n] = step[n][h[n - 1]]
            <4>1. CASE n = m + 1
                <5>1. n - 1 = m
                    BY <4>1
                <5> QED
                    BY <2>4, <4>1, <5>1
            <4>2. CASE n # m + 1
                <5>1. n \in 1..m
                    BY <4>2
                <5> QED
                    BY <2>1, <2>4, <5>1
            <4> QED
                BY <4>1, <4>2
        <3> QED
            BY <2>1, <2>4, <3>1
    <2> QED
        BY <2>3, <2>5
<1>3. ASSUME NEW m \in Nat, m \in Done PROVE m + 1 \in Done
    <2>1. ASSUME ~(m + 1 <= N) PROVE m + 1 \in Done
        BY <2>1
    <2> HIDE DEF Done
    <2> QED
        BY <1>2, <1>3, <2>1
<1>4. N \in Done
    <2> HIDE DEF Done
    <2> QED
        BY <1>1, <1>3, InEveryNumber
<1> QED
    BY <1>4 DEF GoesBy

-----------------------------------------------------------------------------
(* Sections: powers of two, widths, longs and palettes.                    *)

\* Each power of two is twice the one before.
LEMMA Powers ==
    /\ TwoTo \in [0..LongBits -> Nat \ {0}]
    /\ TwoTo[0] = 1
    /\ \A n \in 1..LongBits : TwoTo[n] = 2 * TwoTo[n - 1]
<1> DEFINE V == Nat \ {0}
           step == [n \in 1..LongBits |-> [x \in V |-> 2 * x]]
<1>1. LongBits \in Nat \ {0}
    BY CodecAssumption
<1>2. 1 \in V /\ \A n \in 1..LongBits : \A v \in V : step[n][v] \in V
    OBVIOUS
<1>3. PICK g : GoesBy(g, LongBits, V, 1, step)
    <2>1. LongBits \in Nat
        BY <1>1
    <2> HIDE DEF step, V
    <2> QED
        BY <1>2, <2>1, StepByStep
<1>4. g = [n \in 0..LongBits |-> IF n = 0 THEN 1 ELSE 2 * g[n - 1]]
    <2>1. ASSUME NEW n \in 0..LongBits, n # 0 PROVE g[n] = 2 * g[n - 1]
        <3>1. n \in 1..LongBits /\ n - 1 \in 0..LongBits
            BY <1>1, <2>1
        <3>2. g[n - 1] \in V /\ g[n] = step[n][g[n - 1]]
            BY <1>3, <3>1 DEF GoesBy
        <3> QED
            BY <3>1, <3>2
    <2> QED
        BY <1>3, <2>1 DEF GoesBy
<1>5. TwoTo = [n \in 0..LongBits |-> IF n = 0 THEN 1 ELSE 2 * TwoTo[n - 1]]
    BY <1>4 DEF TwoTo
<1>6. TwoTo = g
    <2> DEFINE Same == {n \in Nat : n <= LongBits => TwoTo[n] = g[n]}
    <2>1. 0 \in Same
        BY <1>1, <1>4, <1>5
    <2>2. ASSUME NEW n \in Nat, n \in Same PROVE n + 1 \in Same
        BY <1>1, <1>4, <1>5, <2>2
    <2>3. \A n \in Nat : n \in Same
        <3> HIDE DEF Same
        <3> QED
            BY <2>1, <2>2, InEveryNumber
    <2>4. \A n \in 0..LongBits : TwoTo[n] = g[n]
        BY <1>1, <2>3
    <2>5. TwoTo = [n \in 0..LongBits |-> TwoTo[n]]
        BY <1>5
    <2>6. g = [n \in 0..LongBits |-> g[n]]
        BY <1>3 DEF GoesBy
    <2> QED
        BY <2>4, <2>5, <2>6
<1>7. TwoTo[0] = 1
    BY <1>1, <1>5
<1>8. ASSUME NEW n \in 1..LongBits PROVE TwoTo[n] = 2 * TwoTo[n - 1]
    <2>1. n \in 0..LongBits /\ n # 0
        BY <1>1
    <2> QED
        BY <1>5, <2>1
<1> QED
    BY <1>3, <1>6, <1>7, <1>8 DEF GoesBy

\* To shift by the one number and then by the other is to shift by their sum.
LEMMA PowersMultiply ==
    ASSUME NEW a \in Nat, NEW b \in Nat, a + b <= LongBits
    PROVE  TwoTo[a + b] = TwoTo[a] * TwoTo[b]
<1> DEFINE Fits == {n \in Nat : a + n <= LongBits => TwoTo[a + n] = TwoTo[a] * TwoTo[n]}
<1>1. LongBits \in Nat \ {0}
    BY CodecAssumption
<1>2. 0 \in Fits
    <2>1. a \in 0..LongBits
        BY <1>1
    <2>2. TwoTo[a] \in Nat \ {0}
        BY <2>1, Powers
    <2> QED
        BY <2>2, Powers
<1>3. ASSUME NEW n \in Nat, n \in Fits, a + (n + 1) <= LongBits
      PROVE  TwoTo[a + (n + 1)] = TwoTo[a] * TwoTo[n + 1]
    <2>1. /\ a \in 0..LongBits /\ n \in 0..LongBits /\ a + n \in 0..LongBits
          /\ n + 1 \in 1..LongBits /\ a + (n + 1) \in 1..LongBits
          /\ (n + 1) - 1 = n /\ (a + (n + 1)) - 1 = a + n
        BY <1>1, <1>3
    <2>2. TwoTo[n + 1] = 2 * TwoTo[n] /\ TwoTo[a + (n + 1)] = 2 * TwoTo[a + n]
        BY <2>1, Powers
    <2>3. TwoTo[a] \in Nat \ {0} /\ TwoTo[n] \in Nat \ {0}
        BY <2>1, Powers
    <2>4. TwoTo[a + n] = TwoTo[a] * TwoTo[n]
        BY <1>3, <2>1
    <2>5. \A x, y \in Nat : 2 * (x * y) = x * (2 * y)
        OBVIOUS
    <2> QED
        BY <2>2, <2>3, <2>4, <2>5
<1>4. ASSUME NEW n \in Nat, n \in Fits PROVE n + 1 \in Fits
    <2>1. a + (n + 1) <= LongBits => TwoTo[a + (n + 1)] = TwoTo[a] * TwoTo[n + 1]
        BY <1>3, <1>4
    <2> QED
        BY <2>1
<1>5. b \in Fits
    <2> HIDE DEF Fits
    <2> QED
        BY <1>2, <1>4, InEveryNumber
<1> QED
    BY <1>5

\* A long of the fields v, of w bits each, comes about field by field.
IsLong(long, v, w, per) ==
    /\ \A n \in 1..per : v[n] \in 0..TwoTo[w] - 1
    /\ \E f : /\ f[0] = 0 /\ f[per] = long
              /\ \A n \in 1..per : f[n] = f[n - 1] + v[n] * TwoTo[(n - 1) * w]

\* Fields do not touch each other: n of them are below the next bit, and each can be
\* cut out of the long.
LEMMA FieldsStayApart ==
    ASSUME NEW w \in Nat \ {0}, NEW per \in Nat, per * w <= LongBits,
           NEW long, NEW v, IsLong(long, v, w, per)
    PROVE  \A j \in 1..per : (long \div TwoTo[(j - 1) * w]) % TwoTo[w] = v[j]
<1>0. PICK f :
        /\ \A n \in 1..per : v[n] \in 0..TwoTo[w] - 1
        /\ f[0] = 0 /\ f[per] = long
        /\ \A n \in 1..per : f[n] = f[n - 1] + v[n] * TwoTo[(n - 1) * w]
    BY DEF IsLong
<1> DEFINE Packed(n) ==
                /\ f[n] \in 0..TwoTo[n * w] - 1
                /\ \A j \in 1..n : (f[n] \div TwoTo[(j - 1) * w]) % TwoTo[w] = v[j]
           Good == {n \in Nat : n <= per => Packed(n)}
<1>1. ASSUME NEW n \in 0..per PROVE n * w \in 0..LongBits
    <2>1. n * w <= per * w /\ n * w \in Nat
        OBVIOUS
    <2> QED
        BY <2>1, CodecAssumption
<1>2. 0 \in Good
    <2>1. 0 * w = 0
        OBVIOUS
    <2> QED
        BY <1>0, <2>1, Powers
<1>3. ASSUME NEW n \in Nat, n + 1 <= per, Packed(n) PROVE Packed(n + 1)
    <2> DEFINE B == TwoTo[w]
               D == TwoTo[n * w]
    <2>1. /\ n \in 0..per /\ n + 1 \in 1..per /\ n + 1 \in 0..per /\ (n + 1) - 1 = n
          /\ (n + 1) * w = n * w + w
        BY <1>3
    <2>2. /\ n * w \in 0..LongBits /\ (n + 1) * w \in 0..LongBits /\ w \in 0..LongBits
          /\ n * w \in Nat /\ n * w + w <= LongBits
        <3>1. n * w \in 0..LongBits /\ (n + 1) * w \in 0..LongBits
            BY <1>1, <2>1
        <3> QED
            BY <2>1, <3>1, CodecAssumption
    <2>3. B \in Nat \ {0} /\ D \in Nat \ {0} /\ TwoTo[(n + 1) * w] = D * B
        <3> DEFINE at == n * w
        <3>1. B \in Nat \ {0} /\ D \in Nat \ {0}
            BY <2>2, Powers
        <3>2. at \in Nat /\ at + w <= LongBits /\ (n + 1) * w = at + w
            BY <2>1, <2>2
        <3> HIDE DEF at
        <3>3. TwoTo[at + w] = TwoTo[at] * TwoTo[w]
            BY <3>2, PowersMultiply
        <3> QED
            BY <3>1, <3>2, <3>3 DEF at
    <2>4. v[n + 1] \in 0..B - 1 /\ f[n + 1] = f[n] + v[n + 1] * D
        BY <1>0, <2>1
    <2>5. f[n] \in 0..D - 1
        BY <1>3
    <2> HIDE DEF B, D
    <2>6. f[n + 1] \in 0..D * B - 1
        <3>1. v[n + 1] * D <= (B - 1) * D
            BY <2>3, <2>4
        <3>2. (B - 1) * D = D * B - D
            BY <2>3
        <3>3. v[n + 1] * D \in Nat /\ D * B \in Nat
            BY <2>3, <2>4
        <3> QED
            BY <2>3, <2>4, <2>5, <3>1, <3>2, <3>3
    <2>7. (f[n + 1] \div D) % B = v[n + 1]
        <3>1. f[n + 1] = D * v[n + 1] + f[n]
            BY <2>3, <2>4, <2>5
        <3> DEFINE x == v[n + 1]
        <3>2. x \in Int /\ x \in 0..B - 1
            BY <2>3, <2>4
        <3>3. x = B * 0 + x
            BY <2>3, <3>2
        <3> HIDE DEF x
        <3>4. (D * x + f[n]) \div D = x
            BY <2>3, <2>5, <3>2, DivisionIsUnique
        <3>5. (B * 0 + x) % B = x
            <4>1. 0 \in Int
                OBVIOUS
            <4> QED
                BY <2>3, <3>2, <4>1, DivisionIsUnique, Zenon
        <3> QED
            BY <3>1, <3>3, <3>4, <3>5 DEF x
    <2>8. ASSUME NEW j \in 1..n
          PROVE  (f[n + 1] \div TwoTo[(j - 1) * w]) % B = v[j]
        <3> DEFINE E == TwoTo[(j - 1) * w]
                   R == TwoTo[(n - j) * w]
                   at == (j - 1) * w
                   q == f[n] \div E
                   r == f[n] % E
        <3>1. /\ (j - 1) * w \in Nat /\ (n - j) * w \in Nat
              /\ ((j - 1) * w + w) + (n - j) * w = n * w
              /\ (j - 1) * w + w = j * w /\ j * w <= n * w
            BY <2>1
        <3>2. /\ (j - 1) * w \in 0..LongBits /\ (n - j) * w \in 0..LongBits
              /\ (j - 1) * w + w <= LongBits
              /\ ((j - 1) * w + w) + (n - j) * w <= LongBits
            BY <2>2, <3>1, CodecAssumption
        <3>3. E \in Nat \ {0} /\ R \in Nat \ {0} /\ D = E * B * R
            <4>1. TwoTo[at + w] = TwoTo[at] * TwoTo[w]
                <5>1. at \in Nat /\ at + w <= LongBits
                    BY <3>1, <3>2
                <5> HIDE DEF at
                <5> QED
                    BY <5>1, PowersMultiply
            <4>2. TwoTo[(at + w) + (n - j) * w] = TwoTo[at + w] * TwoTo[(n - j) * w]
                <5> DEFINE below == at + w
                           above == (n - j) * w
                <5>1. below \in Nat /\ above \in Nat /\ below + above <= LongBits
                    BY <3>1, <3>2
                <5> HIDE DEF below, above
                <5>2. TwoTo[below + above] = TwoTo[below] * TwoTo[above]
                    BY <5>1, PowersMultiply
                <5> QED
                    BY <5>2 DEF below, above
            <4> QED
                BY <3>1, <3>2, <4>1, <4>2, Powers DEF B, D, E, R
        <3> HIDE DEF E, R
        <3>4. q \in Int /\ r \in 0..E - 1 /\ f[n] = E * q + r
            <4>1. f[n] \in Int
                BY <2>3, <2>5
            <4> QED
                BY <3>3, <4>1, Division
        <3>5. q % B = v[j]
            BY <1>3 DEF E, B
        <3> HIDE DEF q, r
        <3>6. (q \div B) \in Int /\ q % B \in 0..B - 1 /\ q = B * (q \div B) + (q % B)
            BY <2>3, <3>4, Division
        <3>7. f[n + 1] = E * (q + v[n + 1] * (B * R)) + r
            <4>1. v[n + 1] * (E * B * R) = E * (v[n + 1] * (B * R))
                BY <2>3, <2>4, <3>3
            <4>2. v[n + 1] * (B * R) \in Int
                BY <2>3, <2>4, <3>3
            <4> QED
                BY <2>4, <3>3, <3>4, <4>1, <4>2
        <3>8. f[n + 1] \div E = q + v[n + 1] * (B * R)
            <4>1. q + v[n + 1] * (B * R) \in Int
                BY <2>3, <2>4, <3>3, <3>4
            <4>2. (E * (q + v[n + 1] * (B * R)) + r) \div E = q + v[n + 1] * (B * R)
                BY <3>3, <3>4, <4>1, DivisionIsUnique
            <4> QED
                BY <3>7, <4>2
        <3>9. q + v[n + 1] * (B * R) = B * ((q \div B) + v[n + 1] * R) + (q % B)
            <4> DEFINE t == q \div B
                       z == v[n + 1] * R
            <4>1. v[n + 1] * (B * R) = B * z /\ z \in Int
                BY <2>3, <2>4, <3>3
            <4>2. t \in Int /\ q = B * t + (q % B) /\ q % B \in Int
                BY <3>6
            <4> HIDE DEF t, z
            <4>3. B * (t + z) = B * t + B * z /\ B * t \in Int /\ B * z \in Int
                BY <2>3, <4>1, <4>2
            <4> QED
                BY <4>1, <4>2, <4>3 DEF t, z
        <3>10. (q \div B) + v[n + 1] * R \in Int
            BY <2>3, <2>4, <3>3, <3>6
        <3>11. (B * ((q \div B) + v[n + 1] * R) + (q % B)) % B = q % B
            BY <2>3, <3>6, <3>10, DivisionIsUnique
        <3> QED
            BY <3>5, <3>8, <3>9, <3>11 DEF E
    <2> QED
        <3>1. ASSUME NEW j \in 1..n + 1, j # n + 1 PROVE j \in 1..n
            BY <3>1
        <3>2. ASSUME NEW j \in 1..n + 1
              PROVE  (f[n + 1] \div TwoTo[(j - 1) * w]) % B = v[j]
            BY <2>1, <2>7, <2>8, <3>1 DEF D
        <3> QED
            BY <2>3, <2>6, <3>2 DEF B
<1>4. ASSUME NEW n \in Nat, n \in Good PROVE n + 1 \in Good
    <2>1. n + 1 <= per => Packed(n + 1)
        <3> HIDE DEF Packed
        <3> QED
            BY <1>3, <1>4
    <2> QED
        BY <2>1
<1>5. \A n \in Nat : n \in Good
    <2> HIDE DEF Good
    <2> QED
        BY <1>2, <1>4, InEveryNumber
<1> HIDE DEF Packed
<1>6. Packed(per)
    BY <1>5
<1> QED
    BY <1>0, <1>6 DEF Packed

\* The palette is finite, and so are the blocks.
LEMMA BlocksAreFinite == IsFiniteSet(Block)
<1>1. IsFiniteSet(Palette)
    BY CodecAssumption
<1>2. IsFiniteSet(Palette \cup {Air})
    BY <1>1, FS_AddElement
<1>3. IsFiniteSet((Palette \cup {Air}) \cup {Bedrock})
    BY <1>2, FS_AddElement
<1>4. IsFiniteSet(((Palette \cup {Air}) \cup {Bedrock}) \cup {"stone"})
    BY <1>3, FS_AddElement
<1>5. IsFiniteSet((((Palette \cup {Air}) \cup {Bedrock}) \cup {"stone"}) \cup {"dirt"})
    BY <1>4, FS_AddElement
<1>6. IsFiniteSet(((((Palette \cup {Air}) \cup {Bedrock}) \cup {"stone"}) \cup {"dirt"})
                    \cup {"grass_block"})
    BY <1>5, FS_AddElement
<1>7. Block = ((((Palette \cup {Air}) \cup {Bedrock}) \cup {"stone"}) \cup {"dirt"})
                \cup {"grass_block"}
    BY DEF Block
<1> QED
    BY <1>6, <1>7

\* An index into a palette of any size fits its width, and a long has room for one.
LEMMA WidthHolds ==
    ASSUME NEW e \in 1..Cardinality(Block)
    PROVE  /\ Width[e] \in 1..LongBits /\ e <= TwoTo[Width[e]]
           /\ PerLong(e) \in Nat \ {0} /\ PerLong(e) * Width[e] <= LongBits
<1> DEFINE Enough == {b \in 0..LongBits : e <= TwoTo[b]}
           bits == BitsPerIndex(e)
           w == Width[e]
<1>1. Cardinality(Block) \in Nat /\ Cardinality(Block) <= TwoTo[LongBits]
    BY BlocksAreFinite, FS_CardinalityType, CodecAssumption
<1>2. LongBits \in Nat /\ MinBits \in 1..LongBits
    BY CodecAssumption
<1>3. LongBits \in Enough
    BY <1>1, <1>2, Powers
<1>4. PICK b \in Enough : \A c \in Enough : ~(c < b)
    <2>1. Enough # {} /\ Enough \subseteq Nat
        BY <1>3
    <2>2. \E b \in Enough : \A c \in Enough : <<c, b>> \notin OpToRel(<, Nat)
        <3> HIDE DEF Enough
        <3> QED
            BY <2>1, NatLessThanWellFounded, WFMin
    <2> QED
        BY <2>1, <2>2 DEF OpToRel
<1>5. TwoTo[b] >= e /\ \A c \in 0..b - 1 : TwoTo[c] < e
    <2>1. ASSUME NEW c \in 0..b - 1 PROVE TwoTo[c] < e
        <3>1. c \in 0..LongBits /\ c < b
            BY <1>2, <1>4
        <3>2. TwoTo[c] \in Nat
            BY <3>1, Powers
        <3> QED
            BY <1>4, <3>1, <3>2
    <2> QED
        BY <1>4, <2>1
<1>6. bits \in 0..LongBits /\ TwoTo[bits] >= e
    BY <1>4, <1>5 DEF BitsPerIndex
<1>7. w \in 1..LongBits /\ bits <= w
    <2>1. w = Max({bits, MinBits})
        BY DEF Width
    <2> HIDE DEF bits, w
    <2>2. \E x \in {bits, MinBits} : \A y \in {bits, MinBits} : x >= y
        BY <1>2, <1>6
    <2>3. w \in {bits, MinBits} /\ w >= bits /\ w >= MinBits
        BY <2>1, <2>2 DEF Max
    <2> QED
        BY <1>2, <1>6, <2>3
<1>8. e <= TwoTo[w]
    <2> DEFINE more == w - bits
    <2> HIDE DEF bits, w
    <2>1. more \in Nat /\ bits \in Nat /\ bits + more = w /\ bits + more <= LongBits
        BY <1>2, <1>6, <1>7
    <2>2. more \in 0..LongBits /\ bits \in 0..LongBits
        BY <1>2, <1>6, <1>7
    <2> HIDE DEF more
    <2>3. TwoTo[w] = TwoTo[bits] * TwoTo[more]
        BY <2>1, PowersMultiply
    <2>4. TwoTo[bits] \in Nat \ {0} /\ TwoTo[more] \in Nat \ {0}
        BY <2>2, Powers
    <2>5. TwoTo[bits] * TwoTo[more] >= TwoTo[bits]
        BY <2>4
    <2> QED
        BY <1>6, <2>3, <2>4, <2>5
<1>9. PerLong(e) \in Nat \ {0} /\ PerLong(e) * w <= LongBits
    <2> DEFINE per == LongBits \div w
    <2>1. PerLong(e) = per
        BY DEF PerLong
    <2> HIDE DEF w
    <2>2. LongBits \in Int /\ w \in Nat \ {0}
        BY <1>2, <1>7
    <2>3. per \in Int /\ LongBits % w \in 0..w - 1 /\ LongBits = w * per + (LongBits % w)
        BY <2>2, Division
    <2> HIDE DEF per
    <2>4. per >= 1
        <3>1. SUFFICES ASSUME per <= 0 PROVE FALSE
            BY <2>3
        <3>2. w * per <= 0
            BY <1>7, <2>3, <3>1
        <3> QED
            BY <1>7, <2>3, <3>2
    <2>5. per * w = w * per
        BY <2>2, <2>3
    <2> QED
        BY <2>1, <2>2, <2>3, <2>4, <2>5
<1> QED
    BY <1>7, <1>8, <1>9

\* The indices that go into a long; the last may have room left.
FieldsOf(indices, e, l) ==
    [n \in 1..PerLong(e) |-> IF PerLong(e) * l + n \in DOMAIN indices
                             THEN indices[PerLong(e) * l + n] ELSE 0]

\* PackLong makes such a long of them.
LEMMA PackedInTurn ==
    ASSUME NEW e \in 1..Cardinality(Block), NEW N \in Nat,
           NEW indices \in [1..N -> 0..e - 1], NEW l \in Nat
    PROVE  IsLong(PackLong(indices, e, l), FieldsOf(indices, e, l), Width[e], PerLong(e))
<1> DEFINE per == PerLong(e)
           w == Width[e]
           v == FieldsOf(indices, e, l)
           Field(n) == IF per * l + n \in DOMAIN indices
                       THEN indices[per * l + n] * TwoTo[(n - 1) * w] ELSE 0
           step == [n \in 1..per |-> [x \in Int |-> x + Field(n)]]
           Turns(g) == g = [n \in 0..per |-> IF n = 0 THEN 0 ELSE g[n - 1] + Field(n)]
<1>1. per \in Nat \ {0} /\ w \in 1..LongBits /\ per * w <= LongBits
    BY WidthHolds
<1>2. ASSUME NEW n \in 1..per
      PROVE  /\ Field(n) \in Int /\ Field(n) = v[n] * TwoTo[(n - 1) * w]
             /\ v[n] \in 0..TwoTo[w] - 1
    <2>1. (n - 1) * w \in 0..LongBits
        <3> HIDE DEF per, w
        <3>1. (n - 1) * w <= per * w /\ (n - 1) * w \in Nat /\ per * w \in Nat
            BY <1>1
        <3>2. LongBits \in Nat
            BY CodecAssumption
        <3> QED
            BY <1>1, <3>1, <3>2
    <2>2. TwoTo[(n - 1) * w] \in Int /\ TwoTo[w] \in Int /\ e <= TwoTo[w]
        BY <1>1, <2>1, Powers, WidthHolds
    <2>3. v[n] = IF per * l + n \in DOMAIN indices THEN indices[per * l + n] ELSE 0
        BY DEF FieldsOf
    <2> DEFINE at == per * l + n
    <2> HIDE DEF w, per, v
    <2>4. CASE at \in DOMAIN indices
        <3>1. v[n] = indices[at] /\ indices[at] \in 0..e - 1
            BY <2>3, <2>4
        <3>2. Field(n) = indices[at] * TwoTo[(n - 1) * w]
            BY <2>4
        <3> HIDE DEF at, Field
        <3>3. indices[at] \in Int /\ indices[at] * TwoTo[(n - 1) * w] \in Int
            BY <2>2, <3>1
        <3>4. v[n] \in 0..TwoTo[w] - 1
            BY <2>2, <3>1
        <3> QED
            BY <3>1, <3>2, <3>3, <3>4
    <2>5. CASE at \notin DOMAIN indices
        BY <2>2, <2>3, <2>5
    <2> QED
        BY <2>4, <2>5
<1>3. ASSUME NEW n \in 1..per, NEW x \in Int PROVE step[n][x] \in Int
    <2> HIDE DEF Field
    <2> QED
        BY <1>2, <1>3
<1>4. PICK g : GoesBy(g, per, Int, 0, step)
    <2>1. per \in Nat /\ 0 \in Int
        BY <1>1
    <2> HIDE DEF per, step
    <2> QED
        BY <1>3, <2>1, StepByStep
<1> HIDE DEF Field, per
<1>5. \E h : Turns(h)
    <2>1. ASSUME NEW n \in 0..per, n # 0 PROVE g[n] = g[n - 1] + Field(n)
        <3>1. n \in 1..per /\ n - 1 \in 0..per
            BY <1>1, <2>1
        <3>2. g[n - 1] \in Int /\ g[n] = step[n][g[n - 1]]
            BY <1>4, <3>1 DEF GoesBy
        <3> QED
            BY <3>1, <3>2
    <2>2. g = [n \in 0..per |-> g[n]] /\ g[0] = 0
        BY <1>4 DEF GoesBy
    <2>3. Turns(g)
        BY <2>1, <2>2
    <2> QED
        BY <2>3
<1> DEFINE f == CHOOSE h : Turns(h)
<1>6. Turns(f)
    BY <1>5
<1>7. PackLong(indices, e, l) = f[per]
    BY DEF PackLong, Field, per, w
<1> HIDE DEF f, v
<1>8. f[0] = 0 /\ \A n \in 1..per : f[n] = f[n - 1] + Field(n)
    <2>1. 0 \in 0..per /\ \A n \in 1..per : n \in 0..per /\ n # 0
        BY <1>1
    <2> QED
        BY <1>6, <2>1
<1>9. f[0] = 0 /\ \A n \in 1..per : f[n] = f[n - 1] + v[n] * TwoTo[(n - 1) * w]
    BY <1>2, <1>8
<1>10. \A n \in 1..per : v[n] \in 0..TwoTo[w] - 1
    BY <1>2
<1> QED
    BY <1>7, <1>9, <1>10 DEF IsLong, v, per

\* What is packed is unpacked, at every place.
LEMMA IndicesReadBack ==
    ASSUME NEW e \in 1..Cardinality(Block), NEW N \in Nat \ {0},
           NEW indices \in [1..N -> 0..e - 1], NEW i \in 0..N - 1
    PROVE  /\ Pack(indices, e) # NoData
           /\ Unpackable(Pack(indices, e), e, i)
           /\ Unpack(Pack(indices, e), e, i) = indices[i + 1]
<1> DEFINE per == PerLong(e)
           w == Width[e]
           l == i \div per
           k == i % per
           longs == (N + per - 1) \div per
           v == FieldsOf(indices, e, l)
<1>1. /\ per \in Nat \ {0} /\ w \in 1..LongBits /\ per * w <= LongBits
      /\ e <= TwoTo[w]
    BY WidthHolds
<1>2. /\ i \in Nat /\ N - 1 >= i /\ l \in Nat /\ k \in 0..per - 1 /\ i = per * l + k
    <2> HIDE DEF per, w
    <2>1. i \in Int /\ i >= 0
        OBVIOUS
    <2>2. l \in Int /\ k \in 0..per - 1 /\ i = per * l + k
        BY <1>1, <2>1, Division
    <2> HIDE DEF l, k
    <2>3. ASSUME l <= -1 PROVE FALSE
        <3> DEFINE m == per * l
        <3>1. m \in Int /\ m + per = per * (l + 1)
            BY <1>1, <2>2
        <3>2. per * (l + 1) <= 0
            BY <1>1, <2>2, <2>3
        <3>3. i = m + k
            BY <2>2
        <3> HIDE DEF m
        <3> QED
            BY <1>1, <2>1, <2>2, <3>1, <3>2, <3>3
    <2> QED
        BY <1>1, <2>2, <2>3
<1>3. longs \in Nat /\ l + 1 \in 1..longs
    <2> DEFINE r == (N + per - 1) % per
    <2> HIDE DEF per, l, k, w
    <2>1. N + per - 1 \in Int
        BY <1>1
    <2>2. longs \in Int /\ r \in 0..per - 1 /\ N + per - 1 = per * longs + r
        BY <1>1, <2>1, Division
    <2> HIDE DEF longs, r
    <2>3. ASSUME longs <= l PROVE FALSE
        <3>1. per * longs <= per * l
            BY <1>1, <1>2, <2>2, <2>3
        <3>2. per * longs \in Int /\ per * l \in Int
            BY <1>1, <1>2, <2>2
        <3> QED
            BY <1>1, <1>2, <2>2, <3>1, <3>2
    <2> QED
        BY <1>2, <2>2, <2>3
<1>4. Pack(indices, e) = [n \in 1..longs |-> PackLong(indices, e, n - 1)]
    <2>1. Len(indices) = N
        OBVIOUS
    <2> QED
        BY <2>1 DEF Pack
<1>5. /\ Len(Pack(indices, e)) = longs /\ Pack(indices, e) # NoData
      /\ Pack(indices, e)[1 + l] = PackLong(indices, e, l)
    <2> HIDE DEF per, l, longs
    <2>1. 1 + l \in 1..longs /\ (1 + l) - 1 = l
        BY <1>2, <1>3
    <2>2. DOMAIN Pack(indices, e) = 1..longs /\ Pack(indices, e)[1 + l] = PackLong(indices, e, l)
        BY <1>4, <2>1
    <2>3. Len(Pack(indices, e)) = longs
        BY <1>3, <1>4
    <2> QED
        BY <2>1, <2>2, <2>3 DEF NoData
<1>6. IsLong(PackLong(indices, e, l), v, w, per)
    <2>1. N \in Nat
        OBVIOUS
    <2> HIDE DEF l
    <2> QED
        BY <1>2, <2>1, PackedInTurn
<1>7. k + 1 \in 1..per /\ (k + 1) - 1 = k /\ per * l + (k + 1) = i + 1 /\ i + 1 \in 1..N
    <2> HIDE DEF per, l, k
    <2> QED
        BY <1>1, <1>2
<1>8. (PackLong(indices, e, l) \div TwoTo[k * w]) % TwoTo[w] = indices[i + 1]
    <2>1. v[k + 1] = indices[i + 1]
        <3>1. v[k + 1] = IF per * l + (k + 1) \in DOMAIN indices
                         THEN indices[per * l + (k + 1)] ELSE 0
            BY <1>7 DEF FieldsOf
        <3> HIDE DEF per, l, k, v
        <3> QED
            BY <1>7, <3>1
    <2> HIDE DEF per, l, k, v, w
    <2>2. w \in Nat \ {0} /\ per \in Nat /\ per * w <= LongBits
        BY <1>1
    <2>3. \A j \in 1..per :
            (PackLong(indices, e, l) \div TwoTo[(j - 1) * w]) % TwoTo[w] = v[j]
        BY <1>6, <2>2, FieldsStayApart
    <2> QED
        BY <1>7, <2>1, <2>3
<1>9. Unpackable(Pack(indices, e), e, i)
    <2>1. l < longs
        <3> HIDE DEF l, longs
        <3> QED
            BY <1>2, <1>3
    <2> QED
        BY <1>5, <2>1 DEF Unpackable
<1>10. Unpack(Pack(indices, e), e, i) = indices[i + 1]
    <2>1. Unpack(Pack(indices, e), e, i)
            = (Pack(indices, e)[1 + l] \div TwoTo[k * w]) % TwoTo[w]
        BY <1>5 DEF Unpack
    <2> QED
        BY <1>5, <1>8, <2>1
<1> QED
    BY <1>5, <1>9, <1>10

\* The palette of some states is made of blocks, has no more entries than there are
\* blocks, and has each of the states.
LEMMA PaletteHolds ==
    ASSUME NEW N \in Nat \ {0}, NEW s \in [1..N -> Block]
    PROVE  /\ Len(FirstSeen(s)) \in 1..Cardinality(Block)
           /\ DOMAIN FirstSeen(s) = 1..Len(FirstSeen(s))
           /\ \A i \in 1..N : \E k \in DOMAIN FirstSeen(s) : FirstSeen(s)[k] = s[i]
<1> DEFINE V == Seq(Block)
           step == [n \in 1..N |-> [x \in V |-> WithEntry(x, s[n])]]
           Turns(g) == g = [n \in 0..N |-> IF n = 0 THEN <<>> ELSE WithEntry(g[n - 1], s[n])]
           Distinct(x) == \A a, b \in 1..Len(x) : x[a] = x[b] => a = b
           Has(x, n) == \A i \in 1..n : \E k \in 1..Len(x) : x[k] = s[i]
<1>1. ASSUME NEW x \in V, NEW n \in 1..N
      PROVE  /\ WithEntry(x, s[n]) \in V
             /\ Distinct(x) => Distinct(WithEntry(x, s[n]))
             /\ Has(x, n - 1) => Has(WithEntry(x, s[n]), n)
    <2>1. /\ s[n] \in Block /\ Len(x) \in Nat /\ DOMAIN x = 1..Len(x)
          /\ \A i \in 1..n : i # n => i \in 1..n - 1
        BY LenProperties
    <2>2. CASE \E k \in DOMAIN x : x[k] = s[n]
        <3>1. WithEntry(x, s[n]) = x
            BY <2>2 DEF WithEntry
        <3> QED
            BY <2>1, <2>2, <3>1
    <2>3. CASE ~\E k \in DOMAIN x : x[k] = s[n]
        <3> DEFINE y == WithEntry(x, s[n])
        <3>1. y = Append(x, s[n])
            BY <2>3 DEF WithEntry
        <3>2. /\ y \in V /\ Len(y) = Len(x) + 1 /\ y[Len(x) + 1] = s[n]
              /\ \A i \in 1..Len(x) : y[i] = x[i]
            BY <2>1, <3>1, AppendProperties
        <3>3. \A i \in 1..Len(y) : i # Len(x) + 1 => i \in 1..Len(x)
            BY <2>1, <3>2
        <3> HIDE DEF y, V
        <3>4. ASSUME Distinct(x) PROVE Distinct(y)
            BY <2>1, <2>3, <3>2, <3>3, <3>4
        <3>5. ASSUME Has(x, n - 1) PROVE Has(y, n)
            <4>1. Len(x) + 1 \in 1..Len(y) /\ \A i \in 1..Len(x) : i \in 1..Len(y)
                BY <2>1, <3>2
            <4> QED
                BY <2>1, <3>2, <3>5, <4>1
        <3> QED
            BY <3>2, <3>4, <3>5 DEF y
    <2> QED
        BY <2>2, <2>3
<1>2. PICK g : GoesBy(g, N, V, <<>>, step)
    <2>1. N \in Nat /\ <<>> \in V
        BY EmptySeq
    <2>2. \A n \in 1..N : \A x \in V : step[n][x] \in V
        BY <1>1
    <2> HIDE DEF V, step
    <2> QED
        BY <2>1, <2>2, StepByStep
<1>3. \E h : Turns(h)
    <2>1. ASSUME NEW n \in 0..N, n # 0 PROVE g[n] = WithEntry(g[n - 1], s[n])
        <3>1. n \in 1..N /\ n - 1 \in 0..N
            BY <2>1
        <3>2. g[n - 1] \in V /\ g[n] = step[n][g[n - 1]]
            BY <1>2, <3>1 DEF GoesBy
        <3> HIDE DEF V
        <3> QED
            BY <3>1, <3>2
    <2>2. g = [n \in 0..N |-> g[n]] /\ g[0] = <<>>
        BY <1>2 DEF GoesBy
    <2>3. Turns(g)
        BY <2>1, <2>2
    <2> QED
        BY <2>3
<1> DEFINE f == CHOOSE h : Turns(h)
<1>4. Turns(f)
    BY <1>3
<1>5. FirstSeen(s) = f[N]
    <2>1. Len(s) = N
        OBVIOUS
    <2> QED
        BY <2>1 DEF FirstSeen
<1> HIDE DEF f
<1> DEFINE Good == {n \in Nat : n <= N => f[n] \in V /\ Distinct(f[n]) /\ Has(f[n], n)}
<1>6. 0 \in Good
    <2>1. f[0] = <<>>
        BY <1>4
    <2>2. f[0] \in V /\ Len(f[0]) = 0
        BY <2>1, EmptySeq
    <2> QED
        BY <2>2
<1>7. ASSUME NEW n \in Nat, n \in Good PROVE n + 1 \in Good
    <2>1. SUFFICES ASSUME n + 1 <= N
                   PROVE  f[n + 1] \in V /\ Distinct(f[n + 1]) /\ Has(f[n + 1], n + 1)
        OBVIOUS
    <2>2. n + 1 \in 1..N /\ n + 1 \in 0..N /\ n + 1 # 0 /\ (n + 1) - 1 = n
        BY <2>1
    <2>3. f[n + 1] = WithEntry(f[n], s[n + 1])
        BY <1>4, <2>2
    <2>4. f[n] \in V /\ Distinct(f[n]) /\ Has(f[n], n)
        BY <1>7, <2>1
    <2> HIDE DEF V, Distinct, Has
    <2> QED
        BY <1>1, <2>2, <2>3, <2>4
<1>8. f[N] \in V /\ Distinct(f[N]) /\ Has(f[N], N)
    <2>1. N \in Good
        <3> HIDE DEF Good
        <3> QED
            BY <1>6, <1>7, InEveryNumber
    <2> HIDE DEF Distinct, Has, V
    <2> QED
        BY <2>1
<1> DEFINE x == f[N]
<1>9. Len(x) \in Nat /\ DOMAIN x = 1..Len(x) /\ x \in [1..Len(x) -> Block]
    BY <1>8, LenProperties
<1>10. Len(x) >= 1
    <2>1. 1 \in 1..N
        OBVIOUS
    <2>2. \E k \in 1..Len(x) : x[k] = s[1]
        BY <1>8, <2>1
    <2> HIDE DEF x
    <2> QED
        BY <1>9, <2>2
<1>11. Len(x) <= Cardinality(Block) /\ Cardinality(Block) \in Nat
    <2>1. x \in Injection(1..Len(x), Block)
        BY <1>8, <1>9 DEF Injection, IsInjective
    <2>2. IsFiniteSet(Block)
        BY BlocksAreFinite
    <2>3. Cardinality(1..Len(x)) <= Cardinality(Block)
        BY <2>1, <2>2, FS_Injection
    <2>4. Cardinality(1..Len(x)) = Len(x)
        <3>1. 1 \in Int /\ Len(x) \in Int
            BY <1>9
        <3>2. Cardinality(1..Len(x)) = IF 1 > Len(x) THEN 0 ELSE Len(x) - 1 + 1
            BY <3>1, FS_Interval
        <3> QED
            BY <1>9, <1>10, <3>2
    <2> QED
        BY <2>2, <2>3, <2>4, FS_CardinalityType
<1>12. Len(x) \in 1..Cardinality(Block)
    BY <1>9, <1>10, <1>11
<1> QED
    BY <1>5, <1>8, <1>9, <1>12

\* A section has a state for each of its cells.
LEMMA CellsCounted ==
    /\ Cardinality(Cells) \in Nat \ {0} /\ Cells = 0..Cardinality(Cells) - 1
    /\ \A i \in 1..Cardinality(Cells) : i - 1 \in Cells
<1> DEFINE k == ChunkSize * ChunkSize * ChunkSize
<1>1. k \in Nat \ {0}
    <2>1. ChunkSize \in Nat \ {0} /\ ChunkSize * ChunkSize \in Nat \ {0}
        BY WorldAssumption
    <2> QED
        BY <2>1
<1>2. Cells = 0..k - 1
    BY DEF Cells
<1> HIDE DEF k
<1>3. 0 \in Int /\ k - 1 \in Int /\ 0 <= k - 1 /\ (k - 1) - 0 + 1 = k
    BY <1>1
<1>4. Cardinality(0..k - 1) = k
    BY <1>3, FS_Interval
<1> QED
    BY <1>1, <1>2, <1>4

\* A section that was written gives each position in the world the block it had,
\* whatever the blocks: with the palette, the width and the longs they call for
\* (persistence.rs:621-722, 816-862).
LEMMA SectionReadsBack ==
    ASSUME NEW column \in Column, NEW y \in SectionYs,
           NEW states \in [SectionPositions(column, y) -> Block]
    PROVE  LET overrides == [p \in {q \in DOMAIN states : states[q] # BaseBlock(q)} |-> states[p]]
               section == EncodeSection(column, y, overrides)
           IN /\ DecodableSection(section)
              /\ DecodeSection(column, y, section) = overrides
<1> DEFINE overrides == [p \in {q \in DOMAIN states : states[q] # BaseBlock(q)} |-> states[p]]
           section == EncodeSection(column, y, overrides)
           N == Cardinality(Cells)
           S == SectionStates(column, y, overrides)
           palette == FirstSeen(S)
           entries == Len(palette)
           indices == [c \in DOMAIN S |-> (CHOOSE k \in DOMAIN palette : palette[k] = S[c]) - 1]
<1>1. N \in Nat \ {0} /\ Cells = 0..N - 1
    BY CellsCounted
<1>2. ASSUME NEW p \in SectionPositions(column, y)
      PROVE  /\ CellOf(p) \in Cells /\ CellPosition(column, y, CellOf(p)) = p
             /\ p \in Position
    <2>1. column \in Int \X Int /\ y \in Int
        BY SlotInRegion, WorldAssumption, Division DEF SectionYs
    <2>2. p \in Position /\ ColumnAt(p) = column /\ p[2] \div ChunkSize = y
        BY <2>1, SectionHolds
    <2> QED
        BY <2>2, CellReadsBack
<1>3. S \in [1..N -> Block]
    <2>1. ASSUME NEW p
          PROVE  (IF p \in DOMAIN overrides THEN overrides[p] ELSE Generated(p)) \in Block
        <3>1. Air \in Block /\ \A q \in Position : BaseBlock(q) \in Block
            BY GeneratedBlocks DEF Block
        <3>2. Generated(p) \in Block
            BY <3>1 DEF Generated, InBounds
        <3>3. p \in DOMAIN overrides => overrides[p] \in Block
            OBVIOUS
        <3> QED
            BY <3>2, <3>3
    <2> HIDE DEF overrides
    <2> QED
        BY <2>1 DEF SectionStates
<1>4. ASSUME NEW p \in SectionPositions(column, y)
      PROVE  CellOf(p) + 1 \in 1..N /\ S[CellOf(p) + 1] = states[p]
    <2> DEFINE c == CellOf(p) + 1
    <2>1. c \in 1..N /\ c - 1 = CellOf(p)
        BY <1>1, <1>2
    <2>2. S[c] = IF p \in DOMAIN overrides THEN overrides[p] ELSE Generated(p)
        BY <1>2, <2>1 DEF SectionStates
    <2>3. Generated(p) = BaseBlock(p)
        BY <1>2 DEF Generated, InBounds
    <2>4. p \in DOMAIN overrides => overrides[p] = states[p]
        OBVIOUS
    <2>5. p \notin DOMAIN overrides => states[p] = BaseBlock(p)
        OBVIOUS
    <2> QED
        BY <2>1, <2>2, <2>3, <2>4, <2>5
<1> HIDE DEF N, S
<1>5. /\ entries \in 1..Cardinality(Block) /\ DOMAIN palette = 1..entries
      /\ \A c \in 1..N : \E k \in DOMAIN palette : palette[k] = S[c]
    BY <1>1, <1>3, PaletteHolds
<1>6. section = [palette |-> palette,
                 data |-> IF entries > 1 THEN Pack(indices, entries) ELSE NoData]
    BY DEF EncodeSection, S
<1> HIDE DEF palette, section
<1>7. ASSUME NEW c \in 1..N
      PROVE  indices[c] \in 0..entries - 1 /\ palette[indices[c] + 1] = S[c]
    <2> DEFINE k == CHOOSE k \in DOMAIN palette : palette[k] = S[c]
    <2>1. k \in 1..entries /\ palette[k] = S[c]
        BY <1>5
    <2>2. indices[c] = k - 1
        BY <1>3
    <2> HIDE DEF k, indices
    <2> QED
        BY <1>5, <2>1, <2>2
<1>8. indices \in [1..N -> 0..entries - 1]
    BY <1>3, <1>7
<1> HIDE DEF indices
<1>9. ASSUME NEW i \in Cells
      PROVE  /\ Unpackable(section.data, entries, i)
             /\ Unpack(section.data, entries, i) = indices[i + 1]
    <2>1. CASE entries > 1
        <3>1. section.data = Pack(indices, entries)
            BY <1>6, <2>1
        <3> HIDE DEF entries
        <3>2. i \in 0..N - 1
            BY <1>1
        <3> QED
            BY <1>1, <1>5, <1>8, <3>1, <3>2, IndicesReadBack
    <2>2. CASE ~(entries > 1)
        <3>1. entries = 1
            BY <1>5, <2>2
        <3>2. section.data = NoData
            BY <1>6, <2>2
        <3>3. i + 1 \in 1..N
            BY <1>1
        <3>4. indices[i + 1] = 0
            BY <1>8, <3>1, <3>3
        <3> QED
            BY <3>1, <3>2, <3>4 DEF Unpackable, Unpack
    <2> QED
        BY <2>1, <2>2
<1>10. Len(section.palette) = entries
    BY <1>6
<1>11. DecodableSection(section)
    <2>1. entries > 0
        BY <1>5
    <2>2. ASSUME NEW i \in Cells PROVE indices[i + 1] < entries
        <3>1. i + 1 \in 1..N
            BY <1>1
        <3> QED
            BY <1>7, <3>1, <1>5
    <2> QED
        BY <1>9, <1>10, <2>1, <2>2 DEF DecodableSection
<1>12. ASSUME NEW p \in SectionPositions(column, y) PROVE BlockIn(section, p) = states[p]
    <2>1. BlockIn(section, p) = palette[1 + indices[CellOf(p) + 1]]
        BY <1>2, <1>6, <1>9, <1>10 DEF BlockIn
    <2>2. CellOf(p) + 1 \in 1..N /\ S[CellOf(p) + 1] = states[p]
        BY <1>4
    <2>3. 1 + indices[CellOf(p) + 1] = indices[CellOf(p) + 1] + 1
        BY <1>7, <2>2
    <2> QED
        BY <1>7, <2>1, <2>2, <2>3
<1>13. DecodeSection(column, y, section) = overrides
    <2>1. DOMAIN states = SectionPositions(column, y)
        OBVIOUS
    <2> QED
        BY <1>12, <2>1 DEF DecodeSection
<1> QED
    BY <1>11, <1>13 DEF section

\* The codec loses nothing, for every palette, size of chunks, width of longs and
\* column: a section reads back as what was written.
THEOREM CodecReadsBack == SectionsRoundTrip
    BY SectionReadsBack DEF SectionsRoundTrip

\* So the columns the writer is about to store can be read back, in every state.
THEOREM ColumnsAlwaysReadBack == Spec => []ColumnsReadBack
<1>1. ColumnsReadBack
    BY CodecReadsBack DEF ColumnsReadBack
<1> QED
    BY <1>1, PTL

-----------------------------------------------------------------------------
(* The store.                                                              *)

\* What the proofs of Persistence suppose of their constants.
LEMMA StoreConstants == Store!ConstantsAssumption
<1>1. Base \in [Position -> Block] /\ Air \in Block
    BY GeneratedBlocks DEF Base, Block
<1>2. ColumnOf \in [Position -> Column]
    BY ColumnInWorld DEF ColumnOf
<1>3. Plan \subseteq Store!Partial(Position)
    <2>1. \A f \in Plan : DOMAIN f \in SUBSET Position /\ f \in [DOMAIN f -> Block]
        BY StorageAssumption
    <2> QED
        BY <2>1 DEF Store!Partial
<1>4. NoBuild \notin Store!BuildRow(Position) \cup Store!RowKept(Position)
    <2>1. ASSUME NEW S \in SUBSET Position, NEW T \in SUBSET Position
          PROVE  /\ NoBuild \notin [state : {"applied", "undone"}, applied : [S -> Block]]
                 /\ NoBuild \notin [state : {"applied", "undone"}, applied : [S -> Block],
                                    original : [T -> Block]]
        BY StorageAssumption
    <2>2. NoBuild \notin Store!BuildRow(Position)
        <3>1. SUFFICES ASSUME NoBuild \in Store!BuildRow(Position) PROVE FALSE
            OBVIOUS
        <3>2. /\ NoBuild = [state |-> NoBuild.state, applied |-> NoBuild.applied,
                            original |-> NoBuild.original]
              /\ NoBuild.state \in {"applied", "undone"}
              /\ NoBuild.applied \in Store!Partial(Position)
              /\ NoBuild.original \in Store!Partial(Position)
            BY <3>1 DEF Store!BuildRow
        <3>3. PICK S \in SUBSET Position, T \in SUBSET Position :
                NoBuild.applied \in [S -> Block] /\ NoBuild.original \in [T -> Block]
            BY <3>2 DEF Store!Partial
        <3> QED
            BY <2>1, <3>2, <3>3
    <2>3. NoBuild \notin Store!RowKept(Position)
        <3>1. SUFFICES ASSUME NoBuild \in Store!RowKept(Position) PROVE FALSE
            OBVIOUS
        <3>2. /\ NoBuild = [state |-> NoBuild.state, applied |-> NoBuild.applied]
              /\ NoBuild.state \in {"applied", "undone"}
              /\ NoBuild.applied \in Store!Partial(Position)
            BY <3>1 DEF Store!RowKept
        <3>3. PICK S \in SUBSET Position : NoBuild.applied \in [S -> Block]
            BY <3>2 DEF Store!Partial
        <3> QED
            BY <2>1, <3>2, <3>3
    <2> QED
        BY <2>2, <2>3
<1>5. /\ BatchLimit \in Nat \ {0} /\ MaxEdits \in Nat
      /\ NoOverride \notin Block /\ NoEdit \notin Store!Edit
    BY StorageAssumption DEF P!Edit, Store!Edit
<1> QED
    BY <1>1, <1>2, <1>3, <1>4, <1>5 DEF Store!ConstantsAssumption

-----------------------------------------------------------------------------
(* Chunks.                                                                 *)

Within(c) == {p \in Position : ColumnAt(p) = c}

\* What a chunk of a column says: blocks that differ from the generated ones.
IsChunk(c, m) ==
    /\ DOMAIN m \subseteq Within(c)
    /\ m \in [DOMAIN m -> Block]
    /\ \A p \in DOMAIN m : m[p] # BaseBlock(p)

\* The part of a chunk that lies in a section.
Part(m, y) == [p \in {q \in DOMAIN m : q[2] \div ChunkSize = y} |-> m[p]]

\* A section is encoded from its part of the column.
LEMMA EncodesPart ==
    ASSUME NEW c \in Column, NEW m, IsChunk(c, m), NEW y \in SectionYs
    PROVE  EncodeSection(c, y, m) = EncodeSection(c, y, Part(m, y))
<1>1. c \in Int \X Int /\ y \in Int
    BY SlotInRegion, WorldAssumption, Division DEF SectionYs
<1>2. ASSUME NEW i \in 1..Cardinality(Cells)
      PROVE  LET p == CellPosition(c, y, i - 1)
             IN p \in DOMAIN m => p \in DOMAIN Part(m, y) /\ Part(m, y)[p] = m[p]
    <2> DEFINE p == CellPosition(c, y, i - 1)
    <2>1. SUFFICES ASSUME p \in DOMAIN m PROVE p[2] \div ChunkSize = y
        BY DEF Part
    <2>2. p \in SectionPositions(c, y)
        BY <2>1, CellsCounted DEF SectionPositions, InBounds, IsChunk, Within
    <2> HIDE DEF p
    <2> QED
        BY <1>1, <2>2, SectionHolds
<1>3. DOMAIN Part(m, y) \subseteq DOMAIN m
    BY DEF Part
<1>4. SectionStates(c, y, m) = SectionStates(c, y, Part(m, y))
    <2>1. ASSUME NEW i \in 1..Cardinality(Cells)
          PROVE  LET p == CellPosition(c, y, i - 1)
                 IN (IF p \in DOMAIN m THEN m[p] ELSE Generated(p))
                    = IF p \in DOMAIN Part(m, y) THEN Part(m, y)[p] ELSE Generated(p)
        BY <1>2, <1>3
    <2> QED
        BY <2>1 DEF SectionStates
<1> QED
    BY <1>4 DEF EncodeSection

\* Of a chunk that is encoded, each section decodes into its part.
LEMMA DecodesPart ==
    ASSUME NEW c \in Column, NEW m, IsChunk(c, m), NEW y \in SectionYs
    PROVE  DecodeSection(c, y, EncodeSection(c, y, m)) = Part(m, y)
<1> DEFINE S == SectionPositions(c, y)
           states == [p \in S |-> IF p \in DOMAIN m THEN m[p] ELSE BaseBlock(p)]
           differing == {q \in DOMAIN states : states[q] # BaseBlock(q)}
           overrides == [p \in differing |-> states[p]]
<1>1. c \in Int \X Int /\ y \in Int
    BY SlotInRegion, WorldAssumption, Division DEF SectionYs
<1>2. \A p : p \in S <=> p \in Position /\ ColumnAt(p) = c /\ p[2] \div ChunkSize = y
    BY <1>1, SectionHolds
<1> HIDE DEF S
<1>3. states \in [S -> Block]
    BY <1>2, GeneratedBlocks DEF IsChunk
<1>4. DecodeSection(c, y, EncodeSection(c, y, overrides)) = overrides
    <2>1. \A st \in [S -> Block] :
            LET o == [p \in {q \in DOMAIN st : st[q] # BaseBlock(q)} |-> st[p]]
            IN DecodeSection(c, y, EncodeSection(c, y, o)) = o
        BY CodecReadsBack DEF SectionsRoundTrip, S
    <2> HIDE DEF states
    <2> QED
        BY <1>3, <2>1, Zenon
<1>5. differing = DOMAIN Part(m, y)
    BY <1>2 DEF IsChunk, Within, Part
<1>6. \A p \in differing : p \in DOMAIN m /\ states[p] = Part(m, y)[p]
    BY <1>5 DEF Part
<1>7. overrides = Part(m, y)
    BY <1>5, <1>6 DEF Part
<1>8. EncodeSection(c, y, m) = EncodeSection(c, y, Part(m, y))
    BY EncodesPart
<1> HIDE DEF overrides
<1> QED
    BY <1>4, <1>7, <1>8

\* A chunk reads back as it was written, as its sections do.
LEMMA ChunkReadsBack ==
    ASSUME NEW c \in Column, NEW m, IsChunk(c, m)
    PROVE  ReadBack(c, m) = m
<1> DEFINE found == [y \in SectionYs |-> Part(m, y)]
           section(p) == CHOOSE y \in SectionYs : p \in DOMAIN found[y]
           all == UNION {DOMAIN found[y] : y \in SectionYs}
<1>1. ReadBack(c, m) = [p \in all |-> found[section(p)][p]]
    <2>1. DOMAIN EncodeChunk(c, m) = SectionYs
        BY DEF EncodeChunk
    <2>2. [y \in DOMAIN EncodeChunk(c, m) |->
                DecodeSection(c, y, EncodeChunk(c, m)[y])] = found
        BY <2>1, DecodesPart DEF EncodeChunk
    <2> HIDE DEF found
    <2> QED
        BY <2>1, <2>2 DEF ReadBack, DecodeChunk
<1>2. ASSUME NEW p \in DOMAIN m
      PROVE  /\ p \in all
             /\ section(p) \in SectionYs /\ p \in DOMAIN found[section(p)]
    <2>1. p[2] \div ChunkSize \in SectionYs
        BY ColumnInWorld DEF IsChunk, Within
    <2>2. p \in DOMAIN found[p[2] \div ChunkSize]
        BY <2>1 DEF Part
    <2> HIDE DEF found
    <2> QED
        BY <2>1, <2>2
<1>3. \A y \in SectionYs : \A p \in DOMAIN found[y] : p \in DOMAIN m /\ found[y][p] = m[p]
    BY DEF Part
<1> HIDE DEF found
<1>4. all = DOMAIN m
    BY <1>2, <1>3
<1> HIDE DEF all, section
<1>5. \A p \in DOMAIN m : found[section(p)][p] = m[p]
    BY <1>2, <1>3
<1> QED
    BY <1>1, <1>4, <1>5 DEF IsChunk

-----------------------------------------------------------------------------
(* The edits of a chunk.                                                   *)

\* The block a chunk gives a position of its column.
BlockOf(m, p) == IF p \in DOMAIN m THEN m[p] ELSE BaseBlock(p)

\* One edit changes its position in its column and nothing else.
LEMMA EditApplied ==
    ASSUME NEW c \in Column, NEW kept, IsChunk(c, kept), NEW e \in Store!Edit
    PROVE  /\ IsChunk(c, ApplyEdit(c, kept, e))
           /\ \A p \in Within(c) : BlockOf(ApplyEdit(c, kept, e), p) =
                IF e.pos = p THEN e.block ELSE BlockOf(kept, p)
<1>1. e.pos \in Position /\ e.block \in Block
    BY DEF Store!Edit
<1>2. CASE ColumnAt(e.pos) # c
    <2>1. ApplyEdit(c, kept, e) = kept
        BY <1>2 DEF ApplyEdit
    <2> QED
        BY <1>2, <2>1 DEF Within
<1>3. CASE ColumnAt(e.pos) = c /\ e.block = BaseBlock(e.pos)
    <2>1. ApplyEdit(c, kept, e) = [p \in DOMAIN kept \ {e.pos} |-> kept[p]]
        BY <1>3 DEF ApplyEdit
    <2> QED
        BY <1>3, <2>1 DEF IsChunk, BlockOf
<1>4. CASE ColumnAt(e.pos) = c /\ e.block # BaseBlock(e.pos)
    <2>1. ApplyEdit(c, kept, e) = [p \in DOMAIN kept \cup {e.pos} |->
                                    IF p = e.pos THEN e.block ELSE kept[p]]
        BY <1>4 DEF ApplyEdit, Put
    <2> QED
        BY <1>1, <1>4, <2>1 DEF IsChunk, BlockOf, Within
<1> QED
    BY <1>2, <1>3, <1>4

\* There is a function from the number of edits to the chunk after so many.
LEMMA EditsInTurn ==
    ASSUME NEW c, NEW o, NEW s, Len(s) \in Nat
    PROVE  \E after :
            /\ after = [n \in 0..Len(s) |->
                            IF n = 0 THEN o ELSE ApplyEdit(c, after[n - 1], s[n])]
            /\ ApplyEdits(c, o, s) = after[Len(s)]
<1> DEFINE Turns(g, N) == g = [n \in 0..N |-> IF n = 0 THEN o ELSE ApplyEdit(c, g[n - 1], s[n])]
           Defined == {N \in Nat : \E g : Turns(g, N)}
<1>0. 0 \in Defined
    <2>1. Turns([n \in {0} |-> o], 0)
        BY 0..0 = {0}
    <2> QED
        BY <2>1
<1>1. ASSUME NEW N \in Nat, N \in Defined PROVE N + 1 \in Defined
    <2>1. PICK g : Turns(g, N)
        BY <1>1
    <2> DEFINE h == [n \in 0..N + 1 |-> IF n = 0 THEN o ELSE ApplyEdit(c, g[n - 1], s[n])]
    <2>2. \A n \in 0..N : h[n] = g[n]
        BY <2>1
    <2>3. \A n \in 0..N + 1 : n # 0 => n - 1 \in 0..N
        OBVIOUS
    <2>4. Turns(h, N + 1)
        BY <2>2, <2>3
    <2> HIDE DEF Turns, h
    <2> QED
        BY <2>4
<1>2. \E g : Turns(g, Len(s))
    <2>1. Len(s) \in Defined
        <3> HIDE DEF Defined
        <3> QED
            BY <1>0, <1>1, InEveryNumber
    <2> QED
        BY <2>1
<1> DEFINE after == CHOOSE g : Turns(g, Len(s))
<1>3. Turns(after, Len(s))
    BY <1>2
<1>4. ApplyEdits(c, o, s) = after[Len(s)]
    BY DEF ApplyEdits
<1> QED
    BY <1>3, <1>4

\* Edits in turn leave the last block of each position they write.
LEMMA EditsApplied ==
    ASSUME NEW c \in Column, NEW o, IsChunk(c, o), NEW s \in Seq(Store!Edit)
    PROVE  /\ IsChunk(c, ApplyEdits(c, o, s))
           /\ \A p \in Within(c) : BlockOf(ApplyEdits(c, o, s), p) =
                IF p \in Store!Written(s) THEN Store!FinalBlock(s, p) ELSE BlockOf(o, p)
<1>1. Len(s) \in Nat /\ DOMAIN s = 1..Len(s) /\ \A i \in 1..Len(s) : s[i] \in Store!Edit
    BY LenProperties, ElementOfSeq
<1>2. PICK after : /\ after = [n \in 0..Len(s) |->
                            IF n = 0 THEN o ELSE ApplyEdit(c, after[n - 1], s[n])]
                   /\ ApplyEdits(c, o, s) = after[Len(s)]
    BY <1>1, EditsInTurn
<1> DEFINE Right(n) ==
            /\ IsChunk(c, after[n])
            /\ \A p \in Within(c) :
                /\ (\A i \in 1..n : s[i].pos # p) => BlockOf(after[n], p) = BlockOf(o, p)
                /\ \A i \in 1..n :
                    s[i].pos = p /\ (\A j \in 1..n : j > i => s[j].pos # p)
                        => BlockOf(after[n], p) = s[i].block
           Wrong == {n \in 0..Len(s) : ~Right(n)}
<1>3. after[0] = o /\ \A n \in 1..Len(s) : after[n] = ApplyEdit(c, after[n - 1], s[n])
    <2>1. 0 \in 0..Len(s)
        BY <1>1
    <2>2. \A n \in 1..Len(s) : n \in 0..Len(s) /\ n # 0
        BY <1>1
    <2> QED
        BY <1>2, <2>1, <2>2
<1>4. Right(0)
    BY <1>3
<1>5. ASSUME NEW n \in 1..Len(s), Right(n - 1) PROVE Right(n)
    <2>1. /\ IsChunk(c, after[n])
          /\ \A p \in Within(c) : BlockOf(after[n], p) =
                IF s[n].pos = p THEN s[n].block ELSE BlockOf(after[n - 1], p)
        BY <1>1, <1>3, <1>5, EditApplied
    <2>2. 1..n = 1..n - 1 \cup {n} /\ n \notin 1..n - 1
        BY <1>1
    <2>3. ASSUME NEW p \in Within(c), \A i \in 1..n : s[i].pos # p
          PROVE  BlockOf(after[n], p) = BlockOf(o, p)
        BY <1>5, <2>1, <2>2, <2>3
    <2>4. ASSUME NEW p \in Within(c), NEW i \in 1..n, s[i].pos = p,
                 \A j \in 1..n : j > i => s[j].pos # p
          PROVE  BlockOf(after[n], p) = s[i].block
        <3>1. CASE i = n
            BY <2>1, <2>4, <3>1
        <3>2. CASE i # n
            <4>1. i \in 1..n - 1 /\ s[n].pos # p
                BY <1>1, <2>2, <2>4, <3>2
            <4>2. \A j \in 1..n - 1 : j > i => s[j].pos # p
                BY <2>2, <2>4
            <4> QED
                BY <1>5, <2>1, <2>4, <4>1, <4>2
        <3> QED
            BY <3>1, <3>2
    <2> QED
        BY <2>1, <2>3, <2>4
<1> HIDE DEF Right
<1>6. ASSUME Wrong # {} PROVE FALSE
    <2>1. Wrong \subseteq Nat
        BY <1>1
    <2>2. \E n \in Wrong : \A m \in Wrong : <<m, n>> \notin OpToRel(<, Nat)
        BY <1>6, <2>1, NatLessThanWellFounded, WFMin
    <2>3. PICK n \in Wrong : \A m \in Wrong : ~(m < n)
        BY <2>1, <2>2 DEF OpToRel
    <2>4. n \in 1..Len(s) /\ n - 1 \in 0..Len(s) /\ n - 1 < n
        BY <1>1, <1>4, <2>3
    <2> QED
        BY <1>5, <2>3, <2>4
<1>7. Right(Len(s))
    BY <1>1, <1>6
<1>8. ASSUME NEW p \in Within(c), p \in Store!Written(s)
      PROVE  BlockOf(after[Len(s)], p) = Store!FinalBlock(s, p)
    <2>1. PICK i \in Store!LastEdits(s) : s[i].pos = p
        BY <1>8 DEF Store!Written
    <2>2. Store!FinalBlock(s, p) = s[i].block
        BY <2>1, StoreConstants, Store!FinalBlockIsLast
    <2>3. i \in 1..Len(s) /\ \A j \in 1..Len(s) : j > i => s[j].pos # p
        BY <1>1, <2>1 DEF Store!LastEdits
    <2> QED
        BY <1>7, <2>1, <2>2, <2>3 DEF Right
<1>9. ASSUME NEW p \in Within(c), p \notin Store!Written(s)
      PROVE  BlockOf(after[Len(s)], p) = BlockOf(o, p)
    <2>1. \A i \in 1..Len(s) : s[i].pos # p
        BY <1>1, <1>9, StoreConstants, Store!EveryPositionHasLastEdit
    <2> QED
        BY <1>7, <2>1 DEF Right
<1>10. IsChunk(c, after[Len(s)])
    BY <1>7 DEF Right
<1> QED
    BY <1>2, <1>8, <1>9, <1>10

-----------------------------------------------------------------------------
(* The region files.                                                       *)

\* A region file that can be read has chunks in its places, those of columns of
\* the world with blocks of that column.
IsRegion(r, f) ==
    /\ DOMAIN f \subseteq Slots
    /\ f \in [DOMAIN f -> P!Partial(Position)]
    /\ \A c \in Column : RegionOf(c) = r /\ Slot(c) \in DOMAIN f => IsChunk(c, f[Slot(c)])

\* So are the files.  The writer has one open only while it flushes, never a
\* missing one; and one without a header is that of the next column.
FilesHold ==
    /\ files = [r \in Regions |-> files[r]]
    /\ \A r \in Regions : files[r] \in {NoFile, Blank} \/ IsRegion(r, files[r])
    /\ region # Closed => region \in Regions /\ files[region] # NoFile /\ writer = "anvil"
    /\ region # Closed /\ files[region] = Blank =>
        \E c \in todo : RegionOf(c) = region /\ \A d \in todo \ {c} : FlushedBefore(c, d)

\* What the files hold of a column.
ChunkIn(fs, c) ==
    IF fs[RegionOf(c)] = Blank THEN <<>> ELSE ReadChunk(fs[RegionOf(c)], c)

\* No marker is a region.
LEMMA RegionIsFile ==
    ASSUME NEW r, NEW f, IsRegion(r, f)
    PROVE  f \notin {NoFile, Blank}
<1>1. DOMAIN f \in SUBSET Slots /\ f \in [DOMAIN f -> P!Partial(Position)]
    BY DEF IsRegion
<1>2. \A S \in SUBSET Slots : {NoFile, Blank} \cap [S -> P!Partial(Position)] = {}
    BY StorageAssumption
<1> QED
    BY <1>1, <1>2

\* A chunk without a block, and a region without a chunk.
LEMMA EmptyHolds ==
    /\ \A c : IsChunk(c, <<>>) /\ \A r : IsRegion(r, EmptyRegion)
    /\ DOMAIN <<>> = {}
<1>1. DOMAIN <<>> = {} /\ \A S : <<>> \in [{} -> S]
    OBVIOUS
<1> QED
    BY <1>1 DEF IsChunk, IsRegion, EmptyRegion

\* A chunk is a map for some positions.
LEMMA ChunkIsPartial ==
    ASSUME NEW c, NEW m, IsChunk(c, m)
    PROVE  m \in P!Partial(Position)
<1>1. DOMAIN m \in SUBSET Position /\ m \in [DOMAIN m -> Block]
    BY DEF IsChunk, Within
<1> QED
    BY <1>1 DEF P!Partial

\* The files hold at a position what the chunk of its column says; and give that,
\* unless it cannot be read.
LEMMA BlocksOfChunks ==
    ASSUME NEW fs, NEW p \in Position
    PROVE  /\ Held(fs)[p] = BlockOf(ChunkIn(fs, ColumnAt(p)), p)
           /\ InFiles(fs, p) = IF fs[RegionOf(ColumnAt(p))] = Blank THEN Unreadable
                               ELSE Held(fs)[p]
<1> DEFINE f == fs[RegionOf(ColumnAt(p))]
<1>1. ColumnOf[p] = ColumnAt(p) /\ Base[p] = BaseBlock(p)
    BY DEF ColumnOf, Base
<1>2. Held(fs)[p] = IF f \in {NoFile, Blank} THEN Base[p] ELSE InFiles(fs, p)
    BY <1>1 DEF Held
<1>3. CASE f = Blank
    BY <1>1, <1>2, <1>3, EmptyHolds DEF BlockOf, ChunkIn, InFiles
<1>4. CASE f # Blank
    <2>1. InFiles(fs, p) = BlockOf(ChunkIn(fs, ColumnAt(p)), p)
        BY <1>1, <1>4 DEF InFiles, BlockOf, ChunkIn
    <2>2. f = NoFile => InFiles(fs, p) = Base[p]
        BY <1>1, <1>4, EmptyHolds DEF InFiles, ReadChunk
    <2> QED
        BY <1>2, <1>4, <2>1, <2>2
<1> QED
    BY <1>3, <1>4

\* What the files say of a column is a chunk of it.
LEMMA ChunksHold ==
    ASSUME FilesHold, NEW c \in Column
    PROVE  IsChunk(c, ChunkIn(files, c))
<1>1. RegionOf(c) \in Regions
    BY SlotInRegion
<1>2. CASE files[RegionOf(c)] \in {NoFile, Blank} \/ Slot(c) \notin DOMAIN files[RegionOf(c)]
    BY <1>2, EmptyHolds DEF ChunkIn, ReadChunk
<1>3. CASE ~(files[RegionOf(c)] \in {NoFile, Blank} \/ Slot(c) \notin DOMAIN files[RegionOf(c)])
    <2>1. IsRegion(RegionOf(c), files[RegionOf(c)])
        BY <1>1, <1>3 DEF FilesHold
    <2>2. ChunkIn(files, c) = files[RegionOf(c)][Slot(c)]
        BY <1>3 DEF ChunkIn, ReadChunk
    <2> QED
        BY <1>3, <2>1, <2>2 DEF IsRegion
<1> QED
    BY <1>2, <1>3

\* Creating a file, giving it its header and removing it change no chunk.
LEMMA EmptyFiles ==
    ASSUME FilesHold, todo \subseteq Column, OpenRegion \/ WriteHeader \/ FinishRegion
    PROVE  FilesHold' /\ \A c \in Column : ChunkIn(files', c) = ChunkIn(files, c)
<1>1. ASSUME NEW r \in Regions, NEW new, files' = [files EXCEPT ![r] = new],
             new = files[r] \/ (files[r] \in {NoFile, Blank, EmptyRegion}
                                /\ new \in {NoFile, Blank, EmptyRegion})
      PROVE  /\ files' = [q \in Regions |-> files'[q]]
             /\ \A q \in Regions : files'[q] \in {NoFile, Blank} \/ IsRegion(q, files'[q])
             /\ \A c \in Column : ChunkIn(files', c) = ChunkIn(files, c)
    <2>1. files' = [q \in Regions |-> IF q = r THEN new ELSE files[q]]
        BY <1>1 DEF FilesHold
    <2>2. \A q \in Regions : files'[q] \in {NoFile, Blank} \/ IsRegion(q, files'[q])
        BY <1>1, <2>1, EmptyHolds DEF FilesHold
    <2>3. \A c : \A f \in {NoFile, EmptyRegion} : ReadChunk(f, c) = <<>>
        BY EmptyHolds DEF ReadChunk, EmptyRegion
    <2>4. \A c \in Column : ChunkIn(files', c) = ChunkIn(files, c)
        BY <1>1, <2>1, <2>3, SlotInRegion DEF ChunkIn
    <2> QED
        BY <2>1, <2>2, <2>4
<1>2. CASE OpenRegion
    <2>1. /\ region' \in Regions
          /\ files' = [files EXCEPT ![region'] = IF @ = NoFile THEN Blank ELSE @]
        BY <1>2, SlotInRegion DEF OpenRegion
    <2>2. PICK r \in Regions : r = region'
        BY <2>1
    <2>3. files' = [files EXCEPT ![r] = IF files[r] = NoFile THEN Blank ELSE files[r]]
        BY <2>1, <2>2
    <2>4. /\ files'[r] # NoFile
          /\ writer' = "anvil" /\ todo' = todo
          /\ \E c \in todo : RegionOf(c) = r /\ \A d \in todo \ {c} : FlushedBefore(c, d)
        BY <1>2, <2>2, <2>3, StorageAssumption DEF FilesHold, OpenRegion
    <2> DEFINE new == IF files[r] = NoFile THEN Blank ELSE files[r]
    <2>5. files' = [files EXCEPT ![r] = new]
        BY <2>3
    <2>6. new = files[r] \/ (files[r] \in {NoFile, Blank, EmptyRegion}
                             /\ new \in {NoFile, Blank, EmptyRegion})
        OBVIOUS
    <2> HIDE DEF new
    <2>7. /\ files' = [q \in Regions |-> files'[q]]
          /\ \A q \in Regions : files'[q] \in {NoFile, Blank} \/ IsRegion(q, files'[q])
          /\ \A c \in Column : ChunkIn(files', c) = ChunkIn(files, c)
        BY <1>1, <2>5, <2>6
    <2> QED
        BY <2>1, <2>2, <2>4, <2>7 DEF FilesHold
<1>3. CASE WriteHeader \/ FinishRegion
    <2>1. PICK r \in Regions : r = region
        BY <1>3 DEF WriteHeader, FinishRegion, FilesHold
    <2> DEFINE new == IF WriteHeader THEN EmptyRegion
                      ELSE IF files[r] = EmptyRegion THEN NoFile ELSE files[r]
    <2>2. /\ files' = [files EXCEPT ![r] = new]
          /\ new = files[r] \/ (files[r] \in {NoFile, Blank, EmptyRegion}
                                /\ new \in {NoFile, Blank, EmptyRegion})
          /\ \/ region' = region /\ new = EmptyRegion /\ writer' = "anvil"
             \/ region' = Closed
        BY <1>3, <2>1 DEF WriteHeader, FinishRegion
    <2> HIDE DEF new
    <2>3. /\ files' = [q \in Regions |-> files'[q]]
          /\ \A q \in Regions : files'[q] \in {NoFile, Blank} \/ IsRegion(q, files'[q])
          /\ \A c \in Column : ChunkIn(files', c) = ChunkIn(files, c)
        BY <1>1, <2>2
    <2>4. region' # Closed => /\ region' \in Regions /\ writer' = "anvil"
                              /\ files'[region'] \notin {NoFile, Blank}
        BY <2>1, <2>2, EmptyHolds, RegionIsFile DEF FilesHold
    <2> QED
        BY <2>3, <2>4 DEF FilesHold
<1> QED
    BY <1>2, <1>3

\* Writing a chunk gives its column the edits of the batch, and changes no other.
LEMMA ChunkWritten ==
    ASSUME FilesHold, todo \subseteq Column,
           batch \in Seq(Store!Edit), WriteChunk
    PROVE  /\ FilesHold'
           /\ region \in Regions /\ files'[region] # Blank
           /\ \A q \in Regions \ {region} : files'[q] = files[q]
           /\ \E c \in todo :
                /\ RegionOf(c) = region
                /\ \A d \in todo \ {c} : FlushedBefore(c, d)
                /\ todo' = todo \ {c}
                /\ ChunkIn(files', c) = ApplyEdits(c, ChunkIn(files, c), batch)
                /\ \A d \in Column \ {c} : ChunkIn(files', d) = ChunkIn(files, d)
<1>1. PICK c \in todo :
        /\ RegionOf(c) = region
        /\ \A d \in todo \ {c} : FlushedBefore(c, d)
        /\ LET blocks == ApplyEdits(c, ReadChunk(files[region], c), batch)
           IN files' = [files EXCEPT ![region] =
                IF blocks = <<>> THEN [s \in DOMAIN @ \ {Slot(c)} |-> @[s]]
                ELSE Put(@, Slot(c), ReadBack(c, blocks))]
        /\ todo' = todo \ {c}
    BY DEF WriteChunk
<1>2. PICK r \in Regions : r = region
    BY DEF WriteChunk, FilesHold
<1> DEFINE f == files[r]
           blocks == ApplyEdits(c, ChunkIn(files, c), batch)
           new == IF blocks = <<>> THEN [s \in DOMAIN f \ {Slot(c)} |-> f[s]]
                  ELSE Put(f, Slot(c), blocks)
<1>3. /\ IsRegion(r, f) /\ f \notin {NoFile, Blank}
      /\ RegionOf(c) = r /\ Slot(c) \in Slots
    <2>1. f # NoFile /\ f # Blank
        BY <1>2 DEF WriteChunk, FilesHold
    <2> QED
        BY <1>1, <1>2, <2>1, SlotInRegion DEF FilesHold
<1>4. IsChunk(c, blocks) /\ blocks \in P!Partial(Position)
    <2>1. IsChunk(c, ChunkIn(files, c))
        BY ChunksHold
    <2> HIDE DEF blocks
    <2>2. IsChunk(c, blocks)
        BY <2>1, EditsApplied DEF blocks
    <2> QED
        BY <2>2, ChunkIsPartial
<1>5. files' = [q \in Regions |-> IF q = r THEN new ELSE files[q]]
    <2>1. ReadChunk(files[region], c) = ChunkIn(files, c)
        BY <1>1, <1>2, <1>3 DEF ChunkIn
    <2>2. ReadBack(c, blocks) = blocks
        BY <1>4, ChunkReadsBack
    <2> HIDE DEF blocks
    <2>3. files' = [files EXCEPT ![r] = new]
        BY <1>1, <1>2, <2>1, <2>2 DEF blocks
    <2> HIDE DEF new
    <2> QED
        BY <2>3 DEF FilesHold
<1> HIDE DEF blocks
<1>6. /\ DOMAIN new = IF blocks = <<>> THEN DOMAIN f \ {Slot(c)} ELSE DOMAIN f \cup {Slot(c)}
      /\ new \in [DOMAIN new -> P!Partial(Position)]
      /\ blocks # <<>> => new[Slot(c)] = blocks
      /\ \A s \in DOMAIN new \ {Slot(c)} : new[s] = f[s]
    BY <1>3, <1>4 DEF IsRegion, Put
<1> HIDE DEF new, f
<1>7. IsRegion(r, new)
    <2>1. DOMAIN new \subseteq Slots
        BY <1>3, <1>6 DEF IsRegion
    <2>2. ASSUME NEW d \in Column, RegionOf(d) = r, Slot(d) \in DOMAIN new
          PROVE  IsChunk(d, new[Slot(d)])
        <3>1. CASE Slot(d) = Slot(c)
            <4>1. d = c
                BY <1>3, <2>2, <3>1, SlotInRegion, SlotIsUnique
            <4>2. blocks # <<>>
                BY <1>6, <2>2, <3>1
            <4> QED
                BY <1>4, <1>6, <4>1, <4>2
        <3>2. CASE Slot(d) # Slot(c)
            BY <1>3, <1>6, <2>2, <3>2 DEF IsRegion
        <3> QED
            BY <3>1, <3>2
    <2> QED
        BY <1>6, <2>1, <2>2 DEF IsRegion
<1>8. new \notin {NoFile, Blank}
    BY <1>7, RegionIsFile
<1>9. FilesHold'
    <2>1. region' = region /\ writer' = "anvil"
        BY DEF WriteChunk
    <2> QED
        BY <1>2, <1>5, <1>7, <1>8, <2>1 DEF FilesHold
<1>10. ChunkIn(files', c) = blocks
    <2>1. ChunkIn(files', c) = ReadChunk(new, c)
        BY <1>3, <1>5, <1>8 DEF ChunkIn
    <2> QED
        BY <1>6, <1>8, <2>1 DEF ReadChunk
<1>11. ASSUME NEW d \in Column \ {c}
       PROVE  ChunkIn(files', d) = ChunkIn(files, d)
    <2>1. CASE RegionOf(d) = r
        <3>1. Slot(d) # Slot(c)
            BY <1>3, <2>1, SlotInRegion, SlotIsUnique
        <3>2. ChunkIn(files', d) = ReadChunk(new, d) /\ ChunkIn(files, d) = ReadChunk(f, d)
            BY <1>3, <1>5, <1>8, <2>1 DEF ChunkIn, f
        <3> QED
            BY <1>3, <1>6, <1>8, <3>1, <3>2 DEF ReadChunk
    <2>2. CASE RegionOf(d) # r
        BY <1>5, <2>2, SlotInRegion DEF ChunkIn
    <2> QED
        BY <2>1, <2>2
<1>12. region \in Regions /\ \A q \in Regions : files'[q] = IF q = region THEN new ELSE files[q]
    BY <1>2, <1>5
<1> QED
    BY <1>1, <1>8, <1>9, <1>10, <1>11, <1>12 DEF blocks

-----------------------------------------------------------------------------
(* The refinement of Persistence.                                          *)

\* The store that ImplementsPersistence speaks of and the one of the proofs are the
\* same, in its states and its steps.
LEMMA SameStore ==
    /\ (Refined!Init <=> Store!Init)
    /\ ([Refined!Next]_(Refined!vars) <=> [Store!Next]_(Store!vars))
    BY
    DEF Refined!disk, Store!disk, Refined!channel, Store!channel, Refined!writerVars,
        Store!writerVars, Refined!callerVars, Store!callerVars, Refined!history,
        Store!history, Refined!vars, Store!vars, Refined!LastEdits, Store!LastEdits,
        Refined!Written, Store!Written, Refined!FinalBlock, Store!FinalBlock,
        Refined!OverrideFor, Store!OverrideFor, Refined!Merge, Store!Merge,
        Refined!Stored, Store!Stored, Refined!Unlogged, Store!Unlogged,
        Refined!InFlight, Store!InFlight, Refined!Receiving, Store!Receiving,
        Refined!Running, Store!Running, Refined!Init, Store!Init, Refined!RecordQueued,
        Store!RecordQueued, Refined!SendAccepted, Store!SendAccepted,
        Refined!SendRefused, Store!SendRefused, Refined!CommitOverrides,
        Store!CommitOverrides, Refined!PersistBuild, Store!PersistBuild,
        Refined!MarkBuildUndone, Store!MarkBuildUndone, Refined!BeginShutdown,
        Store!BeginShutdown, Refined!JoinWriter, Store!JoinWriter, Refined!RecvEdit,
        Store!RecvEdit, Refined!TakeShutdown, Store!TakeShutdown, Refined!DrainEdit,
        Store!DrainEdit, Refined!BeginFlush, Store!BeginFlush, Refined!WriteColumn,
        Store!WriteColumn, Refined!FlushSqlite, Store!FlushSqlite,
        Refined!RecordFlushed, Store!RecordFlushed, Refined!FailFlush,
        Store!FailFlush, Refined!Crash, Store!Crash, Refined!Open, Store!Open,
        Refined!Client, Store!Client, Refined!HandOver, Store!HandOver,
        Refined!Writer, Store!Writer, Refined!SameRegion, Store!SameRegion,
        Refined!CreateRegion, Store!CreateRegion, Refined!WriteHeader,
        Store!WriteHeader, Refined!Creating, Store!Creating, Refined!Next, Store!Next

\* The two have the same edits on their way, written positions and final blocks.
LEMMA SameEdits ==
    /\ P!Edit = Store!Edit /\ P!InFlight = Store!InFlight
    /\ P!Receiving <=> Store!Receiving
    /\ \A e : P!Written(e) = Store!Written(e)
    /\ \A p : P!Stored(p) = Store!Stored(p)
    /\ \A a, b : P!Merge(a, b) = Store!Merge(a, b)
    BY DEF P!Edit, Store!Edit, P!InFlight, Store!InFlight, P!Unlogged, Store!Unlogged,
           P!Receiving, Store!Receiving, P!Written, Store!Written, P!LastEdits,
           Store!LastEdits, P!Stored, Store!Stored, P!Merge, Store!Merge

\* While no file changes, what the callers do is what the store has them do ...
LEMMA CallersStep ==
    ASSUME UNCHANGED files
    PROVE  /\ \A p, b : P!RecordQueued(p, b) => Store!RecordQueued(p, b)
           /\ P!HandOver => Store!HandOver
           /\ \A k, g, o : P!PersistBuild(k, g, o) => Store!PersistBuild(k, g, o)
           /\ \A k : P!MarkBuildUndone(k) => Store!MarkBuildUndone(k)
           /\ P!BeginShutdown => Store!BeginShutdown
           /\ P!JoinWriter => Store!JoinWriter
           /\ P!Crash => Store!Crash
           /\ P!Open => Store!Open
<1> USE DEF P!disk, Store!disk, P!channel, Store!channel, P!writerVars,
        Store!writerVars, P!callerVars, Store!callerVars, P!history, Store!history
<1>1. (P!Receiving <=> Store!Receiving) /\ (P!Running <=> Store!Running)
    BY DEF P!Receiving, Store!Receiving, P!Running, Store!Running
<1>2. \A p, b : P!RecordQueued(p, b) => Store!RecordQueued(p, b)
    BY DEF P!RecordQueued, Store!RecordQueued
<1>3. P!HandOver => Store!HandOver
    BY <1>1 DEF P!HandOver, Store!HandOver, P!SendAccepted, Store!SendAccepted,
                P!SendRefused, Store!SendRefused
<1>4. \A w : P!CommitOverrides(w) => Store!CommitOverrides(w)
    BY SameEdits DEF P!CommitOverrides, Store!CommitOverrides, P!OverrideFor,
                     Store!OverrideFor
<1>5. \A k, g, o : P!PersistBuild(k, g, o) => Store!PersistBuild(k, g, o)
    BY <1>4 DEF P!PersistBuild, Store!PersistBuild
<1>6. \A k : P!MarkBuildUndone(k) => Store!MarkBuildUndone(k)
    BY <1>4 DEF P!MarkBuildUndone, Store!MarkBuildUndone
<1>7. P!BeginShutdown => Store!BeginShutdown
    <2>1. P!Receiving = Store!Receiving
        BY DEF P!Receiving, Store!Receiving
    <2> QED
        BY <2>1 DEF P!BeginShutdown, Store!BeginShutdown
<1>8. P!JoinWriter => Store!JoinWriter
    BY <1>1 DEF P!JoinWriter, Store!JoinWriter
<1>9. P!Crash => Store!Crash
    BY <1>1 DEF P!Crash, Store!Crash, P!Receiving, Store!Receiving
<1>10. P!Open => Store!Open
    BY DEF P!Open, Store!Open, P!Stored, Store!Stored, P!Merge, Store!Merge
<1> QED
    BY <1>2, <1>3, <1>5, <1>6, <1>7, <1>8, <1>9, <1>10

\* ... and what the writer does outside the files; a flush with edits has columns
\* to write.
LEMMA WriterStep ==
    ASSUME UNCHANGED files, batch \in Seq(Store!Edit)
    PROVE  /\ P!RecvEdit => Store!RecvEdit
           /\ P!TakeShutdown => Store!TakeShutdown
           /\ P!DrainEdit => Store!DrainEdit
           /\ P!BeginFlush => Store!BeginFlush
           /\ P!FlushSqlite => Store!FlushSqlite
           /\ P!RecordFlushed => Store!RecordFlushed
           /\ P!FailFlush => Store!FailFlush
<1> USE DEF P!disk, Store!disk, P!channel, Store!channel, P!writerVars,
        Store!writerVars, P!callerVars, Store!callerVars, P!history, Store!history,
        P!LastEdits, Store!LastEdits, P!Written, Store!Written
<1>1. P!BeginFlush => Store!BeginFlush
    <2>1. batch # <<>> => {ColumnOf[p] : p \in Store!Written(batch)} # {}
        <3>1. SUFFICES ASSUME batch # <<>> PROVE Store!Written(batch) # {}
            OBVIOUS
        <3>2. Len(batch) \in Nat \ {0} /\ DOMAIN batch = 1..Len(batch)
            BY <3>1, EmptySeq, LenProperties
        <3>3. PICK j \in DOMAIN batch : j = 1
            BY <3>2
        <3>4. batch[j].pos \in Store!Written(batch)
            BY StoreConstants, Store!EveryPositionHasLastEdit
        <3> QED
            BY <3>4
    <2> QED
        BY <2>1 DEF P!BeginFlush, Store!BeginFlush
<1>2. P!RecvEdit => Store!RecvEdit
    BY DEF P!RecvEdit, Store!RecvEdit
<1>3. P!TakeShutdown => Store!TakeShutdown
    BY DEF P!TakeShutdown, Store!TakeShutdown
<1>4. P!DrainEdit => Store!DrainEdit
    BY DEF P!DrainEdit, Store!DrainEdit
<1>5. P!FlushSqlite => Store!FlushSqlite
    BY DEF P!FlushSqlite, Store!FlushSqlite, P!FinalBlock, Store!FinalBlock
<1>6. P!RecordFlushed => Store!RecordFlushed
    BY DEF P!RecordFlushed, Store!RecordFlushed
<1>7. P!FailFlush => Store!FailFlush
    BY DEF P!FailFlush, Store!FailFlush
<1> QED
    BY <1>1, <1>2, <1>3, <1>4, <1>5, <1>6, <1>7

\* What holds of the files and of the store they are, of any world whose sections
\* read back.
StorageHolds == Store!IInv /\ FilesHold

\* The types the store has.
LEMMA StoreTyped ==
    ASSUME Store!IInv
    PROVE  /\ todo \subseteq Column /\ batch \in Seq(Store!Edit)
           /\ accepted \in Seq(Store!Edit) /\ queue \in Seq(Store!Edit)
           /\ block_overrides \in [Position -> Block \cup {NoOverride}]
           /\ caller = "sending" => edit \in Store!Edit
           /\ caller = "down" => ~Store!Receiving
    BY DEF Store!IInv, Store!TypeOK, Store!Flow

\* What Persistence says of the callers and the channel is a step of the store.
LEMMA InMemoryIsStep ==
    ASSUME Store!IInv, InMemory
    PROVE  Store!Next
<1>1. UNCHANGED files /\ batch \in Seq(Store!Edit) /\ accepted \in Seq(Store!Edit)
    BY StoreTyped DEF InMemory
<1>2. ASSUME Len(accepted) < MaxEdits, NEW e \in Edits[Len(accepted)],
             P!RecordQueued(e[1], e[2])
      PROVE  Store!Next
    <2>1. Len(accepted) \in 0..MaxEdits - 1
        BY <1>1, <1>2, LenProperties, StorageAssumption
    <2>2. e[1] \in Position /\ e[2] \in Block
        BY <2>1, StorageAssumption
    <2>3. Store!RecordQueued(e[1], e[2])
        BY <1>1, <1>2, CallersStep
    <2> QED
        BY <2>2, <2>3 DEF Store!Next, Store!Client
<1>3. ASSUME NEW k \in Key, NEW g \in Plan, P!PersistBuild(k, g, [p \in DOMAIN g |-> Air])
      PROVE  Store!Next
    <2>1. Store!PersistBuild(k, g, [p \in DOMAIN g |-> Air])
        BY <1>1, <1>3, CallersStep
    <2> QED
        BY <2>1 DEF Store!Next, Store!Client
<1>4. ASSUME NEW k \in Key, P!MarkBuildUndone(k) PROVE Store!Next
    <2>1. Store!MarkBuildUndone(k)
        BY <1>1, <1>4, CallersStep
    <2> QED
        BY <2>1 DEF Store!Next, Store!Client
<1>5. CASE P!BeginShutdown \/ P!HandOver
    <2>1. Store!BeginShutdown \/ Store!HandOver
        BY <1>1, <1>5, CallersStep
    <2> QED
        BY <2>1 DEF Store!Next, Store!Client
<1>6. CASE P!RecvEdit \/ P!TakeShutdown \/ P!DrainEdit \/ P!BeginFlush
           \/ P!FlushSqlite \/ P!RecordFlushed
    <2>1. Store!RecvEdit \/ Store!TakeShutdown \/ Store!DrainEdit \/ Store!BeginFlush
          \/ Store!FlushSqlite \/ Store!RecordFlushed
        BY <1>1, <1>6, WriterStep
    <2> QED
        BY <2>1 DEF Store!Next, Store!Writer
<1> QED
    BY <1>2, <1>3, <1>4, <1>5, <1>6 DEF InMemory

\* Files that say the same of every column hold the same blocks.
LEMMA SameBlocks ==
    ASSUME NEW fs, NEW gs, \A c \in Column : ChunkIn(fs, c) = ChunkIn(gs, c)
    PROVE  Held(fs) = Held(gs)
<1>1. \A p \in Position : Held(fs)[p] = Held(gs)[p]
    BY BlocksOfChunks, ColumnInWorld
<1>2. /\ Held(fs) = [p \in Position |-> Held(fs)[p]]
      /\ Held(gs) = [p \in Position |-> Held(gs)[p]]
    BY DEF Held
<1> HIDE DEF Held
<1> QED
    BY <1>1, <1>2

\* Creating a file and giving it its header are steps of the store; opening one that
\* is there, and leaving or removing one, are none.
LEMMA EmptyFilesStep ==
    ASSUME StorageHolds, OpenRegion \/ WriteHeader \/ FinishRegion
    PROVE  /\ FilesHold' /\ Held(files') = Held(files)
           /\ Store!Creating \/ UNCHANGED Store!vars
<1>1. todo \subseteq Column /\ FilesHold
    BY StoreTyped DEF StorageHolds
<1>2. FilesHold' /\ Held(files') = Held(files)
    BY <1>1, EmptyFiles, SameBlocks
<1>3. /\ UNCHANGED writerHolds /\ todo' = todo /\ writer = "anvil"
      /\ writer' = IF FinishRegion /\ todo = {} THEN "sqlite" ELSE "anvil"
    BY DEF OpenRegion, WriteHeader, FinishRegion
<1>4. NoFile # Blank /\ EmptyRegion # Blank
    BY StorageAssumption, EmptyHolds, RegionIsFile
<1>5. ASSUME NEW r, NEW new, files' = [files EXCEPT ![r] = new]
      PROVE  \A q \in Regions : files'[q] = IF q = r THEN new ELSE files[q]
    BY <1>1, <1>5 DEF FilesHold
<1>6. CASE OpenRegion
    <2>1. PICK c \in todo : /\ \A d \in todo \ {c} : FlushedBefore(c, d)
                            /\ region' = RegionOf(c)
        BY <1>6 DEF OpenRegion
    <2>2. c \in Column /\ RegionOf(c) \in Regions
        BY <1>1, <2>1, SlotInRegion
    <2>3. files' = [files EXCEPT ![RegionOf(c)] = IF @ = NoFile THEN Blank ELSE @]
        BY <1>6, <2>1 DEF OpenRegion
    <2>4. CASE files[RegionOf(c)] # NoFile
        <3>1. files' = files
            BY <1>1, <2>2, <2>3, <2>4 DEF FilesHold
        <3> QED
            BY <1>2, <1>3, <1>6, <3>1 DEF writerHolds, Store!vars, OpenRegion
    <2>5. CASE files[RegionOf(c)] = NoFile
        <3>1. NoHeader(files') = NoHeader(files) \cup Store!SameRegion(c)
            <4>1. files' = [files EXCEPT ![RegionOf(c)] = Blank]
                BY <2>3, <2>5
            <4>2. \A q \in Regions : files'[q] = IF q = RegionOf(c) THEN Blank ELSE files[q]
                BY <1>5, <4>1
            <4>3. \A d \in Column : d \in NoHeader(files') <=>
                                        d \in NoHeader(files) \/ d \in Store!SameRegion(c)
                BY <4>2, SlotInRegion DEF NoHeader, Store!SameRegion
            <4> QED
                BY <4>3 DEF NoHeader, Store!SameRegion
        <3>2. \A p \in Position : ColumnOf[p] \in Store!SameRegion(c) => Held(files)[p] = Base[p]
            BY <2>5 DEF Store!SameRegion, Held
        <3>3. Store!CreateRegion(c)
            BY <1>2, <1>3, <1>6, <2>1, <3>1, <3>2
            DEF OpenRegion, writerHolds, Store!CreateRegion, Store!channel,
                Store!writerVars, Store!callerVars, Store!history
        <3> QED
            BY <1>2, <2>2, <3>3 DEF Store!Creating
    <2> QED
        BY <2>4, <2>5
<1>7. CASE WriteHeader
    <2>1. files[region] = Blank /\ region # Closed /\ files' = [files EXCEPT ![region] = EmptyRegion]
        BY <1>7 DEF WriteHeader
    <2>2. PICK c \in todo : RegionOf(c) = region /\ \A d \in todo \ {c} : FlushedBefore(c, d)
        BY <1>1, <2>1 DEF FilesHold
    <2>3. c \in Column
        BY <1>1, <2>2
    <2>4. NoHeader(files') = NoHeader(files) \ Store!SameRegion(c)
        <3>1. \A q \in Regions : files'[q] = IF q = region THEN EmptyRegion ELSE files[q]
            BY <1>5, <2>1
        <3>2. \A d \in Column : d \in NoHeader(files') <=>
                                    d \in NoHeader(files) /\ d \notin Store!SameRegion(c)
            BY <1>4, <2>2, <3>1, SlotInRegion DEF NoHeader, Store!SameRegion
        <3> QED
            BY <3>2 DEF NoHeader
    <2>5. Store!WriteHeader(c)
        BY <1>2, <1>3, <1>7, <2>2, <2>4
        DEF WriteHeader, writerHolds, Store!WriteHeader, Store!channel,
            Store!writerVars, Store!callerVars, Store!history
    <2> QED
        BY <1>2, <2>3, <2>5 DEF Store!Creating
<1>8. CASE FinishRegion
    <2>1. /\ files[region] # Blank
          /\ files' = [files EXCEPT ![region] = IF @ = EmptyRegion THEN NoFile ELSE @]
        BY <1>8 DEF FinishRegion
    <2>2. NoHeader(files') = NoHeader(files)
        BY <1>4, <1>5, <2>1, SlotInRegion DEF NoHeader
    <2> QED
        BY <1>2, <1>3, <1>8, <2>2 DEF writerHolds, Store!vars, FinishRegion
<1> QED
    BY <1>6, <1>7, <1>8

\* Writing a chunk is writing a column of the store.
LEMMA WriteChunkIsStep ==
    ASSUME StorageHolds, WriteChunk
    PROVE  FilesHold' /\ \E c \in Column : Store!WriteColumn(c)
<1>1. todo \subseteq Column /\ batch \in Seq(Store!Edit) /\ FilesHold
    BY StoreTyped DEF StorageHolds
<1>2. PICK c \in todo :
        /\ RegionOf(c) = region
        /\ \A d \in todo \ {c} : FlushedBefore(c, d)
        /\ todo' = todo \ {c}
        /\ ChunkIn(files', c) = ApplyEdits(c, ChunkIn(files, c), batch)
        /\ \A d \in Column \ {c} : ChunkIn(files', d) = ChunkIn(files, d)
    BY <1>1, ChunkWritten
<1>3. c \in Column /\ IsChunk(c, ChunkIn(files, c))
    BY <1>1, ChunksHold
<1>4. \A p \in Within(c) : BlockOf(ApplyEdits(c, ChunkIn(files, c), batch), p) =
                IF p \in Store!Written(batch) THEN Store!FinalBlock(batch, p)
                ELSE BlockOf(ChunkIn(files, c), p)
    BY <1>1, <1>3, EditsApplied
<1>5. ASSUME NEW p \in Position
      PROVE  Held(files')[p] =
                IF ColumnOf[p] = c /\ p \in Store!Written(batch)
                THEN Store!FinalBlock(batch, p) ELSE Held(files)[p]
    <2>1. /\ Held(files')[p] = BlockOf(ChunkIn(files', ColumnAt(p)), p)
          /\ Held(files)[p] = BlockOf(ChunkIn(files, ColumnAt(p)), p)
          /\ ColumnOf[p] = ColumnAt(p) /\ ColumnAt(p) \in Column
        BY BlocksOfChunks, ColumnInWorld DEF ColumnOf
    <2>2. CASE ColumnAt(p) = c
        BY <1>2, <1>4, <2>1, <2>2 DEF Within
    <2>3. CASE ColumnAt(p) # c
        BY <1>2, <2>1, <2>3
    <2> QED
        BY <2>2, <2>3
<1>6. Held(files') = [p \in Position |->
                IF ColumnOf[p] = c /\ p \in Store!Written(batch)
                THEN Store!FinalBlock(batch, p) ELSE Held(files)[p]]
    <2>1. Held(files') = [p \in Position |-> Held(files')[p]]
        BY DEF Held
    <2> QED
        BY <1>5, <2>1
<1>7. NoHeader(files') = NoHeader(files) \ Store!SameRegion(c)
    <2>1. /\ region \in Regions /\ files'[region] # Blank
          /\ \A q \in Regions \ {region} : files'[q] = files[q]
        BY <1>1, ChunkWritten
    <2>2. \A d \in Column : d \in NoHeader(files') <=>
                                d \in NoHeader(files) /\ d \notin Store!SameRegion(c)
        BY <1>2, <2>1, SlotInRegion DEF NoHeader, Store!SameRegion
    <2> QED
        BY <2>2 DEF NoHeader
<1>8. Store!WriteColumn(c)
    BY <1>2, <1>6, <1>7
    DEF WriteChunk, writerHolds, Store!WriteColumn, Store!channel, Store!callerVars,
        Store!history
<1> QED
    BY <1>1, <1>3, <1>8, ChunkWritten

\* Every step of the storage is one of the store, or none, and keeps the files whole.
LEMMA StorageStep ==
    ASSUME StorageHolds, [Next]_vars
    PROVE  [Store!Next]_(Store!vars) /\ StorageHolds'
<1> USE DEF StorageHolds
<1>1. /\ todo \subseteq Column /\ batch \in Seq(Store!Edit)
    BY StoreTyped
<1>2. SUFFICES (Store!Next \/ UNCHANGED Store!vars) /\ FilesHold'
    BY StoreConstants, Store!IInvStep
<1>3. ASSUME UNCHANGED files,
             \/ region' = Closed
             \/ region' = region /\ (writer = "anvil" => UNCHANGED <<writer, todo>>)
      PROVE  FilesHold'
    BY <1>3 DEF FilesHold
<1>4. ASSUME UNCHANGED <<storeVars, files>> PROVE UNCHANGED Store!vars
    BY <1>4 DEF storeVars, Store!vars
<1>5. CASE \/ UNCHANGED vars \/ OpenDatabase \/ CopySqlite \/ ListRegions \/ RecordBackup
           \/ \E r \in Regions : CopyRegion(r) \/ LoseRegion(r)
    <2>1. UNCHANGED <<storeVars, files>> /\ region' = region
        BY <1>5 DEF vars, OpenDatabase, CopySqlite, ListRegions, CopyRegion, LoseRegion,
                    RecordBackup
    <2>2. UNCHANGED <<writer, todo>>
        BY <2>1 DEF storeVars
    <2> QED
        BY <1>3, <1>4, <2>1, <2>2
<1>6. CASE OpenRuntime \/ Leave \/ FailFlush
    <2>1. /\ UNCHANGED files
          /\ region' \in {region, Closed}
          /\ P!Open \/ P!JoinWriter \/ P!FailFlush
        BY <1>6 DEF OpenRuntime, Leave, FailFlush
    <2>2. Store!Open \/ Store!JoinWriter \/ Store!FailFlush
        BY <1>1, <2>1, CallersStep, WriterStep
    <2>3. region' = Closed \/ writer # "anvil"
        <3>1. writer = "anvil" => Store!Receiving
            BY DEF Store!Receiving
        <3>2. Store!Receiving => caller # "down" /\ ~Store!JoinWriter
            BY StoreTyped DEF Store!JoinWriter
        <3>3. region' # Closed => ~FailFlush
            BY DEF FailFlush
        <3>4. OpenRuntime => caller = "down"
            BY DEF OpenRuntime, P!Open
        <3>5. Leave => Store!JoinWriter
            BY CallersStep DEF Leave
        <3> QED
            BY <1>6, <3>1, <3>2, <3>3, <3>4, <3>5
    <2> QED
        BY <1>3, <2>1, <2>2, <2>3 DEF Store!Next
<1>7. CASE Crash
    <2>1. /\ UNCHANGED files /\ region' = Closed
          /\ P!Crash \/ UNCHANGED storeVars
        BY <1>7 DEF Crash
    <2>2. Store!Crash \/ UNCHANGED Store!vars
        BY <1>4, <2>1, CallersStep
    <2> QED
        BY <1>3, <2>1, <2>2 DEF Store!Next
<1>8. CASE InMemory
    <2>1. UNCHANGED <<files, region>>
        BY <1>8 DEF InMemory
    <2>2. writer = "anvil" => UNCHANGED <<writer, todo>>
        BY <1>8
        DEF InMemory, P!RecordQueued, P!PersistBuild, P!MarkBuildUndone, P!BeginShutdown,
            P!HandOver, P!SendAccepted, P!SendRefused, P!RecvEdit, P!TakeShutdown,
            P!DrainEdit, P!BeginFlush, P!FlushSqlite, P!RecordFlushed, P!writerVars
    <2> QED
        BY <1>3, <1>8, <2>1, <2>2, InMemoryIsStep
<1>9. CASE OpenRegion \/ WriteHeader \/ FinishRegion
    BY <1>9, EmptyFilesStep DEF Store!Next
<1>10. CASE WriteChunk
    BY <1>10, WriteChunkIsStep DEF Store!Next, Store!Writer
<1> QED
    BY <1>5, <1>6, <1>7, <1>8, <1>9, <1>10 DEF Next

\* A new save holds nothing, and is a new store.
LEMMA StorageInit == Init => Store!Init /\ StorageHolds
<1> SUFFICES ASSUME Init PROVE Store!Init /\ StorageHolds
    OBVIOUS
<1>1. files = [r \in Regions |-> NoFile] /\ region = Closed
    BY DEF Init
<1>2. FilesHold
    BY <1>1 DEF FilesHold
<1>3. Store!Init
    BY DEF Init, P!Init, Store!Init
<1> QED
    BY <1>2, <1>3, StoreConstants, Store!IInvInit DEF StorageHolds

\* Creating, encoding, rewriting and removing region files, with the process dying
\* between any two of these, is what Persistence says of a map of stored blocks and
\* of the columns no load succeeds for (persistence.rs:316-407, 568-870): what
\* Persistence_proofs says of them holds of the files.
THEOREM FilesImplementPersistence == Spec => ImplementsPersistence
<1>1. Init => Refined!Init /\ StorageHolds
    BY StorageInit, SameStore
<1>2. StorageHolds /\ [Next]_vars => [Refined!Next]_(Refined!vars) /\ StorageHolds'
    BY StorageStep, SameStore
<1> QED
    BY <1>1, <1>2, PTL DEF Spec, ImplementsPersistence, Refined!Spec

-----------------------------------------------------------------------------
(* A backup beside a running server.                                       *)

\* Blocks a backup under way may give a position.
Allowed(p) == backup.began.blocks[p] \cup WrittenSince(p)

\* The copies of the region files, and the files where there are none yet.
Copies == [r \in Regions |-> IF r \in DOMAIN backup.files THEN backup.files[r] ELSE files[r]]

\* While one is under way the server is up, and whatever a flush may still move
\* into a region file that is not copied yet is allowed there; so is what the
\* files hold, and what the copies give, under no row of the copied SQLite.
BackingUp ==
    backup # NoBackup =>
        /\ caller # "down" /\ DOMAIN backup = {"overrides", "files", "found", "began"}
        /\ backup.began.edits \in 0..Len(accepted)
        /\ \A p \in Position : \A i \in DOMAIN Store!InFlight :
            Store!InFlight[i].pos = p => Store!InFlight[i].block \in Allowed(p)
        /\ \A p \in Position :
            IF backup.overrides[p] = NoOverride
            THEN /\ Held(files)[p] \in Allowed(p)
                 /\ InFiles(Copies, p) \in {Unreadable} \cup Allowed(p)
            ELSE backup.overrides[p] \in Allowed(p)

BackupHolds == StorageHolds /\ BackingUp

\* The region file of a position alone decides what files give it; that is what they
\* hold there, if it can be read.
LEMMA RegionDecides ==
    ASSUME NEW fs, NEW gs, NEW p \in Position,
           fs[RegionOf(ColumnAt(p))] = gs[RegionOf(ColumnAt(p))]
    PROVE  /\ InFiles(fs, p) = InFiles(gs, p)
           /\ InFiles(fs, p) \in {Unreadable, Held(gs)[p]}
<1>1. ChunkIn(fs, ColumnAt(p)) = ChunkIn(gs, ColumnAt(p))
    BY DEF ChunkIn
<1> QED
    BY <1>1, BlocksOfChunks

\* The blocks edits were given since a backup began stay, and more may come.
LEMMA AllowedGrows ==
    ASSUME UNCHANGED backup, accepted \in Seq(Store!Edit), backup.began.edits \in 0..Len(accepted),
           \/ UNCHANGED accepted
           \/ \E e \in Store!Edit : accepted' = Append(accepted, e)
    PROVE  /\ \A p : Allowed(p) \subseteq Allowed(p)'
           /\ backup'.began.edits \in 0..Len(accepted')
           /\ \A p : \A e \in Store!Edit : accepted' = Append(accepted, e) /\ e.pos = p =>
                e.block \in Allowed(p)'
<1>1. Len(accepted) \in Nat /\ DOMAIN accepted = 1..Len(accepted)
    BY LenProperties
<1>2. CASE UNCHANGED accepted
    <2>1. ASSUME NEW e \in Store!Edit, accepted = Append(accepted, e) PROVE FALSE
        <3>1. Len(Append(accepted, e)) = Len(accepted) + 1
            BY AppendProperties
        <3>2. Len(accepted) = Len(accepted) + 1
            BY <2>1, <3>1
        <3> QED
            BY <1>1, <3>2
    <2> QED
        BY <1>2, <2>1 DEF Allowed, WrittenSince
<1>3. ASSUME NEW e \in Store!Edit, accepted' = Append(accepted, e)
      PROVE  /\ \A p : Allowed(p) \subseteq Allowed(p)'
             /\ backup'.began.edits \in 0..Len(accepted')
             /\ \A p : e.pos = p => e.block \in Allowed(p)'
    <2>1. /\ Len(accepted') = Len(accepted) + 1
          /\ DOMAIN accepted' = 1..Len(accepted) + 1
          /\ \A i \in 1..Len(accepted) : accepted'[i] = accepted[i]
          /\ accepted'[Len(accepted) + 1] = e
        BY <1>3, AppendProperties, LenProperties
    <2>2. \A p : WrittenSince(p) \subseteq WrittenSince(p)'
        BY <1>1, <2>1 DEF WrittenSince
    <2>3. \A p : e.pos = p => e.block \in WrittenSince(p)'
        <3>1. PICK j \in DOMAIN accepted' : j = Len(accepted) + 1
            BY <1>1, <2>1
        <3>2. j > backup'.began.edits /\ accepted'[j] = e
            BY <1>1, <2>1, <3>1
        <3> QED
            BY <3>2 DEF WrittenSince
    <2> QED
        BY <1>1, <2>1, <2>2, <2>3 DEF Allowed
<1>4. ASSUME NEW e \in Store!Edit, NEW d \in Store!Edit,
             Append(accepted, e) = Append(accepted, d)
      PROVE  e = d
    BY <1>1, <1>4, AppendProperties
<1> QED
    BY <1>2, <1>3, <1>4

\* An edit on its way was on its way before, or was accepted just now.
LEMMA InFlightStep ==
    ASSUME Store!IInv, [Store!Next]_(Store!vars), caller # "down", caller' # "down"
    PROVE  \/ /\ UNCHANGED accepted
              /\ \A j \in DOMAIN Store!InFlight' :
                    \E i \in DOMAIN Store!InFlight : Store!InFlight[i] = Store!InFlight'[j]
           \/ \E e \in Store!Edit :
                /\ accepted' = Append(accepted, e)
                /\ \A j \in DOMAIN Store!InFlight' :
                    \/ Store!InFlight'[j] = e
                    \/ \E i \in DOMAIN Store!InFlight : Store!InFlight[i] = Store!InFlight'[j]
<1>1. /\ Store!InFlight \in Seq(Store!Edit) /\ Store!TypeOK /\ Store!Flow
      /\ queue \in Seq(Store!Edit) /\ batch \in Seq(Store!Edit)
    BY StoreConstants, Store!InFlightTyped, StoreTyped DEF Store!IInv
<1>2. CASE Store!InFlight' = Store!InFlight /\ UNCHANGED accepted
    BY <1>2
<1>3. CASE Store!SendAccepted
    <2>1. /\ Store!InFlight' = Append(Store!InFlight, edit)
          /\ accepted' = Append(accepted, edit) /\ edit \in Store!Edit
        BY <1>1, <1>3, StoreConstants, Store!InFlightMoves, StoreTyped DEF Store!SendAccepted
    <2>2. \A j \in DOMAIN Append(Store!InFlight, edit) :
            \/ Append(Store!InFlight, edit)[j] = edit
            \/ \E i \in DOMAIN Store!InFlight :
                Store!InFlight[i] = Append(Store!InFlight, edit)[j]
        BY <1>1, <2>1, AppendProperties, LenProperties
    <2> HIDE DEF Store!InFlight
    <2> QED
        BY <2>1, <2>2
<1>4. CASE Store!FlushSqlite
    <2>1. /\ Store!InFlight = batch \o queue /\ Store!InFlight' = queue
          /\ UNCHANGED accepted
        BY <1>1, <1>4, StoreConstants, Store!InFlightMoves DEF Store!FlushSqlite
    <2>2. \A j \in DOMAIN queue : \E i \in DOMAIN (batch \o queue) : (batch \o queue)[i] = queue[j]
        <3>1. /\ Len(batch) \in Nat /\ Len(queue) \in Nat /\ DOMAIN queue = 1..Len(queue)
              /\ DOMAIN (batch \o queue) = 1..Len(batch) + Len(queue)
              /\ \A j \in 1..Len(queue) : (batch \o queue)[Len(batch) + j] = queue[j]
            BY <1>1, LenProperties, ConcatProperties
        <3> QED
            BY <3>1
    <2> QED
        BY <2>1, <2>2
<1>5. CASE Store!RecvEdit \/ Store!DrainEdit
    <2>1. Store!InFlight' = Store!InFlight /\ UNCHANGED accepted
        BY <1>1, <1>5, StoreConstants, Store!InFlightMoves
        DEF Store!RecvEdit, Store!DrainEdit, Store!history
    <2> QED
        BY <1>2, <2>1
<1>6. CASE Store!RecordFlushed
    <2>1. /\ writer = "record" /\ queue' = queue /\ batch' = <<>> /\ UNCHANGED accepted
          /\ writer' = writer \/ todo' = todo
        BY <1>6 DEF Store!RecordFlushed, Store!history
    <2> QED
        BY <1>1, <1>2, <1>6, <2>1 DEF Store!InFlight, Store!Unlogged, Store!RecordFlushed
<1>7. CASE UNCHANGED <<accepted, queue, batch>> /\ Store!Unlogged' = Store!Unlogged
    BY <1>2, <1>7 DEF Store!InFlight
<1>8. CASE \/ \E p \in Position, b \in Block : Store!RecordQueued(p, b)
           \/ \E k \in Key, g \in Plan : Store!PersistBuild(k, g, [p \in DOMAIN g |-> Air])
           \/ \E k \in Key : Store!MarkBuildUndone(k)
           \/ Store!SendRefused \/ Store!BeginShutdown \/ UNCHANGED Store!vars
    <2>1. UNCHANGED <<accepted, queue, batch>> /\ Store!Unlogged' = Store!Unlogged
        BY <1>8
        DEF Store!RecordQueued, Store!PersistBuild, Store!MarkBuildUndone,
            Store!SendRefused, Store!BeginShutdown, Store!vars, Store!channel,
            Store!writerVars, Store!history, Store!Unlogged
    <2> QED
        BY <1>7, <2>1
<1>9. CASE \/ Store!TakeShutdown \/ Store!BeginFlush
           \/ \E c \in Column : \/ Store!WriteColumn(c) \/ Store!CreateRegion(c)
                               \/ Store!WriteHeader(c)
    <2>1. UNCHANGED <<accepted, queue, batch>> /\ Store!Unlogged' = Store!Unlogged
        BY <1>9
        DEF Store!TakeShutdown, Store!BeginFlush, Store!WriteColumn, Store!CreateRegion,
            Store!WriteHeader, Store!channel, Store!writerVars, Store!history,
            Store!Unlogged
    <2> QED
        BY <1>7, <2>1
<1>10. CASE Store!FailFlush
    <2>1. /\ Store!InFlight = batch \o queue /\ Store!InFlight' = batch \o <<>>
          /\ UNCHANGED accepted
        BY <1>10 DEF Store!FailFlush, Store!history, Store!InFlight, Store!Unlogged
    <2>2. batch \o <<>> = batch
        BY <1>1, ConcatEmptySeq
    <2>3. \A j \in DOMAIN batch : \E i \in DOMAIN (batch \o queue) : (batch \o queue)[i] = batch[j]
        <3>1. /\ Len(batch) \in Nat /\ Len(queue) \in Nat /\ DOMAIN batch = 1..Len(batch)
              /\ DOMAIN (batch \o queue) = 1..Len(batch) + Len(queue)
              /\ \A j \in 1..Len(batch) : (batch \o queue)[j] = batch[j]
            BY <1>1, LenProperties, ConcatProperties
        <3> QED
            BY <3>1
    <2> QED
        BY <2>1, <2>2, <2>3
<1>11. ~(Store!JoinWriter \/ Store!Crash \/ Store!Open)
    BY DEF Store!JoinWriter, Store!Crash, Store!Open
<1> QED
    BY <1>3, <1>4, <1>5, <1>6, <1>8, <1>9, <1>10, <1>11
    DEF Store!Next, Store!Writer, Store!Creating, Store!HandOver, Store!Client

\* A step leaves the block of a position in the files, or puts that of an edit on
\* its way there.
LEMMA FilesStep ==
    ASSUME StorageHolds, [Next]_vars, NEW p \in Position
    PROVE  \/ Held(files')[p] = Held(files)[p]
           \/ \E i \in DOMAIN Store!InFlight :
                /\ Store!InFlight[i].pos = p
                /\ Held(files')[p] = Store!InFlight[i].block
<1>1. /\ todo \subseteq Column /\ FilesHold
      /\ batch \in Seq(Store!Edit) /\ queue \in Seq(Store!Edit)
    BY StoreTyped DEF StorageHolds
<1>2. CASE WriteChunk
    <2>1. PICK c \in Column : Store!WriteColumn(c)
        BY <1>2, WriteChunkIsStep
    <2>2. CASE p \notin Store!Written(batch)
        BY <2>1, <2>2 DEF Store!WriteColumn
    <2>3. CASE p \in Store!Written(batch)
        <3>1. PICK i \in Store!LastEdits(batch) : batch[i].pos = p
            BY <2>3 DEF Store!Written
        <3>2. Store!FinalBlock(batch, p) = batch[i].block
            BY <1>1, <3>1, StoreConstants, Store!FinalBlockIsLast
        <3>3. Store!InFlight = batch \o queue
            BY <2>1 DEF Store!WriteColumn, Store!InFlight, Store!Unlogged
        <3>4. i \in DOMAIN (batch \o queue) /\ (batch \o queue)[i] = batch[i]
            <4>1. /\ Len(batch) \in Nat /\ Len(queue) \in Nat /\ i \in 1..Len(batch)
                  /\ DOMAIN (batch \o queue) = 1..Len(batch) + Len(queue)
                  /\ \A j \in 1..Len(batch) : (batch \o queue)[j] = batch[j]
                BY <1>1, LenProperties, ConcatProperties DEF Store!LastEdits
            <4> QED
                BY <4>1
        <3>5. Held(files')[p] \in {Held(files)[p], Store!FinalBlock(batch, p)}
            BY <2>1 DEF Store!WriteColumn
        <3> QED
            BY <3>1, <3>2, <3>3, <3>4, <3>5
    <2> QED
        BY <2>2, <2>3
<1>3. CASE OpenRegion \/ WriteHeader \/ FinishRegion
    <2>1. Held(files') = Held(files)
        BY <1>3, EmptyFilesStep
    <2> QED
        BY <2>1
<1>4. CASE UNCHANGED files
    BY <1>4
<1> QED
    BY <1>2, <1>3, <1>4
    DEF Next, vars, OpenDatabase, OpenRuntime, Crash, Leave, InMemory, FailFlush,
        CopySqlite, ListRegions, CopyRegion, LoseRegion, RecordBackup

\* A backup begins with what the world has.
LEMMA BackupBegins ==
    ASSUME StorageHolds, CopySqlite
    PROVE  BackingUp'
<1>1. /\ backup' = Beginning /\ UNCHANGED <<storeVars, files>> /\ P!Receiving
    BY DEF CopySqlite
<1>2. /\ caller # "down" /\ accepted \in Seq(Store!Edit)
    BY <1>1, StoreTyped, SameEdits DEF StorageHolds
<1>3. Store!InFlight' = Store!InFlight /\ caller' = caller /\ accepted' = accepted
    BY <1>1 DEF storeVars, Store!InFlight, Store!Unlogged
<1>4. Len(accepted) \in 0..Len(accepted)
    BY <1>2, LenProperties
<1>5. \A p \in Position : backup'.began.blocks[p] = Promised(p)
    BY <1>1 DEF Beginning
<1>6. /\ DOMAIN backup' = {"overrides", "files", "found", "began"}
      /\ backup'.began.edits = Len(accepted) /\ backup'.overrides = block_overrides
      /\ backup'.files = <<>>
    BY <1>1 DEF Beginning
<1>7. \A p \in Position : Promised(p) \subseteq Allowed(p)'
    BY <1>5 DEF Allowed
<1>8. ASSUME NEW p \in Position, NEW i \in DOMAIN Store!InFlight, Store!InFlight[i].pos = p
      PROVE  Store!InFlight[i].block \in Allowed(p)'
    <2>1. Store!InFlight[i].block \in Promised(p)
        BY <1>8, SameEdits DEF Promised
    <2> QED
        BY <1>7, <2>1
<1>9. ASSUME NEW p \in Position
      PROVE  IF block_overrides[p] = NoOverride
             THEN /\ Held(files)[p] \in Allowed(p)'
                  /\ InFiles(Copies', p) \in {Unreadable} \cup Allowed(p)'
             ELSE block_overrides[p] \in Allowed(p)'
    <2>1. P!Merge(Held(files)[p], block_overrides[p]) \in Allowed(p)'
        BY <1>7 DEF Promised, P!Stored
    <2>2. InFiles(Copies', p) \in {Unreadable, Held(files)[p]}
        <3>1. RegionOf(ColumnAt(p)) \in Regions \ DOMAIN backup'.files
            BY <1>6, EmptyHolds, ColumnInWorld, SlotInRegion
        <3>2. Copies'[RegionOf(ColumnAt(p))] = files[RegionOf(ColumnAt(p))]
            BY <1>1, <3>1 DEF Copies
        <3> QED
            BY <3>2, RegionDecides
    <2> QED
        BY <2>1, <2>2 DEF P!Merge
<1> QED
    BY <1>1, <1>2, <1>3, <1>4, <1>6, <1>8, <1>9 DEF BackingUp

\* Listing the region files, and copying one whole or torn, gives the copies only
\* what the files hold, or what cannot be read.
LEMMA BackupCopies ==
    ASSUME BackupHolds, ListRegions \/ \E r \in Regions : CopyRegion(r)
    PROVE  BackingUp'
<1>1. backup # NoBackup /\ UNCHANGED <<storeVars, files>>
    BY DEF ListRegions, CopyRegion
<1>2. /\ DOMAIN backup = {"overrides", "files", "found", "began"}
      /\ \A p \in Position : backup.overrides[p] = NoOverride =>
            /\ Held(files)[p] \in Allowed(p)
            /\ InFiles(Copies, p) \in {Unreadable} \cup Allowed(p)
    BY <1>1 DEF BackupHolds, BackingUp
<1>3. /\ backup'.began = backup.began /\ backup'.overrides = backup.overrides
      /\ DOMAIN backup' = DOMAIN backup
      /\ \A q \in Regions : Copies'[q] \in {Copies[q], files[q], Blank}
    <2>1. \A q \in Regions : /\ Copies[q] = IF q \in DOMAIN backup.files
                                          THEN backup.files[q] ELSE files[q]
                             /\ Copies'[q] = IF q \in DOMAIN backup'.files
                                           THEN backup'.files[q] ELSE files[q]
        BY <1>1 DEF Copies
    <2>2. CASE ListRegions
        <3> DEFINE missing == {r \in Regions : files[r] = NoFile}
        <3>1. backup' = [backup EXCEPT !.found = Regions \ missing,
                                       !.files = [r \in missing |-> NoFile]]
            BY <2>2 DEF ListRegions
        <3>2. backup'.files = [r \in missing |-> NoFile]
            BY <1>2, <3>1
        <3>3. \A q \in Regions : Copies'[q] = files[q]
            BY <2>1, <3>2
        <3> QED
            BY <1>2, <3>1, <3>3
    <2>3. ASSUME NEW r \in Regions, CopyRegion(r)
          PROVE  /\ backup'.began = backup.began /\ backup'.overrides = backup.overrides
                 /\ DOMAIN backup' = DOMAIN backup
                 /\ \A q \in Regions : Copies'[q] \in {Copies[q], files[q], Blank}
        <3>1. PICK copy \in {files[r], Blank} :
                backup' = [backup EXCEPT !.files = Put(@, r, copy), !.found = @ \ {r}]
            BY <2>3 DEF CopyRegion
        <3>2. backup'.files = Put(backup.files, r, copy)
            BY <1>2, <3>1
        <3>3. \A q \in Regions : Copies'[q] = IF q = r THEN copy ELSE Copies[q]
            BY <2>1, <3>2 DEF Put
        <3> QED
            BY <1>2, <3>1, <3>3
    <2> QED
        BY <2>2, <2>3
<1>4. /\ Store!InFlight' = Store!InFlight /\ caller' = caller /\ accepted' = accepted
    BY <1>1 DEF storeVars, Store!InFlight, Store!Unlogged
<1>5. \A p : Allowed(p)' = Allowed(p)
    BY <1>3, <1>4 DEF Allowed, WrittenSince
<1>6. ASSUME NEW p \in Position, backup.overrides[p] = NoOverride
      PROVE  InFiles(Copies', p) \in {Unreadable} \cup Allowed(p)
    <2> DEFINE r == RegionOf(ColumnAt(p))
    <2>1. Copies'[r] \in {Copies[r], files[r], Blank}
        BY <1>3, ColumnInWorld, SlotInRegion
    <2>2. CASE Copies'[r] = Blank
        <3>1. InFiles(Copies', p) = Unreadable
            BY <2>2, BlocksOfChunks
        <3> QED
            BY <3>1
    <2>3. CASE Copies'[r] = Copies[r]
        BY <1>2, <1>6, <2>3, RegionDecides
    <2>4. CASE Copies'[r] = files[r]
        BY <1>2, <1>6, <2>4, RegionDecides
    <2> QED
        BY <2>1, <2>2, <2>3, <2>4
<1> QED
    BY <1>1, <1>3, <1>4, <1>5, <1>6 DEF BackupHolds, BackingUp

\* No other step of a server that is up moves a block that is not allowed.
LEMMA BackupGoesOn ==
    ASSUME BackupHolds, [Next]_vars, UNCHANGED backup, backup # NoBackup
    PROVE  BackingUp'
<1>1. /\ StorageHolds /\ BackingUp /\ caller # "down"
      /\ accepted \in Seq(Store!Edit) /\ Store!IInv
      /\ backup.began.edits \in 0..Len(accepted)
    BY StoreTyped DEF BackupHolds, BackingUp, StorageHolds
<1>2. caller' # "down"
    <2>1. CASE UNCHANGED caller
        BY <1>1, <2>1
    <2>2. CASE InMemory
        BY <1>1, <2>2
        DEF InMemory, P!RecordQueued, P!PersistBuild, P!MarkBuildUndone, P!BeginShutdown,
            P!HandOver, P!SendAccepted, P!SendRefused, P!RecvEdit, P!TakeShutdown,
            P!DrainEdit, P!BeginFlush, P!FlushSqlite, P!RecordFlushed, P!callerVars
    <2>3. CASE OpenRuntime
        BY <1>1, <2>3 DEF OpenRuntime, P!Open
    <2>4. ~(Crash \/ Leave \/ FailFlush)
        BY DEF Crash, Leave, FailFlush
    <2> QED
        BY <2>1, <2>2, <2>3, <2>4
        DEF Next, vars, storeVars, OpenDatabase, OpenRegion, WriteHeader, WriteChunk,
            FinishRegion, writerHolds, CopySqlite, ListRegions, CopyRegion, LoseRegion,
            RecordBackup
<1>3. [Store!Next]_(Store!vars)
    BY <1>1, StorageStep
<1>4. \/ /\ UNCHANGED accepted
         /\ \A j \in DOMAIN Store!InFlight' :
                \E i \in DOMAIN Store!InFlight : Store!InFlight[i] = Store!InFlight'[j]
      \/ \E e \in Store!Edit :
            /\ accepted' = Append(accepted, e)
            /\ \A j \in DOMAIN Store!InFlight' :
                \/ Store!InFlight'[j] = e
                \/ \E i \in DOMAIN Store!InFlight : Store!InFlight[i] = Store!InFlight'[j]
    BY <1>1, <1>2, <1>3, InFlightStep
<1>5. /\ \A p : Allowed(p) \subseteq Allowed(p)'
      /\ backup'.began.edits \in 0..Len(accepted')
      /\ \A p : \A e \in Store!Edit : accepted' = Append(accepted, e) /\ e.pos = p =>
            e.block \in Allowed(p)'
    BY <1>1, <1>4, AllowedGrows
<1>6. \A p \in Position : \A i \in DOMAIN Store!InFlight :
            Store!InFlight[i].pos = p => Store!InFlight[i].block \in Allowed(p)
    BY <1>1 DEF BackingUp
<1>7. ASSUME NEW p \in Position, NEW j \in DOMAIN Store!InFlight', Store!InFlight'[j].pos = p
      PROVE  Store!InFlight'[j].block \in Allowed(p)'
    <2>1. CASE \E i \in DOMAIN Store!InFlight : Store!InFlight[i] = Store!InFlight'[j]
        BY <1>5, <1>6, <1>7, <2>1
    <2>2. CASE \E e \in Store!Edit : accepted' = Append(accepted, e) /\ Store!InFlight'[j] = e
        BY <1>5, <1>7, <2>2
    <2> QED
        BY <1>4, <2>1, <2>2
<1>8. ASSUME NEW p \in Position
      PROVE  IF backup.overrides[p] = NoOverride
             THEN /\ Held(files')[p] \in Allowed(p)'
                  /\ InFiles(Copies', p) \in {Unreadable} \cup Allowed(p)'
             ELSE backup.overrides[p] \in Allowed(p)'
    <2>1. CASE backup.overrides[p] # NoOverride
        BY <1>1, <1>5, <2>1 DEF BackingUp
    <2>2. CASE backup.overrides[p] = NoOverride
        <3>1. /\ Held(files)[p] \in Allowed(p)
              /\ InFiles(Copies, p) \in {Unreadable} \cup Allowed(p)
            BY <1>1, <2>2 DEF BackingUp
        <3>2. Held(files')[p] \in Allowed(p)'
            BY <1>1, <1>5, <1>6, <3>1, FilesStep
        <3> DEFINE r == RegionOf(ColumnAt(p))
        <3>3. /\ r \in Regions
              /\ Copies[r] = IF r \in DOMAIN backup.files THEN backup.files[r] ELSE files[r]
              /\ Copies'[r] = IF r \in DOMAIN backup.files THEN backup.files[r] ELSE files'[r]
            BY ColumnInWorld, SlotInRegion DEF Copies
        <3>4. CASE r \in DOMAIN backup.files
            <4>1. Copies'[r] = Copies[r]
                BY <3>3, <3>4
            <4>2. InFiles(Copies', p) = InFiles(Copies, p)
                BY <4>1, RegionDecides
            <4> QED
                BY <1>5, <2>2, <3>1, <3>2, <4>2
        <3>5. CASE r \notin DOMAIN backup.files
            <4>1. Copies'[r] = files'[r]
                BY <3>3, <3>5
            <4>2. InFiles(Copies', p) \in {Unreadable, Held(files')[p]}
                BY <4>1, RegionDecides
            <4> QED
                BY <2>2, <3>2, <4>2
        <3> QED
            BY <3>4, <3>5
    <2> QED
        BY <2>1, <2>2
<1> QED
    BY <1>1, <1>2, <1>5, <1>7, <1>8 DEF BackingUp

\* A backup keeps within what is allowed until it is over or given up.
LEMMA BackupStep ==
    ASSUME BackupHolds, [Next]_vars
    PROVE  BackupHolds'
<1>1. StorageHolds'
    BY StorageStep DEF BackupHolds
<1>2. SUFFICES ASSUME backup' # NoBackup PROVE BackingUp'
    BY <1>1 DEF BackupHolds, BackingUp
<1>3. CASE CopySqlite
    BY <1>3, BackupBegins DEF BackupHolds
<1>4. CASE ListRegions \/ \E r \in Regions : CopyRegion(r)
    BY <1>4, BackupCopies
<1>5. CASE UNCHANGED backup
    BY <1>2, <1>5, BackupGoesOn
<1> QED
    BY <1>2, <1>3, <1>4, <1>5
    DEF Next, vars, OpenDatabase, OpenRuntime, Crash, Leave, InMemory, OpenRegion,
        WriteHeader, WriteChunk, FinishRegion, FailFlush, writerHolds, LoseRegion,
        RecordBackup

\* A whole backup taken beside a running server gives a position, if its column can
\* be read, the block it had when the backup began, or that of an edit then on its way
\* or accepted since: never one that was superseded before, although files come and go
\* between being listed and being copied (persistence.rs:487-566, 1907-1925).
THEOREM BackupsKeepPromises == Spec => []BackupsHoldPromises
<1>1. Init => BackupHolds
    BY StorageInit DEF BackupHolds, BackingUp, Init
<1>2. BackupHolds /\ [Next]_vars => BackupHolds'
    BY BackupStep
<1>3. BackupHolds => BackupsHoldPromises
    <2> SUFFICES ASSUME BackupHolds, Copied, NEW p \in Position
                 PROVE  Restored(p) \in {Unreadable} \cup Allowed(p)
        BY DEF BackupsHoldPromises, Allowed
    <2>1. IF backup.overrides[p] = NoOverride
          THEN InFiles(Copies, p) \in {Unreadable} \cup Allowed(p)
          ELSE backup.overrides[p] \in Allowed(p)
        BY DEF Copied, BackupHolds, BackingUp
    <2>2. InFiles(backup.files, p) = InFiles(Copies, p)
        <3>1. backup.files[RegionOf(ColumnAt(p))] = Copies[RegionOf(ColumnAt(p))]
            BY ColumnInWorld, SlotInRegion DEF Copied, Copies
        <3> QED
            BY <3>1, RegionDecides
    <2>3. Restored(p) \in {Unreadable, P!Merge(InFiles(Copies, p), backup.overrides[p])}
        BY <2>2 DEF Restored, Load
    <2> QED
        BY <2>1, <2>3 DEF P!Merge
<1> QED
    BY <1>1, <1>2, <1>3, PTL DEF Spec
=============================================================================
