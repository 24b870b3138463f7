----------------------------- MODULE AnvilChunk -----------------------------
(***************************************************************************)
(* How a chunk column is stored in a region file (src/src/persistence.rs). *)
(* Of a column only the blocks that differ from the generated world count; *)
(* a chunk is a stack of cubic sections, each a palette of block states    *)
(* and, if it has more than one, an index per cell packed into longs.      *)
(* Names and properties of palette entries and the NBT around them are     *)
(* left out: an entry is its block state.                                  *)
(***************************************************************************)
EXTENDS WorldCommand, SequencesExt

CONSTANTS
    LongBits,   \* bits of a long, 64
    MinBits     \* fewest bits of a palette index, 4

NoData == <<>>

\* 1 << n
TwoTo[n \in 0..LongBits] == IF n = 0 THEN 1 ELSE 2 * TwoTo[n - 1]

\* A long has room for an index into any palette.
ASSUME CodecAssumption ==
    /\ {LongBits, MinBits} \subseteq Nat \ {0}
    /\ MinBits <= LongBits
    /\ IsFiniteSet(Palette) /\ Cardinality(Block) <= TwoTo[LongBits]

\* A map with another entry, or another value of one.
Put(f, x, value) == [y \in DOMAIN f \cup {x} |-> IF y = x THEN value ELSE f[y]]

-----------------------------------------------------------------------------
\* Faulty form of BitsPerIndex: the logarithm rounded down.
BitsPerIndexFloor(entries) ==
    CHOOSE b \in 0..LongBits - 1 : TwoTo[b] <= entries /\ TwoTo[b + 1] > entries

-----------------------------------------------------------------------------
\* bits_per_palette_index, and the width an index is packed with, for every
\* number of entries a palette can have.
BitsPerIndex(entries) ==
    CHOOSE b \in 0..LongBits : TwoTo[b] >= entries /\ \A c \in 0..b - 1 : TwoTo[c] < entries
Width == [entries \in 1..Cardinality(Block) |-> Max({BitsPerIndex(entries), MinBits})]
PerLong(entries) == LongBits \div Width[entries]

\* pack_palette_indices: no index is split over two longs, so the fields of a long
\* are apart and their sum is what the code's "or" gives.
PackLong(indices, entries, l) ==
    LET per == PerLong(entries)
        packed[n \in 0..per] ==
            IF n = 0 THEN 0
            ELSE packed[n - 1] +
                    (IF per * l + n \in DOMAIN indices
                     THEN indices[per * l + n] * TwoTo[(n - 1) * Width[entries]] ELSE 0)
    IN packed[per]
Pack(indices, entries) ==
    LET per == PerLong(entries)
    IN [l \in 1..((Len(indices) + per - 1) \div per) |-> PackLong(indices, entries, l - 1)]

\* unpack_palette_index has an answer: there is data where it is needed, and it
\* is long enough.
Unpackable(data, entries, i) ==
    \/ data = NoData /\ entries = 1
    \/ i \div PerLong(entries) < Len(data)

Unpack(data, entries, i) ==
    IF data = NoData THEN 0
    ELSE LET long == data[1 + (i \div PerLong(entries))]
             shift == (i % PerLong(entries)) * Width[entries]
         IN (long \div TwoTo[shift]) % TwoTo[Width[entries]]

-----------------------------------------------------------------------------
\* base_block_state_at, with air for the cells of a section outside the bounds.
Generated(p) == IF InBounds(p) THEN BaseBlock(p) ELSE Air

\* The sections a column has, the lowest and highest perhaps partly outside.
SectionYs == (MinY \div ChunkSize)..(MaxY \div ChunkSize)
Cells == 0..ChunkSize * ChunkSize * ChunkSize - 1

\* The position of a cell of a section, x running fastest, then z, then y.
CellPosition(column, y, i) ==
    <<column[1] * ChunkSize + (i % ChunkSize),
      y * ChunkSize + (i \div (ChunkSize * ChunkSize)),
      column[2] * ChunkSize + ((i \div ChunkSize) % ChunkSize)>>

\* The same read backwards, for the positions of a section inside the bounds.
CellOf(p) == ((p[2] % ChunkSize) * ChunkSize + (p[3] % ChunkSize)) * ChunkSize
             + (p[1] % ChunkSize)
SectionPositions(column, y) ==
    {p \in {CellPosition(column, y, i) : i \in Cells} : InBounds(p)}

\* The distinct elements of a sequence in the order of their first appearance.
WithEntry(palette, state) ==
    IF \E k \in DOMAIN palette : palette[k] = state THEN palette ELSE Append(palette, state)
FirstSeen(s) ==
    LET seen[n \in 0..Len(s)] ==
            IF n = 0 THEN <<>> ELSE WithEntry(seen[n - 1], s[n])
    IN seen[Len(s)]

\* encode_anvil_section, from the states of the cells.
SectionStates(column, y, overrides) ==
    [c \in 1..Cardinality(Cells) |->
        LET p == CellPosition(column, y, c - 1)
        IN IF p \in DOMAIN overrides THEN overrides[p] ELSE Generated(p)]
EncodeSection(column, y, overrides) ==
    LET states == SectionStates(column, y, overrides)
        palette == FirstSeen(states)
        indices == [c \in DOMAIN states |->
                        (CHOOSE k \in DOMAIN palette : palette[k] = states[c]) - 1]
    IN [palette |-> palette,
        data |-> IF Len(palette) > 1 THEN Pack(indices, Len(palette)) ELSE NoData]

\* encode_anvil_chunk
EncodeChunk(column, overrides) ==
    [y \in SectionYs |-> EncodeSection(column, y, overrides)]

\* decode_anvil_chunk_overrides finds no error in a section ...
DecodableSection(section) ==
    LET entries == Len(section.palette)
    IN /\ entries > 0
       /\ \A i \in Cells :
            /\ Unpackable(section.data, entries, i)
            /\ Unpack(section.data, entries, i) < entries

\* ... and keeps the cells inside the bounds that differ from the generated ones.
BlockIn(section, p) ==
    section.palette[1 + Unpack(section.data, Len(section.palette), CellOf(p))]
DecodeSection(column, y, section) ==
    [p \in {q \in SectionPositions(column, y) : BlockIn(section, q) # BaseBlock(q)} |->
        BlockIn(section, p)]

DecodeChunk(column, chunk) ==
    LET found == [y \in DOMAIN chunk |-> DecodeSection(column, y, chunk[y])]
    IN [p \in UNION {DOMAIN found[y] : y \in DOMAIN chunk} |->
            found[CHOOSE y \in DOMAIN chunk : p \in DOMAIN found[y]][p]]

\* apply_block_edits_to_overrides, of a column: its edits in turn, where a
\* generated block needs no override.
ApplyEdit(column, kept, e) ==
    IF ColumnAt(e.pos) # column THEN kept
    ELSE IF e.block = BaseBlock(e.pos) THEN [p \in DOMAIN kept \ {e.pos} |-> kept[p]]
    ELSE Put(kept, e.pos, e.block)
ApplyEdits(column, overrides, edits) ==
    LET after[n \in 0..Len(edits)] ==
            IF n = 0 THEN overrides ELSE ApplyEdit(column, after[n - 1], edits[n])
    IN after[Len(edits)]

\* A section of any column that holds any blocks reads back as what was written,
\* with every palette size and up to the border of the world.
SectionsRoundTrip ==
    \A column \in Column, y \in SectionYs :
        \A states \in [SectionPositions(column, y) -> Block] :
            LET overrides == [p \in {q \in DOMAIN states : states[q] # BaseBlock(q)} |-> states[p]]
                section == EncodeSection(column, y, overrides)
            IN /\ DecodableSection(section)
               /\ DecodeSection(column, y, section) = overrides
=============================================================================
