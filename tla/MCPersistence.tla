--------------------------- MODULE MCPersistence ---------------------------
\* Two positions in two columns of two region files: g is generated ground,
\* a is generated air.  The build covers both: it puts the generated block
\* back at g and a block of its own at a.
EXTENDS Persistence, TLC

CONSTANTS g, a, air, stone

MCBase == g :> stone @@ a :> air
MCColumnOf == g :> 0 @@ a :> 1
MCRegionOf(c) == c
MCFlushedBefore(c, d) == c < d
MCPlan == {g :> stone @@ a :> stone}
=============================================================================
