--------------------------- MODULE MCBuildService ---------------------------
\* Two columns of four blocks: dirt (the lowest layer), grass, two of air; the
\* air over column 1 is protected spawn space.  The plans: a tower over column
\* 2 in building order and upside down, its lower block alone, a hole in the
\* ground filled with what was generated there, a block in the spawn space, one
\* outside the world.
EXTENDS BuildService

At(x, y, block) == [pos |-> <<x, y, 1>>, block |-> block]
MCPlan ==
    { <<At(2, 65, "brick"), At(2, 66, "brick")>>,
      <<At(2, 66, "brick"), At(2, 65, "brick")>>,
      <<At(2, 65, "brick")>>,
      <<At(2, 64, "grass_block")>>,
      <<At(2, 65, "brick"), At(1, 65, "brick")>>,
      <<At(2, 66, "brick"), At(2, 67, "brick")>> }
MCOccupied == {{}, {<<2, 66, 1>>}}
=============================================================================
