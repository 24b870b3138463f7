------------------------------ MODULE MCBuildPlan ------------------------------
\* Boxes in a world of 3 x 2 x 1 blocks at the top of the coordinate range, of
\* which a plan may cover four: up to three operations, one too many, that may
\* be upside down, overlap, overflow, leave the world or name no block.
EXTENDS BuildPlan

MCIntMin == -4
MCWorld == (0..2) \X (0..1) \X {0}
Corner == {<<x, y, 0>> : x \in 0..2, y \in 0..1}
MCOperation ==
    [from : Corner, to : Corner, block : {"stone"}]
    \cup [from : {<<0, 0, 0>>}, to : {<<0, 0, 0>>, <<0, 1, 0>>}, block : {"dirt", "lava"}]
MCBuildPlans ==
    [anchor : {<<0, 0, 0>>, <<2, 0, 0>>, <<3, 0, 0>>},
     operations : UNION {[1..n -> MCOperation] : n \in 0..2},
     supported : {TRUE}]
    \cup [anchor : {<<0, 0, 0>>},
          operations : {<<>>} \cup [1..3 -> [from : {<<0, 0, 0>>}, to : {<<0, 0, 0>>},
                                            block : {"stone"}]],
          supported : BOOLEAN]
=============================================================================
