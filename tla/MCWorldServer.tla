---------------------------- MODULE MCWorldServer ----------------------------
\* Two columns of three blocks, each in a region of its own: dirt (the lowest
\* layer), grass, air; the air over column 1 is protected spawn space.
EXTENDS WorldServer

Ground == <<2, 1, 1>>
Above == <<2, 2, 1>>
Spawn == <<1, 2, 1>>

MCDigs == {Ground}
MCSets == {<<Above, "brick">>, <<Spawn, "brick">>}
\* Regions of the world, and one that reaches out of it and whose four blocks
\* pass for less than none where coordinates have three bits.
High == [min |-> <<2, 0, 1>>, max |-> <<2, 3, 1>>, block |-> Air]
MCFills == {[min |-> Ground, max |-> Above, block |-> Air], High}
MCReads == {[min |-> Spawn, max |-> Above], High}
MCNoFills == {}
MCNoReads == {}
MCPlan == {<<[pos |-> Ground, block |-> "grass_block"],
             [pos |-> Above, block |-> "brick"]>>,
           <<[pos |-> Ground, block |-> "brick"]>>}
MCPlayers == {{Spawn}}
=============================================================================
