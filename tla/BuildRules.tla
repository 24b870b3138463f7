----------------------------- MODULE BuildRules -----------------------------
(***************************************************************************)
(* When a build plan is valid (src/src/build_service.rs).  A prepared plan *)
(* is the sequence of its targets, no position twice (prepare_build_plan   *)
(* reports a duplicate as a conflict, and conflicts make a plan invalid).  *)
(***************************************************************************)
EXTENDS WorldCommand, Sequences

Target == [pos : Int \X Int \X Int, block : Block]
Distinct(targets) ==
    \A i, j \in DOMAIN targets : targets[i].pos = targets[j].pos => i = j

\* The world once the first n targets are in place: the shadow map of
\* validate_build_plan_with as long as none of them was refused.
Placed(world, targets, n) ==
    [p \in Position |->
        IF \E i \in 1..n : targets[i].pos = p
        THEN targets[CHOOSE i \in 1..n : targets[i].pos = p].block
        ELSE world[p]]

\* validate_world_command for one target, against the world it will meet.
TargetFits(world, t) ==
    MaySet(t.pos, t.block, BlockAt(world, t.pos), Anchored(world, t.pos), FALSE)

\* Faulty form of Valid: a target is checked with every other one in place,
\* also those that are built after it.
ValidInAnyOrder(targets, world, occupied) ==
    \A n \in DOMAIN targets :
        /\ targets[n].pos \notin occupied
        /\ TargetFits([Placed(world, targets, Len(targets)) EXCEPT
                            ![targets[n].pos] = BlockAt(world, targets[n].pos)],
                      targets[n])

\* validate_build_plan finds no conflict.
Valid(targets, world, occupied) ==
    \A n \in DOMAIN targets :
        /\ targets[n].pos \notin occupied
        /\ TargetFits(Placed(world, targets, n - 1), targets[n])
=============================================================================
