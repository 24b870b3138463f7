------------------------------- MODULE BuildPlan -------------------------------
(***************************************************************************)
(* prepare_build_plan (src/src/build_plan.rs): a plan of single blocks and *)
(* boxes, relative to an anchor, is expanded into targets.  A problem does *)
(* not stop the expansion (only the limit on targets does): it is noted as *)
(* a conflict, and a plan with conflicts is never applied.  BuildRules     *)
(* takes the targets from here.  A conflict is reduced to its code.        *)
(***************************************************************************)
EXTENDS Integers, Sequences, FiniteSets

CONSTANTS
    IntMin, IntMax, \* the range of a coordinate, i32
    World,          \* the positions inside the world bounds
    Palette,        \* block names of Build Palette v1
    MaxOperations,  \* MAX_BUILD_OPERATIONS
    MaxTargets,     \* MAX_BUILD_TARGETS
    BuildPlans      \* the plans to expand: an anchor, the operations, and
                    \* whether schema version, key and replace mode are right

Coordinates == 1..3
Triple == Int \X Int \X Int
Operation == [from : Triple, to : Triple, block : STRING] \* Set has from = to

ASSUME PlanAssumption ==
    /\ {MaxOperations, MaxTargets} \subseteq Nat \ {0}
    /\ {IntMin, IntMax} \subseteq Int /\ World \subseteq [Coordinates -> IntMin..IntMax]
    /\ \A plan \in BuildPlans :
          /\ plan.anchor \in Triple /\ plan.supported \in BOOLEAN
          /\ plan.operations \in Seq(Operation)

VARIABLES
    plan,       \* the plan
    index,      \* the operation it is at
    cells,      \* offsets of that operation still to be visited, in order
    targets,    \* the targets so far
    conflicts,  \* the codes of the conflicts so far
    phase       \* "check", "expand" or "done"

vars == <<plan, index, cells, targets, conflicts, phase>>

-----------------------------------------------------------------------------
Operations == plan.operations
Box(op) ==
    (op.from[1]..op.to[1]) \X (op.from[2]..op.to[2]) \X (op.from[3]..op.to[3])

\* The loops of an operation: y, then x, then z.  (A faulty form: x outermost.)
XYZ(a, b) ==
    \/ a[1] < b[1]
    \/ a[1] = b[1] /\ a[2] < b[2]
    \/ a[1] = b[1] /\ a[2] = b[2] /\ a[3] < b[3]
YXZ(a, b) ==
    \/ a[2] < b[2]
    \/ a[2] = b[2] /\ a[1] < b[1]
    \/ a[2] = b[2] /\ a[1] = b[1] /\ a[3] < b[3]

\* The cells of a box in the order of the loops: the nth has n - 1 before it.
InLoopOrder(box) ==
    [n \in 1..Cardinality(box) |->
        CHOOSE c \in box : Cardinality({b \in box : YXZ(b, c)}) = n - 1]

\* absolute_position: checked_add on each coordinate
Position(offset) == [i \in Coordinates |-> plan.anchor[i] + offset[i]]
Overflows(offset) ==
    \E i \in Coordinates : Position(offset)[i] \notin IntMin..IntMax

Seen == {targets[i].pos : i \in DOMAIN targets}
Problem(code) == conflicts' = conflicts \cup {code}

-----------------------------------------------------------------------------
\* Faulty form of an action below: a target outside the world is left out
\* without a word.
VisitSkippingOutside ==
    /\ phase = "expand" /\ cells # <<>>
    /\ LET p == Position(Head(cells))
       IN targets' = IF p \in World /\ p \notin Seen
                     THEN Append(targets, [pos |-> p, block |-> Operations[index].block])
                     ELSE targets
    /\ cells' = Tail(cells)
    /\ UNCHANGED <<plan, index, conflicts, phase>>

-----------------------------------------------------------------------------
Init ==
    /\ plan \in BuildPlans
    /\ index = 0 /\ cells = <<>> /\ targets = <<>> /\ conflicts = {}
    /\ phase = "check"

\* The plan as a whole: a problem here leaves it unexpanded.
Check ==
    /\ phase = "check"
    /\ conflicts' = {code \in {"unsupported_plan", "operation_limit"} :
            \/ code = "unsupported_plan" /\ ~plan.supported
            \/ code = "operation_limit" /\ Len(Operations) \notin 1..MaxOperations}
    /\ phase' = IF conflicts' = {} THEN "expand" ELSE "done"
    /\ UNCHANGED <<plan, index, cells, targets>>

\* The next operation; a wrong box or block is passed over.
NextOperation ==
    /\ phase = "expand" /\ cells = <<>> /\ index < Len(Operations)
    /\ index' = index + 1
    /\ LET op == Operations[index + 1]
       IN \/ /\ \E i \in Coordinates : op.from[i] > op.to[i]
             /\ Problem("invalid_box") /\ UNCHANGED cells
          \/ /\ \A i \in Coordinates : op.from[i] <= op.to[i]
             /\ op.block \notin Palette
             /\ Problem("unsupported_block") /\ UNCHANGED cells
          \/ /\ \A i \in Coordinates : op.from[i] <= op.to[i]
             /\ op.block \in Palette
             /\ cells' = InLoopOrder(Box(op)) /\ UNCHANGED conflicts
    /\ UNCHANGED <<plan, targets, phase>>

\* The innermost loop.  The limit ends the expansion, before anything else is
\* looked at; a target outside the world is a conflict but stays a target.
Visit ==
    /\ phase = "expand" /\ cells # <<>>
    /\ LET p == Position(Head(cells))
       IN CASE Len(targets) >= MaxTargets ->
                 Problem("expanded_target_limit") /\ phase' = "done" /\ UNCHANGED targets
            [] Len(targets) < MaxTargets /\ Overflows(Head(cells)) ->
                 Problem("coordinate_overflow") /\ UNCHANGED <<targets, phase>>
            [] Len(targets) < MaxTargets /\ ~Overflows(Head(cells)) /\ p \in Seen ->
                 Problem("duplicate_target") /\ UNCHANGED <<targets, phase>>
            [] OTHER ->
                 /\ targets' = Append(targets, [pos |-> p, block |-> Operations[index].block])
                 /\ conflicts' = IF p \in World THEN conflicts
                                 ELSE conflicts \cup {"out_of_bounds"}
                 /\ UNCHANGED phase
    /\ cells' = Tail(cells)
    /\ UNCHANGED <<plan, index>>

Finish ==
    /\ phase = "expand" /\ cells = <<>> /\ index = Len(Operations)
    /\ phase' = "done"
    /\ UNCHANGED <<plan, index, cells, targets, conflicts>>

Next == Check \/ NextOperation \/ Visit \/ Finish
Spec == Init /\ [][Next]_vars

-----------------------------------------------------------------------------
\* What a plan means, stated without the loops: every operation covers a box,
\* the boxes are disjoint, inside the world and together within the limit.
Covered(i) == {Position(offset) : offset \in Box(Operations[i])}
WellFormed ==
    /\ plan.supported /\ Len(Operations) \in 1..MaxOperations
    /\ \A i \in DOMAIN Operations :
        /\ \A j \in Coordinates : Operations[i].from[j] <= Operations[i].to[j]
        /\ Operations[i].block \in Palette
        /\ Covered(i) \subseteq World
        /\ \A j \in DOMAIN Operations : i # j => Covered(i) \cap Covered(j) = {}
    /\ Cardinality(UNION {Covered(i) : i \in DOMAIN Operations}) <= MaxTargets

\* A plan is free of conflicts exactly when it is well formed: neither the
\* limit, nor an overflow, nor an overlap is reported wrongly or overlooked
\* (build_plan.rs:136-272).
ConflictsAreRight == phase = "done" => (conflicts = {} <=> WellFormed)

\* A plan free of conflicts is expanded whole: every position of every box once,
\* with the block of its operation, in the order of the operations and from the
\* bottom up within each, which is what makes each block rest on the last.
ExpansionIsWhole ==
    phase = "done" /\ conflicts = {} =>
        /\ Seen = UNION {Covered(i) : i \in DOMAIN Operations}
        /\ \A m, n \in DOMAIN targets : m < n => targets[m].pos # targets[n].pos
        /\ \E from \in [DOMAIN targets -> DOMAIN Operations] :
              /\ \A n \in DOMAIN targets :
                    /\ targets[n].pos \in Covered(from[n])
                    /\ targets[n].block = Operations[from[n]].block
              /\ \A m, n \in DOMAIN targets : m < n =>
                    \/ from[m] < from[n]
                    \/ from[m] = from[n] /\ targets[m].pos[2] <= targets[n].pos[2]
=============================================================================
