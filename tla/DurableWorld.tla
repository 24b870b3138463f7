---------------------------- MODULE DurableWorld ----------------------------
(***************************************************************************)
(* What the persistence of the server promises, without its threads and    *)
(* files: a durable world, edits on their way to it, and builds that are   *)
(* durable at once.  Persistence implements it.                            *)
(*                                                                         *)
(* An edit on its way lands after a build that was committed meanwhile,    *)
(* and a build of the generated block may uncover an older block: both are *)
(* what the code does (see BuildsAreStored in WorldServer), so they are    *)
(* part of what it can be relied on for.                                   *)
(***************************************************************************)
EXTENDS Integers, Sequences

CONSTANTS Pos, Block, Air, Base, Key, Plan, NoBuild

VARIABLES
    durable,  \* the block of each position, once it can be loaded after a restart
    pending,  \* accepted edits on their way, in the order of their calls
    rows      \* the build of each key

vars == <<durable, pending, rows>>

-----------------------------------------------------------------------------
\* What the first n pending edits leave at a position one of them writes.
Touched(n) == {pending[i].pos : i \in 1..n}
Leaves(n, p) ==
    pending[CHOOSE i \in 1..n : /\ pending[i].pos = p
                                /\ \A j \in i + 1..n : pending[j].pos # p].block

Landed(n, S) ==
    [p \in Pos |-> IF p \in S THEN Leaves(n, p) ELSE durable[p]]

\* A committed build shows, but for positions given back to the generated block.
Shows(w) ==
    /\ durable' \in [Pos -> Block]
    /\ \A p \in Pos :
        IF p \in DOMAIN w THEN w[p] = Base[p] \/ durable'[p] = w[p]
        ELSE durable'[p] = durable[p]

-----------------------------------------------------------------------------
Init == durable = Base /\ pending = <<>> /\ rows = [k \in Key |-> NoBuild]

Accept(p, b) ==
    /\ pending' = Append(pending, [pos |-> p, block |-> b])
    /\ UNCHANGED <<durable, rows>>

\* Some of the first pending edits are on disk, others not yet.
Land(n, S) ==
    /\ durable' = Landed(n, S)
    /\ UNCHANGED <<pending, rows>>

\* The first pending edits are on disk, every one of them.
Settle(n) ==
    /\ durable' = Landed(n, Touched(n))
    /\ pending' = SubSeq(pending, n + 1, Len(pending))
    /\ UNCHANGED rows

Build(k, f) ==
    /\ rows[k] = NoBuild
    /\ rows' = [rows EXCEPT ![k] = [state |-> "applied", applied |-> f]]
    /\ Shows(f)
    /\ UNCHANGED pending

Undo(k) ==
    /\ rows[k] # NoBuild /\ rows[k].state = "applied"
    /\ rows' = [rows EXCEPT ![k].state = "undone"]
    /\ Shows([p \in DOMAIN rows[k].applied |-> Air])
    /\ UNCHANGED pending

\* A crash or a failed write: what has not landed is lost, and only that.
Lose == pending' = <<>> /\ UNCHANGED <<durable, rows>>

Next ==
    \/ \E p \in Pos, b \in Block : Accept(p, b)
    \/ \E n \in 1..Len(pending) : \E S \in SUBSET Touched(n) : Land(n, S)
    \/ \E n \in 1..Len(pending) : Settle(n)
    \/ \E k \in Key : Undo(k) \/ \E f \in Plan : Build(k, f)
    \/ Lose

Spec == Init /\ [][Next]_vars
=============================================================================
