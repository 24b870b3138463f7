-------------------------- MODULE BuildService_proofs --------------------------
(***************************************************************************)
(* Proofs about BuildService, for any world, palette, plans, keys and      *)
(* number of player edits.                                                 *)
(*                                                                         *)
(* IInv says what the live world is at each step of an operation, in terms *)
(* of the world in which the operation began; what a row in builds says    *)
(* about its targets; and that the lowest layer is never air, so that no   *)
(* build can reach it.                                                     *)
(***************************************************************************)
EXTENDS BuildService, SequenceTheorems, TLAPS

-----------------------------------------------------------------------------
(* The inductive invariant.                                                *)

World == [Position -> Block]

\* Targets that a build may have placed: in the air, above the lowest layer.
Fits(targets) ==
    /\ targets \in Plan
    /\ \A i \in DOMAIN targets :
        /\ targets[i].pos \in Position /\ targets[i].pos[2] > MinY
        /\ targets[i].block \in Palette

AllAir(targets) == [i \in DOMAIN targets |-> Air]

RowsFit ==
    /\ DOMAIN builds = Key
    /\ \A k \in Key : builds[k] # NoBuild =>
        /\ builds[k] = [state |-> builds[k].state, plan |-> Applied(k), original |-> Original(k)]
        /\ Fits(Applied(k)) /\ Original(k) = AllAir(Applied(k))

LowestLayerIsSolid == \A p \in Position : p[2] = MinY => layer[p] # Air

Typed ==
    /\ layer \in World
    /\ phase \in {"idle", "applying", "applied", "undoing", "undone"}
    /\ key \in Key

\* The world without the targets that undo has removed, last first.
Removed(world, targets, n) ==
    [p \in Position |->
        IF \E i \in DOMAIN targets : i > Len(targets) - n /\ targets[i].pos = p
        THEN Air ELSE world[p]]

\* An operation under way has changed the targets it is past, and nothing else.
Underway ==
    phase # "idle" =>
        /\ Fits(plan) /\ saved = AllAir(plan) /\ done \in 0..Len(plan)
        /\ before.layer \in World

Applying ==
    phase \in {"applying", "applied"} =>
        /\ layer = Placed(before.layer, plan, done)
        /\ \A i \in DOMAIN plan :
            /\ before.layer[plan[i].pos] = Air
            /\ TargetFits(Placed(before.layer, plan, i - 1), plan[i])
        /\ phase = "applying" => builds = before.builds
        /\ phase = "applied" => done = Len(plan)

Undoing ==
    phase \in {"undoing", "undone"} =>
        /\ layer = Removed(before.layer, plan, done)
        /\ \A i \in DOMAIN plan : before.layer[plan[i].pos] = plan[i].block
        /\ phase = "undoing" => builds = before.builds /\ builds[key] # NoBuild
        /\ phase = "undone" => done = Len(plan)

IInv ==
    /\ Typed /\ RowsFit /\ LowestLayerIsSolid /\ Underway /\ Applying /\ Undoing
    /\ WorldAllOrNothing

-----------------------------------------------------------------------------
(* Worlds with targets in place.                                           *)

\* What Placed does at a target and elsewhere.
LEMMA PlacedIs ==
    ASSUME NEW w \in World, NEW t, NEW n \in Nat,
           \A i \in 1..n : t[i].block \in Block,
           \A i, j \in 1..n : t[i].pos = t[j].pos => i = j
    PROVE  /\ Placed(w, t, n) \in World
           /\ \A i \in 1..n : t[i].pos \in Position => Placed(w, t, n)[t[i].pos] = t[i].block
           /\ \A p \in Position : (\A i \in 1..n : t[i].pos # p) => Placed(w, t, n)[p] = w[p]
<1> DEFINE at(p) == CHOOSE i \in 1..n : t[i].pos = p
<1>1. \A p \in Position : Placed(w, t, n)[p] =
            IF \E i \in 1..n : t[i].pos = p THEN t[at(p)].block ELSE w[p]
    BY DEF Placed
<1>2. \A i \in 1..n : at(t[i].pos) = i
    OBVIOUS
<1>3. \A p : (\E i \in 1..n : t[i].pos = p) => at(p) \in 1..n
    BY <1>2
<1> HIDE DEF at
<1>4. \A p \in Position : Placed(w, t, n)[p] \in Block
    BY <1>1, <1>3 DEF World
<1>5. Placed(w, t, n) = [p \in Position |-> Placed(w, t, n)[p]]
    BY DEF Placed
<1>6. Placed(w, t, n) \in World
    BY <1>4, <1>5 DEF World
<1> QED
    BY <1>1, <1>2, <1>6

\* A build's targets, each at its own position.
LEMMA TargetsTyped ==
    ASSUME NEW t \in Plan
    PROVE  /\ t \in Seq(Target) /\ Len(t) \in Nat \ {0} /\ DOMAIN t = 1..Len(t)
           /\ \A i \in DOMAIN t : t[i] \in Target /\ t[i].block \in Block
           /\ \A i, j \in DOMAIN t : t[i].pos = t[j].pos => i = j
<1>1. t \in Seq(Target) /\ Len(t) > 0 /\ Distinct(t)
    BY PlanAssumption
<1>2. Len(t) \in Nat /\ DOMAIN t = 1..Len(t) /\ \A i \in DOMAIN t : t[i] \in Target
    BY <1>1, LenProperties, ElementOfSeq
<1> QED
    BY <1>1, <1>2 DEF Distinct, Target

\* The same for the first n targets of a plan.
LEMMA PlacedPlan ==
    ASSUME NEW w \in World, NEW t \in Plan, NEW n \in 0..Len(t)
    PROVE  /\ Placed(w, t, n) \in World
           /\ \A i \in 1..n : t[i].pos \in Position => Placed(w, t, n)[t[i].pos] = t[i].block
           /\ \A p \in Position : (\A i \in 1..n : t[i].pos # p) => Placed(w, t, n)[p] = w[p]
<1>1. n \in Nat /\ 1..n \subseteq DOMAIN t
    BY TargetsTyped
<1>2. /\ \A i \in 1..n : t[i].block \in Block
      /\ \A i, j \in 1..n : t[i].pos = t[j].pos => i = j
    BY <1>1, TargetsTyped
<1> QED
    BY <1>1, <1>2, PlacedIs

\* Two worlds are equal if they hold the same blocks.
LEMMA SameWorld ==
    ASSUME NEW v \in World, NEW w \in World, \A p \in Position : v[p] = w[p]
    PROVE  v = w
BY DEF World

\* One more target in place.
LEMMA PlacedOneMore ==
    ASSUME NEW w \in World, NEW t \in Plan, NEW n \in 0..Len(t), n < Len(t),
           t[n + 1].pos \in Position
    PROVE  [Placed(w, t, n) EXCEPT ![t[n + 1].pos] = t[n + 1].block] = Placed(w, t, n + 1)
<1> DEFINE q == t[n + 1].pos
           v == [Placed(w, t, n) EXCEPT ![q] = t[n + 1].block]
<1>1. n \in Nat /\ n + 1 \in 0..Len(t) /\ DOMAIN t = 1..Len(t) /\ n + 1 \in DOMAIN t
      /\ 1..n \subseteq DOMAIN t /\ 1..(n + 1) = 1..n \cup {n + 1}
    BY TargetsTyped
<1>2. /\ Placed(w, t, n) \in World /\ Placed(w, t, n + 1) \in World
      /\ \A i \in 1..n : t[i].pos \in Position => Placed(w, t, n)[t[i].pos] = t[i].block
      /\ \A p \in Position : (\A i \in 1..n : t[i].pos # p) => Placed(w, t, n)[p] = w[p]
      /\ \A i \in 1..(n + 1) : t[i].pos \in Position => Placed(w, t, n + 1)[t[i].pos] = t[i].block
      /\ \A p \in Position : (\A i \in 1..(n + 1) : t[i].pos # p) => Placed(w, t, n + 1)[p] = w[p]
    <2>1. /\ Placed(w, t, n) \in World
          /\ \A i \in 1..n : t[i].pos \in Position => Placed(w, t, n)[t[i].pos] = t[i].block
          /\ \A p \in Position : (\A i \in 1..n : t[i].pos # p) => Placed(w, t, n)[p] = w[p]
        BY PlacedPlan
    <2> DEFINE m == n + 1
    <2>2. m \in 0..Len(t)
        BY <1>1
    <2> HIDE DEF m
    <2>3. /\ Placed(w, t, m) \in World
          /\ \A i \in 1..m : t[i].pos \in Position => Placed(w, t, m)[t[i].pos] = t[i].block
          /\ \A p \in Position : (\A i \in 1..m : t[i].pos # p) => Placed(w, t, m)[p] = w[p]
        BY <2>2, PlacedPlan
    <2> QED
        BY <2>1, <2>3 DEF m
<1>3. t[n + 1].block \in Block
    BY <1>1, TargetsTyped
<1>4. v \in World
    BY <1>2, <1>3 DEF World
<1>5. ASSUME NEW p \in Position
      PROVE  v[p] = Placed(w, t, n + 1)[p]
    <2>1. CASE p = q
        BY <1>1, <1>2, <2>1 DEF World
    <2>2. CASE p # q /\ \E i \in 1..n : t[i].pos = p
        BY <1>1, <1>2, <2>2 DEF World
    <2>3. CASE p # q /\ \A i \in 1..n : t[i].pos # p
        BY <1>1, <1>2, <2>3 DEF World
    <2> QED
        BY <2>1, <2>2, <2>3
<1> QED
    BY <1>2, <1>4, <1>5, SameWorld

\* What Removed does at a target and elsewhere.
LEMMA RemovedIs ==
    ASSUME NEW w \in World, NEW t \in Plan, NEW n \in 0..Len(t)
    PROVE  /\ Removed(w, t, n) \in World
           /\ \A i \in DOMAIN t : t[i].pos \in Position =>
                Removed(w, t, n)[t[i].pos] = IF i > Len(t) - n THEN Air ELSE w[t[i].pos]
           /\ \A p \in Position : (\A i \in DOMAIN t : t[i].pos # p) => Removed(w, t, n)[p] = w[p]
<1>1. Removed(w, t, n) \in World
    BY DEF World, Removed, Block
<1>2. \A i, j \in DOMAIN t : t[i].pos = t[j].pos => i = j
    BY TargetsTyped
<1> QED
    BY <1>1, <1>2 DEF Removed

\* Putting the captured air back where a build has placed its targets gives the
\* world the build began in.
LEMMA RestoreUndoesPlaced ==
    ASSUME NEW w \in World, NEW t, Fits(t), \A i \in DOMAIN t : w[t[i].pos] = Air
    PROVE  Placed(Placed(w, t, Len(t)),
                  [i \in DOMAIN t |-> [pos |-> t[i].pos, block |-> AllAir(t)[i]]], Len(t)) = w
<1> DEFINE n == Len(t)
           v == Placed(w, t, n)
           r == [i \in DOMAIN t |-> [pos |-> t[i].pos, block |-> AllAir(t)[i]]]
<1>1. /\ n \in Nat /\ n \in 0..Len(t) /\ DOMAIN t = 1..n
      /\ \A i, j \in DOMAIN t : t[i].pos = t[j].pos => i = j
      /\ \A i \in DOMAIN t : t[i].pos \in Position
    BY TargetsTyped DEF Fits
<1>2. /\ v \in World
      /\ \A p \in Position : (\A i \in 1..n : t[i].pos # p) => v[p] = w[p]
    BY <1>1, PlacedPlan DEF Fits
<1>3. \A i \in 1..n : r[i].pos = t[i].pos /\ r[i].block = Air
    BY <1>1 DEF AllAir
<1>4. \A i \in 1..n : r[i].block \in Block
    BY <1>3 DEF Block
<1>5. \A i, j \in 1..n : r[i].pos = r[j].pos => i = j
    BY <1>1, <1>3
<1> HIDE DEF n, v, r
<1>6. /\ Placed(v, r, n) \in World
      /\ \A i \in 1..n : r[i].pos \in Position => Placed(v, r, n)[r[i].pos] = r[i].block
      /\ \A p \in Position : (\A i \in 1..n : r[i].pos # p) => Placed(v, r, n)[p] = v[p]
    BY <1>1, <1>2, <1>4, <1>5, PlacedIs
<1>7. ASSUME NEW p \in Position
      PROVE  Placed(v, r, n)[p] = w[p]
    <2>1. CASE \E i \in 1..n : t[i].pos = p
        BY <1>1, <1>3, <1>6, <2>1
    <2>2. CASE \A i \in 1..n : t[i].pos # p
        BY <1>2, <1>3, <1>6, <2>2
    <2> QED
        BY <2>1, <2>2
<1>8. Placed(v, r, n) = w
    BY <1>6, <1>7, SameWorld
<1> QED
    BY <1>8 DEF n, v, r

\* Setting the targets again where undo has removed them gives the world the
\* undo began in.
LEMMA PlacedUndoesRemoved ==
    ASSUME NEW w \in World, NEW t, Fits(t), \A i \in DOMAIN t : w[t[i].pos] = t[i].block
    PROVE  /\ Placed(Removed(w, t, Len(t)), t, Len(t)) = w
           /\ \A i \in DOMAIN t : Removed(w, t, Len(t))[t[i].pos] = Air
<1> DEFINE n == Len(t)
           v == Removed(w, t, n)
<1>1. /\ n \in Nat /\ n \in 0..Len(t) /\ DOMAIN t = 1..n /\ t \in Plan
      /\ \A i \in DOMAIN t : t[i].pos \in Position
    BY TargetsTyped DEF Fits
<1>2. /\ v \in World
      /\ \A i \in DOMAIN t : v[t[i].pos] = Air
      /\ \A p \in Position : (\A i \in DOMAIN t : t[i].pos # p) => v[p] = w[p]
    <2>1. /\ Removed(w, t, n) \in World
          /\ \A i \in DOMAIN t : t[i].pos \in Position =>
                Removed(w, t, n)[t[i].pos] = IF i > Len(t) - n THEN Air ELSE w[t[i].pos]
          /\ \A p \in Position : (\A i \in DOMAIN t : t[i].pos # p) => Removed(w, t, n)[p] = w[p]
        <3> HIDE DEF n
        <3> QED
            BY <1>1, RemovedIs
    <2>2. \A i \in DOMAIN t : i > Len(t) - n
        BY <1>1
    <2> QED
        BY <1>1, <2>1, <2>2
<1> HIDE DEF v, n
<1>3. /\ Placed(v, t, n) \in World
      /\ \A i \in 1..n : t[i].pos \in Position => Placed(v, t, n)[t[i].pos] = t[i].block
      /\ \A p \in Position : (\A i \in 1..n : t[i].pos # p) => Placed(v, t, n)[p] = v[p]
    BY <1>1, <1>2, PlacedPlan
<1>4. ASSUME NEW p \in Position
      PROVE  Placed(v, t, n)[p] = w[p]
    <2>1. CASE \E i \in 1..n : t[i].pos = p
        BY <1>1, <1>3, <2>1
    <2>2. CASE \A i \in 1..n : t[i].pos # p
        BY <1>1, <1>2, <1>3, <2>2
    <2> QED
        BY <2>1, <2>2
<1>5. Placed(v, t, n) = w
    BY <1>3, <1>4, SameWorld
<1> QED
    BY <1>2, <1>5 DEF v, n

-----------------------------------------------------------------------------
(* Steps.                                                                  *)

\* The generated ground is solid at the lowest layer.
LEMMA GroundIsSolid ==
    \A p \in Position : BaseBlock(p) \in Block /\ (p[2] = MinY => BaseBlock(p) # Air)
<1> SUFFICES ASSUME NEW p \in Position
             PROVE  BaseBlock(p) \in Block /\ (p[2] = MinY => BaseBlock(p) # Air)
    OBVIOUS
<1>1. p[2] \in Int /\ GroundY \in Int /\ MinY \in (GroundY - 4)..GroundY
    BY WorldAssumption DEF Position
<1>2. BaseBlock(p) \in {Bedrock, "stone", "dirt", "grass_block", Air}
    BY DEF BaseBlock
<1>3. p[2] \in (GroundY - 4)..GroundY => BaseBlock(p) # Air
    BY <1>1 DEF BaseBlock, Air, Bedrock
<1> QED
    BY <1>1, <1>2, <1>3 DEF Block

\* What an accepted target says: its position is in the world and holds air, its
\* block is of the palette.
LEMMA FittingTarget ==
    ASSUME NEW world, NEW t, TargetFits(world, t)
    PROVE  t.pos \in Position /\ t.block \in Palette /\ world[t.pos] = Air
BY DEF TargetFits, MaySet, InBounds, BlockAt

\* A player's edit keeps the lowest layer solid.
LEMMA PlayerEditStep ==
    ASSUME IInv, NEW p \in Position, NEW block \in Palette \cup {Air}, PlayerEdit(p, block)
    PROVE  IInv'
<1>1. /\ phase = "idle" /\ phase' = "idle" /\ reply' = "none"
      /\ layer' = [layer EXCEPT ![p] = block]
      /\ \/ MaySet(p, block, layer[p], Anchored(layer, p), FALSE)
         \/ block = Air /\ MayRemove(p, layer[p])
      /\ UNCHANGED <<builds, key, plan, done, saved, before>>
    BY DEF PlayerEdit, work
<1>2. layer' \in World
    BY <1>1 DEF IInv, Typed, World, Block
<1>3. p[2] = MinY => block # Air
    <2>1. p[2] \in Int /\ MinY \in Int
        BY WorldAssumption DEF Position
    <2> QED
        BY <1>1, <2>1, WorldAssumption DEF MaySet, MayRemove
<1>4. LowestLayerIsSolid'
    BY <1>1, <1>3 DEF IInv, Typed, World, LowestLayerIsSolid
<1>5. Typed' /\ RowsFit'
    BY <1>1, <1>2 DEF IInv, Typed, RowsFit, Applied, Original
<1>6. Underway' /\ Applying' /\ Undoing' /\ WorldAllOrNothing'
    BY <1>1 DEF Underway, Applying, Undoing, WorldAllOrNothing
<1> QED
    BY <1>2, <1>4, <1>5, <1>6 DEF IInv

\* An operation that ends where it began: answered from its row, or refused.
LEMMA AnsweredStep ==
    ASSUME IInv, phase = "idle", key' \in Key,
           before' = [layer |-> layer, builds |-> builds], reply' \in {"repeated", "refused"},
           UNCHANGED <<layer, builds, phase, plan, done, saved>>
    PROVE  IInv'
<1>1. Typed' /\ RowsFit' /\ LowestLayerIsSolid'
    BY DEF IInv, Typed, RowsFit, LowestLayerIsSolid, Applied, Original
<1>2. Underway' /\ Applying' /\ Undoing' /\ WorldAllOrNothing'
    BY DEF Underway, Applying, Undoing, WorldAllOrNothing
<1> QED
    BY <1>1, <1>2 DEF IInv

\* A valid plan replaces only air above the lowest layer, each target in the world
\* that the earlier ones leave.
LEMMA ValidPlan ==
    ASSUME NEW w \in World, \A p \in Position : p[2] = MinY => w[p] # Air,
           NEW t \in Plan, NEW occupied, Valid(t, w, occupied)
    PROVE  /\ Fits(t)
           /\ \A i \in DOMAIN t : w[t[i].pos] = Air /\ TargetFits(Placed(w, t, i - 1), t[i])
<1>1. \A i \in DOMAIN t : TargetFits(Placed(w, t, i - 1), t[i])
    BY DEF Valid
<1>2. \A i \in DOMAIN t : t[i].pos \in Position /\ t[i].block \in Palette
                          /\ Placed(w, t, i - 1)[t[i].pos] = Air
    BY <1>1, FittingTarget
<1>3. ASSUME NEW i \in DOMAIN t
      PROVE  w[t[i].pos] = Air
    <2> DEFINE n == i - 1
    <2>1. n \in 0..Len(t) /\ \A j \in 1..n : j \in DOMAIN t /\ j # i
        BY TargetsTyped
    <2>2. \A j \in 1..n : t[j].pos # t[i].pos
        BY <2>1, TargetsTyped
    <2> HIDE DEF n
    <2>3. \A p \in Position : (\A j \in 1..n : t[j].pos # p) => Placed(w, t, n)[p] = w[p]
        BY <2>1, PlacedPlan
    <2>4. Placed(w, t, n)[t[i].pos] = Air
        BY <1>2 DEF n
    <2> QED
        BY <1>2, <2>2, <2>3, <2>4
<1>4. \A i \in DOMAIN t : t[i].pos[2] > MinY
    <2> SUFFICES ASSUME NEW i \in DOMAIN t PROVE t[i].pos[2] > MinY
        OBVIOUS
    <2>1. t[i].pos \in Position /\ t[i].pos[2] # MinY
        BY <1>2, <1>3
    <2>2. t[i].pos[2] \in MinY..MaxY
        BY <2>1 DEF Position
    <2> QED
        BY <2>1, <2>2, WorldAssumption
<1> QED
    BY <1>1, <1>2, <1>3, <1>4 DEF Fits

\* A new plan is refused, or it starts in the world it was validated against.
LEMMA BeginApplyStep ==
    ASSUME IInv, NEW k \in Key, NEW targets \in Plan, NEW occupied,
           BeginApply(k, targets, occupied)
    PROVE  IInv'
<1>1. /\ phase = "idle" /\ key' = k /\ before' = [layer |-> layer, builds |-> builds]
      /\ UNCHANGED <<layer, builds>>
    BY DEF BeginApply
<1>2. CASE ~Valid(targets, layer, occupied)
    BY <1>1, <1>2, AnsweredStep DEF BeginApply
<1>3. CASE Valid(targets, layer, occupied)
    <2>1. /\ phase' = "applying" /\ reply' = "none" /\ plan' = targets /\ done' = 0
          /\ saved' = [i \in DOMAIN targets |-> layer[targets[i].pos]]
        BY <1>3 DEF BeginApply
    <2>2. layer \in World /\ \A p \in Position : p[2] = MinY => layer[p] # Air
        BY DEF IInv, Typed, LowestLayerIsSolid
    <2>3. /\ Fits(targets)
          /\ \A i \in DOMAIN targets : layer[targets[i].pos] = Air
                /\ TargetFits(Placed(layer, targets, i - 1), targets[i])
        BY <1>3, <2>2, ValidPlan
    <2>4. saved' = AllAir(targets)
        BY <2>1, <2>3 DEF AllAir
    <2>5. layer = Placed(layer, targets, 0)
        <3>1. 0 \in 0..Len(targets) /\ ~\E i \in 1..0 : TRUE
            BY TargetsTyped
        <3>2. Placed(layer, targets, 0) \in World
              /\ \A p \in Position : Placed(layer, targets, 0)[p] = layer[p]
            BY <2>2, <3>1, PlacedPlan
        <3> QED
            BY <2>2, <3>2, SameWorld
    <2>6. Typed' /\ RowsFit' /\ LowestLayerIsSolid'
        BY <1>1, <2>1 DEF IInv, Typed, RowsFit, LowestLayerIsSolid, Applied, Original
    <2>7. Underway'
        <3>1. 0 \in 0..Len(targets)
            BY TargetsTyped
        <3> QED
            BY <1>1, <2>1, <2>2, <2>3, <2>4, <3>1 DEF Underway
    <2>8. Applying'
        BY <1>1, <2>1, <2>3, <2>5 DEF Applying
    <2>9. Undoing' /\ WorldAllOrNothing'
        BY <2>1 DEF Undoing, WorldAllOrNothing
    <2> QED
        BY <2>6, <2>7, <2>8, <2>9 DEF IInv
<1> QED
    BY <1>2, <1>3

\* The next target is in place.
LEMMA ApplyTargetStep ==
    ASSUME IInv, ApplyTarget
    PROVE  IInv'
<1>1. /\ phase = "applying" /\ done < Len(plan) /\ TargetFits(layer, plan[done + 1])
      /\ layer' = [layer EXCEPT ![plan[done + 1].pos] = plan[done + 1].block]
      /\ done' = done + 1
      /\ UNCHANGED <<builds, phase, key, plan, saved, before, reply>>
    BY DEF ApplyTarget
<1>2. /\ Fits(plan) /\ saved = AllAir(plan) /\ done \in 0..Len(plan) /\ before.layer \in World
      /\ layer = Placed(before.layer, plan, done) /\ layer \in World
    BY <1>1 DEF IInv, Typed, Underway, Applying
<1>3. plan[done + 1].pos \in Position /\ plan[done + 1].block \in Palette
    BY <1>1, FittingTarget
<1>4. layer' = Placed(before.layer, plan, done')
    <2>1. plan \in Plan
        BY <1>2 DEF Fits
    <2> QED
        BY <1>1, <1>2, <1>3, <2>1, PlacedOneMore
<1>5. layer' \in World
    BY <1>1, <1>2, <1>3 DEF World, Block
<1>6. Typed' /\ RowsFit' /\ Undoing' /\ WorldAllOrNothing'
    BY <1>1, <1>5 DEF IInv, Typed, RowsFit, Undoing, WorldAllOrNothing,
        Applied, Original
<1>7. LowestLayerIsSolid'
    BY <1>1, <1>2, <1>3, WorldAssumption DEF IInv, LowestLayerIsSolid, World
<1>8. Underway'
    <2>1. Len(plan) \in Nat
        BY <1>2, TargetsTyped DEF Fits
    <2>2. done' \in 0..Len(plan)
        BY <1>1, <1>2, <2>1
    <2> QED
        BY <1>1, <1>2, <2>2 DEF Underway
<1>9. Applying'
    BY <1>1, <1>4 DEF IInv, Applying
<1> QED
    BY <1>5, <1>6, <1>7, <1>8, <1>9 DEF IInv

\* The row is committed, with the targets and the air they replaced.
LEMMA PersistBuildStep ==
    ASSUME IInv, PersistBuild
    PROVE  IInv'
<1> DEFINE row == [state |-> "applied", plan |-> plan, original |-> saved]
<1>1. /\ phase = "applying" /\ done = Len(plan) /\ phase' = "applied"
      /\ builds' = [builds EXCEPT ![key] = row]
      /\ UNCHANGED <<layer, key, plan, done, saved, before, reply>>
    BY DEF PersistBuild, work
<1>2. Fits(plan) /\ saved = AllAir(plan)
    BY <1>1 DEF IInv, Underway
<1>3. RowsFit'
    <2>1. DOMAIN builds' = Key
        BY <1>1 DEF IInv, RowsFit
    <2>2. ASSUME NEW k \in Key, builds'[k] # NoBuild
          PROVE  /\ builds'[k] = [state |-> builds'[k].state, plan |-> builds'[k].plan,
                                  original |-> builds'[k].original]
                 /\ Fits(builds'[k].plan) /\ builds'[k].original = AllAir(builds'[k].plan)
        <3>1. CASE k = key
            <4>1. builds'[k] = row
                BY <1>1, <3>1 DEF IInv, RowsFit
            <4> QED
                BY <1>2, <4>1
        <3>2. CASE k # key
            <4>1. builds'[k] = builds[k]
                BY <1>1, <3>2 DEF IInv, RowsFit
            <4> QED
                BY <2>2, <4>1 DEF IInv, RowsFit, Applied, Original
        <3> QED
            BY <3>1, <3>2
    <2> QED
        BY <2>1, <2>2 DEF RowsFit, Applied, Original
<1>4. Typed' /\ LowestLayerIsSolid' /\ Underway'
    BY <1>1 DEF IInv, Typed, LowestLayerIsSolid, Underway
<1>5. Applying' /\ Undoing' /\ WorldAllOrNothing'
    BY <1>1 DEF IInv, Applying, Undoing, WorldAllOrNothing
<1> QED
    BY <1>3, <1>4, <1>5 DEF IInv

\* An operation ends with the world in which it began.
LEMMA WorldRestored ==
    ASSUME IInv, phase # "idle", layer' = before.layer, phase' = "idle",
           reply' = "unread" \/ (reply' = "failed" /\ builds = before.builds),
           UNCHANGED <<builds, key, plan, done, saved, before>>
    PROVE  IInv'
<1>1. before.layer \in World /\ Fits(plan) /\ done \in 0..Len(plan)
    BY DEF IInv, Underway
<1>2. \A p \in Position : p[2] = MinY => before.layer[p] = layer[p]
    <2> SUFFICES ASSUME NEW p \in Position, p[2] = MinY
                 PROVE  before.layer[p] = layer[p]
        OBVIOUS
    <2>1. MinY \in Int /\ plan \in Plan
        BY <1>1, WorldAssumption DEF Fits
    <2>2. \A i \in DOMAIN plan : plan[i].pos # p
        BY <1>1, <2>1 DEF Fits
    <2>3. 1..done \subseteq DOMAIN plan
        BY <1>1, <2>1, TargetsTyped
    <2>4. CASE phase \in {"applying", "applied"}
        <3>1. layer = Placed(before.layer, plan, done)
            BY <2>4 DEF IInv, Applying
        <3> QED
            BY <1>1, <2>1, <2>2, <2>3, <3>1, PlacedPlan
    <2>5. CASE phase \in {"undoing", "undone"}
        <3>1. layer = Removed(before.layer, plan, done)
            BY <2>5 DEF IInv, Undoing
        <3> QED
            BY <1>1, <2>1, <2>2, <3>1, RemovedIs
    <2> QED
        BY <2>4, <2>5 DEF IInv, Typed
<1>3. LowestLayerIsSolid'
    BY <1>2 DEF IInv, LowestLayerIsSolid
<1>4. Typed' /\ RowsFit'
    BY <1>1 DEF IInv, Typed, RowsFit, Applied, Original
<1>5. Underway' /\ Applying' /\ Undoing'
    BY DEF Underway, Applying, Undoing
<1>6. WorldAllOrNothing'
    BY DEF WorldAllOrNothing
<1> QED
    BY <1>3, <1>4, <1>5, <1>6 DEF IInv

\* A failed commit of the row, or a failed reading of it, restores every target.
LEMMA ApplyFails ==
    ASSUME IInv, PersistBuildFails \/ RereadAppliedFails
    PROVE  IInv'
<1>1. /\ phase \in {"applying", "applied"} /\ done = Len(plan)
      /\ RestoreOriginals /\ phase' = "idle"
      /\ reply' = "unread" \/ (reply' = "failed" /\ builds = before.builds)
      /\ UNCHANGED <<builds, key, plan, done, saved, before>>
    BY DEF IInv, Applying, PersistBuildFails, RereadAppliedFails, work
<1>2. /\ Fits(plan) /\ saved = AllAir(plan) /\ before.layer \in World
      /\ layer = Placed(before.layer, plan, Len(plan))
      /\ \A i \in DOMAIN plan : before.layer[plan[i].pos] = Air
    BY <1>1 DEF IInv, Underway, Applying
<1>3. layer' = before.layer
    BY <1>1, <1>2, RestoreUndoesPlaced DEF RestoreOriginals
<1> QED
    BY <1>1, <1>3, WorldRestored

\* The build answers that it is in place.
LEMMA ReplyAppliedStep ==
    ASSUME IInv, ReplyApplied
    PROVE  IInv'
<1>1. /\ phase = "applied" /\ phase' = "idle" /\ reply' = "applied"
      /\ UNCHANGED <<layer, builds, key, plan, done, saved, before>>
    BY DEF ReplyApplied, work
<1>2. Typed' /\ RowsFit' /\ LowestLayerIsSolid' /\ Underway' /\ Applying' /\ Undoing'
    BY <1>1 DEF IInv, Typed, RowsFit, LowestLayerIsSolid, Underway, Applying, Undoing,
        Applied, Original
<1>3. WorldAllOrNothing'
    BY <1>1 DEF IInv, Applying, WorldAllOrNothing
<1> QED
    BY <1>2, <1>3 DEF IInv

\* An undo starts only where every target still holds what the build put there.
LEMMA BeginUndoStep ==
    ASSUME IInv, NEW k \in Key, BeginUndo(k)
    PROVE  IInv'
<1>1. /\ phase = "idle" /\ builds[k] # NoBuild
      /\ \A i \in DOMAIN Applied(k) : layer[Applied(k)[i].pos] = Applied(k)[i].block
      /\ key' = k /\ before' = [layer |-> layer, builds |-> builds] /\ reply' = "none"
      /\ phase' = "undoing" /\ plan' = Applied(k) /\ saved' = Original(k) /\ done' = 0
      /\ UNCHANGED <<layer, builds>>
    BY DEF BeginUndo
<1>2. Fits(plan') /\ saved' = AllAir(plan') /\ layer \in World /\ plan' \in Plan
    BY <1>1 DEF IInv, RowsFit, Typed, Fits
<1>3. 0 \in 0..Len(plan') /\ \A i \in DOMAIN plan' : ~(i > Len(plan') - 0)
    BY <1>2, TargetsTyped
<1>4. layer = Removed(layer, plan', 0)
    <2>1. /\ Removed(layer, plan', 0) \in World
          /\ \A p \in Position : Removed(layer, plan', 0)[p] = layer[p]
        BY <1>2, <1>3, RemovedIs DEF Removed
    <2> QED
        BY <1>2, <2>1, SameWorld
<1>5. Typed' /\ RowsFit' /\ LowestLayerIsSolid'
    BY <1>1 DEF IInv, Typed, RowsFit, LowestLayerIsSolid, Applied, Original
<1>6. Underway'
    BY <1>1, <1>2, <1>3 DEF Underway
<1>7. Undoing'
    BY <1>1, <1>4 DEF Undoing
<1>8. Applying' /\ WorldAllOrNothing'
    BY <1>1 DEF Applying, WorldAllOrNothing
<1> QED
    BY <1>5, <1>6, <1>7, <1>8 DEF IInv

\* The target undone next is still in the world, where it may be removed.
LEMMA LatestIsThere ==
    ASSUME IInv, phase = "undoing", done < Len(plan)
    PROVE  /\ Latest \in DOMAIN plan /\ plan \in Plan /\ Len(plan) \in Nat /\ done \in 0..Len(plan)
           /\ plan[Latest].pos \in Position /\ plan[Latest].pos[2] > MinY
           /\ layer[plan[Latest].pos] \in Palette
           /\ saved[Latest] = Air
<1>1. /\ Fits(plan) /\ saved = AllAir(plan) /\ done \in 0..Len(plan) /\ before.layer \in World
      /\ layer = Removed(before.layer, plan, done)
      /\ \A i \in DOMAIN plan : before.layer[plan[i].pos] = plan[i].block
    BY DEF IInv, Underway, Undoing
<1>2. plan \in Plan /\ Len(plan) \in Nat /\ DOMAIN plan = 1..Len(plan)
    BY <1>1, TargetsTyped DEF Fits
<1>3. Latest \in DOMAIN plan /\ ~(Latest > Len(plan) - done)
    BY <1>1, <1>2 DEF Latest
<1>4. plan[Latest].pos \in Position /\ plan[Latest].pos[2] > MinY /\ plan[Latest].block \in Palette
    BY <1>1, <1>3 DEF Fits
<1>5. \A i \in DOMAIN plan : plan[i].pos \in Position =>
        layer[plan[i].pos] = IF i > Len(plan) - done THEN Air ELSE before.layer[plan[i].pos]
    BY <1>1, <1>2, RemovedIs
<1>6. layer[plan[Latest].pos] = plan[Latest].block
    BY <1>1, <1>3, <1>4, <1>5
<1> QED
    BY <1>1, <1>2, <1>3, <1>4, <1>6 DEF AllAir

\* The latest target is removed.
LEMMA UndoTargetStep ==
    ASSUME IInv, UndoTarget
    PROVE  IInv'
<1>1. /\ phase = "undoing" /\ done < Len(plan)
      /\ layer' = [layer EXCEPT ![plan[Latest].pos] = saved[Latest]]
      /\ done' = done + 1
      /\ UNCHANGED <<builds, phase, key, plan, saved, before, reply>>
    BY DEF UndoTarget
<1>2. /\ Latest \in DOMAIN plan /\ plan \in Plan /\ Len(plan) \in Nat /\ done \in 0..Len(plan)
      /\ plan[Latest].pos \in Position /\ plan[Latest].pos[2] > MinY
      /\ saved[Latest] = Air
    BY <1>1, LatestIsThere
<1>3. /\ before.layer \in World /\ layer \in World
      /\ layer = Removed(before.layer, plan, done)
    BY <1>1 DEF IInv, Typed, Underway, Undoing
<1>4. layer' \in World
    BY <1>1, <1>2, <1>3 DEF World, Block
<1>5. done' \in 0..Len(plan)
    BY <1>1, <1>2
<1>6. layer' = Removed(before.layer, plan, done')
    <2> DEFINE v == Removed(before.layer, plan, done')
    <2>1. v \in World
        BY <1>2, <1>3, <1>5, RemovedIs
    <2>2. ASSUME NEW p \in Position
          PROVE  layer'[p] = v[p]
        <3>1. \A i \in DOMAIN plan : i > Len(plan) - done' <=> i > Len(plan) - done \/ i = Latest
            BY <1>1, <1>2, TargetsTyped DEF Latest
        <3>2. CASE p = plan[Latest].pos
            BY <1>1, <1>2, <1>3, <3>1, <3>2 DEF Removed, World
        <3>3. CASE p # plan[Latest].pos
            BY <1>1, <1>2, <1>3, <3>1, <3>3 DEF Removed, World
        <3> QED
            BY <3>2, <3>3
    <2> QED
        BY <1>4, <2>1, <2>2, SameWorld
<1>7. LowestLayerIsSolid'
    <2>1. MinY \in Int /\ \A p \in Position : p[2] = MinY => p # plan[Latest].pos
        BY <1>2, WorldAssumption
    <2> QED
        BY <1>1, <1>3, <2>1 DEF IInv, LowestLayerIsSolid, World
<1>8. Typed' /\ RowsFit' /\ Applying' /\ WorldAllOrNothing'
    BY <1>1, <1>4 DEF IInv, Typed, RowsFit, Applying, WorldAllOrNothing,
        Applied, Original
<1>9. Underway' /\ Undoing'
    BY <1>1, <1>5, <1>6 DEF IInv, Underway, Undoing
<1> QED
    BY <1>7, <1>8, <1>9 DEF IInv

\* The row is marked undone, and says what it said of its targets.
LEMMA MarkUndoneStep ==
    ASSUME IInv, MarkUndone
    PROVE  IInv'
<1>1. /\ phase = "undoing" /\ done = Len(plan) /\ phase' = "undone"
      /\ builds' = [builds EXCEPT ![key].state = "undone"]
      /\ UNCHANGED <<layer, key, plan, done, saved, before, reply>>
    BY DEF MarkUndone, work
<1>2. /\ key \in Key /\ DOMAIN builds = Key /\ builds[key] # NoBuild
      /\ builds[key] = [state |-> builds[key].state, plan |-> Applied(key), original |-> Original(key)]
      /\ Fits(Applied(key)) /\ Original(key) = AllAir(Applied(key))
    BY <1>1 DEF IInv, Typed, RowsFit, Undoing
<1>3. RowsFit'
    <2>1. builds'[key] = [builds[key] EXCEPT !.state = "undone"] /\ DOMAIN builds' = Key
        BY <1>1, <1>2
    <2>2. builds'[key] = [state |-> "undone", plan |-> Applied(key), original |-> Original(key)]
        BY <1>2, <2>1
    <2>3. ASSUME NEW k \in Key, builds'[k] # NoBuild
          PROVE  /\ builds'[k] = [state |-> builds'[k].state, plan |-> builds'[k].plan,
                                  original |-> builds'[k].original]
                 /\ Fits(builds'[k].plan) /\ builds'[k].original = AllAir(builds'[k].plan)
        <3>1. CASE k = key
            BY <1>2, <2>2, <3>1
        <3>2. CASE k # key
            <4>1. builds'[k] = builds[k]
                BY <1>1, <1>2, <3>2
            <4> QED
                BY <2>3, <4>1 DEF IInv, RowsFit, Applied, Original
        <3> QED
            BY <3>1, <3>2
    <2> QED
        BY <2>1, <2>3 DEF RowsFit, Applied, Original
<1>4. Typed' /\ LowestLayerIsSolid' /\ Underway'
    BY <1>1 DEF IInv, Typed, LowestLayerIsSolid, Underway
<1>5. Applying' /\ Undoing' /\ WorldAllOrNothing'
    BY <1>1 DEF IInv, Applying, Undoing, WorldAllOrNothing
<1> QED
    BY <1>3, <1>4, <1>5 DEF IInv

\* A failed commit of the undo, or a failed reading of it, sets every target again.
LEMMA UndoFails ==
    ASSUME IInv, MarkUndoneFails \/ RereadUndoneFails
    PROVE  IInv'
<1>1. /\ phase \in {"undoing", "undone"} /\ done = Len(plan)
      /\ layer' = Placed(layer, plan, Len(plan)) /\ phase' = "idle"
      /\ reply' = "unread" \/ (reply' = "failed" /\ builds = before.builds)
      /\ UNCHANGED <<builds, key, plan, done, saved, before>>
    BY DEF IInv, Undoing, MarkUndoneFails, RereadUndoneFails, work
<1>2. /\ Fits(plan) /\ before.layer \in World
      /\ layer = Removed(before.layer, plan, Len(plan))
      /\ \A i \in DOMAIN plan : before.layer[plan[i].pos] = plan[i].block
    BY <1>1 DEF IInv, Underway, Undoing
<1>3. layer' = before.layer
    BY <1>1, <1>2, PlacedUndoesRemoved
<1> QED
    BY <1>1, <1>3, WorldRestored

\* The undo answers that its targets are gone.
LEMMA ReplyUndoneStep ==
    ASSUME IInv, ReplyUndone
    PROVE  IInv'
<1>1. /\ phase = "undone" /\ phase' = "idle" /\ reply' = "undone"
      /\ UNCHANGED <<layer, builds, key, plan, done, saved, before>>
    BY DEF ReplyUndone, work
<1>2. Typed' /\ RowsFit' /\ LowestLayerIsSolid' /\ Underway' /\ Applying' /\ Undoing'
    BY <1>1 DEF IInv, Typed, RowsFit, LowestLayerIsSolid, Underway, Applying, Undoing,
        Applied, Original
<1>3. /\ Fits(plan) /\ saved = AllAir(plan) /\ before.layer \in World /\ done = Len(plan)
      /\ layer = Removed(before.layer, plan, Len(plan))
      /\ \A i \in DOMAIN plan : before.layer[plan[i].pos] = plan[i].block
    BY <1>1 DEF IInv, Underway, Undoing
<1>4. /\ Placed(layer, plan, Len(plan)) = before.layer
      /\ \A i \in DOMAIN plan : layer[plan[i].pos] = Air /\ saved[i] = Air
    BY <1>3, PlacedUndoesRemoved DEF AllAir
<1>5. WorldAllOrNothing'
    BY <1>1, <1>4 DEF WorldAllOrNothing
<1> QED
    BY <1>2, <1>5 DEF IInv

-----------------------------------------------------------------------------
(* Theorems.                                                               *)

\* The invariant holds at the start and through every step.
LEMMA InitInvariant == Init => IInv
<1> SUFFICES ASSUME Init PROVE IInv
    OBVIOUS
<1>1. Typed /\ LowestLayerIsSolid
    BY GroundIsSolid DEF Init, Typed, World, LowestLayerIsSolid
<1>2. RowsFit /\ Underway /\ Applying /\ Undoing /\ WorldAllOrNothing
    BY DEF Init, RowsFit, Underway, Applying, Undoing, WorldAllOrNothing
<1> QED
    BY <1>1, <1>2 DEF IInv

LEMMA StepInvariant == IInv /\ [Next]_vars => IInv'
<1> SUFFICES ASSUME IInv, [Next]_vars PROVE IInv'
    OBVIOUS
<1>1. CASE \E p \in Position, block \in Palette \cup {Air} : PlayerEdit(p, block)
    BY <1>1, PlayerEditStep
<1>2. CASE \E k \in Key, targets \in Plan : ApplyAgain(k, targets)
    BY <1>2, AnsweredStep DEF ApplyAgain
<1>3. CASE \E k \in Key, targets \in Plan, occupied \in Occupied : BeginApply(k, targets, occupied)
    BY <1>3, BeginApplyStep
<1>4. CASE \E k \in Key : UndoNothing(k)
    BY <1>4, AnsweredStep DEF UndoNothing
<1>5. CASE \E k \in Key : BeginUndo(k)
    BY <1>5, BeginUndoStep
<1>6. CASE Step
    BY <1>6, ApplyTargetStep, PersistBuildStep, ApplyFails, ReplyAppliedStep, UndoTargetStep,
        MarkUndoneStep, UndoFails, ReplyUndoneStep DEF Step
<1>7. CASE UNCHANGED vars
    BY <1>7 DEF vars, work, IInv, Typed, RowsFit, LowestLayerIsSolid, Underway, Applying,
        Undoing, WorldAllOrNothing, Applied, Original
<1> QED
    BY <1>1, <1>2, <1>3, <1>4, <1>5, <1>6, <1>7 DEF Next, Request

LEMMA Invariant == Spec => []IInv
BY InitInvariant, StepInvariant, PTL DEF Spec

\* What the validation accepted, neither loop ever refuses: the branches that
\* would unwind a half-applied build or undo are never taken.
THEOREM LoopsNeverRefuse == Spec => []NeverRefusedMidway
<1>1. IInv => NeverRefusedMidway
    <2> SUFFICES ASSUME IInv, done < Len(plan)
                 PROVE  /\ phase = "applying" => TargetFits(layer, plan[done + 1])
                        /\ phase = "undoing" => UndoFits(layer, plan[Latest], saved[Latest])
        BY DEF NeverRefusedMidway
    <2>1. ASSUME phase = "applying"
          PROVE  TargetFits(layer, plan[done + 1])
        <3>1. plan \in Plan /\ done \in 0..Len(plan)
            BY <2>1 DEF IInv, Underway, Fits
        <3>2. done + 1 \in DOMAIN plan /\ (done + 1) - 1 = done
            BY <3>1, TargetsTyped
        <3>3. TargetFits(Placed(before.layer, plan, (done + 1) - 1), plan[done + 1])
            BY <2>1, <3>2 DEF IInv, Applying
        <3> QED
            BY <2>1, <3>2, <3>3 DEF IInv, Applying
    <2>2. ASSUME phase = "undoing"
          PROVE  UndoFits(layer, plan[Latest], saved[Latest])
        BY <2>2, LatestIsThere, WorldAssumption DEF UndoFits, MayRemove, InBounds, BlockAt
    <2> QED
        BY <2>1, <2>2
<1> QED
    BY <1>1, Invariant, PTL

\* An operation changes all of its targets and nothing else, or nothing at all,
\* at whichever step it fails.
THEOREM AllOrNothing == Spec => []WorldAllOrNothing
<1>1. IInv => WorldAllOrNothing
    BY DEF IInv
<1> QED
    BY <1>1, Invariant, PTL

\* The blocks a build captures are all air.
THEOREM BuildsReplaceAir == Spec => []CapturesOnlyAir
<1>1. IInv => CapturesOnlyAir
    <2> SUFFICES ASSUME IInv, NEW k \in Key, builds[k] # NoBuild, NEW i \in DOMAIN Original(k)
                 PROVE  Original(k)[i] = Air
        BY DEF CapturesOnlyAir
    <2> QED
        BY DEF IInv, RowsFit, AllAir
<1> QED
    BY <1>1, Invariant, PTL
=============================================================================
