---------------------------- MODULE BuildService ----------------------------
(***************************************************************************)
(* Builds (src/src/build_service.rs): apply_build_plan and undo_build on   *)
(* the live chunk layer and the builds table, with player edits between    *)
(* them.  Both run to completion on the game thread; they are taken apart  *)
(* here into their steps because each step may fail and must then be       *)
(* unwound.  The columns a plan needs are already loaded (WorldServer      *)
(* models the loading) and the overlay a build leaves is Persistence's.    *)
(***************************************************************************)
EXTENDS BuildRules

CONSTANTS
    Key,            \* idempotency keys; a build and its key are one to one
    Plan,           \* prepared plans: sequences of targets, positions distinct
    Occupied,       \* the sets of positions players may be standing in
    MaxEdits,       \* bound on player edits, for TLC
    NoBuild         \* no row in builds

\* prepare_build_plan rejects a position it has already seen.
ASSUME PlanAssumption ==
    /\ Plan \subseteq Seq(Target)
    /\ \A targets \in Plan : Len(targets) > 0 /\ Distinct(targets)
    /\ Occupied \subseteq SUBSET Position
    /\ MaxEdits \in Nat

VARIABLES
    layer,  \* the live world
    builds, \* rows by key: the plan, its captured blocks, the state
    phase,  \* what the game thread is in the middle of
    key,    \* the build it works on
    plan,   \* its targets
    done,   \* how many of them it has set or removed
    saved,  \* the original block of each target, captured before the first
    edits,  \* player edits so far
    before, \* history: the world and the rows when the operation began
    reply   \* history: how the last operation ended

vars == <<layer, builds, phase, key, plan, done, saved, edits, before, reply>>
work == <<key, plan, done, saved>>

-----------------------------------------------------------------------------
\* What load_build hands to undo_build: position, original and applied block.
Applied(k) == builds[k].plan
Original(k) == builds[k].original

\* validate_world_command for the block undo removes next, last target first.
UndoFits(world, t, original) ==
    original = Air => MayRemove(t.pos, BlockAt(world, t.pos))

-----------------------------------------------------------------------------
\* Faulty forms of actions defined below.

\* The last target is not restored.
RestoreButOne ==
    layer' = Placed(layer, [i \in DOMAIN plan |->
                            [pos |-> plan[i].pos, block |-> saved[i]]], Len(plan) - 1)

-----------------------------------------------------------------------------
Init ==
    /\ layer = [p \in Position |-> BaseBlock(p)]
    /\ builds = [k \in Key |-> NoBuild]
    /\ phase = "idle"
    /\ key \in Key /\ plan = <<>> /\ done = 0 /\ saved = <<>>
    /\ edits = 0
    /\ before = [layer |-> layer, builds |-> builds] /\ reply = "none"

-----------------------------------------------------------------------------
\* A player places or digs a block between two operations.
PlayerEdit(p, block) ==
    /\ phase = "idle" /\ edits < MaxEdits
    /\ \/ MaySet(p, block, layer[p], Anchored(layer, p), FALSE)
       \/ block = Air /\ MayRemove(p, layer[p])
    /\ layer' = [layer EXCEPT ![p] = block]
    /\ edits' = edits + 1
    /\ reply' = "none"
    /\ UNCHANGED <<builds, phase, work, before>>

\* apply_build_plan finds a row for the key: the same plan answers with the
\* row, whatever its state; another plan is refused.
ApplyAgain(k, targets) ==
    /\ phase = "idle" /\ builds[k] # NoBuild
    /\ key' = k /\ before' = [layer |-> layer, builds |-> builds]
    /\ reply' = IF Applied(k) = targets THEN "repeated" ELSE "refused"
    /\ UNCHANGED <<layer, builds, phase, plan, done, saved, edits>>

\* apply_build_plan validates a new plan and captures the original blocks.
BeginApply(k, targets, occupied) ==
    /\ phase = "idle" /\ builds[k] = NoBuild
    /\ key' = k /\ before' = [layer |-> layer, builds |-> builds]
    /\ IF Valid(targets, layer, occupied)
       THEN /\ phase' = "applying" /\ reply' = "none"
            /\ plan' = targets /\ done' = 0
            /\ saved' = [i \in DOMAIN targets |-> layer[targets[i].pos]]
       ELSE /\ reply' = "refused"
            /\ UNCHANGED <<phase, plan, done, saved>>
    /\ UNCHANGED <<layer, builds, edits>>

\* The loop of apply_build_plan: execute_world_command on the next target.
\* Its error branch has no action: NeverRefusedMidway says it is not reached.
ApplyTarget ==
    /\ phase = "applying" /\ done < Len(plan)
    /\ TargetFits(layer, plan[done + 1])
    /\ layer' = [layer EXCEPT ![plan[done + 1].pos] = plan[done + 1].block]
    /\ done' = done + 1
    /\ UNCHANGED <<builds, phase, key, plan, saved, edits, before, reply>>

\* restore_prefix(layer, blocks, blocks.len(), false)
RestoreOriginals ==
    layer' = Placed(layer, [i \in DOMAIN plan |->
                            [pos |-> plan[i].pos, block |-> saved[i]]], Len(plan))

\* persist_build commits the row, then loads it back for the reply ...
PersistBuild ==
    /\ phase = "applying" /\ done = Len(plan)
    /\ builds' = [builds EXCEPT ![key] =
            [state |-> "applied", plan |-> plan, original |-> saved]]
    /\ phase' = "applied"
    /\ UNCHANGED <<layer, work, edits, before, reply>>

\* ... or fails before the commit, and every target is restored.
PersistBuildFails ==
    /\ phase = "applying" /\ done = Len(plan)
    /\ RestoreOriginals
    /\ phase' = "idle" /\ reply' = "failed"
    /\ UNCHANGED <<builds, work, edits, before>>

ReplyApplied ==
    /\ phase = "applied"
    /\ phase' = "idle" /\ reply' = "applied"
    /\ UNCHANGED <<layer, builds, work, edits, before>>

\* Loading the committed row back fails: the caller sees an error like any
\* other and restores the live world; the row stays.
RereadAppliedFails ==
    /\ phase = "applied"
    /\ RestoreOriginals
    /\ phase' = "idle" /\ reply' = "unread"
    /\ UNCHANGED <<builds, work, edits, before>>

-----------------------------------------------------------------------------
\* undo_build is refused: no such build, or a target no longer holds the block
\* the build put there.  A build already undone answers as if it had been.
UndoNothing(k) ==
    /\ phase = "idle"
    /\ key' = k /\ before' = [layer |-> layer, builds |-> builds]
    /\ \/ builds[k] = NoBuild /\ reply' = "refused"
       \/ builds[k] # NoBuild /\ builds[k].state = "undone" /\ reply' = "repeated"
       \/ /\ builds[k] # NoBuild /\ builds[k].state = "applied"
          /\ \E i \in DOMAIN Applied(k) :
                layer[Applied(k)[i].pos] # Applied(k)[i].block
          /\ reply' = "refused"
    /\ UNCHANGED <<layer, builds, phase, plan, done, saved, edits>>

\* No target has drifted: the reverse loop starts.
BeginUndo(k) ==
    /\ phase = "idle"
    /\ builds[k] # NoBuild /\ builds[k].state = "applied"
    /\ \A i \in DOMAIN Applied(k) :
            layer[Applied(k)[i].pos] = Applied(k)[i].block
    /\ key' = k /\ before' = [layer |-> layer, builds |-> builds] /\ reply' = "none"
    /\ phase' = "undoing"
    /\ plan' = Applied(k) /\ saved' = Original(k) /\ done' = 0
    /\ UNCHANGED <<layer, builds, edits>>

\* The target undone next: build.blocks.iter().rev()
Latest == Len(plan) - done

\* Its error branch has no action either.
UndoTarget ==
    /\ phase = "undoing" /\ done < Len(plan)
    /\ UndoFits(layer, plan[Latest], saved[Latest])
    /\ layer' = [layer EXCEPT ![plan[Latest].pos] = saved[Latest]]
    /\ done' = done + 1
    /\ UNCHANGED <<builds, phase, key, plan, saved, edits, before, reply>>

\* mark_build_undone commits, then loads the row back for the reply ...
MarkUndone ==
    /\ phase = "undoing" /\ done = Len(plan)
    /\ builds' = [builds EXCEPT ![key].state = "undone"]
    /\ phase' = "undone"
    /\ UNCHANGED <<layer, work, edits, before, reply>>

\* ... or fails before the commit, and every target is set again.
MarkUndoneFails ==
    /\ phase = "undoing" /\ done = Len(plan)
    /\ layer' = Placed(layer, plan, Len(plan))
    /\ phase' = "idle" /\ reply' = "failed"
    /\ UNCHANGED <<builds, work, edits, before>>

ReplyUndone ==
    /\ phase = "undone"
    /\ phase' = "idle" /\ reply' = "undone"
    /\ UNCHANGED <<layer, builds, work, edits, before>>

\* Loading the undone row back fails: the live world is set again.
RereadUndoneFails ==
    /\ phase = "undone"
    /\ layer' = Placed(layer, plan, Len(plan))
    /\ phase' = "idle" /\ reply' = "unread"
    /\ UNCHANGED <<builds, work, edits, before>>

-----------------------------------------------------------------------------
Request ==
    \/ \E p \in Position, block \in Palette \cup {Air} : PlayerEdit(p, block)
    \/ \E k \in Key, targets \in Plan : ApplyAgain(k, targets)
    \/ \E k \in Key, targets \in Plan, occupied \in Occupied :
            BeginApply(k, targets, occupied)
    \/ \E k \in Key : UndoNothing(k) \/ BeginUndo(k)

Step ==
    \/ ApplyTarget \/ PersistBuild \/ PersistBuildFails \/ ReplyApplied \/ RereadAppliedFails
    \/ UndoTarget \/ MarkUndone \/ MarkUndoneFails \/ ReplyUndone \/ RereadUndoneFails

Next == Request \/ Step

Spec == Init /\ [][Next]_vars

-----------------------------------------------------------------------------
\* What validate_build_plan accepts against its shadow map, the live loop never
\* refuses half way, and neither is the removal of an undo ever refused: the
\* restore_prefix branches inside both loops are dead code.
NeverRefusedMidway ==
    done < Len(plan) =>
        /\ phase = "applying" => TargetFits(layer, plan[done + 1])
        /\ phase = "undoing" => UndoFits(layer, plan[Latest], saved[Latest])

\* An operation changes all of its targets and nothing else, or the world is
\* block for block what it was: through failed commits, failed rereads, drift.
WorldAllOrNothing ==
    phase = "idle" =>
        /\ reply = "applied" => layer = Placed(before.layer, plan, Len(plan))
        /\ reply = "undone" =>
              /\ before.layer = Placed(layer, plan, Len(plan))
              /\ \A i \in DOMAIN plan : layer[plan[i].pos] = saved[i]
        /\ reply \in {"refused", "repeated", "failed", "unread"} => layer = before.layer

\* "Atomically validate, apply, persist, and record" (mcp.rs:258): an operation
\* that reports an error leaves no trace in the builds table, whatever the error.
ErrorLeavesNoRecord ==
    phase = "idle" /\ reply \in {"refused", "failed", "unread"} => builds = before.builds

\* Builds replace only air: an undo therefore only removes, and the branch of
\* undo_build that sets a captured block is never taken.
CapturesOnlyAir ==
    \A k \in Key : builds[k] # NoBuild =>
        \A i \in DOMAIN Original(k) : Original(k)[i] = Air

=============================================================================
