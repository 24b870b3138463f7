-------------------------- MODULE Persistence_proofs --------------------------
(***************************************************************************)
(* Proofs about Persistence, for any positions, blocks, columns, keys,     *)
(* plans, batch limit and number of edits.                                 *)
(*                                                                         *)
(* First lemmas about sequences of edits and their final blocks, then the  *)
(* flow of edits from the channel to the command log (IInv), then what the *)
(* files hold (Durable).                                                   *)
(***************************************************************************)
EXTENDS Persistence, SequenceTheorems, WellFoundedInduction, TLAPS

-----------------------------------------------------------------------------
(* Sequences.                                                              *)

\* Taking the head of a sequence off and putting it in front gives it back.
LEMMA HeadThenTail ==
    ASSUME NEW S, NEW s \in Seq(S), s # <<>>
    PROVE  <<Head(s)>> \o Tail(s) = s
<1>1. /\ Head(s) \in S /\ Tail(s) \in Seq(S) /\ Len(Tail(s)) = Len(s) - 1
      /\ \A i \in 1..Len(Tail(s)) : Tail(s)[i] = s[i + 1]
    BY HeadTailProperties
<1>2. Len(s) \in Nat \ {0}
    BY EmptySeq
<1>3. <<Head(s)>> \in Seq(S) /\ Len(<<Head(s)>>) = 1 /\ <<Head(s)>>[1] = s[1]
    BY <1>1
<1>4. /\ <<Head(s)>> \o Tail(s) \in Seq(S)
      /\ Len(<<Head(s)>> \o Tail(s)) = 1 + Len(Tail(s))
      /\ \A i \in 1..(1 + Len(Tail(s))) : (<<Head(s)>> \o Tail(s))[i] =
            IF i <= 1 THEN <<Head(s)>>[i] ELSE Tail(s)[i - 1]
    BY <1>1, <1>3, ConcatProperties
<1>5. \A i \in 1..Len(s) : (<<Head(s)>> \o Tail(s))[i] = s[i]
    BY <1>1, <1>2, <1>3, <1>4
<1> QED
    BY <1>1, <1>2, <1>4, <1>5, SeqEqual

\* Moving the head of one sequence to the end of another leaves both together
\* what they were: a drained edit keeps its place.
LEMMA MoveHead ==
    ASSUME NEW S, NEW s \in Seq(S), NEW t \in Seq(S), t # <<>>
    PROVE  Append(s, Head(t)) \o Tail(t) = s \o t
<1>1. Head(t) \in S /\ Tail(t) \in Seq(S) /\ <<Head(t)>> \in Seq(S)
    BY HeadTailProperties
<1>2. Append(s, Head(t)) = s \o <<Head(t)>>
    BY <1>1, AppendIsConcat
<1>3. (s \o <<Head(t)>>) \o Tail(t) = s \o (<<Head(t)>> \o Tail(t))
    BY <1>1, ConcatAssociative
<1> QED
    BY <1>2, <1>3, HeadThenTail

\* Appending to the second of two sequences appends to both together.
LEMMA AppendToSecond ==
    ASSUME NEW S, NEW s \in Seq(S), NEW t \in Seq(S), NEW e \in S
    PROVE  s \o Append(t, e) = Append(s \o t, e)
<1>1. <<e>> \in Seq(S) /\ s \o t \in Seq(S)
    BY ConcatProperties
<1>2. s \o (t \o <<e>>) = (s \o t) \o <<e>>
    BY <1>1, ConcatAssociative
<1> QED
    BY <1>1, <1>2, AppendIsConcat

-----------------------------------------------------------------------------
(* Last edits and final blocks.                                            *)

\* Every nonempty set of indices of a sequence has a greatest member.
LEMMA GreatestIndex ==
    ASSUME NEW S, NEW s \in Seq(S), NEW I \in SUBSET DOMAIN s, I # {}
    PROVE  \E m \in I : \A i \in I : i <= m
<1>1. DOMAIN s = 1..Len(s) /\ Len(s) \in Nat
    BY LenProperties
<1> DEFINE T == {Len(s) - i : i \in I}
<1>2. T \subseteq Nat /\ T # {}
    BY <1>1
<1>3. \E x \in T : \A y \in T : <<y, x>> \notin OpToRel(<, Nat)
    BY <1>2, NatLessThanWellFounded, WFMin
<1>4. PICK x \in T : \A y \in T : ~(y < x)
    BY <1>2, <1>3 DEF OpToRel
<1>5. PICK m \in I : x = Len(s) - m
    BY <1>4
<1>6. ASSUME NEW i \in I PROVE i <= m
    <2>1. Len(s) - i \in T /\ i \in 1..Len(s) /\ m \in 1..Len(s)
        BY <1>1
    <2>2. ~(Len(s) - i < Len(s) - m)
        BY <1>4, <1>5, <2>1
    <2> QED
        BY <1>1, <2>1, <2>2
<1> QED
    BY <1>6

\* A position of a sequence has a last edit there.
LEMMA EveryPositionHasLastEdit ==
    ASSUME NEW s \in Seq(Edit), NEW j \in DOMAIN s
    PROVE  s[j].pos \in Written(s)
<1> DEFINE I == {i \in DOMAIN s : s[i].pos = s[j].pos}
<1>1. DOMAIN s = 1..Len(s) /\ Len(s) \in Nat
    BY LenProperties
<1>2. PICK m \in I : \A i \in I : i <= m
    BY GreatestIndex
<1>3. m \in LastEdits(s)
    BY <1>1, <1>2 DEF LastEdits
<1> QED
    BY <1>2, <1>3 DEF Written

\* The final block of a position is the block of the last edit there.
LEMMA FinalBlockIsLast ==
    ASSUME NEW s \in Seq(Edit), NEW i \in LastEdits(s)
    PROVE  s[i].pos \in Written(s) /\ FinalBlock(s, s[i].pos) = s[i].block
<1>1. DOMAIN s = 1..Len(s) /\ Len(s) \in Nat
    BY LenProperties
<1>2. \A j \in LastEdits(s) : s[j].pos = s[i].pos => j = i
    BY <1>1 DEF LastEdits
<1>3. (CHOOSE j \in LastEdits(s) : s[j].pos = s[i].pos) = i
    BY <1>2
<1> QED
    BY <1>3 DEF Written, FinalBlock

\* A sequence of edits writes blocks at positions.
LEMMA WrittenTyped ==
    ASSUME NEW s \in Seq(Edit)
    PROVE  /\ Written(s) \subseteq Pos
           /\ \A p \in Written(s) : FinalBlock(s, p) \in Block
<1>1. \A i \in LastEdits(s) : s[i] \in Edit
    BY LenProperties, ElementOfSeq DEF LastEdits
<1>2. \A p \in Written(s) : \E i \in LastEdits(s) :
            p = s[i].pos /\ FinalBlock(s, p) = s[i].block
    BY FinalBlockIsLast DEF Written
<1> QED
    BY <1>1, <1>2 DEF Edit, Written

\* One edit writes its position.
LEMMA WrittenSingle ==
    ASSUME NEW e \in Edit
    PROVE  /\ <<e>> \in Seq(Edit)
           /\ Written(<<e>>) = {e.pos} /\ FinalBlock(<<e>>, e.pos) = e.block
<1>1. <<e>> \in Seq(Edit) /\ DOMAIN <<e>> = {1} /\ <<e>>[1] = e
    OBVIOUS
<1>2. LastEdits(<<e>>) = {1}
    BY <1>1 DEF LastEdits
<1>3. Written(<<e>>) = {<<e>>[i].pos : i \in {1}}
    BY <1>2 DEF Written
<1>4. FinalBlock(<<e>>, <<e>>[1].pos) = <<e>>[1].block
    BY <1>1, <1>2, FinalBlockIsLast
<1> QED
    BY <1>1, <1>3, <1>4

\* No edit writes nothing.
LEMMA WrittenEmpty == Written(<<>>) = {}
    BY DEF Written, LastEdits

\* Of two sequences of edits, the second has the last word where it has any.
LEMMA FinalOfConcat ==
    ASSUME NEW s \in Seq(Edit), NEW t \in Seq(Edit)
    PROVE  /\ s \o t \in Seq(Edit)
           /\ Written(s \o t) = Written(s) \cup Written(t)
           /\ \A p \in Written(t) : FinalBlock(s \o t, p) = FinalBlock(t, p)
           /\ \A p \in Written(s) \ Written(t) :
                    FinalBlock(s \o t, p) = FinalBlock(s, p)
<1> DEFINE u == s \o t
<1>1. /\ Len(s) \in Nat /\ DOMAIN s = 1..Len(s)
      /\ Len(t) \in Nat /\ DOMAIN t = 1..Len(t)
    BY LenProperties
<1>2. /\ u \in Seq(Edit) /\ Len(u) = Len(s) + Len(t)
      /\ \A i \in 1..(Len(s) + Len(t)) :
            u[i] = IF i <= Len(s) THEN s[i] ELSE t[i - Len(s)]
    BY ConcatProperties
<1>3. DOMAIN u = 1..(Len(s) + Len(t))
    BY <1>2, LenProperties
<1>4. /\ \A i \in DOMAIN s : i \in DOMAIN u /\ u[i] = s[i]
      /\ \A j \in DOMAIN t : Len(s) + j \in DOMAIN u /\ u[Len(s) + j] = t[j]
    BY <1>1, <1>2, <1>3
<1>5. \A i \in DOMAIN u :
            \/ i \in DOMAIN s
            \/ i - Len(s) \in DOMAIN t /\ i = Len(s) + (i - Len(s))
    BY <1>1, <1>3
<1> HIDE DEF u
\* Exactly the last edits of t, moved, are last edits of u ...
<1>6. ASSUME NEW j \in LastEdits(t)
      PROVE  Len(s) + j \in LastEdits(u) /\ u[Len(s) + j] = t[j]
    <2>1. j \in DOMAIN t /\ \A k \in DOMAIN t : k > j => t[k].pos # t[j].pos
        BY DEF LastEdits
    <2>2. ASSUME NEW k \in DOMAIN u, k > Len(s) + j
          PROVE  u[k].pos # t[j].pos
        <3>1. k - Len(s) \in DOMAIN t /\ k - Len(s) > j /\ u[k] = t[k - Len(s)]
            BY <1>1, <1>3, <1>4, <1>5, <2>1, <2>2
        <3> QED
            BY <2>1, <3>1
    <2> QED
        BY <1>4, <2>1, <2>2 DEF LastEdits
\* ... and those last edits of s whose position t leaves alone.
<1>7. ASSUME NEW i \in LastEdits(s), s[i].pos \notin Written(t)
      PROVE  i \in LastEdits(u) /\ u[i] = s[i]
    <2>1. i \in DOMAIN s /\ \A k \in DOMAIN s : k > i => s[k].pos # s[i].pos
        BY DEF LastEdits
    <2>2. ASSUME NEW k \in DOMAIN u, k > i
          PROVE  u[k].pos # s[i].pos
        <3>1. CASE k \in DOMAIN s
            BY <1>4, <2>1, <2>2, <3>1
        <3>2. CASE k - Len(s) \in DOMAIN t /\ k = Len(s) + (k - Len(s))
            <4>1. u[k] = t[k - Len(s)]
                BY <1>4, <3>2
            <4>2. t[k - Len(s)].pos \in Written(t)
                BY <3>2, EveryPositionHasLastEdit
            <4> QED
                BY <1>7, <4>1, <4>2
        <3> QED
            BY <1>5, <3>1, <3>2
    <2> QED
        BY <1>4, <2>1, <2>2 DEF LastEdits
<1>8. ASSUME NEW p \in Written(t)
      PROVE  p \in Written(u) /\ FinalBlock(u, p) = FinalBlock(t, p)
    <2>1. PICK j \in LastEdits(t) : t[j].pos = p
        BY DEF Written
    <2>2. FinalBlock(t, p) = t[j].block
        BY <2>1, FinalBlockIsLast
    <2> QED
        BY <1>2, <1>6, <2>1, <2>2, FinalBlockIsLast
<1>9. ASSUME NEW p \in Written(s), p \notin Written(t)
      PROVE  p \in Written(u) /\ FinalBlock(u, p) = FinalBlock(s, p)
    <2>1. PICK i \in LastEdits(s) : s[i].pos = p
        BY DEF Written
    <2>2. FinalBlock(s, p) = s[i].block
        BY <2>1, FinalBlockIsLast
    <2> QED
        BY <1>2, <1>7, <1>9, <2>1, <2>2, FinalBlockIsLast
<1>10. ASSUME NEW p \in Written(u)
       PROVE  p \in Written(s) \cup Written(t)
    <2>1. PICK i \in DOMAIN u : u[i].pos = p
        BY DEF Written, LastEdits
    <2> QED
        BY <1>4, <1>5, <2>1, EveryPositionHasLastEdit
<1> QED
    BY <1>2, <1>8, <1>9, <1>10 DEF u

\* Written and FinalBlock after one more edit.
LEMMA FinalOfAppend ==
    ASSUME NEW s \in Seq(Edit), NEW e \in Edit
    PROVE  /\ Append(s, e) \in Seq(Edit)
           /\ Written(Append(s, e)) = Written(s) \cup {e.pos}
           /\ FinalBlock(Append(s, e), e.pos) = e.block
           /\ \A p \in Written(s) \ {e.pos} :
                    FinalBlock(Append(s, e), p) = FinalBlock(s, p)
<1>1. Append(s, e) = s \o <<e>>
    BY AppendIsConcat
<1>2. /\ <<e>> \in Seq(Edit)
      /\ Written(<<e>>) = {e.pos} /\ FinalBlock(<<e>>, e.pos) = e.block
    BY WrittenSingle
<1>3. /\ s \o <<e>> \in Seq(Edit)
      /\ Written(s \o <<e>>) = Written(s) \cup Written(<<e>>)
      /\ \A p \in Written(<<e>>) : FinalBlock(s \o <<e>>, p) = FinalBlock(<<e>>, p)
      /\ \A p \in Written(s) \ Written(<<e>>) :
            FinalBlock(s \o <<e>>, p) = FinalBlock(s, p)
    BY <1>2, FinalOfConcat
<1> QED
    BY <1>1, <1>2, <1>3

-----------------------------------------------------------------------------
(* The inductive invariants.                                               *)

\* What keeps edits in order besides the properties: when each stage is empty,
\* and when nothing can be sent any more.
Flow ==
    /\ Len(command_log) <= Len(accepted)
    /\ writer \in {"recv", "done"} => batch = <<>>
    /\ stopping => queue = <<>> /\ ~shutdown /\ caller \in {"joining", "down"}
    /\ shutdown => caller \in {"joining", "down"}
    /\ writer = "done" => stopping
    /\ caller = "down" => ~Receiving

IInv == TypeOK /\ PendingExact /\ LogInOrder /\ Flow

\* How far a flush has come: the columns no longer to do hold the batch.
ColumnsWritten ==
    /\ writer \in {"anvil", "sqlite"} =>
            \A p \in Written(batch) :
                ColumnOf[p] \in todo \/ anvil[p] = FinalBlock(batch, p)
    /\ writer = "sqlite" => todo = {}

\* LatestRecoverable with its two cases apart: an edit in flight over a block
\* that a build had masked is the latest all the same, and lifts the mask.
LatestInFlight ==
    Receiving \/ writer = "done" =>
        \A p \in Written(InFlight) \ raced : latest[p] = FinalBlock(InFlight, p)
LatestStored ==
    Receiving \/ writer = "done" =>
        \A p \in Pos \ (Written(InFlight) \cup raced \cup masked) :
            latest[p] = Stored(p)

Durable ==
    /\ IInv /\ ColumnsWritten
    /\ LatestInFlight /\ LatestStored
    /\ CrashAtomic

-----------------------------------------------------------------------------
(* Types and the flow of edits.                                            *)

\* What load_chunk returns is a block, and so is an override with its absence.
LEMMA StoredTyped ==
    ASSUME anvil \in [Pos -> Block],
           block_overrides \in [Pos -> Block \cup {NoOverride}]
    PROVE  \A p \in Pos : Stored(p) \in Block
    BY DEF Stored, Merge

\* Edits in flight are a sequence of edits.
LEMMA InFlightTyped ==
    ASSUME TypeOK
    PROVE  InFlight \in Seq(Edit) /\ Unlogged \in Seq(Edit)
<1>1. Unlogged \in Seq(Edit)
    BY DEF TypeOK, Unlogged
<1> QED
    BY <1>1, ConcatProperties DEF TypeOK, InFlight

\* What each movement of edits does to the edits in flight: the channel adds one
\* behind, the writer's taking one changes nothing, SQLite removes the batch.
LEMMA InFlightMoves ==
    ASSUME TypeOK, Flow
    PROVE  /\ SendAccepted => InFlight' = Append(InFlight, edit)
           /\ RecvEdit \/ DrainEdit => InFlight' = InFlight
           /\ FlushSqlite => InFlight = batch \o queue /\ InFlight' = queue
<1>1. /\ Unlogged \in Seq(Edit) /\ queue \in Seq(Edit) /\ batch \in Seq(Edit)
    BY InFlightTyped DEF TypeOK
<1>2. ASSUME SendAccepted PROVE InFlight' = Append(InFlight, edit)
    <2>1. Unlogged' = Unlogged /\ edit \in Edit /\ queue' = Append(queue, edit)
        BY <1>2 DEF SendAccepted, writerVars, Unlogged, TypeOK
    <2> QED
        BY <1>1, <2>1, AppendToSecond DEF InFlight
<1>3. ASSUME RecvEdit PROVE InFlight' = InFlight
    BY <1>1, <1>3, HeadThenTail, ConcatEmptySeq DEF RecvEdit, InFlight, Unlogged, Flow
<1>4. ASSUME DrainEdit PROVE InFlight' = InFlight
    BY <1>1, <1>4, MoveHead DEF DrainEdit, InFlight, Unlogged
<1>5. ASSUME FlushSqlite PROVE InFlight = batch \o queue /\ InFlight' = queue
    BY <1>1, <1>5, ConcatEmptySeq DEF FlushSqlite, channel, InFlight, Unlogged
<1> QED
    BY <1>2, <1>3, <1>4, <1>5

\* Moving the batch into the log keeps the order of everything.
LEMMA LogThenBatch ==
    ASSUME TypeOK
    PROVE  (command_log \o batch) \o queue = command_log \o (batch \o queue)
<1>1. command_log \in Seq(Edit) /\ batch \in Seq(Edit) /\ queue \in Seq(Edit)
    BY DEF TypeOK
<1> QED
    BY <1>1, ConcatAssociative

\* A build's captured blocks are air at its positions.
LEMMA CapturedTyped ==
    ASSUME NEW f \in Plan
    PROVE  /\ DOMAIN f \subseteq Pos /\ f \in [DOMAIN f -> Block]
           /\ [p \in DOMAIN f |-> Air] \in [DOMAIN f -> Block]
           /\ [state |-> "applied", applied |-> f,
               original |-> [p \in DOMAIN f |-> Air]] \in BuildRow(Pos)
<1>1. PICK D \in SUBSET Pos : f \in [D -> Block]
    BY ConstantsAssumption DEF Partial
<1>2. DOMAIN f = D /\ D \subseteq Pos
    BY <1>1
<1>3. [p \in DOMAIN f |-> Air] \in [D -> Block]
    BY <1>2, ConstantsAssumption
<1>4. \A g \in [D -> Block] : g \in Partial(Pos)
    BY DEF Partial
<1> QED
    BY <1>1, <1>2, <1>3, <1>4 DEF BuildRow

\* A stored row maps positions to blocks.
LEMMA RowTyped ==
    ASSUME NEW r \in BuildRow(Pos)
    PROVE  /\ r.original \in [DOMAIN r.original -> Block]
           /\ DOMAIN r.original \subseteq Pos
           /\ [r EXCEPT !.state = "undone"] \in BuildRow(Pos)
<1>1. PICK D \in SUBSET Pos : r.original \in [D -> Block]
    BY DEF BuildRow, Partial
<1>2. [r EXCEPT !.state = "undone"] \in BuildRow(Pos)
    BY DEF BuildRow
<1> QED
    BY <1>1, <1>2

\* Committing overrides keeps the types of what it writes.
LEMMA CommitTyped ==
    ASSUME TypeOK, NEW w, w \in [DOMAIN w -> Block], DOMAIN w \subseteq Pos,
           CommitOverrides(w)
    PROVE  /\ block_overrides' \in [Pos -> Block \cup {NoOverride}]
           /\ latest' \in [Pos -> Block] /\ committed' \in [Pos -> Block]
           /\ raced' \subseteq Pos /\ masked' \subseteq Pos
<1>1. \A p \in DOMAIN w : OverrideFor(p, w[p]) \in Block \cup {NoOverride}
    BY DEF OverrideFor
<1> QED
    BY <1>1 DEF CommitOverrides, TypeOK

\* IInv holds initially.
LEMMA IInvInit == Init => IInv
<1> SUFFICES ASSUME Init PROVE IInv
    OBVIOUS
<1>1. <<>> \in Seq(Edit) /\ Len(<<>>) = 0
    BY EmptySeq
<1>2. TypeOK
    BY <1>1, ConstantsAssumption DEF Init, TypeOK
<1>3. PendingExact /\ Flow
    BY <1>1 DEF Init, PendingExact, Flow, Running, Receiving
<1>4. LogInOrder
    BY <1>1, ConcatEmptySeq DEF Init, LogInOrder, InFlight, Unlogged
<1> QED
    BY <1>2, <1>3, <1>4 DEF IInv

\* Every action of the game thread, of the writer and of the world outside
\* preserves IInv.
LEMMA IInvStep == IInv /\ [Next]_vars => IInv'
<1> SUFFICES ASSUME IInv, [Next]_vars PROVE IInv'
    OBVIOUS
<1> USE DEF IInv, disk, channel, writerVars, callerVars, history
<1>1. /\ InFlight \in Seq(Edit) /\ Unlogged \in Seq(Edit)
      /\ queue \in Seq(Edit) /\ batch \in Seq(Edit)
      /\ command_log \in Seq(Edit) /\ accepted \in Seq(Edit)
    BY InFlightTyped DEF TypeOK
<1>2. /\ Len(queue) \in Nat /\ Len(batch) \in Nat
      /\ Len(command_log) \in Nat /\ Len(accepted) \in Nat
    BY <1>1, LenProperties
<1>3. pending_edits \in Nat
    BY DEF TypeOK
<1>4. ASSUME NEW p \in Pos, NEW b \in Block, RecordQueued(p, b) PROVE IInv'
    <2> USE <1>4 DEF RecordQueued
    <2>1. TypeOK'
        BY DEF TypeOK, Edit
    <2>2. Flow'
        BY DEF Flow, Receiving
    <2>3. PendingExact'
        BY <1>2, <1>3 DEF PendingExact, Running
    <2>4. LogInOrder'
        BY DEF LogInOrder, InFlight, Unlogged, Receiving
    <2> QED
        BY <2>1, <2>2, <2>3, <2>4
<1>5. CASE SendAccepted
    <2> USE <1>5 DEF SendAccepted
    <2>1. /\ edit \in Edit
          /\ queue' \in Seq(Edit) /\ accepted' \in Seq(Edit)
          /\ Len(accepted') = Len(accepted) + 1
        BY <1>1, AppendProperties DEF TypeOK
    <2>2. TypeOK'
        BY <2>1 DEF TypeOK, Edit
    <2>3. Flow'
        BY <1>2, <2>1 DEF Flow, Receiving
    <2>4. PendingExact'
        <3>1. pending_edits = Len(accepted) - Len(command_log)
                        + (IF writer = "record" THEN Len(batch) ELSE 0) + 1
            BY DEF PendingExact, Running
        <3>2. /\ UNCHANGED <<pending_edits, command_log, writer, batch>>
              /\ caller' = "idle"
            OBVIOUS
        <3> HIDE <1>5 DEF SendAccepted
        <3>3. CASE writer = "record"
            BY <1>2, <1>3, <2>1, <3>1, <3>2, <3>3 DEF PendingExact
        <3>4. CASE writer # "record"
            BY <1>2, <1>3, <2>1, <3>1, <3>2, <3>4 DEF PendingExact
        <3> QED
            BY <3>3, <3>4
    <2>5. LogInOrder'
        <3>1. InFlight' = Append(InFlight, edit)
            BY InFlightMoves
        <3>2. accepted = command_log \o InFlight
            BY DEF LogInOrder
        <3>3. command_log \o Append(InFlight, edit) = Append(accepted, edit)
            BY <1>1, <2>1, <3>2, AppendToSecond
        <3> QED
            BY <3>1, <3>3 DEF LogInOrder
    <2> QED
        BY <2>2, <2>3, <2>4, <2>5
<1>6. CASE SendRefused
    <2> USE <1>6 DEF SendRefused
    <2>1. TypeOK'
        BY <1>2 DEF TypeOK, PendingExact, Flow, Running, Receiving
    <2>2. PendingExact' /\ Flow'
        BY <1>2 DEF PendingExact, Flow, Running, Receiving, TypeOK
    <2>3. LogInOrder'
        BY DEF LogInOrder, InFlight, Unlogged, Receiving
    <2> QED
        BY <2>1, <2>2, <2>3
<1>7. ASSUME NEW k \in Key, NEW f \in Plan,
             PersistBuild(k, f, [p \in DOMAIN f |-> Air])
      PROVE  IInv'
    <2> USE <1>7 DEF PersistBuild
    <2>1. builds' \in [Key -> BuildRow(Pos) \cup {NoBuild}]
        BY CapturedTyped DEF TypeOK
    <2>2. TypeOK'
        BY <2>1, CapturedTyped, CommitTyped DEF TypeOK
    <2>3. PendingExact' /\ Flow' /\ LogInOrder'
        BY DEF PendingExact, Flow, Running, Receiving, LogInOrder, InFlight, Unlogged
    <2> QED
        BY <2>2, <2>3
<1>8. ASSUME NEW k \in Key, MarkBuildUndone(k) PROVE IInv'
    <2> USE <1>8 DEF MarkBuildUndone
    <2>1. builds[k] \in BuildRow(Pos)
        BY DEF TypeOK
    <2>2. builds' \in [Key -> BuildRow(Pos) \cup {NoBuild}]
        BY <2>1, RowTyped DEF TypeOK
    <2>3. TypeOK'
        BY <2>1, <2>2, RowTyped, CommitTyped DEF TypeOK
    <2>4. PendingExact' /\ Flow' /\ LogInOrder'
        BY DEF PendingExact, Flow, Running, Receiving, LogInOrder, InFlight, Unlogged
    <2> QED
        BY <2>3, <2>4
<1>9. CASE BeginShutdown
    <2> USE <1>9 DEF BeginShutdown
    <2>1. shutdown' \in BOOLEAN
        BY DEF Receiving
    <2>2. TypeOK'
        BY <2>1 DEF TypeOK
    <2>3. PendingExact' /\ Flow' /\ LogInOrder'
        BY DEF PendingExact, Flow, Running, Receiving, LogInOrder, InFlight, Unlogged
    <2> QED
        BY <2>2, <2>3
<1>10. CASE JoinWriter
    BY <1>10 DEF JoinWriter, TypeOK, PendingExact, Flow, Running, Receiving,
                LogInOrder, InFlight, Unlogged
<1>11. CASE RecvEdit
    <2> USE <1>11 DEF RecvEdit
    <2>1. /\ Head(queue) \in Edit /\ Tail(queue) \in Seq(Edit)
          /\ batch' \in Seq(Edit)
        BY <1>1, HeadTailProperties
    <2>2. TypeOK'
        BY <2>1 DEF TypeOK
    <2>3. PendingExact' /\ Flow'
        BY DEF PendingExact, Flow, Running, Receiving
    <2>4. InFlight' = InFlight
        BY InFlightMoves
    <2>5. LogInOrder'
        BY <2>4 DEF LogInOrder, Receiving
    <2> QED
        BY <2>2, <2>3, <2>5
<1>12. CASE TakeShutdown
    BY <1>12 DEF TakeShutdown, TypeOK, PendingExact, Flow, Running, Receiving,
                 LogInOrder, InFlight, Unlogged
<1>13. CASE DrainEdit
    <2> USE <1>13 DEF DrainEdit
    <2>1. /\ Head(queue) \in Edit /\ Tail(queue) \in Seq(Edit)
          /\ batch' \in Seq(Edit)
        BY <1>1, HeadTailProperties, AppendProperties
    <2>2. TypeOK'
        BY <2>1 DEF TypeOK
    <2>3. PendingExact' /\ Flow'
        BY DEF PendingExact, Flow, Running, Receiving
    <2>4. InFlight' = InFlight
        BY InFlightMoves
    <2>5. LogInOrder'
        BY <2>4 DEF LogInOrder, Receiving
    <2> QED
        BY <2>2, <2>3, <2>5
<1>14. CASE BeginFlush
    <2> USE <1>14 DEF BeginFlush
    <2>1. TypeOK'
        BY <1>1, WrittenTyped, ConstantsAssumption DEF TypeOK
    <2>2. PendingExact' /\ Flow' /\ LogInOrder'
        BY DEF PendingExact, Flow, Running, Receiving, LogInOrder, InFlight, Unlogged
    <2> QED
        BY <2>1, <2>2
<1>15. ASSUME NEW c \in Column, WriteColumn(c) PROVE IInv'
    <2> USE <1>15 DEF WriteColumn
    <2>1. anvil' \in [Pos -> Block]
        BY <1>1, WrittenTyped DEF TypeOK
    <2>2. TypeOK'
        BY <2>1 DEF TypeOK
    <2>3. PendingExact' /\ Flow' /\ LogInOrder'
        BY DEF PendingExact, Flow, Running, Receiving, LogInOrder, InFlight, Unlogged
    <2> QED
        BY <2>2, <2>3
<1>16. CASE FlushSqlite
    <2>1. (command_log \o batch) \o queue = command_log \o (batch \o queue)
        BY LogThenBatch
    <2> USE <1>16 DEF FlushSqlite
    <2>2. /\ command_log' \in Seq(Edit)
          /\ Len(command_log') = Len(command_log) + Len(batch)
        BY <1>1, ConcatProperties
    <2>3. committed' \in [Pos -> Block]
        BY <1>1, WrittenTyped DEF TypeOK
    <2>4. TypeOK'
        BY <2>2, <2>3 DEF TypeOK
    <2>5. accepted = (command_log \o batch) \o queue
        BY <2>1, InFlightMoves DEF LogInOrder, Receiving
    <2>6. LogInOrder'
        BY <2>5, InFlightMoves DEF LogInOrder
    <2>7. Len(accepted) = Len(command_log) + Len(batch) + Len(queue)
        BY <1>1, <2>2, <2>5, ConcatProperties
    <2>8. Flow'
        BY <1>2, <2>2, <2>7 DEF Flow, Receiving
    <2>9. PendingExact'
        BY <1>2, <1>3, <2>2 DEF PendingExact, Running
    <2> QED
        BY <2>4, <2>6, <2>8, <2>9
<1>17. CASE RecordFlushed
    <2> USE <1>17 DEF RecordFlushed
    <2>1. <<>> \in Seq(Edit) /\ Len(<<>>) = 0
        BY EmptySeq
    <2>2. caller # "down"
        BY DEF Flow, Receiving
    <2>3. TypeOK'
        BY <1>2, <2>1, <2>2 DEF TypeOK, PendingExact, Flow, Running
    <2>4. Flow'
        BY DEF Flow, Receiving
    <2>5. PendingExact'
        BY <1>2, <1>3, <2>1, <2>2 DEF PendingExact, Running
    <2>6. LogInOrder'
        BY DEF LogInOrder, InFlight, Unlogged, Receiving
    <2> QED
        BY <2>3, <2>4, <2>5, <2>6
<1>18. CASE FailFlush
    <2> USE <1>18 DEF FailFlush
    <2>1. TypeOK'
        BY EmptySeq DEF TypeOK
    <2>2. PendingExact' /\ Flow' /\ LogInOrder'
        BY DEF PendingExact, Flow, Running, Receiving, LogInOrder
    <2> QED
        BY <2>1, <2>2
<1>19. CASE Crash
    BY <1>19 DEF Crash, TypeOK, PendingExact, Flow, Running, Receiving,
                 LogInOrder, InFlight, Unlogged
<1>20. CASE Open
    <2> USE <1>20 DEF Open
    <2>1. <<>> \in Seq(Edit) /\ Len(<<>>) = 0
        BY EmptySeq
    <2>2. latest' \in [Pos -> Block]
        BY StoredTyped DEF TypeOK
    <2>3. TypeOK'
        BY <2>1, <2>2 DEF TypeOK
    <2>4. PendingExact' /\ Flow'
        BY <1>2, <2>1 DEF PendingExact, Flow, Running, Receiving
    <2>5. LogInOrder'
        BY <1>1, <2>1, ConcatEmptySeq DEF LogInOrder, InFlight, Unlogged
    <2> QED
        BY <2>3, <2>4, <2>5
<1>21. CASE UNCHANGED vars
    BY <1>21 DEF vars, TypeOK, PendingExact, Flow, Running, Receiving,
                 LogInOrder, InFlight, Unlogged
<1>22. ASSUME NEW c \in Column, CreateRegion(c) \/ WriteHeader(c) PROVE IInv'
    <2>1. /\ UNCHANGED <<anvil, block_overrides, command_log, builds, channel, writerVars,
                        callerVars, history>>
          /\ unreadable' \subseteq unreadable \cup SameRegion(c)
        BY <1>22 DEF CreateRegion, WriteHeader
    <2>2. unreadable' \subseteq Column
        BY <2>1 DEF TypeOK, SameRegion
    <2> QED
        BY <2>1, <2>2 DEF TypeOK, PendingExact, Flow, Running, Receiving,
                          LogInOrder, InFlight, Unlogged
<1> QED
    BY <1>4, <1>5, <1>6, <1>7, <1>8, <1>9, <1>10, <1>11, <1>12, <1>13, <1>14,
       <1>15, <1>16, <1>17, <1>18, <1>19, <1>20, <1>21, <1>22
       DEF Next, Client, HandOver, Writer, Creating

\* Every variable of the durable side keeps its type; pending_edits, a usize in
\* the code, never wraps below zero (persistence.rs:902-920).
THEOREM TypeCorrect == Spec => []TypeOK
<1>1. IInv => TypeOK
    BY DEF IInv
<1> QED
    BY <1>1, IInvInit, IInvStep, PTL DEF Spec

\* The pending counter is exact, however sends, flushes, refusals, a dead
\* writer and restarts interleave (persistence.rs:1034-1041, 1258-1266).
THEOREM PendingIsExact == Spec => []PendingExact
<1>1. IInv => PendingExact
    BY DEF IInv
<1> QED
    BY <1>1, IInvInit, IInvStep, PTL DEF Spec

\* The command log followed by the edits in flight is what the channel took,
\* in its order, for every batch limit (persistence.rs:1206-1266).
THEOREM LogKeepsOrder == Spec => []LogInOrder
<1>1. IInv => LogInOrder
    BY DEF IInv
<1> QED
    BY <1>1, IInvInit, IInvStep, PTL DEF Spec

\* A writer that returned without an error has logged every accepted edit: the
\* drain on shutdown loses none (persistence.rs:1147-1158, 1206-1256).
THEOREM ShutdownLosesNothing == Spec => []ShutdownDrains
<1>1. IInv => ShutdownDrains
    <2> SUFFICES ASSUME IInv, writer = "done" PROVE accepted = command_log
        BY DEF ShutdownDrains
    <2>1. batch = <<>> /\ queue = <<>> /\ command_log \in Seq(Edit)
        BY DEF IInv, TypeOK, Flow
    <2>2. InFlight = <<>>
        BY <2>1, EmptySeq, ConcatEmptySeq DEF InFlight, Unlogged
    <2> QED
        BY <2>1, <2>2, ConcatEmptySeq DEF IInv, LogInOrder
<1> QED
    BY <1>1, IInvInit, IInvStep, PTL DEF Spec

-----------------------------------------------------------------------------
(* What the files hold.                                                    *)

\* A committed block is what load_chunk then returns, unless it is the base
\* block over an older one in Anvil; the other positions are left alone.
LEMMA CommitStored ==
    ASSUME TypeOK, NEW w, w \in [DOMAIN w -> Block], DOMAIN w \subseteq Pos,
           CommitOverrides(w), anvil' = anvil
    PROVE  /\ \A p \in DOMAIN w \ masked' : Stored(p)' = w[p]
           /\ \A p \in Pos \ DOMAIN w : Stored(p)' = Stored(p)
<1>1. ASSUME NEW p \in DOMAIN w, p \notin masked' PROVE Stored(p)' = w[p]
    <2>1. block_overrides'[p] = OverrideFor(p, w[p]) /\ w[p] \in Block
        BY DEF CommitOverrides
    <2>2. CASE w[p] = Base[p]
        <3>1. anvil[p] = Base[p]
            BY <1>1, <2>2 DEF CommitOverrides
        <3> QED
            BY <2>1, <2>2, <3>1 DEF OverrideFor, Stored, Merge
    <2>3. CASE w[p] # Base[p]
        BY <2>1, <2>3, ConstantsAssumption DEF OverrideFor, Stored, Merge
    <2> QED
        BY <2>2, <2>3
<1>2. ASSUME NEW p \in Pos \ DOMAIN w PROVE Stored(p)' = Stored(p)
    BY <1>2 DEF CommitOverrides, Stored, Merge
<1> QED
    BY <1>1, <1>2

\* The two kinds of build transaction, put as one.
LEMMA BuildCommits ==
    ASSUME TypeOK, NEW k \in Key,
           \/ \E f \in Plan : PersistBuild(k, f, [p \in DOMAIN f |-> Air])
           \/ MarkBuildUndone(k)
    PROVE  /\ UNCHANGED <<anvil, command_log, channel, writerVars, callerVars, accepted>>
           /\ \E w : /\ w \in [DOMAIN w -> Block] /\ DOMAIN w \subseteq Pos
                     /\ CommitOverrides(w)
<1>1. ASSUME NEW f \in Plan, PersistBuild(k, f, [p \in DOMAIN f |-> Air])
      PROVE  CommitOverrides(f) /\ f \in [DOMAIN f -> Block] /\ DOMAIN f \subseteq Pos
    BY <1>1, CapturedTyped DEF PersistBuild
<1>2. ASSUME MarkBuildUndone(k)
      PROVE  /\ builds[k].original \in [DOMAIN builds[k].original -> Block]
             /\ DOMAIN builds[k].original \subseteq Pos
             /\ CommitOverrides(builds[k].original)
    <2>1. builds[k] \in BuildRow(Pos)
        BY <1>2 DEF MarkBuildUndone, TypeOK
    <2> QED
        BY <1>2, <2>1, RowTyped DEF MarkBuildUndone
<1>3. UNCHANGED <<anvil, command_log, channel, writerVars, callerVars, accepted>>
    BY DEF PersistBuild, MarkBuildUndone
<1> QED
    BY <1>1, <1>2, <1>3

\* The disk, but for which columns can be read.
saved == <<anvil, block_overrides, command_log, builds>>

\* Every step, sorted by what it does to the files and the edits in flight.
LEMMA StepKinds ==
    ASSUME TypeOK, [Next]_vars
    PROVE  \/ SendAccepted
           \/ /\ UNCHANGED <<anvil, command_log, channel, writerVars, callerVars, accepted>>
              /\ \E w : /\ w \in [DOMAIN w -> Block] /\ DOMAIN w \subseteq Pos
                        /\ CommitOverrides(w)
           \/ RecvEdit \/ DrainEdit \/ BeginFlush
           \/ \E c \in Column : WriteColumn(c)
           \/ FlushSqlite \/ RecordFlushed \/ FailFlush \/ Crash \/ Open
           \/ /\ UNCHANGED <<saved, queue, batch, todo, history>>
              /\ \/ writer' = writer
                 \/ writer \in {"recv", "drain"} /\ writer' = "drain"
<1>1. ASSUME NEW p \in Pos, NEW b \in Block, RecordQueued(p, b)
      PROVE  UNCHANGED <<saved, queue, batch, todo, history, writer>>
    BY <1>1 DEF RecordQueued, writerVars, disk, saved
<1>2. ASSUME SendRefused \/ BeginShutdown \/ JoinWriter \/ UNCHANGED vars
      PROVE  UNCHANGED <<saved, queue, batch, todo, history, writer>>
    BY <1>2 DEF SendRefused, BeginShutdown, JoinWriter, channel, writerVars,
                vars, disk, saved, history
<1>3. ASSUME TakeShutdown
      PROVE  /\ UNCHANGED <<saved, queue, batch, todo, history>>
             /\ writer \in {"recv", "drain"} /\ writer' = "drain"
    BY <1>3 DEF TakeShutdown, disk, saved
<1>4. ASSUME NEW c \in Column, CreateRegion(c) \/ WriteHeader(c)
      PROVE  UNCHANGED <<saved, queue, batch, todo, history, writer>>
    BY <1>4 DEF CreateRegion, WriteHeader, channel, writerVars, saved
<1> QED
    BY <1>1, <1>2, <1>3, <1>4, BuildCommits DEF Next, Client, HandOver, Writer, Creating

\* A flush writes every column of its batch before it turns to SQLite.
LEMMA ColumnsWrittenStep ==
    ASSUME TypeOK, ColumnsWritten, [Next]_vars
    PROVE  ColumnsWritten'
<1> USE DEF ColumnsWritten
<1>1. Written(batch) \subseteq Pos
    BY WrittenTyped DEF TypeOK
<1>2. CASE UNCHANGED <<anvil, batch, todo, writer>>
    BY <1>2
<1>3. CASE writer' \notin {"anvil", "sqlite"}
    BY <1>3
<1>4. CASE BeginFlush
    <2>1. \A p \in Written(batch) : ColumnOf[p] \in todo'
        BY <1>4 DEF BeginFlush
    <2>2. batch = <<>> => todo' = {}
        BY <1>4, WrittenEmpty DEF BeginFlush
    <2> QED
        BY <1>4, <2>1, <2>2 DEF BeginFlush
<1>5. ASSUME NEW c \in Column, WriteColumn(c) PROVE ColumnsWritten'
    <2>1. ASSUME NEW p \in Written(batch)
          PROVE  ColumnOf[p] \in todo' \/ anvil'[p] = FinalBlock(batch, p)
        BY <1>1, <1>5, <2>1 DEF WriteColumn
    <2>2. writer' = "sqlite" => todo' = {}
        BY <1>5 DEF WriteColumn
    <2> QED
        BY <1>5, <2>1, <2>2 DEF WriteColumn
<1>6. CASE SendAccepted
    BY <1>2, <1>6 DEF SendAccepted, disk, writerVars
<1>7. CASE RecvEdit \/ DrainEdit \/ FlushSqlite \/ RecordFlushed \/ FailFlush
           \/ Crash \/ Open
    <2>1. CASE Crash
        BY <1>3, <2>1 DEF Crash, Receiving, TypeOK
    <2> QED
        BY <1>3, <1>7, <2>1 DEF RecvEdit, DrainEdit, FlushSqlite, RecordFlushed,
                                FailFlush, Open
<1> QED
    BY <1>2, <1>3, <1>4, <1>5, <1>6, <1>7, StepKinds
       DEF writerVars, disk, saved

\* While the writer lives, the last edit in flight at a position is what was
\* last written there, unless a build has overtaken it.
LEMMA LatestInFlightStep ==
    ASSUME IInv, LatestInFlight, [Next]_vars
    PROVE  LatestInFlight'
<1> USE DEF LatestInFlight
<1>1. /\ TypeOK /\ Flow
      /\ InFlight \in Seq(Edit) /\ batch \in Seq(Edit) /\ queue \in Seq(Edit)
    BY InFlightTyped DEF IInv, TypeOK
<1> DEFINE Live == Receiving \/ writer = "done"
<1>2. CASE /\ UNCHANGED <<latest, raced>>
           /\ Live' => Live /\ InFlight' = InFlight
    BY <1>2
<1>3. CASE SendAccepted
    <2>1. /\ edit \in Edit /\ Live /\ InFlight' = Append(InFlight, edit)
          /\ latest' = [latest EXCEPT ![edit.pos] = edit.block]
          /\ raced' = raced \ {edit.pos}
        BY <1>1, <1>3, InFlightMoves DEF SendAccepted, TypeOK
    <2>2. /\ Written(InFlight') = Written(InFlight) \cup {edit.pos}
          /\ FinalBlock(InFlight', edit.pos) = edit.block
          /\ \A p \in Written(InFlight) \ {edit.pos} :
                FinalBlock(InFlight', p) = FinalBlock(InFlight, p)
        BY <1>1, <2>1, FinalOfAppend
    <2>3. latest' [edit.pos] = edit.block
        BY <1>1, <2>1 DEF TypeOK, Edit
    <2>4. \A p \in Pos \ {edit.pos} : latest'[p] = latest[p]
        BY <1>1, <2>1 DEF TypeOK
    <2>5. Written(InFlight) \subseteq Pos
        BY <1>1, WrittenTyped
    <2> QED
        BY <2>1, <2>2, <2>3, <2>4, <2>5
<1>4. ASSUME UNCHANGED <<anvil, command_log, channel, writerVars, callerVars, accepted>>,
             NEW w, w \in [DOMAIN w -> Block], DOMAIN w \subseteq Pos,
             CommitOverrides(w)
      PROVE  LatestInFlight'
    <2>1. InFlight' = InFlight /\ Live' = Live
        BY <1>4 DEF channel, writerVars, InFlight, Unlogged, Receiving
    <2>2. \A p \in Written(InFlight) \ raced' : p \notin raced /\ latest'[p] = latest[p]
        BY <1>1, <1>4, WrittenTyped DEF CommitOverrides
    <2> QED
        BY <2>1, <2>2
<1>5. CASE FlushSqlite
    <2>1. /\ InFlight = batch \o queue /\ InFlight' = queue /\ Live
          /\ UNCHANGED <<latest, raced>>
        BY <1>1, <1>5, InFlightMoves DEF FlushSqlite, Receiving
    <2>2. \A p \in Written(queue) :
            p \in Written(InFlight) /\ FinalBlock(InFlight, p) = FinalBlock(queue, p)
        BY <1>1, <2>1, FinalOfConcat
    <2> QED
        BY <2>1, <2>2
<1>6. CASE RecvEdit \/ DrainEdit
    BY <1>1, <1>2, <1>6, InFlightMoves DEF RecvEdit, DrainEdit, history, Receiving
<1>7. CASE BeginFlush \/ (\E c \in Column : WriteColumn(c)) \/ RecordFlushed
    <2>1. UNCHANGED <<latest, raced>> /\ Live
        BY <1>7 DEF BeginFlush, WriteColumn, RecordFlushed, history, Receiving
    <2>2. InFlight' = InFlight
        BY <1>7 DEF BeginFlush, WriteColumn, RecordFlushed, channel, InFlight, Unlogged
    <2> QED
        BY <1>2, <2>1, <2>2
<1>8. CASE FailFlush
    BY <1>8 DEF FailFlush, Receiving
<1>9. CASE Crash
    BY <1>2, <1>9 DEF Crash, history, channel, Receiving, InFlight, Unlogged
<1>10. CASE Open
    <2>1. InFlight' = <<>>
        BY <1>10, EmptySeq, ConcatEmptySeq DEF Open, InFlight, Unlogged
    <2> QED
        BY <2>1, WrittenEmpty
<1>11. ASSUME UNCHANGED <<saved, queue, batch, todo, history>>,
              \/ writer' = writer
              \/ writer \in {"recv", "drain"} /\ writer' = "drain"
       PROVE  LatestInFlight'
    BY <1>2, <1>11 DEF saved, history, Receiving, InFlight, Unlogged
<1> QED
    BY <1>1, <1>3, <1>4, <1>5, <1>6, <1>7, <1>8, <1>9, <1>10, <1>11, StepKinds

\* Where nothing is in flight, raced or masked, the files hold what was last
\* written there.
LEMMA LatestStoredStep ==
    ASSUME IInv, ColumnsWritten, LatestInFlight, LatestStored, [Next]_vars
    PROVE  LatestStored'
<1> DEFINE Live == Receiving \/ writer = "done"
           Rest == Pos \ (Written(InFlight) \cup raced \cup masked)
<1>1. /\ TypeOK /\ Flow
      /\ InFlight \in Seq(Edit) /\ batch \in Seq(Edit) /\ queue \in Seq(Edit)
      /\ Written(InFlight) \subseteq Pos /\ Written(batch) \subseteq Pos
    BY InFlightTyped, WrittenTyped DEF IInv, TypeOK
<1>2. Live => \A p \in Rest : latest[p] = Stored(p)
    BY DEF LatestStored
<1>3. ASSUME UNCHANGED <<anvil, block_overrides, latest, raced, masked>>,
             Live' => Live /\ InFlight' = InFlight
      PROVE  LatestStored'
    BY <1>2, <1>3 DEF LatestStored, Stored, Merge
<1>4. CASE SendAccepted
    <2>1. /\ edit \in Edit /\ Live /\ InFlight' = Append(InFlight, edit)
          /\ latest' = [latest EXCEPT ![edit.pos] = edit.block]
          /\ raced' = raced \ {edit.pos} /\ masked' = masked
          /\ UNCHANGED <<anvil, block_overrides>>
        BY <1>1, <1>4, InFlightMoves DEF SendAccepted, TypeOK, disk
    <2>2. Written(InFlight') = Written(InFlight) \cup {edit.pos}
        BY <1>1, <2>1, FinalOfAppend
    <2>3. \A p \in Pos \ {edit.pos} : latest'[p] = latest[p] /\ Stored(p)' = Stored(p)
        BY <1>1, <2>1 DEF TypeOK, Stored, Merge
    <2>4. Rest' \subseteq Rest \ {edit.pos}
        BY <2>1, <2>2
    <2> QED
        BY <1>2, <2>1, <2>3, <2>4 DEF LatestStored
<1>5. ASSUME UNCHANGED <<anvil, command_log, channel, writerVars, callerVars, accepted>>,
             NEW w, w \in [DOMAIN w -> Block], DOMAIN w \subseteq Pos,
             CommitOverrides(w)
      PROVE  LatestStored'
    <2>1. InFlight' = InFlight /\ Live' = Live
        BY <1>5 DEF channel, writerVars, InFlight, Unlogged, Receiving
    <2>2. ASSUME NEW p \in Rest', Live PROVE latest'[p] = Stored(p)'
        <3>1. CASE p \in DOMAIN w
            BY <1>1, <1>5, <2>2, <3>1, CommitStored DEF CommitOverrides
        <3>2. CASE p \notin DOMAIN w
            <4>1. p \in Rest
                BY <1>5, <2>1, <3>2 DEF CommitOverrides
            <4>2. latest'[p] = latest[p] /\ Stored(p)' = Stored(p)
                BY <1>1, <1>5, <3>2, CommitStored DEF CommitOverrides
            <4> QED
                BY <1>2, <2>2, <4>1, <4>2
        <3> QED
            BY <3>1, <3>2
    <2> QED
        BY <2>1, <2>2 DEF LatestStored
<1>6. ASSUME NEW c \in Column, WriteColumn(c) PROVE LatestStored'
    <2>1. InFlight' = InFlight /\ Live /\ Unlogged = batch
          /\ UNCHANGED <<block_overrides, latest, raced, masked>>
        BY <1>6 DEF WriteColumn, channel, history, InFlight, Unlogged, Receiving
    <2>2. Written(batch) \subseteq Written(InFlight)
        BY <1>1, <2>1, FinalOfConcat DEF InFlight
    <2>3. \A p \in Rest : Stored(p)' = Stored(p)
        BY <1>6, <2>1, <2>2 DEF WriteColumn, Stored, Merge
    <2> QED
        BY <1>2, <2>1, <2>3 DEF LatestStored
<1>7. CASE FlushSqlite
    <2>1. /\ InFlight = batch \o queue /\ InFlight' = queue /\ Live
          /\ UNCHANGED <<anvil, latest, raced>>
          /\ masked' = masked \ Written(batch) /\ todo = {}
          /\ \A p \in Written(batch) : anvil[p] = FinalBlock(batch, p)
        BY <1>1, <1>7, InFlightMoves DEF FlushSqlite, Receiving, ColumnsWritten
    <2>2. /\ Written(InFlight) = Written(batch) \cup Written(queue)
          /\ \A p \in Written(batch) \ Written(queue) :
                FinalBlock(InFlight, p) = FinalBlock(batch, p)
        BY <1>1, <2>1, FinalOfConcat
    <2>3. ASSUME NEW p \in Rest' PROVE latest'[p] = Stored(p)'
        <3>1. p \in Pos /\ p \notin Written(queue) /\ p \notin raced
            BY <2>1
        <3>2. CASE p \in Written(batch)
            <4>1. latest[p] = FinalBlock(batch, p)
                BY <2>1, <2>2, <3>1, <3>2 DEF LatestInFlight
            <4>2. Stored(p)' = anvil[p]
                BY <1>7, <2>1, <3>1, <3>2 DEF FlushSqlite, Stored, Merge
            <4> QED
                BY <2>1, <3>2, <4>1, <4>2
        <3>3. CASE p \notin Written(batch)
            <4>1. p \in Rest
                BY <2>1, <2>2, <3>1, <3>3
            <4>2. Stored(p)' = Stored(p)
                BY <1>7, <2>1, <3>1, <3>3 DEF FlushSqlite, Stored, Merge
            <4> QED
                BY <1>2, <2>1, <4>1, <4>2
        <3> QED
            BY <3>2, <3>3
    <2> QED
        BY <2>3 DEF LatestStored
<1>8. CASE RecvEdit \/ DrainEdit
    BY <1>1, <1>3, <1>8, InFlightMoves DEF RecvEdit, DrainEdit, disk, history, Receiving
<1>9. CASE BeginFlush \/ RecordFlushed
    <2>1. UNCHANGED <<anvil, block_overrides, latest, raced, masked>> /\ Live
        BY <1>9 DEF BeginFlush, RecordFlushed, disk, history, Receiving
    <2>2. InFlight' = InFlight
        BY <1>9 DEF BeginFlush, RecordFlushed, channel, InFlight, Unlogged
    <2> QED
        BY <1>3, <2>1, <2>2
<1>10. CASE FailFlush
    BY <1>10 DEF FailFlush, Receiving, LatestStored
<1>11. CASE Crash
    BY <1>3, <1>11 DEF Crash, disk, history, channel, Receiving, InFlight, Unlogged
<1>12. CASE Open
    <2>1. \A p \in Pos : latest'[p] = Stored(p)'
        BY <1>12 DEF Open, disk, Stored, Merge
    <2> QED
        BY <2>1 DEF LatestStored
<1>13. ASSUME UNCHANGED <<saved, queue, batch, todo, history>>,
              \/ writer' = writer
              \/ writer \in {"recv", "drain"} /\ writer' = "drain"
       PROVE  LatestStored'
    BY <1>3, <1>13 DEF saved, history, Receiving, InFlight, Unlogged
<1> QED
    BY <1>1, <1>4, <1>5, <1>6, <1>7, <1>8, <1>9, <1>10, <1>11, <1>12, <1>13, StepKinds

\* At every point where the process can die, a position holds its committed
\* block or the one of the flush under way.
LEMMA CrashAtomicStep ==
    ASSUME IInv, ColumnsWritten, CrashAtomic, [Next]_vars
    PROVE  CrashAtomic'
<1> DEFINE Flushing == writer \in {"anvil", "sqlite", "failed", "killed"}
           Half(p) == /\ Flushing /\ p \in Written(batch)
                      /\ Stored(p) = FinalBlock(batch, p)
<1>1. TypeOK /\ Written(batch) \subseteq Pos
    BY WrittenTyped DEF IInv, TypeOK
<1>2. \A p \in Pos \ masked : Stored(p) = committed[p] \/ Half(p)
    BY DEF CrashAtomic
<1>3. ASSUME UNCHANGED <<anvil, block_overrides, committed, masked>>,
             \/ ~Flushing
             \/ Flushing' /\ UNCHANGED batch
      PROVE  CrashAtomic'
    BY <1>2, <1>3 DEF CrashAtomic, Stored, Merge
<1>4. ASSUME UNCHANGED <<anvil, command_log, channel, writerVars, callerVars, accepted>>,
             NEW w, w \in [DOMAIN w -> Block], DOMAIN w \subseteq Pos,
             CommitOverrides(w)
      PROVE  CrashAtomic'
    <2>1. ASSUME NEW p \in Pos \ masked'
          PROVE  Stored(p)' = committed'[p] \/ Half(p)'
        <3>1. CASE p \in DOMAIN w
            BY <1>1, <1>4, <2>1, <3>1, CommitStored DEF CommitOverrides
        <3>2. CASE p \notin DOMAIN w
            <4>1. p \notin masked /\ committed'[p] = committed[p] /\ Stored(p)' = Stored(p)
                BY <1>1, <1>4, <2>1, <3>2, CommitStored DEF CommitOverrides
            <4> QED
                BY <1>2, <1>4, <2>1, <4>1 DEF writerVars
        <3> QED
            BY <3>1, <3>2
    <2> QED
        BY <2>1 DEF CrashAtomic
<1>5. ASSUME NEW c \in Column, WriteColumn(c) PROVE CrashAtomic'
    <2>1. /\ UNCHANGED <<block_overrides, batch, committed, masked>>
          /\ Flushing /\ Flushing'
        BY <1>5 DEF WriteColumn, history
    <2>2. ASSUME NEW p \in Pos
          PROVE  \/ Stored(p)' = Stored(p)
                 \/ p \in Written(batch) /\ Stored(p)' = FinalBlock(batch, p)
        BY <1>5, <2>1 DEF WriteColumn, Stored, Merge
    <2> QED
        BY <1>2, <2>1, <2>2 DEF CrashAtomic
<1>6. CASE FlushSqlite
    <2>1. /\ UNCHANGED <<anvil, batch>> /\ todo = {}
          /\ \A p \in Written(batch) : anvil[p] = FinalBlock(batch, p)
          /\ masked' = masked \ Written(batch)
        BY <1>6 DEF FlushSqlite, ColumnsWritten
    <2>2. ASSUME NEW p \in Pos \ masked' PROVE Stored(p)' = committed'[p]
        <3>1. CASE p \in Written(batch)
            BY <1>6, <2>1, <3>1 DEF FlushSqlite, Stored, Merge
        <3>2. CASE p \notin Written(batch)
            <4>1. Stored(p) = committed[p]
                BY <1>2, <2>1, <3>2
            <4> QED
                BY <1>6, <2>1, <3>2, <4>1 DEF FlushSqlite, Stored, Merge
        <3> QED
            BY <3>1, <3>2
    <2> QED
        BY <2>2 DEF CrashAtomic
<1>7. CASE SendAccepted
    BY <1>3, <1>7 DEF SendAccepted, disk, writerVars
<1>8. CASE RecvEdit \/ DrainEdit \/ BeginFlush \/ RecordFlushed
    BY <1>3, <1>8 DEF RecvEdit, DrainEdit, BeginFlush, RecordFlushed, disk, history
<1>9. CASE FailFlush \/ Crash
    BY <1>3, <1>9 DEF FailFlush, Crash, disk, history, Receiving
<1>10. CASE Open
    <2>1. \A p \in Pos : committed'[p] = Stored(p)'
        BY <1>10 DEF Open, disk, Stored, Merge
    <2> QED
        BY <2>1 DEF CrashAtomic
<1>11. ASSUME UNCHANGED <<saved, queue, batch, todo, history>>,
              \/ writer' = writer
              \/ writer \in {"recv", "drain"} /\ writer' = "drain"
       PROVE  CrashAtomic'
    BY <1>3, <1>11 DEF saved, history
<1> QED
    BY <1>1, <1>4, <1>5, <1>6, <1>7, <1>8, <1>9, <1>10, <1>11, StepKinds

\* The files of a new world satisfy the durable invariant.
LEMMA DurableInit == Init => Durable
<1> SUFFICES ASSUME Init PROVE Durable
    OBVIOUS
<1>1. IInv
    BY IInvInit
<1>2. InFlight = <<>> /\ Written(InFlight) = {}
    BY EmptySeq, ConcatEmptySeq, WrittenEmpty DEF Init, InFlight, Unlogged
<1>3. \A p \in Pos : Stored(p) = Base[p]
    BY DEF Init, Stored, Merge
<1> QED
    BY <1>1, <1>2, <1>3 DEF Init, Durable, ColumnsWritten, LatestInFlight,
                            LatestStored, CrashAtomic

\* Every step keeps it.
LEMMA DurableStep == Durable /\ [Next]_vars => Durable'
    BY IInvStep, ColumnsWrittenStep, LatestInFlightStep, LatestStoredStep,
       CrashAtomicStep DEF Durable, IInv

\* While the writer lives, the region files, the SQLite overlay and the edits in
\* flight together hold the last write of every position that no build raced or
\* masked, whatever flushes, builds and restarts interleave.
THEOREM LatestIsRecoverable == Spec => []LatestRecoverable
<1>1. Durable => LatestRecoverable
    <2> SUFFICES ASSUME Durable, Receiving \/ writer = "done",
                        NEW p \in Pos \ (raced \cup masked)
                 PROVE  latest[p] = IF p \in Written(InFlight)
                                    THEN FinalBlock(InFlight, p) ELSE Stored(p)
        BY DEF LatestRecoverable
    <2> QED
        BY DEF Durable, LatestInFlight, LatestStored
<1> QED
    BY <1>1, DurableInit, DurableStep, PTL DEF Spec

\* Whenever the process dies or a flush fails, load_chunk then returns for an
\* unmasked position the block of the last transaction or of the interrupted
\* flush, never a third one (persistence.rs:455-485, 1258-1266).
THEOREM CrashLeavesOldOrNew == Spec => []CrashAtomic
<1>1. Durable => CrashAtomic
    BY DEF Durable
<1> QED
    BY <1>1, DurableInit, DurableStep, PTL DEF Spec

-----------------------------------------------------------------------------
(* What can be read.                                                       *)

\* FlushedBlocksLoad, and how it comes about: while columns are written, one that
\* cannot be read has its region still before it.
Readable ==
    /\ FlushedBlocksLoad
    /\ writer = "anvil" =>
        \A p \in Written(batch) : ColumnOf[p] \in unreadable =>
            \E d \in todo : RegionOf(d) = RegionOf(ColumnOf[p])

\* Every step keeps it.
LEMMA ReadableStep ==
    ASSUME TypeOK, Readable, [Next]_vars
    PROVE  Readable'
<1> USE DEF Readable, FlushedBlocksLoad, disk, channel, writerVars, callerVars, history
<1>1. \A p \in Written(batch) : p \in Pos /\ ColumnOf[p] \in Column
    BY WrittenTyped, ConstantsAssumption DEF TypeOK
<1>2. CASE UNCHANGED <<anvil, unreadable, batch, todo, writer>>
    BY <1>2
<1>3. CASE UNCHANGED <<anvil, unreadable>> /\ writer' \notin {"anvil", "sqlite", "record"}
    BY <1>3
<1>4. CASE BeginFlush
    <2>1. \A p \in Written(batch) : ColumnOf[p] \in todo'
        BY <1>4 DEF BeginFlush
    <2> QED
        BY <1>4, <2>1, WrittenEmpty DEF BeginFlush
<1>5. ASSUME NEW c \in Column, CreateRegion(c) PROVE Readable'
    <2>1. /\ UNCHANGED <<anvil, batch, todo, writer>> /\ writer = "anvil" /\ c \in todo
          /\ unreadable' = unreadable \cup SameRegion(c)
          /\ \A p \in Pos : ColumnOf[p] \in SameRegion(c) => anvil[p] = Base[p]
        BY <1>5 DEF CreateRegion
    <2> QED
        BY <2>1 DEF SameRegion
<1>6. ASSUME NEW c \in Column, WriteHeader(c) PROVE Readable'
    BY <1>6 DEF WriteHeader
<1>7. ASSUME NEW c \in Column, WriteColumn(c) PROVE Readable'
    <2>1. /\ unreadable' = unreadable \ SameRegion(c) /\ todo' = todo \ {c}
          /\ batch' = batch /\ writer = "anvil"
          /\ writer' = IF todo = {c} THEN "sqlite" ELSE "anvil"
        BY <1>7 DEF WriteColumn
    <2>2. ASSUME NEW p \in Pos, ColumnOf[p] \in unreadable' PROVE anvil'[p] = Base[p]
        <3>1. ColumnOf[p] # c
            BY <2>1, <2>2 DEF SameRegion
        <3> QED
            BY <1>7, <2>1, <2>2, <3>1 DEF WriteColumn
    <2>3. ASSUME NEW p \in Written(batch), ColumnOf[p] \in unreadable'
          PROVE  \E d \in todo' : RegionOf(d) = RegionOf(ColumnOf[p])
        <3>1. PICK d \in todo : RegionOf(d) = RegionOf(ColumnOf[p])
            BY <2>1, <2>3
        <3>2. d # c
            BY <1>1, <2>1, <2>3, <3>1 DEF SameRegion
        <3> QED
            BY <2>1, <3>1, <3>2
    <2>4. writer' = "sqlite" => todo' = {}
        BY <2>1
    <2> QED
        BY <2>1, <2>2, <2>3, <2>4
<1>8. CASE FlushSqlite
    BY <1>8 DEF FlushSqlite
<1>9. CASE Client \/ HandOver \/ JoinWriter
    <2>1. UNCHANGED <<anvil, unreadable, batch, todo, writer>>
        BY <1>9 DEF Client, HandOver, RecordQueued, PersistBuild, MarkBuildUndone,
                    BeginShutdown, SendAccepted, SendRefused, JoinWriter
    <2> QED
        BY <1>2, <2>1
<1>10. CASE RecvEdit \/ TakeShutdown \/ DrainEdit \/ RecordFlushed \/ FailFlush
            \/ Crash \/ Open
    <2>1. UNCHANGED <<anvil, unreadable>> /\ writer' \notin {"anvil", "sqlite", "record"}
        BY <1>10 DEF RecvEdit, TakeShutdown, DrainEdit, RecordFlushed, FailFlush,
                     Crash, Open, Receiving
    <2> QED
        BY <1>3, <2>1
<1> QED
    BY <1>2, <1>4, <1>5, <1>6, <1>7, <1>8, <1>9, <1>10 DEF Next, Writer, Creating, vars

\* A flushed block loads, for any columns and region files: no crash between the
\* creation of a file and its header hides what files hold, and no overlay is
\* dropped while the file that replaces it cannot be read (persistence.rs:319-366,
\* 388-407, 480-485).
THEOREM FlushedBlocksAreRead == Spec => []FlushedBlocksLoad
<1>1. Init => Readable
    BY DEF Init, Readable, FlushedBlocksLoad
<1>2. IInv /\ Readable /\ [Next]_vars => IInv' /\ Readable'
    BY IInvStep, ReadableStep DEF IInv
<1>3. Readable => FlushedBlocksLoad
    BY DEF Readable
<1> QED
    BY <1>1, <1>2, <1>3, IInvInit, PTL DEF Spec

-----------------------------------------------------------------------------
(* The refinement of DurableWorld.                                         *)

\* What the refinement needs besides: a flush that is writing columns has edits
\* to write, and every stored build has captured air.
Captured ==
    /\ writer = "anvil" => batch # <<>>
    /\ \A k \in Key : builds[k] # NoBuild =>
            builds[k].original = [p \in DOMAIN builds[k].applied |-> Air]

Refining == Durable /\ Captured

\* Of a sequence of edits followed by another, the edits of the first touch what
\* they write ...
LEMMA FirstPartTouches ==
    ASSUME NEW s \in Seq(Edit), NEW t \in Seq(Edit)
    PROVE  \A p : p \in Written(s) <=> \E i \in 1..Len(s) : (s \o t)[i].pos = p
<1>1. Len(s) \in Nat /\ DOMAIN s = 1..Len(s)
    BY LenProperties
<1>2. \A i \in 1..Len(s) : (s \o t)[i] = s[i]
    BY ConcatProperties, LenProperties
<1>3. \A i \in 1..Len(s) : s[i].pos \in Written(s)
    BY <1>1, EveryPositionHasLastEdit
<1>4. \A p \in Written(s) : \E i \in 1..Len(s) : s[i].pos = p
    BY <1>1 DEF Written, LastEdits
<1> QED
    BY <1>2, <1>3, <1>4

\* ... and leave its final blocks: the abstract log read part by part.
LEMMA FirstPartLeaves ==
    ASSUME NEW s \in Seq(Edit), NEW t \in Seq(Edit)
    PROVE  \A p \in Written(s) :
               (s \o t)[CHOOSE i \in 1..Len(s) :
                           /\ (s \o t)[i].pos = p
                           /\ \A j \in i + 1..Len(s) : (s \o t)[j].pos # p].block
                   = FinalBlock(s, p)
<1> DEFINE u == s \o t
<1>1. Len(s) \in Nat /\ DOMAIN s = 1..Len(s)
    BY LenProperties
<1>2. \A i \in 1..Len(s) : u[i] = s[i]
    BY ConcatProperties, LenProperties
<1> HIDE DEF u
<1>3. ASSUME NEW p \in Written(s)
      PROVE  u[CHOOSE i \in 1..Len(s) :
                /\ u[i].pos = p
                /\ \A j \in i + 1..Len(s) : u[j].pos # p].block
                  = FinalBlock(s, p)
    <2>1. PICK i \in LastEdits(s) : s[i].pos = p
        BY DEF Written
    <2>2. /\ i \in 1..Len(s) /\ u[i] = s[i]
          /\ \A j \in 1..Len(s) : j > i => u[j].pos # p
        BY <1>1, <1>2, <2>1 DEF LastEdits
    <2>3. \A j \in i + 1..Len(s) : u[j].pos # p
        BY <1>1, <2>2
    <2>4. ASSUME NEW k \in 1..Len(s), u[k].pos = p,
                 \A j \in k + 1..Len(s) : u[j].pos # p
          PROVE  k = i
        <3>1. ~(k < i)
            BY <1>1, <2>1, <2>2, <2>4
        <3>2. ~(k > i)
            BY <2>2, <2>4
        <3> QED
            BY <1>1, <2>2, <3>1, <3>2
    <2>5. (CHOOSE k \in 1..Len(s) :
                /\ u[k].pos = p
                /\ \A j \in k + 1..Len(s) : u[j].pos # p) = i
        BY <2>1, <2>2, <2>3, <2>4
    <2>6. FinalBlock(s, p) = s[i].block
        BY <2>1, FinalBlockIsLast
    <2> QED
        BY <2>1, <2>2, <2>5, <2>6
<1> QED
    BY <1>3 DEF u

\* What follows the first of two sequences is the second.
LEMMA SecondPart ==
    ASSUME NEW S, NEW s \in Seq(S), NEW t \in Seq(S)
    PROVE  SubSeq(s \o t, Len(s) + 1, Len(s \o t)) = t
<1> DEFINE u == s \o t
           v == SubSeq(u, Len(s) + 1, Len(u))
<1>1. Len(s) \in Nat /\ Len(t) \in Nat
    BY LenProperties
<1>2. /\ u \in Seq(S) /\ Len(u) = Len(s) + Len(t)
      /\ \A i \in 1..Len(t) : u[Len(s) + i] = t[i]
    BY <1>1, ConcatProperties
<1> HIDE DEF u
<1>3. \A i \in Len(s) + 1..Len(u) : u[i] \in S
    BY <1>1, <1>2, ElementOfSeq
<1>4. /\ v \in Seq(S) /\ Len(v) = Len(t)
      /\ \A i \in 1..Len(t) : v[i] = u[Len(s) + i]
    BY <1>1, <1>2, <1>3, SubSeqProperties
<1> QED
    BY <1>1, <1>2, <1>4, SeqEqual DEF u

\* The variables of DurableWorld, as Abstract reads them off the state.
Files == [p \in Pos |-> Stored(p)]
OnTheWay == IF Receiving THEN InFlight ELSE <<>>
Rows == [k \in Key |-> IF builds[k] = NoBuild THEN NoBuild
            ELSE [state |-> builds[k].state, applied |-> builds[k].applied]]

\* A step that leaves the three alone is a stutter of DurableWorld.
LEMMA AbstractStutter ==
    ASSUME Files' = Files, OnTheWay' = OnTheWay, Rows' = Rows
    PROVE  UNCHANGED Abstract!vars
    BY DEF Abstract!vars, Files, OnTheWay, Rows

\* What the files hold changes with the region files and the overlay only.
LEMMA FilesKept ==
    ASSUME UNCHANGED <<anvil, block_overrides>>
    PROVE  Files' = Files
    BY DEF Files, Stored, Merge

\* The rows change with the builds only.
LEMMA RowsKept ==
    ASSUME UNCHANGED builds
    PROVE  Rows' = Rows
    BY DEF Rows

\* The state of a stored build is one of its two, and its key has a row.
LEMMA RowOfBuild ==
    ASSUME TypeOK, NEW k \in Key, builds[k] # NoBuild
    PROVE  /\ builds[k] \in BuildRow(Pos)
           /\ Rows[k] = [state |-> builds[k].state, applied |-> builds[k].applied]
           /\ Rows[k] # NoBuild
<1>1. builds[k] \in BuildRow(Pos)
    BY DEF TypeOK
<1>2. Rows[k] = [state |-> builds[k].state, applied |-> builds[k].applied]
    BY DEF Rows
<1>3. Rows[k] \in RowKept(Pos)
    BY <1>1, <1>2 DEF BuildRow, RowKept
<1> QED
    BY <1>1, <1>2, <1>3, ConstantsAssumption

\* SendAccepted is Accept: the channel takes the edit behind all others.
LEMMA SendIsAccept ==
    ASSUME Refining, SendAccepted
    PROVE  \E p \in Pos, b \in Block : Abstract!Accept(p, b)
<1>1. TypeOK /\ Flow
    BY DEF Refining, Durable, IInv
<1>2. /\ edit \in Edit /\ InFlight' = Append(InFlight, edit)
      /\ Receiving /\ Receiving'
    BY <1>1, InFlightMoves DEF SendAccepted, TypeOK, Receiving, writerVars
<1>3. edit.pos \in Pos /\ edit.block \in Block
      /\ edit = [pos |-> edit.pos, block |-> edit.block]
    BY <1>2 DEF Edit
<1>4. OnTheWay' = Append(OnTheWay, [pos |-> edit.pos, block |-> edit.block])
    BY <1>2, <1>3 DEF OnTheWay
<1>5. Files' = Files /\ Rows' = Rows
    BY FilesKept, RowsKept DEF SendAccepted, disk
<1>6. Abstract!Accept(edit.pos, edit.block)
    BY <1>4, <1>5 DEF Abstract!Accept, Files, OnTheWay, Rows
<1> QED
    BY <1>3, <1>6

\* persist_build is Build: the row and its blocks are durable at once, but for
\* the positions given back to the generated block.
LEMMA PersistIsBuild ==
    ASSUME Refining, NEW k \in Key, NEW f \in Plan,
           PersistBuild(k, f, [p \in DOMAIN f |-> Air])
    PROVE  Abstract!Build(k, f)
<1>1. TypeOK
    BY DEF Refining, Durable, IInv
<1>2. /\ f \in [DOMAIN f -> Block] /\ DOMAIN f \subseteq Pos /\ CommitOverrides(f)
      /\ UNCHANGED <<anvil, command_log, channel, writerVars, callerVars, accepted>>
    BY CapturedTyped DEF PersistBuild
<1>3. OnTheWay' = OnTheWay
    BY <1>2 DEF channel, writerVars, OnTheWay, InFlight, Unlogged, Receiving
<1>4. Rows[k] = NoBuild
    BY DEF PersistBuild, Rows
<1>5. Rows' = [Rows EXCEPT ![k] = [state |-> "applied", applied |-> f]]
    <2>1. /\ builds' = [builds EXCEPT ![k] = [state |-> "applied", applied |-> f,
                                    original |-> [p \in DOMAIN f |-> Air]]]
          /\ builds'[k] \in BuildRow(Pos)
          /\ builds'[k].state = "applied" /\ builds'[k].applied = f
        BY <1>1, CapturedTyped DEF PersistBuild, TypeOK
    <2>2. builds'[k] # NoBuild
        BY <2>1, ConstantsAssumption
    <2>3. \A j \in Key \ {k} : builds'[j] = builds[j]
        BY <1>1, <2>1 DEF TypeOK
    <2> QED
        BY <2>1, <2>2, <2>3 DEF Rows
<1>6. Files' \in [Pos -> Block]
    <2>1. /\ anvil' \in [Pos -> Block]
          /\ block_overrides' \in [Pos -> Block \cup {NoOverride}]
        BY <1>1, <1>2, CommitTyped DEF TypeOK
    <2>2. \A p \in Pos : Stored(p)' \in Block
        BY <2>1 DEF Stored, Merge
    <2> QED
        BY <2>2 DEF Files
<1>7. \A p \in Pos : IF p \in DOMAIN f THEN f[p] = Base[p] \/ Files'[p] = f[p]
                     ELSE Files'[p] = Files[p]
    <2>1. \A p \in Pos : Files'[p] = Stored(p)' /\ Files[p] = Stored(p)
        BY DEF Files
    <2>2. ASSUME NEW p \in DOMAIN f, f[p] # Base[p] PROVE Stored(p)' = f[p]
        <3>1. block_overrides'[p] = f[p] /\ f[p] # NoOverride
            BY <1>2, <2>2, ConstantsAssumption DEF CommitOverrides, OverrideFor
        <3> QED
            BY <3>1 DEF Stored, Merge
    <2>3. ASSUME NEW p \in Pos \ DOMAIN f PROVE Stored(p)' = Stored(p)
        BY <1>2, <2>3 DEF CommitOverrides, Stored, Merge
    <2> QED
        BY <1>2, <2>1, <2>2, <2>3
<1> QED
    BY <1>3, <1>4, <1>5, <1>6, <1>7
    DEF Abstract!Build, Abstract!Shows, Files, OnTheWay, Rows

\* mark_build_undone is Undo: it commits the captured air.
LEMMA UndoneIsUndo ==
    ASSUME Refining, NEW k \in Key, MarkBuildUndone(k)
    PROVE  Abstract!Undo(k)
<1> DEFINE w == builds[k].original
<1>1. TypeOK /\ builds[k] # NoBuild /\ builds[k].state = "applied"
    BY DEF Refining, Durable, IInv, MarkBuildUndone
<1>2. /\ builds[k] \in BuildRow(Pos)
      /\ Rows[k] = [state |-> builds[k].state, applied |-> builds[k].applied]
      /\ Rows[k] # NoBuild
    BY <1>1, RowOfBuild
<1>3. /\ w \in [DOMAIN w -> Block] /\ DOMAIN w \subseteq Pos /\ CommitOverrides(w)
      /\ UNCHANGED <<anvil, command_log, channel, writerVars, callerVars, accepted>>
    BY <1>2, RowTyped DEF MarkBuildUndone
<1>4. w = [p \in DOMAIN Rows[k].applied |-> Air]
    BY <1>1, <1>2 DEF Refining, Captured
<1>5. OnTheWay' = OnTheWay
    BY <1>3 DEF channel, writerVars, OnTheWay, InFlight, Unlogged, Receiving
<1>6. Rows' = [Rows EXCEPT ![k].state = "undone"]
    <2>1. /\ builds'[k] = [builds[k] EXCEPT !.state = "undone"]
          /\ \A j \in Key \ {k} : builds'[j] = builds[j]
        BY <1>1 DEF MarkBuildUndone, TypeOK
    <2>2. /\ builds'[k] \in BuildRow(Pos)
          /\ builds'[k].state = "undone" /\ builds'[k].applied = builds[k].applied
        BY <1>2, <2>1, RowTyped DEF BuildRow
    <2>3. builds'[k] # NoBuild
        BY <2>2, ConstantsAssumption
    <2>4. Rows'[k] = [state |-> "undone", applied |-> builds[k].applied]
        BY <2>2, <2>3 DEF Rows
    <2>5. [Rows[k] EXCEPT !.state = "undone"] = Rows'[k]
        BY <1>2, <2>4
    <2>6. \A j \in Key \ {k} : Rows'[j] = Rows[j]
        BY <2>1 DEF Rows
    <2>7. Rows = [j \in Key |-> Rows[j]] /\ Rows' = [j \in Key |-> Rows'[j]]
        BY DEF Rows
    <2> QED
        BY <2>5, <2>6, <2>7
<1>7. Files' \in [Pos -> Block]
    <2>1. /\ anvil' \in [Pos -> Block]
          /\ block_overrides' \in [Pos -> Block \cup {NoOverride}]
        BY <1>1, <1>3, CommitTyped DEF TypeOK
    <2>2. \A p \in Pos : Stored(p)' \in Block
        BY <2>1 DEF Stored, Merge
    <2> QED
        BY <2>2 DEF Files
<1>8. \A p \in Pos : IF p \in DOMAIN w THEN w[p] = Base[p] \/ Files'[p] = w[p]
                     ELSE Files'[p] = Files[p]
    <2>1. \A p \in Pos : Files'[p] = Stored(p)' /\ Files[p] = Stored(p)
        BY DEF Files
    <2>2. ASSUME NEW p \in DOMAIN w, w[p] # Base[p] PROVE Stored(p)' = w[p]
        <3>1. block_overrides'[p] = w[p] /\ w[p] # NoOverride
            BY <1>3, <2>2, ConstantsAssumption DEF CommitOverrides, OverrideFor
        <3> QED
            BY <3>1 DEF Stored, Merge
    <2>3. ASSUME NEW p \in Pos \ DOMAIN w PROVE Stored(p)' = Stored(p)
        BY <1>3, <2>3 DEF CommitOverrides, Stored, Merge
    <2> QED
        BY <1>3, <2>1, <2>2, <2>3
<1> HIDE DEF w
<1>9. Rows[k].state = "applied"
    BY <1>1, <1>2
<1> QED
    BY <1>2, <1>4, <1>5, <1>6, <1>7, <1>8, <1>9
    DEF Abstract!Undo, Abstract!Shows, Files, OnTheWay, Rows

\* While a batch is being flushed it is the first part of what is on the way:
\* its edits touch what the batch writes and leave the batch's final blocks.
LEMMA BatchIsFirst ==
    ASSUME TypeOK, writer \in {"anvil", "sqlite"}
    PROVE  /\ OnTheWay = batch \o queue
           /\ Len(OnTheWay) = Len(batch) + Len(queue)
           /\ Abstract!Touched(Len(batch)) = Written(batch)
           /\ \A p \in Written(batch) :
                Abstract!Leaves(Len(batch), p) = FinalBlock(batch, p)
<1>1. batch \in Seq(Edit) /\ queue \in Seq(Edit)
    BY DEF TypeOK
<1>2. Receiving /\ InFlight = batch \o queue
    BY DEF Receiving, InFlight, Unlogged
<1>3. OnTheWay = batch \o queue
    BY <1>2 DEF OnTheWay
<1>4. Len(batch \o queue) = Len(batch) + Len(queue)
    BY <1>1, ConcatProperties
<1>5. Abstract!Touched(Len(batch)) = Written(batch)
    <2>1. \A p : p \in Written(batch) <=> \E i \in 1..Len(batch) : OnTheWay[i].pos = p
        BY <1>1, <1>3, FirstPartTouches
    <2>2. Abstract!Touched(Len(batch)) = {OnTheWay[i].pos : i \in 1..Len(batch)}
        BY DEF Abstract!Touched, OnTheWay
    <2> QED
        BY <2>1, <2>2
<1>6. ASSUME NEW p \in Written(batch)
      PROVE  Abstract!Leaves(Len(batch), p) = FinalBlock(batch, p)
    <2>1. Abstract!Leaves(Len(batch), p) =
            OnTheWay[CHOOSE i \in 1..Len(batch) :
                        /\ OnTheWay[i].pos = p
                        /\ \A j \in i + 1..Len(batch) : OnTheWay[j].pos # p].block
        BY DEF Abstract!Leaves, OnTheWay
    <2>2. Abstract!Leaves(Len(batch), p) =
            (batch \o queue)[CHOOSE i \in 1..Len(batch) :
                /\ (batch \o queue)[i].pos = p
                /\ \A j \in i + 1..Len(batch) : (batch \o queue)[j].pos # p].block
        BY <1>3, <2>1
    <2> QED
        BY <1>1, <2>2, FirstPartLeaves
<1> QED
    BY <1>3, <1>4, <1>5, <1>6

\* WriteColumn is Land: those edits of the batch that lie in the column, and
\* under no override, are on disk from here on.
LEMMA WriteIsLand ==
    ASSUME Refining, NEW c \in Column, WriteColumn(c)
    PROVE  \E n \in 1..Len(OnTheWay) :
                \E S \in SUBSET Abstract!Touched(n) : Abstract!Land(n, S)
<1> DEFINE n == Len(batch)
           S == {p \in Written(batch) : ColumnOf[p] = c
                                        /\ block_overrides[p] = NoOverride}
<1>1. TypeOK /\ writer = "anvil" /\ batch # <<>>
    BY DEF Refining, Durable, IInv, Captured, WriteColumn
<1>2. /\ Len(batch) \in Nat \ {0} /\ Len(queue) \in Nat
    BY <1>1, LenProperties, EmptySeq DEF TypeOK
<1>3. /\ Len(OnTheWay) = Len(batch) + Len(queue)
      /\ Abstract!Touched(n) = Written(batch)
      /\ \A p \in Written(batch) : Abstract!Leaves(n, p) = FinalBlock(batch, p)
    BY <1>1, BatchIsFirst
<1>4. n \in 1..Len(OnTheWay) /\ S \in SUBSET Abstract!Touched(n)
    BY <1>2, <1>3
<1>5. OnTheWay' = OnTheWay /\ Rows' = Rows
    BY RowsKept DEF WriteColumn, channel, OnTheWay, InFlight, Unlogged, Receiving
<1>6. \A p \in Pos : Files'[p] = Stored(p)' /\ Files[p] = Stored(p)
    BY DEF Files
<1>7. ASSUME NEW p \in Pos
      PROVE  Stored(p)' = IF p \in S THEN FinalBlock(batch, p) ELSE Stored(p)
    BY DEF WriteColumn, Stored, Merge
<1>8. Files' = [p \in Pos |-> IF p \in S THEN Abstract!Leaves(n, p) ELSE Files[p]]
    BY <1>3, <1>6, <1>7 DEF Files
<1> HIDE DEF n, S
<1>9. Abstract!Land(n, S)
    BY <1>5, <1>8 DEF Abstract!Land, Abstract!Landed, Files, OnTheWay, Rows
<1> QED
    BY <1>4, <1>9

\* FlushSqlite is Settle of the whole batch, or a stutter when there is none:
\* only what is on disk in full leaves the way.
LEMMA FlushIsSettle ==
    ASSUME Refining, FlushSqlite
    PROVE  \/ \E n \in 1..Len(OnTheWay) : Abstract!Settle(n)
           \/ UNCHANGED Abstract!vars
<1> DEFINE n == Len(batch)
<1>1. /\ TypeOK /\ Flow /\ writer = "sqlite" /\ todo = {}
      /\ \A p \in Written(batch) : anvil[p] = FinalBlock(batch, p)
    BY DEF Refining, Durable, IInv, ColumnsWritten, FlushSqlite
<1>2. batch \in Seq(Edit) /\ queue \in Seq(Edit) /\ Written(batch) \subseteq Pos
    BY <1>1, WrittenTyped DEF TypeOK
<1>3. /\ OnTheWay = batch \o queue
      /\ Len(OnTheWay) = Len(batch) + Len(queue)
      /\ Abstract!Touched(n) = Written(batch)
      /\ \A p \in Written(batch) : Abstract!Leaves(n, p) = FinalBlock(batch, p)
    BY <1>1, BatchIsFirst
<1>4. OnTheWay' = queue
    BY <1>1, <1>2, InFlightMoves DEF FlushSqlite, OnTheWay, Receiving
<1>5. Rows' = Rows
    BY RowsKept DEF FlushSqlite
<1>6. \A p \in Pos : Files'[p] = Stored(p)' /\ Files[p] = Stored(p)
    BY DEF Files
<1>7. ASSUME NEW p \in Pos
      PROVE  Stored(p)' = IF p \in Written(batch) THEN FinalBlock(batch, p) ELSE Stored(p)
    <2>1. CASE p \in Written(batch)
        BY <1>1, <2>1 DEF FlushSqlite, Stored, Merge
    <2>2. CASE p \notin Written(batch)
        BY <2>2 DEF FlushSqlite, Stored, Merge
    <2> QED
        BY <2>1, <2>2
<1>8. CASE batch = <<>>
    <2>1. OnTheWay = queue
        BY <1>2, <1>3, <1>8, ConcatEmptySeq
    <2>2. \A p \in Pos : Stored(p)' = Stored(p)
        BY <1>7, <1>8, WrittenEmpty
    <2>3. Files' = Files
        BY <2>2 DEF Files
    <2> QED
        BY <1>4, <1>5, <2>1, <2>3, AbstractStutter
<1>9. CASE batch # <<>>
    <2>1. n \in 1..Len(OnTheWay)
        BY <1>2, <1>3, <1>9, LenProperties, EmptySeq
    <2>2. Files' = [p \in Pos |-> IF p \in Abstract!Touched(n)
                                  THEN Abstract!Leaves(n, p) ELSE Files[p]]
        BY <1>3, <1>6, <1>7 DEF Files
    <2>3. OnTheWay' = SubSeq(OnTheWay, n + 1, Len(OnTheWay))
        BY <1>2, <1>3, <1>4, SecondPart
    <2> HIDE DEF n
    <2>4. Abstract!Settle(n)
        BY <1>5, <2>2, <2>3 DEF Abstract!Settle, Abstract!Landed, Files, OnTheWay, Rows
    <2> QED
        BY <2>1, <2>4
<1> QED
    BY <1>8, <1>9

\* FailFlush and Crash are Lose: the edits on their way are gone, the files and
\* the rows are what they were.
LEMMA StopIsLose ==
    ASSUME FailFlush \/ Crash
    PROVE  Abstract!Lose \/ UNCHANGED Abstract!vars
<1>1. Files' = Files /\ Rows' = Rows
    BY FilesKept, RowsKept DEF FailFlush, Crash, disk
<1>2. OnTheWay' = <<>>
    BY DEF FailFlush, Crash, OnTheWay, Receiving
<1> QED
    BY <1>1, <1>2 DEF Abstract!Lose, Files, OnTheWay, Rows

\* Nothing else moves a durable world: counting, refusing, taking, draining,
\* recording, stopping and starting again are all stutters.
LEMMA OthersStutter ==
    ASSUME Refining,
           \/ \E p \in Pos, b \in Block : RecordQueued(p, b)
           \/ SendRefused \/ BeginShutdown \/ JoinWriter
           \/ RecvEdit \/ TakeShutdown \/ DrainEdit \/ BeginFlush \/ RecordFlushed
           \/ \E c \in Column : CreateRegion(c) \/ WriteHeader(c)
           \/ Open \/ UNCHANGED vars
    PROVE  UNCHANGED Abstract!vars
<1>1. TypeOK /\ Flow
    BY DEF Refining, Durable, IInv
<1>2. UNCHANGED saved
    BY DEF RecordQueued, SendRefused, BeginShutdown, JoinWriter, RecvEdit,
           TakeShutdown, DrainEdit, BeginFlush, RecordFlushed, CreateRegion,
           WriteHeader, Open, vars, disk, saved
<1>3. Files' = Files /\ Rows' = Rows
    BY <1>2, FilesKept, RowsKept DEF saved
<1>4. CASE RecvEdit \/ DrainEdit
    BY <1>1, <1>3, <1>4, InFlightMoves, AbstractStutter
    DEF RecvEdit, DrainEdit, OnTheWay, Receiving
<1>5. CASE RecordFlushed
    <2>1. OnTheWay = queue /\ queue \in Seq(Edit)
        BY <1>1, <1>5, ConcatEmptySeq
        DEF RecordFlushed, OnTheWay, Receiving, InFlight, Unlogged, TypeOK
    <2>2. OnTheWay' = queue
        BY <1>1, <1>5, <2>1, ConcatEmptySeq
        DEF RecordFlushed, OnTheWay, Receiving, InFlight, Unlogged, Flow
    <2> QED
        BY <1>3, <2>1, <2>2, AbstractStutter
<1>6. CASE Open
    <2>1. OnTheWay = <<>>
        BY <1>1, <1>6 DEF Open, Flow, OnTheWay
    <2>2. OnTheWay' = <<>>
        BY <1>6, EmptySeq, ConcatEmptySeq DEF Open, OnTheWay, InFlight, Unlogged
    <2> QED
        BY <1>3, <2>1, <2>2, AbstractStutter
<1>7. CASE \/ \E p \in Pos, b \in Block : RecordQueued(p, b)
           \/ SendRefused \/ BeginShutdown \/ JoinWriter
           \/ TakeShutdown \/ BeginFlush \/ UNCHANGED vars
           \/ \E c \in Column : CreateRegion(c) \/ WriteHeader(c)
    <2>1. UNCHANGED <<queue, batch>> /\ Receiving' = Receiving
          /\ (writer' = "record") = (writer = "record")
        BY <1>7 DEF RecordQueued, SendRefused, BeginShutdown, JoinWriter, channel,
            TakeShutdown, BeginFlush, CreateRegion, WriteHeader, vars, writerVars,
            Receiving
    <2>2. OnTheWay' = OnTheWay
        BY <2>1 DEF OnTheWay, InFlight, Unlogged
    <2> QED
        BY <1>3, <2>2, AbstractStutter
<1> QED
    BY <1>4, <1>5, <1>6, <1>7

\* A new save has what the refinement needs.
LEMMA RefiningInit == Init => Refining
    BY DurableInit DEF Refining, Captured, Init

\* Every step keeps what the refinement needs.
LEMMA RefiningStep == Refining /\ [Next]_vars => Refining'
<1> SUFFICES ASSUME Refining, [Next]_vars PROVE Captured'
    BY DurableStep DEF Refining
<1>1. TypeOK
    BY DEF Refining, Durable, IInv
<1>2. writer' = "anvil" => batch' # <<>>
    <2>1. CASE UNCHANGED <<writer, batch>>
        BY <2>1 DEF Refining, Captured
    <2>2. CASE writer' # "anvil"
        BY <2>2
    <2>3. CASE BeginFlush
        BY <2>3 DEF BeginFlush
    <2>4. ASSUME NEW c \in Column, WriteColumn(c) PROVE writer = "anvil" /\ batch' = batch
        BY <2>4 DEF WriteColumn
    <2>5. CASE SendAccepted
        BY <2>1, <2>5 DEF SendAccepted, writerVars
    <2>6. CASE RecvEdit \/ DrainEdit \/ FlushSqlite \/ RecordFlushed \/ FailFlush
               \/ Crash \/ Open
        <3>1. CASE Crash
            BY <2>1, <3>1 DEF Crash, Receiving, Refining, Captured
        <3> QED
            BY <2>2, <2>6, <3>1 DEF RecvEdit, DrainEdit, FlushSqlite, RecordFlushed,
                                    FailFlush, Open
    <2> QED
        BY <1>1, <2>1, <2>2, <2>3, <2>4, <2>5, <2>6, StepKinds DEF writerVars,
            Refining, Captured
<1>3. ASSUME NEW k \in Key, builds'[k] # NoBuild
      PROVE  builds'[k].original = [p \in DOMAIN builds'[k].applied |-> Air]
    <2>1. CASE UNCHANGED builds
        BY <1>3, <2>1 DEF Refining, Captured
    <2>2. ASSUME NEW j \in Key, NEW f \in Plan,
                 PersistBuild(j, f, [p \in DOMAIN f |-> Air])
          PROVE  builds'[k].original = [p \in DOMAIN builds'[k].applied |-> Air]
        <3>1. CASE j = k
            <4>1. builds'[k] = [state |-> "applied", applied |-> f,
                                original |-> [p \in DOMAIN f |-> Air]]
                BY <1>1, <2>2, <3>1 DEF PersistBuild, TypeOK
            <4> QED
                BY <4>1
        <3>2. CASE j # k
            <4>1. builds'[k] = builds[k]
                BY <1>1, <2>2, <3>2 DEF PersistBuild, TypeOK
            <4> QED
                BY <1>3, <4>1 DEF Refining, Captured
        <3> QED
            BY <3>1, <3>2
    <2>3. ASSUME NEW j \in Key, MarkBuildUndone(j)
          PROVE  builds'[k].original = [p \in DOMAIN builds'[k].applied |-> Air]
        <3>1. builds[k] # NoBuild
            BY <1>1, <1>3, <2>3 DEF MarkBuildUndone, TypeOK
        <3>2. builds[k] \in BuildRow(Pos)
            BY <1>1, <3>1 DEF TypeOK
        <3>3. /\ builds'[k].original = builds[k].original
              /\ builds'[k].applied = builds[k].applied
            BY <1>1, <2>3, <3>2 DEF MarkBuildUndone, TypeOK, BuildRow
        <3> QED
            BY <3>1, <3>3 DEF Refining, Captured
    <2>4. ASSUME ~ UNCHANGED builds
          PROVE  \/ \E j \in Key, f \in Plan : PersistBuild(j, f, [p \in DOMAIN f |-> Air])
                 \/ \E j \in Key : MarkBuildUndone(j)
        BY <2>4 DEF Next, Client, Writer, Creating, HandOver, RecordQueued, SendAccepted,
            SendRefused, BeginShutdown, JoinWriter, RecvEdit, TakeShutdown, DrainEdit,
            BeginFlush, CreateRegion, WriteHeader, WriteColumn, FlushSqlite,
            RecordFlushed, FailFlush, Crash, Open, vars, disk
    <2> QED
        BY <2>1, <2>2, <2>3, <2>4
<1> QED
    BY <1>2, <1>3 DEF Captured

\* A new save is the generated world with nothing on its way.
LEMMA InitIsInit == Init => Abstract!Init
<1> SUFFICES ASSUME Init PROVE Abstract!Init
    OBVIOUS
<1>1. \A p \in Pos : Stored(p) = Base[p]
    BY DEF Init, Stored, Merge
<1>2. Files = Base
    BY <1>1, ConstantsAssumption DEF Files
<1>3. OnTheWay = <<>>
    BY DEF Init, OnTheWay, Receiving
<1>4. Rows = [k \in Key |-> NoBuild]
    BY DEF Init, Rows
<1> QED
    BY <1>2, <1>3, <1>4 DEF Abstract!Init, Files, OnTheWay, Rows

\* Every step of the two threads is a step of DurableWorld or changes nothing
\* of it.
LEMMA StepIsStep == Refining /\ [Next]_vars => [Abstract!Next]_Abstract!vars
<1> SUFFICES ASSUME Refining, [Next]_vars PROVE Abstract!Next \/ UNCHANGED Abstract!vars
    BY DEF Abstract!vars
<1>1. ASSUME SendAccepted PROVE Abstract!Next
    BY <1>1, SendIsAccept DEF Abstract!Next
<1>2. ASSUME NEW k \in Key, NEW f \in Plan, PersistBuild(k, f, [p \in DOMAIN f |-> Air])
      PROVE  Abstract!Next
    <2>1. Abstract!Build(k, f)
        BY <1>2, PersistIsBuild
    <2> QED
        BY <2>1 DEF Abstract!Next
<1>3. ASSUME NEW k \in Key, MarkBuildUndone(k) PROVE Abstract!Next
    <2>1. Abstract!Undo(k)
        BY <1>3, UndoneIsUndo
    <2> QED
        BY <2>1 DEF Abstract!Next
<1>4. ASSUME NEW c \in Column, WriteColumn(c) PROVE Abstract!Next
    <2>1. \E n \in 1..Len(OnTheWay) :
                \E S \in SUBSET Abstract!Touched(n) : Abstract!Land(n, S)
        BY <1>4, WriteIsLand
    <2> QED
        BY <2>1 DEF Abstract!Next, OnTheWay
<1>5. ASSUME FlushSqlite PROVE Abstract!Next \/ UNCHANGED Abstract!vars
    <2>1. \/ \E n \in 1..Len(OnTheWay) : Abstract!Settle(n)
          \/ UNCHANGED Abstract!vars
        BY <1>5, FlushIsSettle
    <2> QED
        BY <2>1 DEF Abstract!Next, OnTheWay
<1>6. ASSUME FailFlush \/ Crash PROVE Abstract!Next \/ UNCHANGED Abstract!vars
    BY <1>6, StopIsLose DEF Abstract!Next
<1> QED
    BY <1>1, <1>2, <1>3, <1>4, <1>5, <1>6, OthersStutter
    DEF Next, Client, HandOver, Writer, Creating

\* Persistence implements DurableWorld: edits land in the order of their calls
\* and leave the channel only when they have landed, builds and their undo are
\* durable as a whole, and a crash or a failed flush loses nothing but edits on
\* their way (persistence.rs:455-485, 1031-1161, 1258-1266).
THEOREM DurableWorldIsImplemented == Spec => ImplementsDurableWorld
<1> QED
    BY RefiningInit, InitIsInit, RefiningStep, StepIsStep, PTL
    DEF Spec, Abstract!Spec, ImplementsDurableWorld
===============================================================================
