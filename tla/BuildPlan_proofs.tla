--------------------------- MODULE BuildPlan_proofs ---------------------------
(***************************************************************************)
(* Proofs about BuildPlan, for any world, palette, limits and plans: the   *)
(* three nested loops find a conflict exactly in the plans that have one,  *)
(* and expand the others whole.                                            *)
(*                                                                         *)
(* IInv says what the loops have done when they are past some of the cells *)
(* and no conflict has come up: those cells are targets, in order, and     *)
(* nothing is wrong with them.                                             *)
(***************************************************************************)
EXTENDS BuildPlan, FiniteSetTheorems, SequenceTheorems, TLAPS

-----------------------------------------------------------------------------
(* Boxes and the order of the loops.                                       *)

\* A box has finitely many cells.
LEMMA BoxesAreFinite ==
    ASSUME NEW op \in Operation
    PROVE  IsFiniteSet(Box(op)) /\ Box(op) \subseteq Triple
<1> DEFINE A == op.from[1]..op.to[1]
           B == op.from[2]..op.to[2]
           C == op.from[3]..op.to[3]
           f == [q \in (A \X B) \X C |-> <<q[1][1], q[1][2], q[2]>>]
<1>1. op.from \in Int \X Int \X Int /\ op.to \in Int \X Int \X Int
    BY DEF Operation, Triple
<1>2. IsFiniteSet(A) /\ IsFiniteSet(B) /\ IsFiniteSet(C)
    BY <1>1, FS_Interval
<1>3. A \subseteq Int /\ B \subseteq Int /\ C \subseteq Int
    BY <1>1
<1> HIDE DEF A, B, C
<1>4. IsFiniteSet((A \X B) \X C)
    BY <1>2, FS_Product
<1>5. f \in Surjection((A \X B) \X C, A \X B \X C)
    <2>1. f \in [(A \X B) \X C -> A \X B \X C]
        OBVIOUS
    <2>2. ASSUME NEW t \in A \X B \X C
          PROVE  \E q \in (A \X B) \X C : f[q] = t
        <3>1. /\ t = <<t[1], t[2], t[3]>> /\ <<<<t[1], t[2]>>, t[3]>> \in (A \X B) \X C
              /\ f[<<<<t[1], t[2]>>, t[3]>>] = <<t[1], t[2], t[3]>>
            OBVIOUS
        <3> QED
            BY <3>1
    <2> HIDE DEF f
    <2> QED
        BY <2>1, <2>2 DEF Surjection
<1> HIDE DEF f
<1>6. IsFiniteSet(A \X B \X C)
    BY <1>4, <1>5, FS_Surjection
<1> QED
    BY <1>3, <1>6 DEF Box, Triple, A, B, C

\* The loops visit no cell twice, and of two cells one comes first.
LEMMA LoopsAreOrdered ==
    /\ \A a \in Triple : ~YXZ(a, a)
    /\ \A a, b, c \in Triple : YXZ(a, b) /\ YXZ(b, c) => YXZ(a, c)
    /\ \A a, b \in Triple : a # b => YXZ(a, b) \/ YXZ(b, a)
    /\ \A a, b \in Triple : YXZ(a, b) => a[2] <= b[2]
<1>1. \A a \in Triple : a = <<a[1], a[2], a[3]>> /\ a[1] \in Int /\ a[2] \in Int /\ a[3] \in Int
    BY DEF Triple
<1> QED
    BY <1>1 DEF YXZ

\* In that order a box is a sequence of its cells, each once.
LEMMA LoopOrder ==
    ASSUME NEW box \in SUBSET Triple, IsFiniteSet(box)
    PROVE  /\ InLoopOrder(box) \in Seq(Triple)
           /\ {InLoopOrder(box)[n] : n \in DOMAIN InLoopOrder(box)} = box
           /\ \A m, n \in DOMAIN InLoopOrder(box) :
                m < n => YXZ(InLoopOrder(box)[m], InLoopOrder(box)[n])
<1> DEFINE N == Cardinality(box)
           Before(c) == {b \in box : YXZ(b, c)}
           rank == [c \in box |-> Cardinality(Before(c)) + 1]
<1>1. N \in Nat
    BY FS_CardinalityType
<1>2. ASSUME NEW c \in box
      PROVE  /\ IsFiniteSet(Before(c)) /\ Cardinality(Before(c)) \in Nat
             /\ Cardinality(Before(c)) < N
    <2>1. c \notin Before(c)
        BY LoopsAreOrdered
    <2>2. Before(c) \subseteq box /\ Before(c) # box
        BY <2>1
    <2> QED
        BY <1>1, <2>2, FS_Subset, FS_CardinalityType
<1>3. \A c \in box : rank[c] = Cardinality(Before(c)) + 1 /\ Cardinality(Before(c)) \in Nat
    BY <1>2
<1>4. ASSUME NEW c \in box, NEW d \in box, YXZ(c, d)
      PROVE  Cardinality(Before(c)) < Cardinality(Before(d))
    <2>1. \A e \in box : YXZ(e, c) => YXZ(e, d)
        BY <1>4, LoopsAreOrdered
    <2>2. Before(c) \subseteq Before(d) /\ Before(c) # Before(d)
        BY <1>4, <2>1, LoopsAreOrdered
    <2>3. IsFiniteSet(Before(c)) /\ IsFiniteSet(Before(d))
          /\ Cardinality(Before(c)) \in Nat /\ Cardinality(Before(d)) \in Nat
        BY <1>2
    <2> HIDE DEF Before
    <2> QED
        BY <2>2, <2>3, FS_Subset
<1>5. ASSUME NEW c \in box, NEW d \in box
      PROVE  rank[c] = rank[d] => c = d
    <2>1. /\ Cardinality(Before(c)) \in Nat /\ Cardinality(Before(d)) \in Nat
          /\ YXZ(c, d) => Cardinality(Before(c)) < Cardinality(Before(d))
          /\ YXZ(d, c) => Cardinality(Before(d)) < Cardinality(Before(c))
          /\ c # d => YXZ(c, d) \/ YXZ(d, c)
        BY <1>2, <1>4, LoopsAreOrdered
    <2> HIDE DEF Before
    <2> QED
        BY <2>1
<1>6. rank \in Bijection(box, 1..N)
    <2>1. rank \in [box -> 1..N]
        BY <1>1, <1>2
    <2> HIDE DEF rank
    <2>2. rank \in Injection(box, 1..N)
        BY <1>5, <2>1 DEF Injection, IsInjective
    <2>3. IsFiniteSet(1..N) /\ Cardinality(1..N) = N
        BY <1>1, FS_Interval
    <2>4. rank \in Surjection(box, 1..N)
        BY <2>2, <2>3, FS_Injection
    <2> QED
        BY <2>2, <2>4 DEF Bijection
<1>7. ASSUME NEW n \in 1..N
      PROVE  /\ InLoopOrder(box)[n] \in box
             /\ rank[InLoopOrder(box)[n]] = n
    <2>1. PICK c \in box : rank[c] = n
        BY <1>6 DEF Bijection, Surjection
    <2> HIDE DEF rank, Before
    <2>2. Cardinality(Before(c)) = n - 1
        BY <1>3, <2>1
    <2>3. InLoopOrder(box)[n] = CHOOSE d \in box : Cardinality(Before(d)) = n - 1
        BY DEF InLoopOrder, Before
    <2>4. /\ InLoopOrder(box)[n] \in box
          /\ Cardinality(Before(InLoopOrder(box)[n])) = n - 1
        BY <2>2, <2>3
    <2> QED
        BY <1>3, <2>4
<1>8. DOMAIN InLoopOrder(box) = 1..N
    BY DEF InLoopOrder
<1>9. InLoopOrder(box) \in Seq(Triple)
    <2>1. InLoopOrder(box) \in [1..N -> Triple]
        BY <1>7, <1>8 DEF InLoopOrder
    <2> QED
        BY <1>1, <2>1
<1>10. {InLoopOrder(box)[n] : n \in 1..N} = box
    <2>1. ASSUME NEW c \in box
          PROVE  \E n \in 1..N : InLoopOrder(box)[n] = c
        <3>1. rank[c] \in 1..N
            BY <1>6 DEF Bijection, Surjection
        <3> QED
            BY <1>5, <1>7, <3>1
    <2> QED
        BY <1>7, <2>1
<1>11. ASSUME NEW m \in 1..N, NEW n \in 1..N, m < n
       PROVE  YXZ(InLoopOrder(box)[m], InLoopOrder(box)[n])
    <2> DEFINE a == InLoopOrder(box)[m]
               b == InLoopOrder(box)[n]
    <2>1. a \in box /\ b \in box /\ rank[a] = m /\ rank[b] = n
        BY <1>7
    <2> HIDE DEF a, b, rank
    <2>2. /\ Cardinality(Before(a)) < Cardinality(Before(b))
          /\ Cardinality(Before(a)) \in Nat /\ Cardinality(Before(b)) \in Nat
        <3> HIDE DEF Before
        <3> QED
            BY <1>11, <1>3, <2>1
    <2>3. ~YXZ(b, a) /\ a # b
        <3>1. YXZ(b, a) => Cardinality(Before(b)) < Cardinality(Before(a))
            BY <1>4, <2>1
        <3> HIDE DEF Before
        <3> QED
            BY <2>2, <3>1
    <2>4. YXZ(a, b)
        BY <2>1, <2>3, LoopsAreOrdered
    <2> QED
        BY <2>4 DEF a, b
<1> QED
    BY <1>8, <1>9, <1>10, <1>11

\* An offset gives each plan its own position.
LEMMA PositionsDiffer ==
    ASSUME plan.anchor \in Triple, NEW a \in Triple, NEW b \in Triple
    PROVE  /\ Position(a) \in [Coordinates -> Int]
           /\ Position(a) = Position(b) => a = b
           /\ a[2] <= b[2] => Position(a)[2] <= Position(b)[2]
<1>1. /\ plan.anchor[1] \in Int /\ plan.anchor[2] \in Int /\ plan.anchor[3] \in Int
      /\ a = <<a[1], a[2], a[3]>> /\ a[1] \in Int /\ a[2] \in Int /\ a[3] \in Int
      /\ b = <<b[1], b[2], b[3]>> /\ b[1] \in Int /\ b[2] \in Int /\ b[3] \in Int
    BY DEF Triple
<1>2. \A c \in {a, b} : /\ Position(c)[1] = plan.anchor[1] + c[1]
                        /\ Position(c)[2] = plan.anchor[2] + c[2]
                        /\ Position(c)[3] = plan.anchor[3] + c[3]
    BY DEF Position, Coordinates
<1>3. Position(a) \in [Coordinates -> Int]
    <2>1. \A i \in Coordinates : plan.anchor[i] + a[i] \in Int
        BY <1>1 DEF Coordinates
    <2> QED
        BY <2>1 DEF Position
<1>4. ASSUME Position(a) = Position(b)
      PROVE  a = b
    <2>1. a[1] = b[1] /\ a[2] = b[2] /\ a[3] = b[3]
        <3>1. /\ plan.anchor[1] + a[1] = plan.anchor[1] + b[1]
              /\ plan.anchor[2] + a[2] = plan.anchor[2] + b[2]
              /\ plan.anchor[3] + a[3] = plan.anchor[3] + b[3]
            BY <1>2, <1>4
        <3>2. \A z, x, y \in Int : z + x = z + y => x = y
            OBVIOUS
        <3> QED
            BY <1>1, <3>1, <3>2, Zenon
    <2>2. a = <<a[1], a[2], a[3]>> /\ b = <<b[1], b[2], b[3]>>
        BY <1>1
    <2>3. <<a[1], a[2], a[3]>> = <<b[1], b[2], b[3]>>
        BY <2>1
    <2> QED
        BY <2>2, <2>3, Zenon
<1> QED
    BY <1>1, <1>2, <1>3, <1>4

-----------------------------------------------------------------------------
(* The inductive invariant.                                                *)

Codes == {"unsupported_plan", "operation_limit", "invalid_box", "unsupported_block",
          "expanded_target_limit", "coordinate_overflow", "duplicate_target",
          "out_of_bounds"}

Typed ==
    /\ plan \in BuildPlans
    /\ index \in 0..Len(Operations)
    /\ cells \in Seq(Triple)
    /\ targets \in Seq([pos : [Coordinates -> Int], block : STRING])
    /\ conflicts \subseteq Codes
    /\ phase \in {"check", "expand", "done"}

\* The cells that are left are in the order of the loops, and no target is there
\* twice.
InLoops == \A m, n \in DOMAIN cells : m < n => YXZ(cells[m], cells[n])
Distinct == \A m, n \in DOMAIN targets : m < n => targets[m].pos # targets[n].pos

\* The cells that are left of the operation the loops are at, and those of an
\* operation that they are past.
LeftCells == {cells[n] : n \in DOMAIN cells}
Past(i) == IF i = index THEN Box(Operations[i]) \ LeftCells ELSE Box(Operations[i])

\* A conflict is the plan's fault, and without one the loops run to their end.
Verdict ==
    /\ conflicts # {} => phase # "check" /\ ~WellFormed
    /\ phase = "check" => conflicts = {} /\ index = 0 /\ targets = <<>>
    /\ index = 0 => cells = <<>>
    /\ phase = "done" /\ conflicts = {} => index = Len(Operations) /\ cells = <<>>

\* Nothing is wrong with what the loops are past.
NothingWrong ==
    /\ plan.supported /\ Len(Operations) \in 1..MaxOperations
    /\ \A i \in 1..index :
        /\ \A j \in Coordinates : Operations[i].from[j] <= Operations[i].to[j]
        /\ Operations[i].block \in Palette
        /\ \A c \in Past(i) : Position(c) \in World
    /\ \A i, j \in 1..index : i # j =>
        \A a \in Past(i), b \in Past(j) : Position(a) # Position(b)
    /\ Len(targets) <= MaxTargets

\* All of that is a target, and nothing else; each has an operation it is from,
\* and they are in order.
Origin(from) ==
    /\ \A n \in DOMAIN targets :
        /\ \E c \in Past(from[n]) : targets[n].pos = Position(c)
        /\ targets[n].block = Operations[from[n]].block
        /\ from[n] = index => \A c \in LeftCells : targets[n].pos[2] <= Position(c)[2]
    /\ \A m, n \in DOMAIN targets : m < n =>
        \/ from[m] < from[n]
        \/ from[m] = from[n] /\ targets[m].pos[2] <= targets[n].pos[2]

AllExpanded ==
    /\ LeftCells # {} => LeftCells \subseteq Box(Operations[index])
    /\ \A i \in 1..index : \A c \in Past(i) : Position(c) \in Seen
    /\ \E from \in [DOMAIN targets -> 1..index] : Origin(from)

Expanding == phase # "check" /\ conflicts = {} => NothingWrong /\ AllExpanded

IInv == Typed /\ InLoops /\ Distinct /\ Verdict /\ Expanding

-----------------------------------------------------------------------------
(* Steps.                                                                  *)

\* What Typed says of a plan and of the sequences.
LEMMA PlanTyped ==
    ASSUME Typed
    PROVE  /\ plan.anchor \in Triple /\ plan.supported \in BOOLEAN
           /\ Operations \in Seq(Operation)
           /\ Len(Operations) \in Nat /\ DOMAIN Operations = 1..Len(Operations)
           /\ \A i \in DOMAIN Operations : Operations[i] \in Operation
           /\ Len(cells) \in Nat /\ DOMAIN cells = 1..Len(cells)
           /\ \A n \in DOMAIN cells : cells[n] \in Triple
           /\ Len(targets) \in Nat /\ DOMAIN targets = 1..Len(targets)
           /\ \A n \in DOMAIN targets : targets[n].pos \in [Coordinates -> Int]
           /\ index \in Nat
<1>1. /\ plan.anchor \in Triple /\ plan.supported \in BOOLEAN
      /\ Operations \in Seq(Operation)
    BY PlanAssumption DEF Typed, Operations
<1>2. /\ Len(Operations) \in Nat /\ DOMAIN Operations = 1..Len(Operations)
      /\ \A i \in DOMAIN Operations : Operations[i] \in Operation
    BY <1>1, LenProperties, ElementOfSeq
<1>3. /\ Len(cells) \in Nat /\ DOMAIN cells = 1..Len(cells)
      /\ \A n \in DOMAIN cells : cells[n] \in Triple
    BY LenProperties, ElementOfSeq DEF Typed
<1>4. /\ Len(targets) \in Nat /\ DOMAIN targets = 1..Len(targets)
      /\ \A n \in DOMAIN targets : targets[n] \in [pos : [Coordinates -> Int], block : STRING]
    BY LenProperties, ElementOfSeq DEF Typed
<1>5. index \in Nat
    BY <1>2 DEF Typed
<1> QED
    BY <1>1, <1>2, <1>3, <1>4, <1>5

\* The loops begin with nothing done.
LEMMA InitInvariant == Init => IInv
<1> SUFFICES ASSUME Init PROVE IInv
    OBVIOUS
<1>1. Operations \in Seq(Operation)
    BY PlanAssumption DEF Init, Operations
<1>2. 0 \in 0..Len(Operations)
    BY <1>1, LenProperties
<1> QED
    BY <1>2, EmptySeq
    DEF Init, IInv, Typed, InLoops, Distinct, Verdict, Expanding

\* The plan as a whole is right or wrong before the loops begin.
LEMMA CheckStep ==
    ASSUME IInv, Check
    PROVE  IInv'
<1>1. /\ phase = "check" /\ conflicts = {} /\ index = 0 /\ targets = <<>> /\ cells = <<>>
      /\ UNCHANGED <<plan, index, cells, targets>>
    BY DEF IInv, Verdict, Check
<1>2. /\ conflicts' \subseteq {"unsupported_plan", "operation_limit"}
      /\ phase' = IF conflicts' = {} THEN "expand" ELSE "done"
    BY DEF Check
<1>3. CASE conflicts' = {}
    <2>1. plan.supported /\ Len(Operations) \in 1..MaxOperations
        BY <1>3, PlanTyped DEF Check, IInv
    <2>2. Len(targets) = 0 /\ MaxTargets \in Nat /\ DOMAIN targets = {}
        BY <1>1, PlanAssumption
    <2>3. NothingWrong'
        BY <1>1, <2>1, <2>2 DEF NothingWrong, Operations
    <2>4. AllExpanded'
        <3>1. /\ \A f : Origin(f) /\ LeftCells = {}
              /\ [n \in DOMAIN targets |-> 0] \in [DOMAIN targets -> 1..index]
            BY <1>1, <2>2 DEF Origin, LeftCells
        <3>2. (\A f : Origin(f)') /\ LeftCells' = LeftCells
            BY <1>1, <2>2 DEF Origin, LeftCells
        <3>3. \E f \in [DOMAIN targets -> 1..index] : Origin(f)'
            BY <3>1, <3>2
        <3>4. \A i \in 1..index' : i # i
            BY <1>1
        <3> QED
            BY <1>1, <3>1, <3>2, <3>3, <3>4 DEF AllExpanded
    <2> QED
        BY <1>1, <1>2, <1>3, <2>3, <2>4
        DEF IInv, Typed, InLoops, Distinct, Verdict, Expanding, Operations, Codes
<1>4. CASE conflicts' # {}
    <2>1. ~(plan.supported /\ Len(Operations) \in 1..MaxOperations)
        BY <1>4 DEF Check
    <2>2. ~WellFormed'
        BY <1>1, <2>1 DEF WellFormed, Operations
    <2> QED
        BY <1>1, <1>2, <1>4, <2>2
        DEF IInv, Typed, InLoops, Distinct, Verdict, Expanding, Operations, Codes
<1> QED
    BY <1>3, <1>4
\* Tuples, boxes and meaning depend on the plan only.
LEMMA PlanKept ==
    ASSUME plan' = plan
    PROVE  /\ Operations' = Operations
           /\ \A c : Position(c)' = Position(c)
           /\ WellFormed' <=> WellFormed
<1>1. Operations' = Operations /\ \A c : Position(c)' = Position(c)
    BY DEF Operations, Position
<1>2. \A i : Covered(i)' = Covered(i)
    BY <1>1 DEF Covered, Box
<1> QED
    BY <1>1, <1>2 DEF WellFormed

\* The loops at a cell: it comes before those that are left after it.
LEMMA HeadOfCells ==
    ASSUME Typed, InLoops, cells # <<>>
    PROVE  /\ Head(cells) \in LeftCells /\ LeftCells \subseteq Triple
           /\ Tail(cells) \in Seq(Triple) /\ Len(Tail(cells)) \in Nat
           /\ {Tail(cells)[n] : n \in DOMAIN Tail(cells)} = LeftCells \ {Head(cells)}
           /\ \A d \in LeftCells : Head(cells)[2] <= d[2]
           /\ \A m, n \in DOMAIN Tail(cells) : m < n => YXZ(Tail(cells)[m], Tail(cells)[n])
<1>1. cells \in Seq(Triple)
    BY DEF Typed
<1>2. /\ Len(cells) \in Nat \ {0} /\ DOMAIN cells = 1..Len(cells)
      /\ \A n \in 1..Len(cells) : cells[n] \in Triple
    BY <1>1, EmptySeq, LenProperties, ElementOfSeq
<1>3. /\ Tail(cells) \in Seq(Triple) /\ Len(Tail(cells)) = Len(cells) - 1
      /\ \A n \in 1..Len(Tail(cells)) : Tail(cells)[n] = cells[n + 1]
      /\ DOMAIN Tail(cells) = 1..Len(Tail(cells))
    BY <1>1, HeadTailProperties, LenProperties
<1>4. Head(cells) = cells[1]
    BY <1>1
<1>5. ASSUME NEW n \in 1..Len(Tail(cells))
      PROVE  /\ Tail(cells)[n] \in LeftCells
             /\ YXZ(Head(cells), Tail(cells)[n]) /\ Tail(cells)[n] # Head(cells)
    <2>1. n + 1 \in DOMAIN cells /\ 1 \in DOMAIN cells /\ 1 < n + 1
        BY <1>2, <1>3
    <2>2. YXZ(cells[1], cells[n + 1])
        BY <2>1 DEF InLoops
    <2>3. cells[1] \in Triple /\ cells[n + 1] \in Triple
        BY <1>2, <2>1
    <2>4. cells[1] # cells[n + 1]
        BY <2>2, <2>3, LoopsAreOrdered
    <2> QED
        BY <1>3, <1>4, <2>1, <2>2, <2>4 DEF LeftCells
<1>6. ASSUME NEW d \in LeftCells
      PROVE  d = Head(cells) \/ \E n \in 1..Len(Tail(cells)) : d = Tail(cells)[n]
    <2>1. PICK n \in 1..Len(cells) : d = cells[n]
        BY <1>2 DEF LeftCells
    <2>2. CASE n = 1
        BY <1>4, <2>1, <2>2
    <2>3. CASE n # 1
        <3>1. n - 1 \in 1..Len(Tail(cells)) /\ (n - 1) + 1 = n
            BY <1>2, <1>3, <2>3
        <3>2. Tail(cells)[n - 1] = cells[n]
            BY <1>3, <3>1
        <3> QED
            BY <2>1, <3>1, <3>2
    <2> QED
        BY <2>2, <2>3
<1>7. Head(cells) \in LeftCells /\ LeftCells \subseteq Triple
    BY <1>2, <1>4 DEF LeftCells
<1>8. {Tail(cells)[n] : n \in DOMAIN Tail(cells)} = LeftCells \ {Head(cells)}
    <2>1. \A n \in DOMAIN Tail(cells) : Tail(cells)[n] \in LeftCells \ {Head(cells)}
        BY <1>3, <1>5
    <2>2. \A d \in LeftCells \ {Head(cells)} : \E n \in DOMAIN Tail(cells) : Tail(cells)[n] = d
        BY <1>3, <1>6
    <2> QED
        BY <2>1, <2>2
<1>9. \A d \in LeftCells : Head(cells)[2] <= d[2]
    <2> SUFFICES ASSUME NEW d \in LeftCells PROVE Head(cells)[2] <= d[2]
        OBVIOUS
    <2>1. CASE d = Head(cells)
        BY <1>7, <2>1 DEF Triple
    <2>2. CASE d # Head(cells)
        <3>1. YXZ(Head(cells), d)
            BY <1>5, <1>6, <2>2
        <3> QED
            BY <1>7, <3>1, LoopsAreOrdered
    <2> QED
        BY <2>1, <2>2
<1>10. ASSUME NEW m \in DOMAIN Tail(cells), NEW n \in DOMAIN Tail(cells), m < n
       PROVE  YXZ(Tail(cells)[m], Tail(cells)[n])
    <2>1. m + 1 \in DOMAIN cells /\ n + 1 \in DOMAIN cells /\ m + 1 < n + 1
        BY <1>2, <1>3, <1>10
    <2>2. YXZ(cells[m + 1], cells[n + 1])
        BY <2>1 DEF InLoops
    <2> QED
        BY <1>3, <2>2
<1> QED
    BY <1>2, <1>3, <1>7, <1>8, <1>9, <1>10

\* The next operation: passed over if something is wrong with it, and taken up
\* cell by cell otherwise.
LEMMA NextOperationStep ==
    ASSUME IInv, NextOperation
    PROVE  IInv'
<1> DEFINE op == Operations[index + 1]
<1>1. /\ phase = "expand" /\ cells = <<>> /\ index' = index + 1
      /\ UNCHANGED <<plan, targets, phase>>
    BY DEF NextOperation
<1>2. /\ index \in Nat /\ index + 1 \in 1..Len(Operations) /\ op \in Operation
      /\ index + 1 \in DOMAIN Operations /\ Len(Operations) \in Nat
    BY PlanTyped DEF IInv, Typed, NextOperation
<1>3. /\ Operations' = Operations /\ \A c : Position(c)' = Position(c)
      /\ WellFormed' <=> WellFormed
    BY <1>1, PlanKept
<1>4. /\ IsFiniteSet(Box(op)) /\ Box(op) \subseteq Triple
      /\ InLoopOrder(Box(op)) \in Seq(Triple)
      /\ {InLoopOrder(Box(op))[n] : n \in DOMAIN InLoopOrder(Box(op))} = Box(op)
      /\ \A m, n \in DOMAIN InLoopOrder(Box(op)) :
            m < n => YXZ(InLoopOrder(Box(op))[m], InLoopOrder(Box(op))[n])
    BY <1>2, BoxesAreFinite, LoopOrder
<1>5. \/ /\ cells' = <<>> /\ ~WellFormed /\ conflicts' # {} /\ conflicts' \subseteq Codes
      \/ /\ \A i \in Coordinates : op.from[i] <= op.to[i]
         /\ op.block \in Palette
         /\ cells' = InLoopOrder(Box(op)) /\ conflicts' = conflicts
    <2>1. CASE \E i \in Coordinates : op.from[i] > op.to[i]
        <3>1. ~\A i \in Coordinates : op.from[i] <= op.to[i]
            BY <1>2, <2>1 DEF Operation, Triple, Coordinates
        <3>2. conflicts' = conflicts \cup {"invalid_box"} /\ cells' = <<>>
            BY <1>1, <3>1 DEF NextOperation, Problem
        <3> QED
            BY <1>2, <3>1, <3>2 DEF WellFormed, IInv, Typed, Codes
    <2>2. CASE ~\E i \in Coordinates : op.from[i] > op.to[i]
        <3>1. CASE op.block \in Palette
            BY <1>1, <2>2, <3>1 DEF NextOperation
        <3>2. CASE op.block \notin Palette
            <4>1. conflicts' = conflicts \cup {"unsupported_block"} /\ cells' = <<>>
                BY <1>1, <2>2, <3>2 DEF NextOperation, Problem
            <4> QED
                BY <1>2, <3>2, <4>1 DEF WellFormed, IInv, Typed, Codes
        <3> QED
            BY <3>1, <3>2
    <2> QED
        BY <2>1, <2>2
<1>6. Typed' /\ InLoops' /\ Distinct'
    <2>1. cells' \in Seq(Triple) /\ InLoops'
        <3>1. CASE cells' = <<>>
            <4>1. DOMAIN cells' = {}
                BY <3>1
            <4> QED
                BY <3>1, <4>1, EmptySeq DEF InLoops
        <3>2. CASE cells' = InLoopOrder(Box(op))
            BY <1>4, <3>2 DEF InLoops
        <3> QED
            BY <1>5, <3>1, <3>2
    <2>2. conflicts' \subseteq Codes
        BY <1>5 DEF IInv, Typed
    <2>3. index' \in 0..Len(Operations)
        BY <1>1, <1>2
    <2>4. Distinct'
        BY <1>1 DEF IInv, Distinct
    <2> QED
        BY <1>1, <1>3, <2>1, <2>2, <2>3, <2>4 DEF IInv, Typed
<1>7. Verdict'
    <2>1. index' # 0
        BY <1>1, <1>2
    <2>2. conflicts' # {} => ~WellFormed
        BY <1>5 DEF IInv, Verdict
    <2> QED
        BY <1>1, <1>3, <2>1, <2>2 DEF Verdict
<1>8. ASSUME conflicts' = {}
      PROVE  NothingWrong' /\ AllExpanded'
    <2>1. /\ \A i \in Coordinates : op.from[i] <= op.to[i]
          /\ op.block \in Palette
          /\ cells' = InLoopOrder(Box(op)) /\ conflicts = {}
          /\ NothingWrong /\ AllExpanded
        BY <1>1, <1>5, <1>8 DEF IInv, Expanding
    <2>2. LeftCells = {} /\ LeftCells' = Box(op)
        BY <1>1, <1>4, <2>1 DEF LeftCells
    <2>3. \A i \in 1..index : i # index' /\ i \in 1..index'
        BY <1>1, <1>2
    <2>4. \A i \in 1..index' : i \in 1..index \/ i = index + 1
        BY <1>1, <1>2
    <2>5. \A i \in 1..index : Past(i)' = Past(i)
        BY <1>3, <2>2, <2>3 DEF Past, Box
    <2>6. \A i : i = index + 1 => Past(i)' = {}
        BY <1>1, <1>3, <2>2 DEF Past, Box
    <2>7. NothingWrong'
        <3>1. plan.supported' /\ Len(Operations') \in 1..MaxOperations /\ Len(targets') <= MaxTargets
            BY <1>1, <1>3, <2>1 DEF NothingWrong
        <3>2. ASSUME NEW i \in 1..index'
              PROVE  /\ \A j \in Coordinates : Operations'[i].from[j] <= Operations'[i].to[j]
                     /\ Operations'[i].block \in Palette
                     /\ \A c \in Past(i)' : Position(c)' \in World
            <4>1. CASE i \in 1..index
                BY <1>3, <2>1, <2>5, <4>1 DEF NothingWrong
            <4>2. CASE i = index + 1
                BY <1>3, <2>1, <2>6, <4>2
            <4> QED
                BY <2>4, <4>1, <4>2
        <3>3. ASSUME NEW i \in 1..index', NEW j \in 1..index', i # j,
                     NEW a \in Past(i)', NEW b \in Past(j)'
              PROVE  Position(a)' # Position(b)'
            <4>1. i \in 1..index /\ j \in 1..index
                BY <2>4, <2>6
            <4> QED
                BY <1>3, <2>1, <2>5, <3>3, <4>1 DEF NothingWrong
        <3> QED
            BY <3>1, <3>2, <3>3 DEF NothingWrong
    <2>8. AllExpanded'
        <3>1. LeftCells' \subseteq Box(Operations[index])'
            BY <1>1, <1>3, <2>2 DEF Box
        <3>2. Seen' = Seen
            BY <1>1 DEF Seen
        <3>3. ASSUME NEW i \in 1..index', NEW c \in Past(i)'
              PROVE  Position(c)' \in Seen'
            <4>1. i \in 1..index
                BY <2>4, <2>6
            <4> QED
                BY <1>3, <2>1, <2>5, <3>2, <4>1 DEF AllExpanded
        <3>4. PICK from \in [DOMAIN targets -> 1..index] : Origin(from)
            BY <2>1 DEF AllExpanded
        <3>5. from \in [DOMAIN targets' -> 1..index']
            BY <1>1, <2>3
        <3>6. \A n \in DOMAIN targets : from[n] \in 1..index /\ from[n] # index'
            BY <2>3
        <3>7. Origin(from)'
            <4>1. ASSUME NEW n \in DOMAIN targets
                  PROVE  /\ \E c \in Past(from[n])' : targets'[n].pos = Position(c)'
                         /\ targets'[n].block = Operations'[from[n]].block
                         /\ from[n] # index'
                <5>1. /\ \E c \in Past(from[n]) : targets[n].pos = Position(c)
                      /\ targets[n].block = Operations[from[n]].block
                    BY <3>4 DEF Origin
                <5> QED
                    BY <1>1, <1>3, <2>5, <3>6, <5>1
            <4>2. \A m, n \in DOMAIN targets : m < n =>
                    \/ from[m] < from[n]
                    \/ from[m] = from[n] /\ targets[m].pos[2] <= targets[n].pos[2]
                BY <3>4 DEF Origin
            <4> QED
                BY <1>1, <4>1, <4>2 DEF Origin
        <3> QED
            BY <3>1, <3>3, <3>5, <3>7 DEF AllExpanded
    <2> QED
        BY <2>7, <2>8
<1> QED
    BY <1>6, <1>7, <1>8 DEF IInv, Expanding
\* The targets of a plan are finitely many positions, as many as there are
\* targets.
LEMMA SeenIsCounted ==
    ASSUME Typed, Distinct
    PROVE  IsFiniteSet(Seen) /\ Cardinality(Seen) = Len(targets)
<1> DEFINE f == [n \in 1..Len(targets) |-> targets[n].pos]
<1>1. Len(targets) \in Nat /\ DOMAIN targets = 1..Len(targets)
    BY PlanTyped
<1>2. IsFiniteSet(1..Len(targets)) /\ Cardinality(1..Len(targets)) = Len(targets)
    <2>1. \A n \in Nat : IsFiniteSet(1..n) /\ Cardinality(1..n) = n
        BY FS_Interval
    <2> QED
        BY <1>1, <2>1
<1>3. /\ f \in [1..Len(targets) -> Seen]
      /\ \A n \in 1..Len(targets) : f[n] = targets[n].pos
      /\ \A p \in Seen : \E n \in 1..Len(targets) : f[n] = p
    BY <1>1 DEF Seen
<1> HIDE DEF f
<1>4. f \in Surjection(1..Len(targets), Seen)
    BY <1>3 DEF Surjection
<1>5. \A m, n \in 1..Len(targets) : m # n => f[m] # f[n]
    <2> SUFFICES ASSUME NEW m \in 1..Len(targets), NEW n \in 1..Len(targets), m # n
                 PROVE  f[m] # f[n]
        OBVIOUS
    <2>1. m < n \/ n < m
        BY <1>1
    <2> QED
        BY <1>1, <1>3, <2>1 DEF Distinct
<1>6. f \in Injection(1..Len(targets), Seen)
    BY <1>3, <1>5 DEF Injection, IsInjective
<1> QED
    BY <1>2, <1>4, <1>6, FS_Surjection

\* The positions that a plan covers are finitely many.
LEMMA CoveredIsFinite ==
    ASSUME Typed
    PROVE  IsFiniteSet(UNION {Covered(i) : i \in DOMAIN Operations})
<1>1. /\ Len(Operations) \in Nat /\ DOMAIN Operations = 1..Len(Operations)
      /\ \A i \in DOMAIN Operations : Operations[i] \in Operation
    BY PlanTyped
<1>2. ASSUME NEW i \in DOMAIN Operations
      PROVE  IsFiniteSet(Covered(i))
    <2> DEFINE f == [c \in Box(Operations[i]) |-> Position(c)]
    <2>1. IsFiniteSet(Box(Operations[i]))
        BY <1>1, BoxesAreFinite
    <2>2. f \in Surjection(Box(Operations[i]), Covered(i))
        BY DEF Covered, Surjection
    <2> QED
        BY <2>1, <2>2, FS_Surjection
<1>3. IsFiniteSet({Covered(i) : i \in DOMAIN Operations})
    <2> DEFINE f == [i \in DOMAIN Operations |-> Covered(i)]
    <2>1. IsFiniteSet(DOMAIN Operations)
        BY <1>1, FS_Interval
    <2>2. f \in Surjection(DOMAIN Operations, {Covered(i) : i \in DOMAIN Operations})
        BY DEF Surjection
    <2> QED
        BY <2>1, <2>2, FS_Surjection
<1> QED
    BY <1>2, <1>3, FS_UNION

\* While nothing is wrong, what a target stands for is covered by its operation.
LEMMA TargetsAreCovered ==
    ASSUME IInv, phase # "check", conflicts = {}, NEW n \in DOMAIN targets
    PROVE  \E i \in 1..index : i \in DOMAIN Operations /\ \E c \in Past(i) :
               targets[n].pos = Position(c) /\ c \in Box(Operations[i]) /\ c \in Triple
<1>1. PICK from \in [DOMAIN targets -> 1..index] : Origin(from)
    BY DEF IInv, Expanding, AllExpanded
<1>2. PICK c \in Past(from[n]) : targets[n].pos = Position(c)
    BY <1>1 DEF Origin
<1>3. from[n] \in 1..index /\ from[n] \in DOMAIN Operations
    BY PlanTyped DEF IInv, Typed
<1>4. c \in Box(Operations[from[n]])
    BY DEF Past
<1>5. Operations[from[n]] \in Operation
    BY <1>3, PlanTyped DEF IInv
<1>6. Box(Operations[from[n]]) \subseteq Triple
    BY <1>5, BoxesAreFinite
<1> QED
    BY <1>2, <1>3, <1>4, <1>6

\* Where the loops are, they are in a box of the plan.
LEMMA HeadIsCovered ==
    ASSUME IInv, phase = "expand", cells # <<>>, conflicts = {}
    PROVE  /\ index \in 1..Len(Operations) /\ index \in DOMAIN Operations
           /\ Head(cells) \in Box(Operations[index])
           /\ Position(Head(cells)) \in Covered(index)
<1>1. index # 0
    BY DEF IInv, Verdict
<1>2. index \in 1..Len(Operations) /\ index \in DOMAIN Operations
    BY <1>1, PlanTyped DEF IInv, Typed
<1>3. Head(cells) \in LeftCells
    BY HeadOfCells DEF IInv
<1>4. Head(cells) \in Box(Operations[index])
    BY <1>3 DEF IInv, Expanding, AllExpanded
<1> QED
    BY <1>2, <1>4 DEF Covered

\* A target that is there already shows that two boxes of the plan overlap.
LEMMA DuplicateIsOverlap ==
    ASSUME IInv, phase = "expand", cells # <<>>, conflicts = {}, WellFormed
    PROVE  Position(Head(cells)) \notin Seen
<1> SUFFICES ASSUME NEW n \in DOMAIN targets, targets[n].pos = Position(Head(cells))
             PROVE  FALSE
    BY DEF Seen
<1>1. PICK i \in 1..index : i \in DOMAIN Operations /\ \E c \in Past(i) :
          targets[n].pos = Position(c) /\ c \in Box(Operations[i]) /\ c \in Triple
    BY TargetsAreCovered
<1>2. PICK c \in Past(i) :
          targets[n].pos = Position(c) /\ c \in Box(Operations[i]) /\ c \in Triple
    BY <1>1
<1>3. /\ index \in DOMAIN Operations /\ Head(cells) \in Box(Operations[index])
      /\ Position(Head(cells)) \in Covered(index)
    BY HeadIsCovered
<1>4. CASE i = index
    <2>1. c \notin LeftCells
        BY <1>2, <1>4 DEF Past
    <2>2. Head(cells) \in LeftCells /\ Head(cells) \in Triple /\ plan.anchor \in Triple
        BY HeadOfCells, PlanTyped DEF IInv
    <2>3. c = Head(cells)
        BY <1>2, <2>2, PositionsDiffer
    <2> QED
        BY <2>1, <2>2, <2>3
<1>5. CASE i # index
    <2>1. Position(Head(cells)) \in Covered(i)
        BY <1>2 DEF Covered
    <2>2. Covered(i) \cap Covered(index) = {}
        BY <1>1, <1>3, <1>5 DEF WellFormed
    <2> QED
        BY <1>3, <2>1, <2>2
<1> QED
    BY <1>4, <1>5

\* A cell to visit with the targets at their limit shows that the plan covers
\* too much.
LEMMA LimitIsExceeded ==
    ASSUME IInv, phase = "expand", cells # <<>>, conflicts = {},
           Len(targets) >= MaxTargets
    PROVE  ~WellFormed
<1> SUFFICES ASSUME WellFormed PROVE FALSE
    OBVIOUS
<1> DEFINE U == UNION {Covered(i) : i \in DOMAIN Operations}
           p == Position(Head(cells))
<1>1. p \notin Seen
    BY DuplicateIsOverlap
<1>2. IsFiniteSet(Seen) /\ Cardinality(Seen) = Len(targets) /\ Len(targets) \in Nat
    BY SeenIsCounted, PlanTyped DEF IInv
<1>3. IsFiniteSet(Seen \cup {p}) /\ Cardinality(Seen \cup {p}) = Len(targets) + 1
    BY <1>1, <1>2, FS_AddElement
<1>4. p \in U
    BY HeadIsCovered
<1>5. Seen \subseteq U
    <2> SUFFICES ASSUME NEW n \in DOMAIN targets PROVE targets[n].pos \in U
        BY DEF Seen
    <2>1. PICK i \in DOMAIN Operations : \E c \in Box(Operations[i]) :
              targets[n].pos = Position(c)
        BY TargetsAreCovered
    <2>2. targets[n].pos \in Covered(i)
        BY <2>1 DEF Covered
    <2> QED
        BY <2>2
<1>6. IsFiniteSet(U)
    BY CoveredIsFinite DEF IInv
<1>7. Cardinality(U) \in Nat /\ Cardinality(U) <= MaxTargets
    BY <1>6, FS_CardinalityType DEF WellFormed
<1> HIDE DEF U, p
<1>8. Len(targets) + 1 <= Cardinality(U)
    BY <1>3, <1>4, <1>5, <1>6, FS_Subset
<1>9. MaxTargets \in Nat
    BY PlanAssumption
<1> QED
    BY <1>2, <1>7, <1>8, <1>9
\* A cell is visited: it becomes a target, or the plan is at fault.
LEMMA VisitStep ==
    ASSUME IInv, Visit
    PROVE  IInv'
<1> DEFINE p == Position(Head(cells))
           new == [pos |-> p, block |-> Operations[index].block]
<1>1. /\ phase = "expand" /\ cells # <<>> /\ cells' = Tail(cells)
      /\ UNCHANGED <<plan, index>>
    BY DEF Visit
<1>2. /\ Operations' = Operations /\ \A c : Position(c)' = Position(c)
      /\ WellFormed' <=> WellFormed
    BY <1>1, PlanKept
<1>3. /\ Typed /\ InLoops /\ Distinct /\ Verdict /\ index # 0
      /\ index \in DOMAIN Operations /\ Operations[index] \in Operation
    BY <1>1, PlanTyped DEF IInv, Verdict, Typed
<1>4. /\ Head(cells) \in LeftCells /\ LeftCells \subseteq Triple
      /\ Tail(cells) \in Seq(Triple)
      /\ LeftCells' = LeftCells \ {Head(cells)}
      /\ \A d \in LeftCells : Head(cells)[2] <= d[2]
      /\ InLoops'
    BY <1>1, <1>3, HeadOfCells DEF InLoops, LeftCells
<1>5. /\ plan.anchor \in Triple /\ Len(targets) \in Nat /\ DOMAIN targets = 1..Len(targets)
      /\ MaxTargets \in Nat
    BY <1>3, PlanTyped, PlanAssumption
<1>6. p \in [Coordinates -> Int] /\ new \in [pos : [Coordinates -> Int], block : STRING]
    <2>1. Head(cells) \in Triple
        BY <1>4
    <2>2. p \in [Coordinates -> Int]
        BY <1>5, <2>1, PositionsDiffer
    <2> QED
        BY <1>3, <2>2 DEF Operation
<1>7. conflicts # {} => ~WellFormed
    BY <1>3 DEF Verdict
<1>8. \/ /\ UNCHANGED targets /\ conflicts' # {} /\ conflicts' \subseteq Codes
         /\ ~WellFormed /\ phase' \in {"expand", "done"}
      \/ /\ Len(targets) < MaxTargets /\ p \notin Seen /\ targets' = Append(targets, new)
         /\ phase' = "expand"
         /\ conflicts' \subseteq Codes /\ (conflicts' # {} => ~WellFormed)
         /\ conflicts' = {} => conflicts = {} /\ p \in World
    <2>1. CASE Len(targets) >= MaxTargets
        <3>1. ~(Len(targets) < MaxTargets)
            BY <1>5, <2>1
        <3>2. conflicts' = conflicts \cup {"expanded_target_limit"} /\ phase' = "done"
              /\ UNCHANGED targets
            BY <2>1, <3>1 DEF Visit, Problem
        <3>3. conflicts = {} => ~WellFormed
            BY <1>1, <2>1, LimitIsExceeded
        <3> QED
            BY <1>3, <1>7, <3>2, <3>3 DEF Typed, Codes
    <2>2. CASE Len(targets) < MaxTargets /\ Overflows(Head(cells))
        <3>1. ~(Len(targets) >= MaxTargets)
            BY <1>5, <2>2
        <3>2. conflicts' = conflicts \cup {"coordinate_overflow"}
              /\ UNCHANGED <<targets, phase>>
            BY <2>2, <3>1 DEF Visit, Problem
        <3>3. conflicts = {} => ~WellFormed
            <4>1. p \notin World
                BY <2>2, PlanAssumption DEF Overflows
            <4>2. conflicts = {} => p \in Covered(index)
                BY <1>1, HeadIsCovered
            <4> QED
                BY <1>3, <4>1, <4>2 DEF WellFormed
        <3> QED
            BY <1>1, <1>3, <1>7, <3>2, <3>3 DEF Typed, Codes
    <2>3. CASE Len(targets) < MaxTargets /\ ~Overflows(Head(cells)) /\ p \in Seen
        <3>1. ~(Len(targets) >= MaxTargets)
            BY <1>5, <2>3
        <3>2. conflicts' = conflicts \cup {"duplicate_target"}
              /\ UNCHANGED <<targets, phase>>
            BY <2>3, <3>1 DEF Visit, Problem
        <3>3. conflicts = {} => ~WellFormed
            BY <1>1, <2>3, DuplicateIsOverlap
        <3> QED
            BY <1>1, <1>3, <1>7, <3>2, <3>3 DEF Typed, Codes
    <2>4. CASE Len(targets) < MaxTargets /\ ~Overflows(Head(cells)) /\ p \notin Seen
        <3>1. ~(Len(targets) >= MaxTargets)
            BY <1>5, <2>4
        <3>2. /\ targets' = Append(targets, new) /\ UNCHANGED phase
              /\ conflicts' = IF p \in World THEN conflicts ELSE conflicts \cup {"out_of_bounds"}
            BY <2>4, <3>1 DEF Visit
        <3>3. conflicts = {} /\ p \notin World => ~WellFormed
            <4>1. conflicts = {} => p \in Covered(index)
                BY <1>1, HeadIsCovered
            <4> QED
                BY <1>3, <4>1 DEF WellFormed
        <3> QED
            BY <1>1, <1>3, <1>7, <2>4, <3>2, <3>3 DEF Typed, Codes
    <2> QED
        BY <1>5, <2>1, <2>2, <2>3, <2>4
<1>9. CASE UNCHANGED targets /\ conflicts' # {} /\ conflicts' \subseteq Codes
           /\ ~WellFormed /\ phase' \in {"expand", "done"}
    <2>1. Typed'
        BY <1>1, <1>2, <1>3, <1>4, <1>9 DEF Typed
    <2>2. Distinct' /\ Verdict' /\ Expanding'
        BY <1>1, <1>2, <1>3, <1>9 DEF Distinct, Verdict, Expanding
    <2> QED
        BY <1>4, <2>1, <2>2 DEF IInv
<1>10. ASSUME Len(targets) < MaxTargets, p \notin Seen, targets' = Append(targets, new),
              phase' = "expand", conflicts' \subseteq Codes, conflicts' # {} => ~WellFormed,
              conflicts' = {} => conflicts = {} /\ p \in World
       PROVE  IInv'
    <2> HIDE DEF p, new
    <2>1. /\ targets' \in Seq([pos : [Coordinates -> Int], block : STRING])
          /\ Len(targets') = Len(targets) + 1
          /\ DOMAIN targets' = 1..(Len(targets) + 1)
          /\ \A n \in 1..Len(targets) : targets'[n] = targets[n]
          /\ targets'[Len(targets) + 1] = new
        BY <1>3, <1>6, <1>10, AppendProperties, LenProperties DEF Typed
    <2>2. \A n \in 1..(Len(targets) + 1) : n \in 1..Len(targets) \/ n = Len(targets) + 1
        BY <1>5
    <2>3. new.pos = p /\ new.block = Operations[index].block
        BY DEF new
    <2>4. Seen' = Seen \cup {p}
        <3>1. \A q : q \in Seen' <=> \E n \in 1..(Len(targets) + 1) : q = targets'[n].pos
            BY <2>1 DEF Seen
        <3>2. \A q : q \in Seen <=> \E n \in 1..Len(targets) : q = targets[n].pos
            BY <1>5 DEF Seen
        <3>3. 1..Len(targets) \subseteq 1..(Len(targets) + 1)
              /\ Len(targets) + 1 \in 1..(Len(targets) + 1)
            BY <1>5
        <3> QED
            <4>1. \A n \in 1..Len(targets) : targets'[n].pos = targets[n].pos
                BY <2>1
            <4>2. targets'[Len(targets) + 1].pos = p
                BY <2>1, <2>3
            <4>3. ASSUME NEW q \in Seen' PROVE q \in Seen \cup {p}
                BY <2>2, <3>1, <3>2, <4>1, <4>2
            <4>4. ASSUME NEW q \in Seen PROVE q \in Seen'
                BY <3>1, <3>2, <3>3, <4>1
            <4>5. p \in Seen'
                BY <3>1, <3>3, <4>2
            <4> QED
                BY <4>3, <4>4, <4>5
    <2>5. Typed'
        BY <1>1, <1>2, <1>3, <1>4, <1>10, <2>1 DEF Typed
    <2>6. Distinct'
        <3> SUFFICES ASSUME NEW m \in 1..(Len(targets) + 1), NEW n \in 1..(Len(targets) + 1),
                            m < n
                     PROVE  targets'[m].pos # targets'[n].pos
            BY <2>1 DEF Distinct
        <3>1. m \in 1..Len(targets)
            BY <1>5
        <3>2. CASE n \in 1..Len(targets)
            BY <1>3, <1>5, <2>1, <3>1, <3>2 DEF Distinct
        <3>3. CASE n = Len(targets) + 1
            BY <1>5, <1>10, <2>1, <2>3, <3>1, <3>3 DEF Seen
        <3> QED
            BY <2>2, <3>2, <3>3
    <2>7. Verdict'
        BY <1>1, <1>2, <1>3, <1>10 DEF Verdict
    <2>8. ASSUME conflicts' = {}
          PROVE  NothingWrong' /\ AllExpanded'
        <3>1. /\ conflicts = {} /\ p \in World /\ NothingWrong /\ AllExpanded
              /\ LeftCells \subseteq Box(Operations[index])
            BY <1>1, <1>4, <1>10, <2>8 DEF IInv, Expanding, AllExpanded
        <3>2. /\ index' = index /\ index \in 1..index
              /\ \A i \in 1..index : i \in Int
            BY <1>1, <1>3, PlanTyped
        <3>3. /\ \A i : i # index => Past(i)' = Past(i)
              /\ \A i, c : i = index =>
                    (c \in Past(i)' <=> (c \in Past(i) \/ c = Head(cells)))
            BY <1>1, <1>2, <1>4, <3>1 DEF Past, Box
        <3>4. \A i : \A c : c \in Past(i)' => c \in Past(i) \/ (i = index /\ c = Head(cells))
            BY <3>3
        <3>5. \A i : \A c \in Past(i) : c \in Past(i)'
            BY <3>3
        <3>6. p = Position(Head(cells))
            BY DEF p
        <3>7. NothingWrong'
            <4>1. plan.supported' /\ Len(Operations') \in 1..MaxOperations
                  /\ Len(targets') <= MaxTargets
                BY <1>1, <1>2, <1>5, <1>10, <2>1, <3>1 DEF NothingWrong
            <4>2. ASSUME NEW i \in 1..index
                  PROVE  /\ \A j \in Coordinates : Operations'[i].from[j] <= Operations'[i].to[j]
                         /\ Operations'[i].block \in Palette
                         /\ \A c \in Past(i)' : Position(c)' \in World
                BY <1>2, <3>1, <3>4, <3>6 DEF NothingWrong
            <4>3. ASSUME NEW i \in 1..index, NEW j \in 1..index, i # j,
                         NEW a \in Past(i)', NEW b \in Past(j)'
                  PROVE  Position(a)' # Position(b)'
                <5>1. CASE a \in Past(i) /\ b \in Past(j)
                    BY <1>2, <3>1, <4>3, <5>1 DEF NothingWrong
                <5>2. CASE i = index /\ a = Head(cells)
                    <6>1. b \in Past(j)
                        BY <3>4, <4>3, <5>2
                    <6>2. Position(b) \in Seen
                        BY <3>1, <6>1 DEF AllExpanded
                    <6> QED
                        BY <1>2, <1>10, <3>6, <5>2, <6>2
                <5>3. CASE j = index /\ b = Head(cells)
                    <6>1. a \in Past(i)
                        BY <3>4, <4>3, <5>3
                    <6>2. Position(a) \in Seen
                        BY <3>1, <6>1 DEF AllExpanded
                    <6> QED
                        BY <1>2, <1>10, <3>6, <5>3, <6>2
                <5> QED
                    BY <3>4, <5>1, <5>2, <5>3
            <4> QED
                BY <3>2, <4>1, <4>2, <4>3 DEF NothingWrong
        <3>8. ASSUME NEW i \in 1..index, NEW c \in Past(i)'
              PROVE  Position(c)' \in Seen'
            BY <1>2, <2>4, <3>1, <3>4, <3>6 DEF AllExpanded
        <3>9. PICK from \in [DOMAIN targets -> 1..index] : Origin(from)
            BY <3>1 DEF AllExpanded
        <3>10. PICK then \in [1..(Len(targets) + 1) -> 1..index] :
                   /\ \A n \in 1..Len(targets) : then[n] = from[n] /\ then[n] \in 1..index
                   /\ then[Len(targets) + 1] = index
            <4> DEFINE f == [n \in 1..(Len(targets) + 1) |->
                                IF n \in 1..Len(targets) THEN from[n] ELSE index]
            <4>1. Len(targets) + 1 \notin 1..Len(targets)
                  /\ Len(targets) + 1 \in 1..(Len(targets) + 1)
                  /\ 1..Len(targets) \subseteq 1..(Len(targets) + 1)
                BY <1>5
            <4>2. \A n \in 1..Len(targets) : from[n] \in 1..index
                BY <1>5
            <4>3. /\ f \in [1..(Len(targets) + 1) -> 1..index]
                  /\ \A n \in 1..Len(targets) : f[n] = from[n] /\ f[n] \in 1..index
                  /\ f[Len(targets) + 1] = index
                BY <3>2, <4>1, <4>2
            <4> HIDE DEF f
            <4> QED
                BY <4>3
        <3>11. Origin(then)'
            <4>1. ASSUME NEW n \in 1..Len(targets)
                  PROVE  /\ \E c \in Past(then[n])' : targets'[n].pos = Position(c)'
                         /\ targets'[n].block = Operations'[then[n]].block
                         /\ then[n] = index' => \A c \in LeftCells' :
                                targets'[n].pos[2] <= Position(c)'[2]
                <5>1. /\ \E c \in Past(from[n]) : targets[n].pos = Position(c)
                      /\ targets[n].block = Operations[from[n]].block
                      /\ from[n] = index => \A c \in LeftCells :
                            targets[n].pos[2] <= Position(c)[2]
                    BY <1>5, <3>9 DEF Origin
                <5>2. targets'[n] = targets[n] /\ then[n] = from[n]
                    BY <2>1, <3>10
                <5>3. \A c \in LeftCells' : c \in LeftCells
                    BY <1>4
                <5> QED
                    BY <1>2, <3>2, <3>5, <5>1, <5>2, <5>3
            <4>2. ASSUME NEW n, n = Len(targets) + 1
                  PROVE  /\ \E c \in Past(then[n])' : targets'[n].pos = Position(c)'
                         /\ targets'[n].block = Operations'[then[n]].block
                         /\ then[n] = index' => \A c \in LeftCells' :
                                targets'[n].pos[2] <= Position(c)'[2]
                <5>1. targets'[n] = new /\ then[n] = index
                    BY <2>1, <3>10, <4>2
                <5>2. \A i : i = index => Head(cells) \in Past(i)'
                    BY <3>3
                <5>3. ASSUME NEW c \in LeftCells'
                      PROVE  p[2] <= Position(c)[2]
                    <6>1. /\ Head(cells) \in Triple /\ c \in Triple
                          /\ Head(cells)[2] <= c[2]
                        BY <1>4, <5>3
                    <6> QED
                        BY <1>5, <3>6, <6>1, PositionsDiffer
                <5> QED
                    BY <1>2, <2>3, <3>6, <5>1, <5>2, <5>3
            <4>3. ASSUME NEW m \in 1..(Len(targets) + 1), NEW n \in 1..(Len(targets) + 1),
                         m < n
                  PROVE  \/ then[m] < then[n]
                         \/ then[m] = then[n] /\ targets'[m].pos[2] <= targets'[n].pos[2]
                <5>1. m \in 1..Len(targets)
                    BY <1>5, <4>3
                <5>2. CASE n \in 1..Len(targets)
                    <6>1. \/ from[m] < from[n]
                          \/ from[m] = from[n] /\ targets[m].pos[2] <= targets[n].pos[2]
                        BY <1>5, <3>9, <4>3, <5>1, <5>2 DEF Origin
                    <6> QED
                        BY <2>1, <3>10, <5>1, <5>2, <6>1
                <5>3. CASE n = Len(targets) + 1
                    <6>1. then[n] = index /\ then[m] = from[m] /\ then[m] \in 1..index
                          /\ targets'[m] = targets[m] /\ targets'[n].pos = p
                        BY <2>1, <2>3, <3>10, <5>1, <5>3
                    <6>2. from[m] = index => targets[m].pos[2] <= p[2]
                        BY <1>4, <1>5, <3>6, <3>9, <5>1 DEF Origin
                    <6>3. then[m] < index \/ then[m] = index
                        BY <3>2, <6>1, PlanTyped DEF IInv
                    <6> QED
                        BY <6>1, <6>2, <6>3
                <5> QED
                    BY <2>2, <5>2, <5>3
            <4> QED
                BY <2>1, <2>2, <4>1, <4>2, <4>3 DEF Origin
        <3>12. LeftCells' \subseteq Box(Operations[index])'
            BY <1>1, <1>2, <1>4, <3>1 DEF Box
        <3>13. \A i \in 1..index' : \A c \in Past(i)' : Position(c)' \in Seen'
            BY <3>2, <3>8
        <3>14. then \in [DOMAIN targets' -> 1..index']
            BY <2>1, <3>2
        <3>15. AllExpanded'
            BY <3>11, <3>12, <3>13, <3>14 DEF AllExpanded
        <3> QED
            BY <3>7, <3>15
    <2> QED
        BY <1>4, <2>5, <2>6, <2>7, <2>8 DEF IInv, Expanding
<1> QED
    BY <1>8, <1>9, <1>10
\* What the loops have done depends on the plan, on where they are and on the
\* targets only.
LEMMA LoopsKept ==
    ASSUME UNCHANGED <<plan, index, cells, targets>>
    PROVE  /\ Operations' = Operations /\ (WellFormed' <=> WellFormed)
           /\ NothingWrong' <=> NothingWrong
           /\ AllExpanded' <=> AllExpanded
<1>1. /\ Operations' = Operations /\ \A c : Position(c)' = Position(c)
      /\ WellFormed' <=> WellFormed
    BY PlanKept
<1>2. LeftCells' = LeftCells /\ Seen' = Seen /\ \A i : Past(i)' = Past(i)
    BY <1>1 DEF LeftCells, Seen, Past, Box
<1>3. NothingWrong' <=> NothingWrong
    BY <1>1, <1>2 DEF NothingWrong
<1>4. \A f : Origin(f)' <=> Origin(f)
    BY <1>1, <1>2 DEF Origin
<1>5. AllExpanded' <=> AllExpanded
    BY <1>1, <1>2, <1>4 DEF AllExpanded, Box
<1> QED
    BY <1>1, <1>3, <1>5

\* Behind the last cell of the last operation the loops end.
LEMMA FinishStep ==
    ASSUME IInv, Finish
    PROVE  IInv'
<1>1. /\ phase = "expand" /\ cells = <<>> /\ index = Len(Operations) /\ phase' = "done"
      /\ UNCHANGED <<plan, index, cells, targets, conflicts>>
    BY DEF Finish
<1>2. /\ Operations' = Operations /\ (WellFormed' <=> WellFormed)
      /\ NothingWrong' <=> NothingWrong
      /\ AllExpanded' <=> AllExpanded
    BY <1>1, LoopsKept
<1> QED
    BY <1>1, <1>2 DEF IInv, Typed, InLoops, Distinct, Verdict, Expanding

\* Nothing changes in a step that leaves the variables alone.
LEMMA Stuttering ==
    ASSUME IInv, UNCHANGED vars
    PROVE  IInv'
<1>1. UNCHANGED <<plan, index, cells, targets, conflicts, phase>>
    BY DEF vars
<1>2. /\ Operations' = Operations /\ (WellFormed' <=> WellFormed)
      /\ NothingWrong' <=> NothingWrong
      /\ AllExpanded' <=> AllExpanded
    BY <1>1, LoopsKept
<1> QED
    BY <1>1, <1>2 DEF IInv, Typed, InLoops, Distinct, Verdict, Expanding

\* What the loops have done is right at every step.
THEOREM Invariant == Spec => []IInv
<1>1. IInv /\ [Next]_vars => IInv'
    BY CheckStep, NextOperationStep, VisitStep, FinishStep, Stuttering DEF Next
<1> QED
    BY InitInvariant, <1>1, PTL DEF Spec

-----------------------------------------------------------------------------
(* What it means for a plan.                                               *)

\* Behind the last cell every box has been passed as a whole.
LEMMA AllIsPast ==
    ASSUME IInv, phase = "done", conflicts = {}
    PROVE  /\ index = Len(Operations) /\ DOMAIN Operations = 1..index
           /\ \A i : Past(i) = Box(Operations[i])
           /\ NothingWrong /\ AllExpanded
           /\ Seen = UNION {Covered(i) : i \in DOMAIN Operations}
<1>1. index = Len(Operations) /\ cells = <<>> /\ NothingWrong /\ AllExpanded
    BY DEF IInv, Verdict, Expanding
<1>2. DOMAIN Operations = 1..index
    BY <1>1, PlanTyped DEF IInv
<1>3. LeftCells = {}
    BY <1>1 DEF LeftCells
<1>4. \A i : Past(i) = Box(Operations[i])
    BY <1>3 DEF Past
<1>5. ASSUME NEW q \in Seen
      PROVE  \E i \in DOMAIN Operations : q \in Covered(i)
    <2>1. PICK n \in DOMAIN targets : q = targets[n].pos
        BY DEF Seen
    <2>2. PICK i \in DOMAIN Operations : \E c \in Box(Operations[i]) :
              targets[n].pos = Position(c)
        BY TargetsAreCovered
    <2> QED
        BY <2>1, <2>2 DEF Covered
<1>6. ASSUME NEW i \in DOMAIN Operations, NEW q \in Covered(i)
      PROVE  q \in Seen
    <2>1. PICK c \in Box(Operations[i]) : q = Position(c)
        BY DEF Covered
    <2> QED
        BY <1>1, <1>2, <1>4, <2>1 DEF AllExpanded
<1> QED
    BY <1>1, <1>2, <1>4, <1>5, <1>6

\* A plan is free of conflicts exactly when it is well formed, whatever its
\* boxes are (build_plan.rs:136-272).
THEOREM VerdictIsRight == Spec => []ConflictsAreRight
<1>1. ASSUME IInv, phase = "done", conflicts = {}
      PROVE  WellFormed
    <2>1. plan.supported /\ Len(Operations) \in 1..MaxOperations
        BY <1>1, AllIsPast DEF NothingWrong
    <2>2. ASSUME NEW i \in DOMAIN Operations
          PROVE  /\ \A j \in Coordinates : Operations[i].from[j] <= Operations[i].to[j]
                 /\ Operations[i].block \in Palette
                 /\ Covered(i) \subseteq World
        BY <1>1, AllIsPast DEF NothingWrong, Covered
    <2>3. ASSUME NEW i \in DOMAIN Operations, NEW j \in DOMAIN Operations, i # j
          PROVE  Covered(i) \cap Covered(j) = {}
        BY <1>1, <2>3, AllIsPast DEF NothingWrong, Covered
    <2>4. Cardinality(UNION {Covered(i) : i \in DOMAIN Operations}) <= MaxTargets
        <3>1. /\ Seen = UNION {Covered(i) : i \in DOMAIN Operations}
              /\ Len(targets) <= MaxTargets
            BY <1>1, AllIsPast DEF NothingWrong
        <3>2. Cardinality(Seen) = Len(targets)
            BY <1>1, SeenIsCounted DEF IInv
        <3> QED
            BY <3>1, <3>2
    <2> QED
        BY <2>1, <2>2, <2>3, <2>4 DEF WellFormed
<1>2. IInv => ConflictsAreRight
    BY <1>1 DEF ConflictsAreRight, IInv, Verdict
<1> QED
    BY Invariant, <1>2, PTL

\* A plan free of conflicts is expanded whole, once and in order
\* (build_plan.rs:136-272).
THEOREM PlansAreExpandedWhole == Spec => []ExpansionIsWhole
<1>1. ASSUME IInv, phase = "done", conflicts = {}
      PROVE  ExpansionIsWhole
    <2>1. /\ DOMAIN Operations = 1..index /\ AllExpanded
          /\ \A i : Past(i) = Box(Operations[i])
          /\ Seen = UNION {Covered(i) : i \in DOMAIN Operations}
        BY <1>1, AllIsPast
    <2>2. PICK from \in [DOMAIN targets -> DOMAIN Operations] : Origin(from)
        BY <2>1 DEF AllExpanded
    <2>3. ASSUME NEW n \in DOMAIN targets
          PROVE  /\ targets[n].pos \in Covered(from[n])
                 /\ targets[n].block = Operations[from[n]].block
        <3>1. /\ \E c \in Past(from[n]) : targets[n].pos = Position(c)
              /\ targets[n].block = Operations[from[n]].block
            BY <2>2 DEF Origin
        <3> QED
            BY <2>1, <3>1 DEF Covered
    <2>4. \A m, n \in DOMAIN targets : m < n =>
              \/ from[m] < from[n]
              \/ from[m] = from[n] /\ targets[m].pos[2] <= targets[n].pos[2]
        BY <2>2 DEF Origin
    <2>5. \A m, n \in DOMAIN targets : m < n => targets[m].pos # targets[n].pos
        BY <1>1 DEF IInv, Distinct
    <2> QED
        BY <2>1, <2>2, <2>3, <2>4, <2>5 DEF ExpansionIsWhole
<1>2. IInv => ExpansionIsWhole
    BY <1>1 DEF ExpansionIsWhole
<1> QED
    BY Invariant, <1>2, PTL
=============================================================================
