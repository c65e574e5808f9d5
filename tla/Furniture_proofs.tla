-------------------------- MODULE Furniture_proofs --------------------------
(***************************************************************************)
(* What Furniture promises for every number of items, tiles, Room objects  *)
(* and handlers in flight.                                                 *)
(*                                                                         *)
(* NeverLost is not inductive: a piece that a handler is about to save may *)
(* already have a row, saved by a handler that moved it meanwhile, and the *)
(* sum then counts it twice.  Kept counts it once: rows whose own placing  *)
(* is still to be saved are left out, so that the save moves the piece     *)
(* from the handler to the table and leaves the sum alone.                 *)
(*                                                                         *)
(* SequentialEditsAgree speaks of the moments between two edits.  Its      *)
(* invariant says how far a lone handler has got: which of the table, the  *)
(* cache and the Room object it has changed, and what it holds (HalfDone). *)
(***************************************************************************)
EXTENDS Furniture, FiniteSetTheorems, TLAPS

\* The item of a handler that waits for its reservation is nowhere yet.
ReservedIsFresh ==
  \A o \in Busy : ops[o].step = "reserve" =>
    /\ ops[o].kind = "place"
    /\ table[ops[o].item] = NoItem /\ cache[ops[o].item] = NoItem
    /\ \A k \in Insts : mem[k][ops[o].item] = NoItem
    /\ \A p \in Busy \ {o} : ops[p].item # ops[o].item

\* An item is placed by one handler.
OnePlacer ==
  \A o, p \in Busy :
    ops[o].kind = "place" /\ ops[p].kind = "place" /\ ops[o].item = ops[p].item
      => o = p

\* Item i is in the hands of the handler that places it.
Placing(i) ==
  \E o \in Busy : ops[o].kind = "place" /\ ops[o].step = "save" /\ ops[o].item = i

Settled == {i \in Present(table) : ~Placing(i)}

Kept == ~mishap => stock + Cardinality(Settled) + Cardinality(Holding) >= Total

FInv == TypeOK /\ ReservedIsFresh /\ OnePlacer /\ Kept

USE FurnitureAssumption, OpAssumption

---------------------------------------------------------------------------
\* What Start, Goto and Finish do to the handlers.

LEMMA StartFacts ==
  ASSUME TypeOK, NEW o \in Ops, NEW kind, NEW i \in Items, NEW r \in Rows,
         NEW w \in Rows, NEW step \in Steps, current # NoInst,
         Start(o, kind, i, r, w, step)
  PROVE  /\ ops' \in [Ops -> OpRecords \cup {NoOp}] /\ overlapped' \in BOOLEAN
         /\ o \notin Busy /\ Busy' = Busy \cup {o}
         /\ \A p \in Busy : ops'[p] = ops[p]
         /\ ops'[o].kind = kind /\ ops'[o].item = i /\ ops'[o].step = step
<1> DEFINE new == [kind |-> kind, item |-> i, inst |-> current, row |-> r,
                   was |-> w, step |-> step]
<1>1. new \in OpRecords
  BY DEF Start, OpRecords, TypeOK
<1>2. ops' = [ops EXCEPT ![o] = new] /\ ops[o] = NoOp
  BY DEF Start
<1>3. new.kind = kind /\ new.item = i /\ new.step = step
  OBVIOUS
<1> HIDE DEF new
<1>4. new # NoOp
  BY <1>1
<1> QED
  BY <1>1, <1>2, <1>3, <1>4 DEF TypeOK, Busy, Start

LEMMA GotoFacts ==
  ASSUME TypeOK, NEW o \in Ops, ops[o] # NoOp, NEW step \in Steps, Goto(o, step)
  PROVE  /\ ops' \in [Ops -> OpRecords \cup {NoOp}]
         /\ o \in Busy /\ Busy' = Busy
         /\ \A p \in Busy \ {o} : ops'[p] = ops[p]
         /\ ops'[o].kind = ops[o].kind /\ ops'[o].item = ops[o].item
         /\ ops'[o].step = step
<1>1. ops[o] \in OpRecords
  BY DEF TypeOK
<1> DEFINE new == [ops[o] EXCEPT !.step = step]
<1>2. /\ new \in OpRecords /\ new.kind = ops[o].kind /\ new.item = ops[o].item
      /\ new.step = step
  BY <1>1 DEF OpRecords
<1>3. ops' = [ops EXCEPT ![o] = new]
  BY DEF Goto
<1> HIDE DEF new
<1>4. new # NoOp
  BY <1>2
<1> QED
  BY <1>2, <1>3, <1>4 DEF TypeOK, Busy

LEMMA FinishFacts ==
  ASSUME TypeOK, NEW o \in Ops, ops[o] # NoOp, Finish(o)
  PROVE  /\ ops' \in [Ops -> OpRecords \cup {NoOp}]
         /\ o \in Busy /\ Busy' = Busy \ {o}
         /\ \A p \in Busy \ {o} : ops'[p] = ops[p]
BY DEF TypeOK, Finish, Busy

\* A handler's record, field by field.
LEMMA OpType ==
  ASSUME TypeOK, NEW o \in Ops, ops[o] # NoOp
  PROVE  /\ o \in Busy
         /\ ops[o].kind \in Kinds /\ ops[o].item \in Items /\ ops[o].inst \in Insts
         /\ ops[o].row \in Rows /\ ops[o].was \in Rows /\ ops[o].step \in Steps
BY DEF TypeOK, OpRecords, Busy

LEMMA PutType ==
  ASSUME TypeOK, NEW k \in Insts, NEW i \in Items, NEW r \in Rows \cup {NoItem},
         mem' = Put(k, i, r)
  PROVE  /\ mem' \in [Insts -> Contents]
         /\ \A q \in Insts, j \in Items :
              mem'[q][j] = IF q = k /\ j = i THEN r ELSE mem[q][j]
<1>1. mem[k] \in Contents
  BY DEF TypeOK
<1>2. [mem[k] EXCEPT ![i] = r] \in Contents
  BY <1>1 DEF Contents
<1>3. mem' = [mem EXCEPT ![k] = [mem[k] EXCEPT ![i] = r]]
  BY DEF Put
<1> QED
  BY <1>1, <1>2, <1>3 DEF TypeOK, Contents

LEMMA EmptyType == Empty \in Contents
BY DEF Empty, Contents

---------------------------------------------------------------------------
\* Every step keeps the types and says of each handler what it became.

LEMMA TypeStep ==
  ASSUME TypeOK, [Next]_vars
  PROVE  TypeOK'
<1>1. ASSUME NEW o \in Ops, NEW i \in Items, NEW t \in Tiles, RequestPlace(o, i, t)
      PROVE  TypeOK'
  <2>1. [tile |-> t, on |-> FALSE] \in Rows /\ "reserve" \in Steps
    BY DEF Rows, Steps
  <2> QED
    BY <1>1, <2>1, StartFacts DEF RequestPlace, TypeOK
<1>2. ASSUME NEW o \in Ops, NEW i \in Items, NEW t \in Tiles, RequestMove(o, i, t)
      PROVE  TypeOK'
  <2>1. mem[current][i] \in Rows
    BY <1>2 DEF RequestMove, Present, TypeOK, Contents
  <2>2. [mem[current][i] EXCEPT !.tile = t] \in Rows /\ "save" \in Steps
    BY <2>1 DEF Rows, Steps
  <2> QED
    BY <1>2, <2>1, <2>2, StartFacts DEF RequestMove, TypeOK
<1>3. ASSUME NEW o \in Ops, NEW i \in Items, RequestPickup(o, i) PROVE TypeOK'
  <2>1. mem[current][i] \in Rows /\ "delete" \in Steps /\ current \in Insts
    BY <1>3 DEF RequestPickup, Present, TypeOK, Contents, Steps
  <2>2. mem' \in [Insts -> Contents]
    BY <1>3, <2>1, PutType DEF RequestPickup
  <2> QED
    BY <1>3, <2>1, <2>2, StartFacts DEF RequestPickup, TypeOK
<1>4. ASSUME NEW o \in Ops, NEW i \in Items, RequestInteract(o, i) PROVE TypeOK'
  <2> DEFINE r == [mem[current][i] EXCEPT !.on = ~@]
  <2>1. mem[current][i] \in Rows /\ "save" \in Steps /\ current \in Insts
    BY <1>4 DEF RequestInteract, Present, TypeOK, Contents, Steps
  <2>2. r \in Rows
    BY <2>1 DEF Rows
  <2>3. mem' = Put(current, i, r) /\ Start(o, "interact", i, r, mem[current][i], "save")
    BY <1>4 DEF RequestInteract
  <2> HIDE DEF r
  <2>4. mem' \in [Insts -> Contents]
    BY <2>1, <2>2, <2>3, PutType
  <2> QED
    BY <1>4, <2>1, <2>2, <2>3, <2>4, StartFacts DEF RequestInteract, TypeOK
<1>5. ASSUME NEW o \in Ops, NEW clear \in BOOLEAN, ReserveItem(o, clear)
      PROVE  TypeOK'
  <2>1. stock' \in Nat
    BY <1>5 DEF ReserveItem, InStock, TypeOK
  <2>2. mem' \in [Insts -> Contents]
    BY <1>5, OpType, PutType DEF ReserveItem, TypeOK
  <2>3. ops' \in [Ops -> OpRecords \cup {NoOp}]
    BY <1>5, GotoFacts DEF ReserveItem, Steps
  <2> QED
    BY <1>5, <2>1, <2>2, <2>3 DEF ReserveItem, TypeOK, history
<1>6. ASSUME NEW o \in Ops, ReserveRefused(o) PROVE TypeOK'
  BY <1>6, FinishFacts DEF ReserveRefused, TypeOK, history
<1>7. ASSUME NEW o \in Ops, SaveApplied(o) PROVE TypeOK'
  <2>1. table' \in Contents
    BY <1>7, OpType DEF SaveApplied, TypeOK, Contents
  <2> QED
    BY <1>7, <2>1, GotoFacts DEF SaveApplied, TypeOK, history, Steps
<1>8. ASSUME NEW o \in Ops, DeleteApplied(o) PROVE TypeOK'
  <2>1. table' \in Contents
    BY <1>8, OpType DEF DeleteApplied, TypeOK, Contents
  <2> QED
    BY <1>8, <2>1, GotoFacts DEF DeleteApplied, TypeOK, history, Steps
<1>9. ASSUME NEW o \in Ops, SavedInRoom(o) PROVE TypeOK'
  <2>1. cache' \in Contents
    BY <1>9, OpType DEF SavedInRoom, TypeOK, Contents
  <2> QED
    BY <1>9, <2>1, FinishFacts DEF SavedInRoom, TypeOK, history
<1>10. ASSUME NEW o \in Ops, NEW clear \in BOOLEAN, MoveSaved(o, clear)
       PROVE  TypeOK'
  <2> DEFINE k == ops[o].inst
             i == ops[o].item
             moved == [mem[k][i] EXCEPT !.tile = ops[o].row.tile]
  <2>1. k \in Insts /\ i \in Items /\ ops[o].row.tile \in Tiles
    BY <1>10, OpType DEF MoveSaved, Rows
  <2>2. CASE mem' = Put(k, i, moved) /\ cache' = [cache EXCEPT ![i] = moved]
             /\ i \in Present(mem[k]) /\ UNCHANGED mishap
    <3>1. mem[k][i] \in Rows
      BY <2>1, <2>2 DEF Present, TypeOK, Contents
    <3>2. moved \in Rows
      BY <2>1, <3>1 DEF Rows
    <3> HIDE DEF moved, k, i
    <3>3. mem' \in [Insts -> Contents] /\ cache' \in Contents
      BY <2>1, <2>2, <3>2, PutType DEF TypeOK, Contents
    <3> QED
      BY <1>10, <2>2, <3>3, FinishFacts DEF MoveSaved, TypeOK
  <2>3. CASE mishap' = TRUE /\ UNCHANGED <<mem, cache>>
    BY <1>10, <2>3, FinishFacts DEF MoveSaved, TypeOK
  <2> QED
    BY <1>10, <2>2, <2>3 DEF MoveSaved
<1>11. ASSUME NEW o \in Ops, SaveFailed(o) PROVE TypeOK'
  <2>1. ops[o] # NoOp /\ ops[o].inst \in Insts /\ ops[o].item \in Items
        /\ ops[o].was.on \in BOOLEAN
    BY <1>11, OpType DEF SaveFailed, Rows
  <2>2. mem' \in [Insts -> Contents]
    <3>1. CASE mem' = Put(ops[o].inst, ops[o].item, NoItem)
      BY <2>1, <3>1, PutType
    <3>2. CASE /\ ops[o].item \in Present(mem[ops[o].inst])
               /\ mem' = [mem EXCEPT ![ops[o].inst][ops[o].item].on = ops[o].was.on]
      <4> DEFINE r == [mem[ops[o].inst][ops[o].item] EXCEPT !.on = ops[o].was.on]
      <4>1. mem[ops[o].inst][ops[o].item] \in Rows
        BY <2>1, <3>2 DEF Present, TypeOK, Contents
      <4>2. r \in Rows
        BY <2>1, <4>1 DEF Rows
      <4>3. mem' = Put(ops[o].inst, ops[o].item, r)
        BY <3>2 DEF Put
      <4> HIDE DEF r
      <4> QED
        BY <2>1, <4>2, <4>3, PutType
    <3>3. CASE UNCHANGED mem
      BY <3>3 DEF TypeOK
    <3> QED
      BY <1>11, <3>1, <3>2, <3>3 DEF SaveFailed
  <2>3. ops' \in [Ops -> OpRecords \cup {NoOp}]
    BY <1>11, <2>1, GotoFacts, FinishFacts DEF SaveFailed, PlaceUndone, Steps
  <2> QED
    BY <1>11, <2>2, <2>3 DEF SaveFailed, TypeOK, history
<1>12. ASSUME NEW o \in Ops, Deleted(o) PROVE TypeOK'
  BY <1>12, GotoFacts DEF Deleted, TypeOK, history, Steps
<1>13. ASSUME NEW o \in Ops, NEW clear \in BOOLEAN, DeleteFailed(o, clear)
       PROVE  TypeOK'
  <2>1. mem' \in [Insts -> Contents]
    BY <1>13, OpType, PutType DEF DeleteFailed, TypeOK
  <2> QED
    BY <1>13, <2>1, FinishFacts DEF DeleteFailed, TypeOK
<1>14. ASSUME NEW o \in Ops, RefundItem(o) PROVE TypeOK'
  <2>1. cache' \in Contents
    BY <1>14, OpType DEF RefundItem, AfterRefund, TypeOK, Contents
  <2> QED
    BY <1>14, <2>1, FinishFacts DEF RefundItem, TypeOK, history
<1>15. ASSUME NEW o \in Ops, RefundFailed(o) PROVE TypeOK'
  BY <1>15, FinishFacts DEF RefundFailed, TypeOK
<1>16. CASE LastUserLeaves
  BY <1>16, EmptyType DEF LastUserLeaves, TypeOK
<1>17. ASSUME NEW k \in Insts, FirstUserJoins(k) PROVE TypeOK'
  BY <1>17 DEF FirstUserJoins, TypeOK
<1>18. CASE Restart
  BY <1>18, EmptyType DEF Restart, TypeOK
<1>19. CASE UNCHANGED vars
  BY <1>19 DEF vars, history, TypeOK
<1> QED
  BY <1>1, <1>2, <1>3, <1>4, <1>5, <1>6, <1>7, <1>8, <1>9, <1>10, <1>11, <1>12,
     <1>13, <1>14, <1>15, <1>16, <1>17, <1>18, <1>19 DEF Next

\* Each variable keeps its type.
THEOREM FurnitureTypeCorrect == Spec => []TypeOK
<1>1. Init => TypeOK
  BY EmptyType DEF Init, TypeOK
<1>2. TypeOK /\ [Next]_vars => TypeOK'
  BY TypeStep
<1> QED
  BY <1>1, <1>2, PTL DEF Spec

---------------------------------------------------------------------------
\* A Room object whose item i is removed, put on a free tile or left on its
\* tile is stacked only if it was.
LEMMA NotStacked ==
  ASSUME TypeOK, NEW k \in Insts, NEW i \in Items, NEW r \in Rows \cup {NoItem},
         mem' = Put(k, i, r), NEW q \in Insts, Stacked(mem'[q]),
         \/ r = NoItem
         \/ Fits(k, i, r.tile)
         \/ i \in Present(mem[k]) /\ r.tile = mem[k][i].tile
  PROVE  Stacked(mem[q])
<1>1. mem'[q] = [mem[q] EXCEPT ![i] = IF q = k THEN r ELSE @]
  BY PutType DEF TypeOK, Contents, Put
<1>2. \A j \in Items : mem'[q][j] = IF q = k /\ j = i THEN r ELSE mem[q][j]
  BY PutType
<1>3. PICK a, b \in Present(mem'[q]) : a # b /\ mem'[q][a].tile = mem'[q][b].tile
  BY DEF Stacked
<1>4. a \in Items /\ b \in Items
  BY DEF Present
<1>5. CASE q # k \/ (a # i /\ b # i)
  BY <1>2, <1>3, <1>4, <1>5 DEF Stacked, Present
<1>6. CASE q = k /\ (a = i \/ b = i)
  <2>1. i \in Present(mem'[q]) /\ mem'[q][i] = r /\ r # NoItem
    BY <1>2, <1>3, <1>4, <1>6 DEF Present
  <2>2. PICK j \in Items \ {i} : /\ mem[q][j] # NoItem
                                 /\ mem[q][j].tile = r.tile
    BY <1>2, <1>3, <1>4, <1>6, <2>1 DEF Present
  <2>3. j \in Present(mem[k]) \ {i}
    BY <1>6, <2>2 DEF Present
  <2>4. i \in Present(mem[k]) /\ r.tile = mem[k][i].tile
    BY <1>6, <2>1, <2>2, <2>3 DEF Fits
  <2> QED
    BY <1>6, <2>2, <2>3, <2>4 DEF Stacked
<1> QED
  BY <1>5, <1>6

\* No handler puts two items of a Room object on one tile, whatever other
\* handlers and failed statements did between its validation and its write.
THEOREM NoHandlerStacks == Spec => HandlersNeverStack
<1> DEFINE Step == \A k \in Insts : Stacked(mem'[k])
                     => Stacked(mem[k]) \/ (current = NoInst /\ current' = k)
<1>1. TypeOK /\ [Next]_vars => [Step]_vars
  <2> SUFFICES ASSUME TypeOK, [Next]_vars, NEW q \in Insts, Stacked(mem'[q])
               PROVE  Stacked(mem[q]) \/ (current = NoInst /\ current' = q)
    OBVIOUS
  <2>1. CASE UNCHANGED mem
    BY <2>1
  <2>2. ASSUME NEW o \in Ops, NEW i \in Items, RequestPickup(o, i)
        PROVE  Stacked(mem[q])
    BY <2>2, NotStacked DEF RequestPickup, TypeOK
  <2>3. ASSUME NEW o \in Ops, NEW i \in Items, RequestInteract(o, i)
        PROVE  Stacked(mem[q])
    <3> DEFINE r == [mem[current][i] EXCEPT !.on = ~@]
    <3>1. mem[current][i] \in Rows /\ current \in Insts
      BY <2>3 DEF RequestInteract, Present, TypeOK, Contents
    <3>2. r \in Rows /\ r.tile = mem[current][i].tile
      BY <3>1 DEF Rows
    <3>3. mem' = Put(current, i, r) /\ i \in Present(mem[current])
      BY <2>3 DEF RequestInteract
    <3> HIDE DEF r
    <3> QED
      BY <3>1, <3>2, <3>3, NotStacked
  <2>4. ASSUME NEW o \in Ops, ops[o] # NoOp, NEW clear, MayPlace(o, clear),
               mem' = Put(ops[o].inst, ops[o].item, ops[o].row)
        PROVE  Stacked(mem[q])
    BY <2>4, OpType, NotStacked DEF MayPlace
  <2>5. ASSUME NEW o \in Ops, NEW clear \in BOOLEAN, MoveSaved(o, clear)
        PROVE  Stacked(mem[q])
    <3> DEFINE k == ops[o].inst
               i == ops[o].item
               moved == [mem[k][i] EXCEPT !.tile = ops[o].row.tile]
    <3>1. CASE UNCHANGED mem
      BY <3>1
    <3>2. CASE mem' = Put(k, i, moved) /\ i \in Present(mem[k]) /\ MayPlace(o, clear)
      <4>1. k \in Insts /\ i \in Items /\ ops[o].row.tile \in Tiles
        BY <2>5, OpType DEF MoveSaved, Rows
      <4>2. mem[k][i] \in Rows
        BY <3>2, <4>1 DEF Present, TypeOK, Contents
      <4>3. moved \in Rows /\ moved.tile = ops[o].row.tile
        BY <4>1, <4>2 DEF Rows
      <4>4. Fits(k, i, moved.tile)
        BY <3>2, <4>3 DEF MayPlace
      <4> HIDE DEF moved, k, i
      <4> QED
        BY <3>2, <4>1, <4>3, <4>4, NotStacked
    <3> QED
      BY <2>5, <3>1, <3>2 DEF MoveSaved
  <2>6. ASSUME NEW o \in Ops, SaveFailed(o) PROVE Stacked(mem[q])
    <3>1. ops[o] # NoOp /\ ops[o].inst \in Insts /\ ops[o].item \in Items
          /\ ops[o].was.on \in BOOLEAN
      BY <2>6, OpType DEF SaveFailed, Rows
    <3>2. CASE mem' = Put(ops[o].inst, ops[o].item, NoItem)
      BY <3>1, <3>2, NotStacked
    <3>3. CASE /\ ops[o].item \in Present(mem[ops[o].inst])
               /\ mem' = [mem EXCEPT ![ops[o].inst][ops[o].item].on = ops[o].was.on]
      <4> DEFINE r == [mem[ops[o].inst][ops[o].item] EXCEPT !.on = ops[o].was.on]
      <4>1. mem[ops[o].inst][ops[o].item] \in Rows
        BY <3>1, <3>3 DEF Present, TypeOK, Contents
      <4>2. r \in Rows /\ r.tile = mem[ops[o].inst][ops[o].item].tile
        BY <3>1, <4>1 DEF Rows
      <4>3. mem' = Put(ops[o].inst, ops[o].item, r)
        BY <3>3 DEF Put
      <4> HIDE DEF r
      <4> QED
        BY <3>1, <3>3, <4>2, <4>3, NotStacked
    <3>4. CASE UNCHANGED mem
      BY <3>4
    <3> QED
      BY <2>6, <3>2, <3>3, <3>4 DEF SaveFailed
  <2>7. CASE LastUserLeaves
    <3>1. ~Stacked(Empty)
      BY DEF Stacked, Present, Empty
    <3> QED
      BY <2>7, <3>1 DEF LastUserLeaves, TypeOK
  <2>8. ASSUME NEW k \in Insts, FirstUserJoins(k)
        PROVE  Stacked(mem[q]) \/ (current = NoInst /\ current' = q)
    BY <2>8 DEF FirstUserJoins, TypeOK
  <2>9. CASE Restart
    BY <2>9 DEF Restart, Stacked, Present, Empty
  <2>10. ASSUME NEW o \in Ops, NEW clear \in BOOLEAN,
                ReserveItem(o, clear) \/ DeleteFailed(o, clear)
         PROVE  Stacked(mem[q])
    BY <2>1, <2>4, <2>10 DEF ReserveItem, DeleteFailed
  <2> QED
    BY <2>1, <2>2, <2>3, <2>5, <2>6, <2>7, <2>8, <2>9, <2>10
       DEF Next, vars, RequestPlace, RequestMove, ReserveRefused, SaveApplied,
           SavedInRoom, DeleteApplied, Deleted, RefundItem, RefundFailed
<1> QED
  BY <1>1, FurnitureTypeCorrect, PTL DEF Spec, HandlersNeverStack

---------------------------------------------------------------------------
\* The sets that are counted are finite.
LEMMA Counted ==
  /\ IsFiniteSet(Settled) /\ Cardinality(Settled) \in Nat
  /\ IsFiniteSet(Settled') /\ Cardinality(Settled') \in Nat
  /\ IsFiniteSet(Holding) /\ Cardinality(Holding) \in Nat
  /\ IsFiniteSet(Present(table)) /\ Cardinality(Present(table)) \in Nat
  /\ Total \in Nat
<1>1. /\ Settled \subseteq Items /\ Settled' \subseteq Items
      /\ Holding \subseteq Ops /\ Present(table) \subseteq Items
      /\ Present(InitTable) \subseteq Items
  BY DEF Settled, Present, Holding, Busy
<1>2. IsFiniteSet(Present(InitTable)) /\ Cardinality(Present(InitTable)) \in Nat
  BY <1>1, FS_Subset, FS_CardinalityType
<1>3. Total \in Nat
  BY <1>2 DEF Total
<1> QED
  BY <1>1, <1>3, FS_Subset, FS_CardinalityType

\* The four ways in which a step moves a piece: not at all, from the stock
\* or from the table to a handler, and from a handler to either.

LEMMA NothingMoves ==
  ASSUME TypeOK, Kept, UNCHANGED stock, ~mishap' => ~mishap,
         Settled \subseteq Settled', Holding' = Holding
  PROVE  Kept'
<1>1. Cardinality(Settled) <= Cardinality(Settled')
  BY Counted, FS_Subset
<1>2. /\ Cardinality(Settled) \in Nat /\ Cardinality(Settled') \in Nat
      /\ Cardinality(Holding) \in Nat /\ Total \in Nat /\ stock \in Nat
  BY Counted DEF TypeOK
<1>3. Total' = Total
  BY DEF Total
<1> QED
  BY <1>1, <1>2, <1>3 DEF Kept

LEMMA ReservedFromStock ==
  ASSUME TypeOK, Kept, stock' = stock - 1, UNCHANGED mishap,
         Settled \subseteq Settled',
         NEW o, o \notin Holding, Holding' = Holding \cup {o}
  PROVE  Kept'
<1>1. Cardinality(Settled) <= Cardinality(Settled')
  BY Counted, FS_Subset
<1>2. Cardinality(Holding') = Cardinality(Holding) + 1
  BY Counted, FS_AddElement
<1>3. /\ Cardinality(Settled) \in Nat /\ Cardinality(Settled') \in Nat
      /\ Cardinality(Holding) \in Nat /\ Total \in Nat /\ stock \in Nat
  BY Counted DEF TypeOK
<1>4. Total' = Total
  BY DEF Total
<1> QED
  BY <1>1, <1>2, <1>3, <1>4 DEF Kept

LEMMA TakenFromTable ==
  ASSUME TypeOK, Kept, UNCHANGED <<stock, mishap>>,
         NEW i, Settled \ {i} \subseteq Settled',
         NEW o, o \notin Holding, Holding' = Holding \cup {o}
  PROVE  Kept'
<1>1. Cardinality(Settled) - 1 <= Cardinality(Settled \ {i})
      /\ Cardinality(Settled \ {i}) \in Nat
  <2>1. Cardinality(Settled \ {i})
          = IF i \in Settled THEN Cardinality(Settled) - 1 ELSE Cardinality(Settled)
    BY Counted, FS_RemoveElement
  <2>2. Cardinality(Settled \ {i}) \in Nat /\ Cardinality(Settled) \in Nat
    BY Counted, FS_Subset, FS_CardinalityType
  <2> QED
    BY <2>1, <2>2
<1>2. Cardinality(Settled \ {i}) <= Cardinality(Settled')
  BY Counted, FS_Subset
<1>3. Cardinality(Holding') = Cardinality(Holding) + 1
  BY Counted, FS_AddElement
<1>4. /\ Cardinality(Settled) \in Nat /\ Cardinality(Settled') \in Nat
      /\ Cardinality(Holding) \in Nat /\ Total \in Nat /\ stock \in Nat
  BY Counted DEF TypeOK
<1>5. Total' = Total
  BY DEF Total
<1> QED
  BY <1>1, <1>2, <1>3, <1>4, <1>5 DEF Kept

LEMMA SavedToTable ==
  ASSUME TypeOK, Kept, UNCHANGED <<stock, mishap>>,
         NEW i, i \notin Settled, Settled \cup {i} \subseteq Settled',
         NEW o \in Holding, Holding' = Holding \ {o}
  PROVE  Kept'
<1>1. Cardinality(Settled \cup {i}) = Cardinality(Settled) + 1
  BY Counted, FS_AddElement
<1>2. Cardinality(Settled \cup {i}) <= Cardinality(Settled')
  BY Counted, FS_Subset
<1>3. Cardinality(Holding') = Cardinality(Holding) - 1
  BY Counted, FS_RemoveElement
<1>4. /\ Cardinality(Settled) \in Nat /\ Cardinality(Settled') \in Nat
      /\ Cardinality(Holding) \in Nat /\ Total \in Nat /\ stock \in Nat
  BY Counted DEF TypeOK
<1>5. Total' = Total
  BY DEF Total
<1> QED
  BY <1>1, <1>2, <1>3, <1>4, <1>5 DEF Kept

LEMMA RefundedToStock ==
  ASSUME TypeOK, Kept, stock' = stock + 1, UNCHANGED mishap,
         Settled \subseteq Settled',
         NEW o \in Holding, Holding' = Holding \ {o}
  PROVE  Kept'
<1>1. Cardinality(Settled) <= Cardinality(Settled')
  BY Counted, FS_Subset
<1>2. Cardinality(Holding') = Cardinality(Holding) - 1
  BY Counted, FS_RemoveElement
<1>3. /\ Cardinality(Settled) \in Nat /\ Cardinality(Settled') \in Nat
      /\ Cardinality(Holding) \in Nat /\ Total \in Nat /\ stock \in Nat
  BY Counted DEF TypeOK
<1>4. Total' = Total
  BY DEF Total
<1> QED
  BY <1>1, <1>2, <1>3, <1>4 DEF Kept

---------------------------------------------------------------------------
\* How Holding and Placing change when one handler starts, goes on or ends.

IsHolding(o) == ops[o].step \in {"deleted", "refund"}
                \/ (ops[o].kind = "place" /\ ops[o].step = "save")

IsPlacing(o) == ops[o].kind = "place" /\ ops[o].step = "save"

\* A handler that neither held a piece before nor holds one now.
LEMMA StartCounts ==
  ASSUME TypeOK, NEW o \in Ops, o \notin Busy, Busy' = Busy \cup {o},
         \A p \in Busy : ops'[p] = ops[p], ~IsHolding(o)', UNCHANGED table
  PROVE  Holding' = Holding /\ Settled' = Settled
<1>1. Holding' = Holding
  BY DEF Holding, IsHolding
<1>2. \A i : Placing(i)' <=> Placing(i)
  BY DEF Placing, IsHolding
<1> QED
  BY <1>1, <1>2 DEF Settled, Present

\* Handler o goes on or ends.
LEMMA OtherHandlers ==
  ASSUME TypeOK, NEW o \in Busy, Busy' \in {Busy, Busy \ {o}},
         \A p \in Busy \ {o} : ops'[p] = ops[p],
         o \in Busy' => ops'[o].item = ops[o].item
  PROVE  /\ Holding' = (Holding \ {o})
                       \cup (IF o \in Busy' /\ IsHolding(o)' THEN {o} ELSE {})
         /\ o \in Holding <=> IsHolding(o)
         /\ \A i : i # ops[o].item => (Placing(i)' <=> Placing(i))
         /\ ~(o \in Busy' /\ IsPlacing(o)') => \A i : Placing(i)' => Placing(i)
         /\ (IsPlacing(o) <=> o \in Busy' /\ IsPlacing(o)')
              => \A i : Placing(i)' <=> Placing(i)
<1>1. /\ Holding' = (Holding \ {o})
                    \cup (IF o \in Busy' /\ IsHolding(o)' THEN {o} ELSE {})
      /\ o \in Holding <=> IsHolding(o)
  BY DEF Holding, IsHolding
<1>2. \A i : i # ops[o].item => (Placing(i)' <=> Placing(i))
  BY DEF Placing
<1>3. ~(o \in Busy' /\ IsPlacing(o)') => \A i : Placing(i)' => Placing(i)
  BY DEF Placing, IsPlacing
<1>4. (IsPlacing(o) <=> o \in Busy' /\ IsPlacing(o)')
        => \A i : Placing(i)' <=> Placing(i)
  BY DEF Placing, IsPlacing
<1> QED
  BY <1>1, <1>2, <1>3, <1>4

---------------------------------------------------------------------------
\* Handler o goes on or ends, and touches no item but its own.
HandlerStep(o) ==
  /\ o \in Busy /\ Busy' \in {Busy, Busy \ {o}}
  /\ \A p \in Busy \ {o} : ops'[p] = ops[p]
  /\ o \in Busy' => /\ ops'[o].kind = ops[o].kind /\ ops'[o].item = ops[o].item
                    /\ ops'[o].step # "reserve"
  /\ \A j \in Items \ {ops[o].item} :
       /\ table'[j] = table[j] /\ cache'[j] = cache[j]
       /\ \A k \in Insts : mem'[k][j] = mem[k][j]

LEMMA HandlerFresh ==
  ASSUME TypeOK, ReservedIsFresh, OnePlacer, NEW o \in Ops, HandlerStep(o)
  PROVE  ReservedIsFresh' /\ OnePlacer'
<1>1. OnePlacer'
  BY DEF OnePlacer, HandlerStep
<1>2. ASSUME NEW x \in Busy', ops'[x].step = "reserve"
      PROVE  /\ ops'[x].kind = "place"
             /\ table'[ops'[x].item] = NoItem /\ cache'[ops'[x].item] = NoItem
             /\ \A k \in Insts : mem'[k][ops'[x].item] = NoItem
             /\ \A p \in Busy' \ {x} : ops'[p].item # ops'[x].item
  <2>1. x # o /\ x \in Busy /\ ops'[x] = ops[x] /\ ops[x].step = "reserve"
    BY <1>2 DEF HandlerStep
  <2>2. ops[x].item \in Items
    BY <2>1, OpType DEF Busy
  <2>3. ops[x].item # ops[o].item
    BY <2>1 DEF ReservedIsFresh, HandlerStep
  <2>4. \A p \in Busy' \ {x} : p \in Busy /\ ops'[p].item = ops[p].item
    BY DEF HandlerStep
  <2> QED
    BY <2>1, <2>2, <2>3, <2>4 DEF ReservedIsFresh, HandlerStep
<1> QED
  BY <1>1, <1>2 DEF ReservedIsFresh

\* A handler starts: to place an item that is nowhere, or with one that is
\* in a Room object.
StartStep(o, i) ==
  /\ o \notin Busy /\ Busy' = Busy \cup {o} /\ o \in Busy'
  /\ \A p \in Busy : ops'[p] = ops[p]
  /\ ops'[o].item = i /\ UNCHANGED <<table, cache>>
  /\ \/ /\ ops'[o].kind = "place" /\ ops'[o].step = "reserve"
        /\ Fresh(i) /\ UNCHANGED mem
     \/ /\ ops'[o].kind # "place" /\ ops'[o].step # "reserve"
        /\ \E k \in Insts : mem[k][i] # NoItem
        /\ \A k \in Insts, j \in Items \ {i} : mem'[k][j] = mem[k][j]

LEMMA StartFresh ==
  ASSUME TypeOK, ReservedIsFresh, OnePlacer, NEW o \in Ops, NEW i \in Items,
         StartStep(o, i)
  PROVE  ReservedIsFresh' /\ OnePlacer'
<1>1. OnePlacer'
  BY DEF OnePlacer, StartStep, Fresh
<1>2. ASSUME NEW x \in Busy', ops'[x].step = "reserve"
      PROVE  /\ ops'[x].kind = "place"
             /\ table'[ops'[x].item] = NoItem /\ cache'[ops'[x].item] = NoItem
             /\ \A k \in Insts : mem'[k][ops'[x].item] = NoItem
             /\ \A p \in Busy' \ {x} : ops'[p].item # ops'[x].item
  <2>1. CASE x = o
    BY <1>2, <2>1 DEF StartStep, Fresh
  <2>2. CASE x # o
    <3>1. x \in Busy /\ ops'[x] = ops[x] /\ ops[x].step = "reserve"
      BY <1>2, <2>2 DEF StartStep
    <3>2. ops[x].item \in Items
      BY <3>1, OpType DEF Busy
    <3>3. ops[x].item # i
      BY <3>1 DEF ReservedIsFresh, StartStep, Fresh
    <3>4. \A p \in Busy' \ {x} : ops'[p].item # ops[x].item
      BY <3>1, <3>3 DEF StartStep, ReservedIsFresh
    <3> QED
      BY <3>1, <3>2, <3>3, <3>4 DEF ReservedIsFresh, StartStep
  <2> QED
    BY <2>1, <2>2
<1> QED
  BY <1>1, <1>2 DEF ReservedIsFresh

LEMMA StartInv ==
  ASSUME FInv, TypeOK', NEW o \in Ops, NEW i \in Items, StartStep(o, i),
         ~IsHolding(o)', UNCHANGED <<stock, mishap>>
  PROVE  FInv'
<1>1. ReservedIsFresh' /\ OnePlacer'
  BY StartFresh DEF FInv
<1>2. Holding' = Holding /\ Settled' = Settled
  BY StartCounts DEF FInv, StartStep
<1>3. Kept'
  BY <1>2, NothingMoves DEF FInv
<1> QED
  BY <1>1, <1>3 DEF FInv

---------------------------------------------------------------------------
\* The steps of a handler, by what they do to the count.

LEMMA QuietInv ==
  ASSUME FInv, TypeOK', NEW o \in Ops, HandlerStep(o),
         IsHolding(o) <=> o \in Busy' /\ IsHolding(o)',
         ~(o \in Busy' /\ IsPlacing(o)'),
         \A j \in Present(table) : table'[j] # NoItem,
         UNCHANGED stock, ~mishap' => ~mishap
  PROVE  FInv'
<1>1. ReservedIsFresh' /\ OnePlacer'
  BY HandlerFresh DEF FInv
<1>2. Holding' = Holding /\ \A i : Placing(i)' => Placing(i)
  <2>1. /\ o \in Busy /\ Busy' \in {Busy, Busy \ {o}}
        /\ \A p \in Busy \ {o} : ops'[p] = ops[p]
        /\ o \in Busy' => ops'[o].item = ops[o].item
    BY DEF HandlerStep
  <2>2. /\ Holding' = (Holding \ {o})
                      \cup (IF o \in Busy' /\ IsHolding(o)' THEN {o} ELSE {})
        /\ o \in Holding <=> IsHolding(o)
        /\ \A i : Placing(i)' => Placing(i)
    BY <2>1, OtherHandlers DEF FInv
  <2> QED
    BY <2>2
<1>3. Settled \subseteq Settled'
  BY <1>2 DEF Settled, Present
<1>4. Kept'
  BY <1>2, <1>3, NothingMoves DEF FInv
<1> QED
  BY <1>1, <1>4 DEF FInv

LEMMA ReserveInv ==
  ASSUME FInv, TypeOK', NEW o \in Ops, NEW clear \in BOOLEAN, ReserveItem(o, clear)
  PROVE  FInv'
<1>1. /\ o \in Busy /\ Busy' = Busy /\ \A p \in Busy \ {o} : ops'[p] = ops[p]
      /\ ops'[o].kind = ops[o].kind /\ ops'[o].item = ops[o].item
      /\ ops'[o].step \in {"save", "refund"}
  BY GotoFacts DEF ReserveItem, FInv, Steps
<1>2. /\ ops[o].step = "reserve" /\ ops[o].kind = "place"
      /\ table[ops[o].item] = NoItem
  BY <1>1 DEF ReserveItem, FInv, ReservedIsFresh
<1>3. HandlerStep(o)
  <2>1. \A k \in Insts, j \in Items \ {ops[o].item} : mem'[k][j] = mem[k][j]
    BY OpType, PutType DEF ReserveItem, FInv
  <2> QED
    BY <1>1, <2>1 DEF HandlerStep, ReserveItem
<1>4. ReservedIsFresh' /\ OnePlacer'
  BY <1>3, HandlerFresh DEF FInv
<1>5. ~IsHolding(o) /\ IsHolding(o)'
  BY <1>1, <1>2 DEF IsHolding
<1>6. /\ o \notin Holding /\ Holding' = Holding \cup {o}
      /\ \A i : i # ops[o].item => (Placing(i)' <=> Placing(i))
  BY <1>1, <1>5, OtherHandlers DEF FInv
<1>7. Settled \subseteq Settled'
  BY <1>2, <1>6 DEF Settled, Present, ReserveItem
<1>8. stock' = stock - 1 /\ UNCHANGED mishap
  BY DEF ReserveItem, history
<1>9. Kept'
  BY <1>6, <1>7, <1>8, ReservedFromStock DEF FInv
<1> QED
  BY <1>4, <1>9 DEF FInv

LEMMA SaveInv ==
  ASSUME FInv, TypeOK', NEW o \in Ops, SaveApplied(o)
  PROVE  FInv'
<1>1. /\ o \in Busy /\ Busy' = Busy /\ \A p \in Busy \ {o} : ops'[p] = ops[p]
      /\ ops'[o].kind = ops[o].kind /\ ops'[o].item = ops[o].item
      /\ ops'[o].step = "saved" /\ ops[o].step = "save"
  BY GotoFacts DEF SaveApplied, FInv, Steps
<1> DEFINE i == ops[o].item
<1>2. /\ i \in Items /\ ops[o].row \in Rows
      /\ \A j \in Items : table'[j] = IF j = i THEN ops[o].row ELSE table[j]
  BY OpType DEF SaveApplied, FInv, TypeOK, Contents
<1>3. HandlerStep(o) /\ UNCHANGED <<stock, mishap>>
  BY <1>1, <1>2 DEF HandlerStep, SaveApplied, history
<1>4. ~IsHolding(o)' /\ ~IsPlacing(o)'
  BY <1>1 DEF IsHolding, IsPlacing
<1>5. CASE ops[o].kind # "place"
  <2>1. ~IsHolding(o) /\ \A j \in Present(table) : table'[j] # NoItem
    BY <1>1, <1>2, <1>5 DEF IsHolding, Present
  <2> QED
    BY <1>3, <1>4, <2>1, QuietInv
<1>6. CASE ops[o].kind = "place"
  <2>1. ReservedIsFresh' /\ OnePlacer'
    BY <1>3, HandlerFresh DEF FInv
  <2>2. IsHolding(o) /\ Placing(i)
    BY <1>1, <1>6 DEF IsHolding, Placing
  <2>3. /\ o \in Holding /\ Holding' = Holding \ {o}
        /\ \A j : j # i => (Placing(j)' <=> Placing(j))
    BY <1>1, <1>4, <2>2, OtherHandlers DEF FInv
  <2>4. \A j : j = i => ~Placing(j)'
    BY <1>1, <1>6 DEF FInv, OnePlacer, Placing
  <2>5. i \notin Settled /\ Settled \cup {i} \subseteq Settled'
    <3> HIDE DEF i
    <3>1. i \notin Settled
      BY <2>2 DEF Settled
    <3>2. i \in Settled'
      BY <1>2, <2>4 DEF Settled, Present
    <3>3. \A j \in Settled : j \in Settled'
      BY <1>2, <2>3, <3>1 DEF Settled, Present
    <3> QED
      BY <3>1, <3>2, <3>3
  <2>6. Kept'
    BY <1>3, <2>3, <2>5, SavedToTable DEF FInv
  <2> QED
    BY <2>1, <2>6 DEF FInv
<1> QED
  BY <1>5, <1>6

LEMMA DeleteInv ==
  ASSUME FInv, TypeOK', NEW o \in Ops, DeleteApplied(o)
  PROVE  FInv'
<1>1. /\ o \in Busy /\ Busy' = Busy /\ \A p \in Busy \ {o} : ops'[p] = ops[p]
      /\ ops'[o].kind = ops[o].kind /\ ops'[o].item = ops[o].item
      /\ ops'[o].step = "deleted" /\ ops[o].step = "delete"
  BY GotoFacts DEF DeleteApplied, FInv, Steps
<1> DEFINE i == ops[o].item
<1>2. /\ i \in Items
      /\ \A j \in Items : table'[j] = IF j = i THEN NoItem ELSE table[j]
  BY OpType DEF DeleteApplied, FInv, TypeOK, Contents
<1>3. HandlerStep(o) /\ UNCHANGED <<stock, mishap>>
  BY <1>1, <1>2 DEF HandlerStep, DeleteApplied, history
<1>4. ReservedIsFresh' /\ OnePlacer'
  BY <1>3, HandlerFresh DEF FInv
<1>5. ~IsHolding(o) /\ IsHolding(o)' /\ ~IsPlacing(o) /\ ~IsPlacing(o)'
  BY <1>1 DEF IsHolding, IsPlacing
<1>6. /\ o \notin Holding /\ Holding' = Holding \cup {o}
      /\ \A j : Placing(j)' <=> Placing(j)
  BY <1>1, <1>5, OtherHandlers DEF FInv
<1>7. Settled \ {i} \subseteq Settled'
  BY <1>2, <1>6 DEF Settled, Present
<1>8. Kept'
  BY <1>3, <1>6, <1>7, TakenFromTable DEF FInv
<1> QED
  BY <1>4, <1>8 DEF FInv

LEMMA RefundInv ==
  ASSUME FInv, TypeOK', NEW o \in Ops, RefundItem(o)
  PROVE  FInv'
<1>1. /\ o \in Busy /\ Busy' = Busy \ {o} /\ \A p \in Busy \ {o} : ops'[p] = ops[p]
      /\ ops[o].step = "refund"
  BY FinishFacts DEF RefundItem, FInv
<1>2. HandlerStep(o)
  <2>1. \A j \in Items \ {ops[o].item} : cache'[j] = cache[j]
    BY OpType DEF RefundItem, AfterRefund, FInv, TypeOK, Contents
  <2> QED
    BY <1>1, <2>1 DEF HandlerStep, RefundItem
<1>3. ReservedIsFresh' /\ OnePlacer'
  BY <1>2, HandlerFresh DEF FInv
<1>4. IsHolding(o) /\ ~IsPlacing(o)
  BY <1>1 DEF IsHolding, IsPlacing
<1>5. /\ o \in Holding /\ Holding' = Holding \ {o}
      /\ \A j : Placing(j)' <=> Placing(j)
  BY <1>1, <1>4, OtherHandlers DEF FInv
<1>6. Settled' = Settled
  BY <1>5 DEF Settled, Present, RefundItem
<1>7. stock' = stock + 1 /\ UNCHANGED mishap
  BY DEF RefundItem, history
<1>8. Kept'
  BY <1>5, <1>6, <1>7, RefundedToStock DEF FInv
<1> QED
  BY <1>3, <1>8 DEF FInv

\* The handler ends, its piece in no hands but those of the room.
LEMMA EndInv ==
  ASSUME FInv, TypeOK', NEW o \in Ops, ops[o] # NoOp, ~IsHolding(o), Finish(o),
         \A j \in Items \ {ops[o].item} :
           cache'[j] = cache[j] /\ \A k \in Insts : mem'[k][j] = mem[k][j],
         UNCHANGED <<stock, table>>, ~mishap' => ~mishap
  PROVE  FInv'
<1>1. /\ o \in Busy /\ Busy' = Busy \ {o} /\ \A p \in Busy \ {o} : ops'[p] = ops[p]
  BY FinishFacts DEF FInv
<1>2. HandlerStep(o)
  BY <1>1 DEF HandlerStep
<1>3. \A j \in Present(table) : table'[j] # NoItem
  BY DEF Present
<1> QED
  BY <1>1, <1>2, <1>3, QuietInv

LEMMA SavedInRoomInv ==
  ASSUME FInv, TypeOK', NEW o \in Ops, SavedInRoom(o)
  PROVE  FInv'
<1>1. ~IsHolding(o)
  BY DEF SavedInRoom, IsHolding
<1>2. \A j \in Items \ {ops[o].item} : cache'[j] = cache[j]
  BY OpType DEF SavedInRoom, FInv, TypeOK, Contents
<1> QED
  BY <1>1, <1>2, EndInv DEF SavedInRoom, history

LEMMA MoveSavedInv ==
  ASSUME FInv, TypeOK', NEW o \in Ops, NEW clear \in BOOLEAN, MoveSaved(o, clear)
  PROVE  FInv'
<1> DEFINE k == ops[o].inst
           i == ops[o].item
           moved == [mem[k][i] EXCEPT !.tile = ops[o].row.tile]
<1>1. /\ ops[o] # NoOp /\ ~IsHolding(o) /\ k \in Insts /\ i \in Items
      /\ ops[o].row.tile \in Tiles
  BY OpType DEF MoveSaved, IsHolding, FInv, Rows
<1>2. \A j \in Items \ {i} :
        cache'[j] = cache[j] /\ \A q \in Insts : mem'[q][j] = mem[q][j]
  <2>1. CASE UNCHANGED <<mem, cache>>
    BY <2>1
  <2>2. CASE mem' = Put(k, i, moved) /\ cache' = [cache EXCEPT ![i] = moved]
             /\ i \in Present(mem[k])
    <3>1. mem[k][i] \in Rows
      BY <1>1, <2>2 DEF Present, FInv, TypeOK, Contents
    <3>2. moved \in Rows
      BY <1>1, <3>1 DEF Rows
    <3> HIDE DEF moved, k, i
    <3> QED
      BY <1>1, <2>2, <3>2, PutType DEF FInv, TypeOK, Contents
  <2> QED
    BY <2>1, <2>2 DEF MoveSaved
<1>3. ~mishap' => ~mishap
  BY DEF MoveSaved
<1> QED
  BY <1>1, <1>2, <1>3, EndInv DEF MoveSaved

LEMMA SaveFailedInv ==
  ASSUME FInv, TypeOK', NEW o \in Ops, SaveFailed(o)
  PROVE  FInv'
<1>1. /\ ops[o] # NoOp /\ ops[o].inst \in Insts /\ ops[o].item \in Items
      /\ ops[o].was.on \in BOOLEAN /\ ops[o].step = "save" /\ o \in Busy
  BY OpType DEF SaveFailed, FInv, Rows
<1>2. UNCHANGED <<stock, table, cache, mishap>>
  BY DEF SaveFailed, history
<1>3. CASE ops[o].kind = "place" /\ mem' = Put(ops[o].inst, ops[o].item, NoItem)
           /\ Goto(o, "refund")
  <2>1. /\ Busy' = Busy /\ \A p \in Busy \ {o} : ops'[p] = ops[p]
        /\ ops'[o].kind = ops[o].kind /\ ops'[o].item = ops[o].item
        /\ ops'[o].step = "refund"
    BY <1>1, <1>3, GotoFacts DEF FInv, Steps
  <2>2. \A q \in Insts, j \in Items \ {ops[o].item} : mem'[q][j] = mem[q][j]
    BY <1>1, <1>3, PutType DEF FInv
  <2>3. HandlerStep(o)
    BY <1>1, <1>2, <2>1, <2>2 DEF HandlerStep
  <2>4. IsHolding(o) /\ IsHolding(o)' /\ ~IsPlacing(o)'
    BY <1>1, <1>3, <2>1 DEF IsHolding, IsPlacing
  <2>5. \A j \in Present(table) : table'[j] # NoItem
    BY <1>2 DEF Present
  <2> QED
    BY <1>1, <1>2, <2>1, <2>3, <2>4, <2>5, QuietInv
<1>4. CASE ops[o].kind # "place" /\ Finish(o)
           /\ \A q \in Insts, j \in Items \ {ops[o].item} : mem'[q][j] = mem[q][j]
  <2>1. ~IsHolding(o)
    BY <1>1, <1>4 DEF IsHolding
  <2> QED
    BY <1>1, <1>2, <1>4, <2>1, EndInv
<1>5. ASSUME /\ ops[o].item \in Present(mem[ops[o].inst])
             /\ mem' = [mem EXCEPT ![ops[o].inst][ops[o].item].on = ops[o].was.on]
      PROVE  \A q \in Insts, j \in Items \ {ops[o].item} : mem'[q][j] = mem[q][j]
  <2> DEFINE r == [mem[ops[o].inst][ops[o].item] EXCEPT !.on = ops[o].was.on]
  <2>1. mem[ops[o].inst][ops[o].item] \in Rows
    BY <1>1, <1>5 DEF Present, FInv, TypeOK, Contents
  <2>2. r \in Rows
    BY <1>1, <2>1 DEF Rows
  <2>3. mem' = Put(ops[o].inst, ops[o].item, r)
    BY <1>5 DEF Put
  <2> HIDE DEF r
  <2> QED
    BY <1>1, <2>2, <2>3, PutType DEF FInv
<1> QED
  BY <1>3, <1>4, <1>5 DEF SaveFailed, PlaceUndone

LEMMA DeletedInv ==
  ASSUME FInv, TypeOK', NEW o \in Ops, Deleted(o)
  PROVE  FInv'
<1>1. /\ o \in Busy /\ Busy' = Busy /\ \A p \in Busy \ {o} : ops'[p] = ops[p]
      /\ ops'[o].kind = ops[o].kind /\ ops'[o].item = ops[o].item
      /\ ops'[o].step = "refund" /\ ops[o].step = "deleted"
  BY GotoFacts DEF Deleted, FInv, Steps
<1>2. HandlerStep(o) /\ UNCHANGED <<stock, mishap, table>>
  BY <1>1 DEF HandlerStep, Deleted, history
<1>3. IsHolding(o) /\ IsHolding(o)' /\ ~IsPlacing(o)'
  BY <1>1 DEF IsHolding, IsPlacing
<1>4. \A j \in Present(table) : table'[j] # NoItem
  BY <1>2 DEF Present
<1> QED
  BY <1>1, <1>2, <1>3, <1>4, QuietInv

LEMMA DeleteFailedInv ==
  ASSUME FInv, TypeOK', NEW o \in Ops, NEW clear \in BOOLEAN, DeleteFailed(o, clear)
  PROVE  FInv'
<1>1. ~IsHolding(o)
  BY DEF DeleteFailed, IsHolding
<1>2. \A k \in Insts, j \in Items \ {ops[o].item} : mem'[k][j] = mem[k][j]
  BY OpType, PutType DEF DeleteFailed, FInv
<1>3. ~mishap' => ~mishap
  BY DEF DeleteFailed
<1> QED
  BY <1>1, <1>2, <1>3, EndInv DEF DeleteFailed

---------------------------------------------------------------------------
\* The Room object comes and goes: no handler goes on, no row changes.
LEMMA RoomInv ==
  ASSUME FInv, TypeOK', UNCHANGED <<stock, table, cache, ops, mishap>>,
         \A k \in Insts : mem'[k] \in {mem[k], Empty, cache}
  PROVE  FInv'
<1>1. Busy' = Busy /\ Holding' = Holding /\ Settled' = Settled
  BY DEF Busy, Holding, Settled, Present, Placing
<1>2. OnePlacer'
  BY <1>1 DEF FInv, OnePlacer
<1>3. ReservedIsFresh'
  <2>1. \A o \in Busy : ops[o].item \in Items
    BY OpType DEF FInv, Busy
  <2>2. \A o \in Busy, k \in Insts : ops[o].step = "reserve" => mem'[k][ops[o].item] = NoItem
    BY <2>1 DEF FInv, ReservedIsFresh, Empty
  <2> QED
    BY <1>1, <2>2 DEF FInv, ReservedIsFresh
<1>4. Kept'
  BY <1>1, NothingMoves DEF FInv
<1> QED
  BY <1>2, <1>3, <1>4 DEF FInv

LEMMA RestartInv ==
  ASSUME FInv, TypeOK', Restart
  PROVE  FInv'
<1>1. Busy' = {}
  BY DEF Busy, Restart
<1>2. ReservedIsFresh' /\ OnePlacer'
  BY <1>1 DEF ReservedIsFresh, OnePlacer
<1>3. CASE Busy # {}
  BY <1>2, <1>3 DEF Restart, Kept, FInv
<1>4. CASE Busy = {}
  <2>1. Holding' = Holding /\ Settled' = Settled
    BY <1>1, <1>4 DEF Holding, Settled, Placing, Present, Restart
  <2>2. UNCHANGED stock /\ (~mishap' => ~mishap)
    BY DEF Restart
  <2>3. Kept'
    BY <2>1, <2>2, NothingMoves DEF FInv
  <2> QED
    BY <1>2, <2>3 DEF FInv
<1> QED
  BY <1>3, <1>4

---------------------------------------------------------------------------
\* The requests.
LEMMA RequestInv ==
  ASSUME FInv, TypeOK', NEW o \in Ops, NEW i \in Items, NEW t \in Tiles,
         \/ RequestPlace(o, i, t) \/ RequestMove(o, i, t)
         \/ RequestPickup(o, i) \/ RequestInteract(o, i)
  PROVE  FInv'
<1>1. CASE RequestPlace(o, i, t)
  <2> DEFINE r == [tile |-> t, on |-> FALSE]
  <2>1. r \in Rows
    BY DEF Rows
  <2>2. Start(o, "place", i, r, r, "reserve") /\ current # NoInst
    BY <1>1 DEF RequestPlace
  <2> HIDE DEF r
  <2>3. /\ o \notin Busy /\ Busy' = Busy \cup {o}
        /\ \A p \in Busy : ops'[p] = ops[p]
        /\ ops'[o].kind = "place" /\ ops'[o].item = i /\ ops'[o].step = "reserve"
    BY <2>1, <2>2, StartFacts DEF FInv, Steps
  <2>4. StartStep(o, i) /\ ~IsHolding(o)' /\ UNCHANGED <<stock, mishap>>
    BY <1>1, <2>3 DEF StartStep, RequestPlace, IsHolding
  <2> QED
    BY <2>4, StartInv
<1>2. ASSUME i \in Present(mem[current]), current # NoInst
      PROVE  current \in Insts /\ mem[current][i] \in Rows
  BY <1>2 DEF Present, FInv, TypeOK, Contents
<1>3. ASSUME NEW kind, NEW r \in Rows, NEW step \in {"save", "delete"},
             kind # "place", i \in Present(mem[current]), current # NoInst,
             Start(o, kind, i, r, mem[current][i], step),
             \A k \in Insts, j \in Items \ {i} : mem'[k][j] = mem[k][j],
             UNCHANGED <<stock, table, cache, mishap>>
      PROVE  FInv'
  <2>1. current \in Insts /\ mem[current][i] \in Rows /\ step \in Steps
    BY <1>2, <1>3 DEF Steps
  <2>2. /\ o \notin Busy /\ Busy' = Busy \cup {o}
        /\ \A p \in Busy : ops'[p] = ops[p]
        /\ ops'[o].kind = kind /\ ops'[o].item = i /\ ops'[o].step = step
    BY <1>3, <2>1, StartFacts DEF FInv
  <2>3. \E k \in Insts : mem[k][i] # NoItem
    BY <1>3, <2>1 DEF Present
  <2>4. StartStep(o, i) /\ ~IsHolding(o)'
    BY <1>3, <2>2, <2>3 DEF StartStep, IsHolding
  <2> QED
    BY <1>3, <2>4, StartInv
<1>4. CASE RequestMove(o, i, t)
  <2>1. [mem[current][i] EXCEPT !.tile = t] \in Rows
    BY <1>2, <1>4 DEF RequestMove, Rows
  <2> QED
    BY <1>3, <1>4, <2>1 DEF RequestMove
<1>5. CASE RequestPickup(o, i)
  <2>1. mem[current][i] \in Rows /\ current \in Insts
    BY <1>2, <1>5 DEF RequestPickup
  <2>2. \A k \in Insts, j \in Items \ {i} : mem'[k][j] = mem[k][j]
    BY <1>5, <2>1, PutType DEF RequestPickup, FInv
  <2> QED
    BY <1>3, <1>5, <2>1, <2>2 DEF RequestPickup
<1>6. CASE RequestInteract(o, i)
  <2> DEFINE r == [mem[current][i] EXCEPT !.on = ~@]
  <2>1. mem[current][i] \in Rows /\ current \in Insts
    BY <1>2, <1>6 DEF RequestInteract
  <2>2. r \in Rows
    BY <2>1 DEF Rows
  <2>3. mem' = Put(current, i, r) /\ Start(o, "interact", i, r, mem[current][i], "save")
    BY <1>6 DEF RequestInteract
  <2> HIDE DEF r
  <2>4. \A k \in Insts, j \in Items \ {i} : mem'[k][j] = mem[k][j]
    BY <2>1, <2>2, <2>3, PutType DEF FInv
  <2> QED
    BY <1>3, <1>6, <2>2, <2>3, <2>4 DEF RequestInteract
<1> QED
  BY <1>1, <1>4, <1>5, <1>6

---------------------------------------------------------------------------
\* Furniture is never lost, however the handlers of any number of requests
\* interleave and whichever of their statements fail, as long as refunds
\* succeed, the process lives and no Room refuses what was saved.
THEOREM NothingIsLost == Spec => []NeverLost
<1>1. Init => FInv
  <2> SUFFICES ASSUME Init PROVE FInv
    OBVIOUS
  <2>1. TypeOK
    BY EmptyType DEF Init, TypeOK
  <2>2. Busy = {}
    BY DEF Init, Busy
  <2>3. Holding = {} /\ Settled = Present(InitTable)
    BY <2>2 DEF Holding, Settled, Placing, Init
  <2>4. Cardinality(Holding) = 0
    BY <2>3, FS_EmptySet
  <2>5. stock + Cardinality(Settled) + Cardinality(Holding) >= Total
    <3>1. Cardinality(Settled) \in Nat
      BY Counted
    <3> QED
      BY <2>3, <2>4, <3>1 DEF Total, Init
  <2> QED
    BY <2>1, <2>2, <2>5 DEF FInv, ReservedIsFresh, OnePlacer, Kept
<1>2. FInv /\ [Next]_vars => FInv'
  <2> SUFFICES ASSUME FInv, [Next]_vars PROVE FInv'
    OBVIOUS
  <2>0. TypeOK'
    BY TypeStep DEF FInv
  <2>1. ASSUME NEW o \in Ops, NEW i \in Items, NEW t \in Tiles,
               RequestPlace(o, i, t) \/ RequestMove(o, i, t)
        PROVE  FInv'
    BY <2>0, <2>1, RequestInv
  <2>2. ASSUME NEW o \in Ops, NEW i \in Items,
               RequestPickup(o, i) \/ RequestInteract(o, i)
        PROVE  FInv'
    <3>1. \E t \in Tiles : TRUE
      <4>1. mem[current][i] \in Rows
        BY <2>2 DEF RequestPickup, RequestInteract, Present, FInv, TypeOK, Contents
      <4> QED
        BY <4>1 DEF Rows
    <3> QED
      BY <2>0, <2>2, <3>1, RequestInv
  <2>3. ASSUME NEW o \in Ops, NEW clear \in BOOLEAN, ReserveItem(o, clear)
        PROVE  FInv'
    BY <2>0, <2>3, ReserveInv
  <2>4. ASSUME NEW o \in Ops, NEW clear \in BOOLEAN, MoveSaved(o, clear)
        PROVE  FInv'
    BY <2>0, <2>4, MoveSavedInv
  <2>5. ASSUME NEW o \in Ops, NEW clear \in BOOLEAN, DeleteFailed(o, clear)
        PROVE  FInv'
    BY <2>0, <2>5, DeleteFailedInv
  <2>6. ASSUME NEW o \in Ops, ReserveRefused(o) PROVE FInv'
    <3>1. ~IsHolding(o)
      BY <2>6 DEF ReserveRefused, IsHolding
    <3> QED
      BY <2>0, <2>6, <3>1, EndInv DEF ReserveRefused, history
  <2>7. ASSUME NEW o \in Ops, SaveApplied(o) PROVE FInv'
    BY <2>0, <2>7, SaveInv
  <2>8. ASSUME NEW o \in Ops, SavedInRoom(o) PROVE FInv'
    BY <2>0, <2>8, SavedInRoomInv
  <2>9. ASSUME NEW o \in Ops, SaveFailed(o) PROVE FInv'
    BY <2>0, <2>9, SaveFailedInv
  <2>10. ASSUME NEW o \in Ops, DeleteApplied(o) PROVE FInv'
    BY <2>0, <2>10, DeleteInv
  <2>11. ASSUME NEW o \in Ops, Deleted(o) PROVE FInv'
    BY <2>0, <2>11, DeletedInv
  <2>12. ASSUME NEW o \in Ops, RefundItem(o) PROVE FInv'
    BY <2>0, <2>12, RefundInv
  <2>13. ASSUME NEW o \in Ops, RefundFailed(o) PROVE FInv'
    <3>1. /\ o \in Busy /\ Busy' = Busy \ {o}
          /\ \A p \in Busy \ {o} : ops'[p] = ops[p]
      BY <2>13, FinishFacts DEF RefundFailed, FInv
    <3>2. HandlerStep(o)
      BY <2>13, <3>1 DEF HandlerStep, RefundFailed
    <3>3. ReservedIsFresh' /\ OnePlacer'
      BY <3>2, HandlerFresh DEF FInv
    <3> QED
      BY <2>0, <2>13, <3>3 DEF FInv, Kept, RefundFailed
  <2>14. CASE LastUserLeaves
    <3>1. \A k \in Insts : mem'[k] \in {mem[k], Empty, cache}
      BY <2>14 DEF LastUserLeaves, FInv, TypeOK
    <3> QED
      BY <2>0, <2>14, <3>1, RoomInv DEF LastUserLeaves
  <2>15. ASSUME NEW k \in Insts, FirstUserJoins(k) PROVE FInv'
    <3>1. \A q \in Insts : mem'[q] \in {mem[q], Empty, cache}
      BY <2>15 DEF FirstUserJoins, FInv, TypeOK
    <3> QED
      BY <2>0, <2>15, <3>1, RoomInv DEF FirstUserJoins
  <2>16. CASE Restart
    BY <2>0, <2>16, RestartInv
  <2>17. CASE UNCHANGED vars
    BY <2>0, <2>17, RoomInv DEF vars, history
  <2> QED
    BY <2>1, <2>2, <2>3, <2>4, <2>5, <2>6, <2>7, <2>8, <2>9, <2>10, <2>11,
       <2>12, <2>13, <2>14, <2>15, <2>16, <2>17 DEF Next
<1>3. FInv => NeverLost
  <2> SUFFICES ASSUME FInv, ~mishap
               PROVE  stock + Cardinality(Present(table)) + Cardinality(Holding) >= Total
    BY DEF NeverLost
  <2>1. Cardinality(Settled) <= Cardinality(Present(table))
    <3>1. Settled \subseteq Present(table)
      BY DEF Settled
    <3> QED
      BY <3>1, Counted, FS_Subset
  <2>2. stock + Cardinality(Settled) + Cardinality(Holding) >= Total
    BY DEF FInv, Kept
  <2> QED
    BY <2>1, <2>2, Counted DEF FInv, TypeOK
<1> QED
  BY <1>1, <1>2, <1>3, PTL DEF Spec

\* The property of the run: types, and no piece lost.
THEOREM PiecesAreKept == Spec => []PiecesKept
BY FurnitureTypeCorrect, NothingIsLost, PTL DEF PiecesKept
---------------------------------------------------------------------------
(* Edits that do not overlap.  Between its awaits a lone handler has       *)
(* changed some of the copies and not others: how far it has got is in     *)
(* HalfDone, one line for each kind of handler and step.                   *)

\* The row of item i in the table, in the cache and in the current Room.
Copies(i, inTable, inCache, inRoom) ==
  table[i] = inTable /\ cache[i] = inCache /\ mem[current][i] = inRoom

\* n pieces are in the hands of a handler.
InHands(n) == stock + Cardinality(Present(table)) + n = Total

AllAgree ==
  /\ cache = table
  /\ current # NoInst => mem[current] = table
  /\ InHands(0)

PlaceHalfDone(o, i, row) ==
  /\ ops[o].kind = "place"
  /\ \/ ops[o].step = "reserve" /\ Copies(i, NoItem, NoItem, NoItem) /\ InHands(0)
     \/ ops[o].step = "save" /\ Copies(i, NoItem, NoItem, row) /\ InHands(1)
     \/ ops[o].step = "saved" /\ Copies(i, row, NoItem, row) /\ InHands(0)
     \/ ops[o].step = "refund" /\ Copies(i, NoItem, NoItem, NoItem) /\ InHands(1)

PickupHalfDone(o, i, row) ==
  /\ ops[o].kind = "pickup"
  /\ \/ ops[o].step = "delete" /\ Copies(i, row, row, NoItem) /\ InHands(0)
     \/ ops[o].step = "deleted" /\ Copies(i, NoItem, row, NoItem) /\ InHands(1)
     \/ ops[o].step = "refund" /\ Copies(i, NoItem, row, NoItem) /\ InHands(1)

MoveHalfDone(o, i, row, was) ==
  /\ ops[o].kind = "move" /\ InHands(0) /\ row.on = was.on
  /\ \/ ops[o].step = "save" /\ Copies(i, was, was, was)
     \/ ops[o].step = "saved" /\ Copies(i, row, was, was)

InteractHalfDone(o, i, row, was) ==
  /\ ops[o].kind = "interact" /\ InHands(0) /\ row.tile = was.tile
  /\ \/ ops[o].step = "save" /\ Copies(i, was, was, row)
     \/ ops[o].step = "saved" /\ Copies(i, row, was, row)

HalfDone(o) ==
  /\ current # NoInst /\ ops[o].inst = current
  /\ \A j \in Items \ {ops[o].item} : Copies(j, table[j], table[j], table[j])
  /\ \/ PlaceHalfDone(o, ops[o].item, ops[o].row)
     \/ PickupHalfDone(o, ops[o].item, ops[o].row)
     \/ MoveHalfDone(o, ops[o].item, ops[o].row, ops[o].was)
     \/ InteractHalfDone(o, ops[o].item, ops[o].row, ops[o].was)

Sequential ==
  ~overlapped /\ ~mishap =>
    \/ Busy = {} /\ AllAgree
    \/ \E o \in Busy : Busy = {o} /\ HalfDone(o)

\* A row that is written, and one that is deleted, in the number of rows.
LEMMA RowsCounted ==
  ASSUME TypeOK, NEW i \in Items, NEW r \in Rows \cup {NoItem},
         table' = [table EXCEPT ![i] = r]
  PROVE  /\ Cardinality(Present(table)) \in Nat
         /\ Cardinality(Present(table')) \in Nat
         /\ table[i] # NoItem /\ r # NoItem =>
              Cardinality(Present(table')) = Cardinality(Present(table))
         /\ table[i] = NoItem /\ r # NoItem =>
              Cardinality(Present(table')) = Cardinality(Present(table)) + 1
         /\ table[i] # NoItem /\ r = NoItem =>
              Cardinality(Present(table')) + 1 = Cardinality(Present(table))
<1>1. /\ IsFiniteSet(Present(table)) /\ IsFiniteSet(Present(table'))
      /\ Cardinality(Present(table)) \in Nat /\ Cardinality(Present(table')) \in Nat
  <2>1. Present(table) \subseteq Items /\ Present(table') \subseteq Items
    BY DEF Present
  <2> QED
    BY <2>1, FS_Subset, FS_CardinalityType
<1>2. CASE table[i] # NoItem /\ r # NoItem
  <2>1. Present(table') = Present(table)
    BY <1>2 DEF Present, TypeOK, Contents
  <2> QED
    BY <1>1, <1>2, <2>1
<1>3. CASE table[i] = NoItem /\ r # NoItem
  <2>1. i \notin Present(table) /\ Present(table') = Present(table) \cup {i}
    BY <1>3 DEF Present, TypeOK, Contents
  <2> QED
    BY <1>1, <1>3, <2>1, FS_AddElement
<1>4. CASE table[i] # NoItem /\ r = NoItem
  <2>1. i \in Present(table) /\ Present(table') = Present(table) \ {i}
    BY <1>4 DEF Present, TypeOK, Contents
  <2>2. Cardinality(Present(table')) = Cardinality(Present(table)) - 1
    BY <1>1, <2>1, FS_RemoveElement
  <2> QED
    BY <1>1, <1>4, <2>2
<1>5. CASE table[i] = NoItem /\ r = NoItem
  BY <1>1, <1>5
<1> QED
  BY <1>2, <1>3, <1>4, <1>5

\* Goto keeps everything else that a handler remembers.
LEMMA GotoKeeps ==
  ASSUME TypeOK, NEW o \in Ops, ops[o] # NoOp, NEW step \in Steps, Goto(o, step)
  PROVE  /\ Busy' = Busy /\ ops'[o].step = step
         /\ ops'[o].kind = ops[o].kind /\ ops'[o].item = ops[o].item
         /\ ops'[o].inst = ops[o].inst /\ ops'[o].row = ops[o].row
         /\ ops'[o].was = ops[o].was
<1>1. Busy' = Busy /\ ops'[o].step = step
  BY GotoFacts
<1>2. ops'[o] = [ops[o] EXCEPT !.step = step] /\ ops[o] \in OpRecords
  BY DEF Goto, TypeOK
<1> QED
  BY <1>1, <1>2 DEF OpRecords

LEMMA StartKeeps ==
  ASSUME TypeOK, NEW o \in Ops, NEW kind, NEW i \in Items, NEW r \in Rows,
         NEW w \in Rows, NEW step \in Steps, current # NoInst,
         Start(o, kind, i, r, w, step)
  PROVE  /\ ops'[o].kind = kind /\ ops'[o].item = i /\ ops'[o].step = step
         /\ ops'[o].inst = current /\ ops'[o].row = r /\ ops'[o].was = w
         /\ Busy' = Busy \cup {o}
         /\ ~overlapped' => Busy = {} /\ ~overlapped
<1>1. Busy' = Busy \cup {o}
  BY StartFacts
<1>2. ops'[o] = [kind |-> kind, item |-> i, inst |-> current, row |-> r,
                 was |-> w, step |-> step]
  BY DEF Start, TypeOK
<1>3. overlapped' = (overlapped \/ Busy # {})
  BY DEF Start
<1>4. ~overlapped' => Busy = {} /\ ~overlapped
  BY <1>3
<1> QED
  BY <1>1, <1>2, <1>4

\* The copies agree again when they agree on every item.
LEMMA NowAgree ==
  ASSUME TypeOK', current' # NoInst, InHands(0)',
         \A j \in Items : cache'[j] = table'[j] /\ mem'[current'][j] = table'[j]
  PROVE  AllAgree'
<1>1. /\ cache' \in [Items -> Rows \cup {NoItem}]
      /\ table' \in [Items -> Rows \cup {NoItem}]
      /\ mem'[current'] \in [Items -> Rows \cup {NoItem}]
  BY DEF TypeOK, Contents
<1>2. cache' = table' /\ mem'[current'] = table'
  BY <1>1
<1> QED
  BY <1>2 DEF AllAgree

---------------------------------------------------------------------------
\* A request meets copies that agree.

LEMMA RequestSequential ==
  ASSUME TypeOK, TypeOK', Busy = {}, AllAgree, NEW o \in Ops, NEW i \in Items,
         \/ \E t \in Tiles : RequestPlace(o, i, t) \/ RequestMove(o, i, t)
         \/ RequestPickup(o, i) \/ RequestInteract(o, i)
  PROVE  Busy' = {o} /\ HalfDone(o)'
<1>1. /\ current \in Insts /\ current # NoInst /\ current' = current
      /\ UNCHANGED <<stock, table, cache>> /\ InHands(0) /\ Total \in Nat
      /\ \A j \in Items : cache[j] = table[j] /\ mem[current][j] = table[j]
  BY Counted DEF RequestPlace, RequestMove, RequestPickup, RequestInteract, AllAgree, TypeOK
<1>2. InHands(0)'
  BY <1>1 DEF InHands, Total
<1>3. ASSUME NEW t \in Tiles, RequestPlace(o, i, t) PROVE Busy' = {o} /\ HalfDone(o)'
  <2> DEFINE r == [tile |-> t, on |-> FALSE]
  <2>1. r \in Rows /\ "reserve" \in Steps
    BY DEF Rows, Steps
  <2>2. Start(o, "place", i, r, r, "reserve") /\ Fresh(i) /\ mem' = mem
    BY <1>3 DEF RequestPlace
  <2> HIDE DEF r
  <2>3. /\ Busy' = {o} /\ ops'[o].inst = current /\ ops'[o].item = i
        /\ ops'[o].kind = "place" /\ ops'[o].step = "reserve"
    BY <1>1, <2>1, <2>2, StartKeeps
  <2>4. table[i] = NoItem /\ cache[i] = NoItem /\ mem[current][i] = NoItem
    BY <1>1, <2>2 DEF Fresh
  <2>5. PlaceHalfDone(o, ops[o].item, ops[o].row)'
    BY <1>1, <1>2, <2>2, <2>3, <2>4 DEF PlaceHalfDone, Copies
  <2> QED
    BY <1>1, <2>2, <2>3, <2>5 DEF HalfDone, Copies
<1>4. ASSUME NEW t \in Tiles, RequestMove(o, i, t) PROVE Busy' = {o} /\ HalfDone(o)'
  <2> DEFINE w == mem[current][i]
             r == [w EXCEPT !.tile = t]
  <2>1. w \in Rows
    BY <1>1, <1>4 DEF RequestMove, Present, TypeOK, Contents
  <2>2. r \in Rows /\ r.on = w.on /\ "save" \in Steps
    BY <2>1 DEF Rows, Steps
  <2>3. Start(o, "move", i, r, w, "save") /\ mem' = mem
    BY <1>4 DEF RequestMove
  <2>4. w = mem[current][i]
    OBVIOUS
  <2> HIDE DEF r, w
  <2>5. /\ Busy' = {o} /\ ops'[o].inst = current /\ ops'[o].item = i
        /\ ops'[o].kind = "move" /\ ops'[o].step = "save"
        /\ ops'[o].row = r /\ ops'[o].was = w
    BY <1>1, <2>1, <2>2, <2>3, StartKeeps
  <2>6. MoveHalfDone(o, ops[o].item, ops[o].row, ops[o].was)'
    BY <1>1, <1>2, <2>2, <2>3, <2>4, <2>5 DEF MoveHalfDone, Copies
  <2> QED
    BY <1>1, <2>3, <2>5, <2>6 DEF HalfDone, Copies
<1>5. CASE RequestPickup(o, i)
  <2> DEFINE w == mem[current][i]
  <2>1. w \in Rows /\ "delete" \in Steps
    BY <1>1, <1>5 DEF RequestPickup, Present, TypeOK, Contents, Steps
  <2>2. Start(o, "pickup", i, w, w, "delete") /\ mem' = Put(current, i, NoItem)
    BY <1>5 DEF RequestPickup
  <2>3. w = mem[current][i]
    OBVIOUS
  <2> HIDE DEF w
  <2>4. /\ Busy' = {o} /\ ops'[o].inst = current /\ ops'[o].item = i
        /\ ops'[o].kind = "pickup" /\ ops'[o].step = "delete" /\ ops'[o].row = w
    BY <1>1, <2>1, <2>2, StartKeeps
  <2>5. \A j \in Items : mem'[current][j] = IF j = i THEN NoItem ELSE mem[current][j]
    BY <1>1, <2>2, PutType
  <2>6. PickupHalfDone(o, ops[o].item, ops[o].row)'
    BY <1>1, <1>2, <2>3, <2>4, <2>5 DEF PickupHalfDone, Copies
  <2> QED
    BY <1>1, <2>4, <2>5, <2>6 DEF HalfDone, Copies
<1>6. CASE RequestInteract(o, i)
  <2> DEFINE w == mem[current][i]
             r == [w EXCEPT !.on = ~@]
  <2>1. w \in Rows
    BY <1>1, <1>6 DEF RequestInteract, Present, TypeOK, Contents
  <2>2. r \in Rows /\ r.tile = w.tile /\ "save" \in Steps
    BY <2>1 DEF Rows, Steps
  <2>3. Start(o, "interact", i, r, w, "save") /\ mem' = Put(current, i, r)
    BY <1>6 DEF RequestInteract
  <2>4. w = mem[current][i]
    OBVIOUS
  <2> HIDE DEF r, w
  <2>5. /\ Busy' = {o} /\ ops'[o].inst = current /\ ops'[o].item = i
        /\ ops'[o].kind = "interact" /\ ops'[o].step = "save"
        /\ ops'[o].row = r /\ ops'[o].was = w
    BY <1>1, <2>1, <2>2, <2>3, StartKeeps
  <2>6. \A j \in Items : mem'[current][j] = IF j = i THEN r ELSE mem[current][j]
    BY <1>1, <2>2, <2>3, PutType
  <2>7. InteractHalfDone(o, ops[o].item, ops[o].row, ops[o].was)'
    BY <1>1, <1>2, <2>2, <2>4, <2>5, <2>6 DEF InteractHalfDone, Copies
  <2> QED
    BY <1>1, <2>5, <2>6, <2>7 DEF HalfDone, Copies
<1> QED
  BY <1>3, <1>4, <1>5, <1>6

---------------------------------------------------------------------------
\* The statements of a lone handler, and what it does with the answers.

\* What is known of a lone handler's record.
LEMMA AloneFacts ==
  ASSUME TypeOK, NEW o \in Ops, ops[o] # NoOp, HalfDone(o)
  PROVE  /\ current \in Insts /\ current # NoInst /\ ops[o].inst = current
         /\ ops[o].item \in Items /\ ops[o].row \in Rows /\ ops[o].was \in Rows
         /\ ops[o].row # NoItem /\ ops[o].was # NoItem
         /\ stock \in Nat /\ Total \in Nat /\ Cardinality(Present(table)) \in Nat
         /\ \A j \in Items \ {ops[o].item} :
              cache[j] = table[j] /\ mem[current][j] = table[j]
BY OpType, Counted DEF HalfDone, Copies, TypeOK

LEMMA ReserveSequential ==
  ASSUME TypeOK, TypeOK', NEW o \in Ops, NEW clear \in BOOLEAN, HalfDone(o),
         Busy = {o}, ReserveItem(o, clear)
  PROVE  Busy' = {o} /\ HalfDone(o)'
<1> DEFINE i == ops[o].item
           row == ops[o].row
<1>1. /\ ops[o] # NoOp /\ ops[o].step = "reserve" /\ stock' = stock - 1
      /\ UNCHANGED <<table, cache, current>>
      /\ \/ mem' = Put(current, i, row) /\ Goto(o, "save")
         \/ Goto(o, "refund") /\ UNCHANGED mem
  BY DEF ReserveItem, HalfDone
<1>2. ops[o].kind = "place" /\ Copies(i, NoItem, NoItem, NoItem) /\ InHands(0)
  BY <1>1 DEF HalfDone, PlaceHalfDone, PickupHalfDone, MoveHalfDone, InteractHalfDone
<1>3. InHands(1)'
  BY <1>1, <1>2, AloneFacts DEF InHands, Total
<1>4. CASE mem' = Put(current, i, row) /\ Goto(o, "save")
  <2>1. /\ Busy' = {o} /\ ops'[o].step = "save" /\ ops'[o].kind = "place"
        /\ ops'[o].inst = current /\ ops'[o].item = i /\ ops'[o].row = row
    BY <1>1, <1>2, <1>4, GotoKeeps, AloneFacts DEF Steps
  <2>2. \A j \in Items : mem'[current][j] = IF j = i THEN row ELSE mem[current][j]
    BY <1>1, <1>4, AloneFacts, PutType
  <2>3. PlaceHalfDone(o, ops[o].item, ops[o].row)'
    BY <1>1, <1>2, <1>3, <2>1, <2>2, AloneFacts DEF PlaceHalfDone, Copies
  <2> QED
    BY <1>1, <2>1, <2>2, <2>3, AloneFacts DEF HalfDone, Copies
<1>5. CASE Goto(o, "refund") /\ UNCHANGED mem
  <2>1. /\ Busy' = {o} /\ ops'[o].step = "refund" /\ ops'[o].kind = "place"
        /\ ops'[o].inst = current /\ ops'[o].item = i /\ ops'[o].row = row
    BY <1>1, <1>2, <1>5, GotoKeeps, AloneFacts DEF Steps
  <2>2. PlaceHalfDone(o, ops[o].item, ops[o].row)'
    BY <1>1, <1>2, <1>3, <1>5, <2>1, AloneFacts DEF PlaceHalfDone, Copies
  <2> QED
    BY <1>1, <1>5, <2>1, <2>2, AloneFacts DEF HalfDone, Copies
<1> QED
  BY <1>1, <1>4, <1>5

LEMMA SaveSequential ==
  ASSUME TypeOK, TypeOK', NEW o \in Ops, HalfDone(o), Busy = {o}, SaveApplied(o)
  PROVE  Busy' = {o} /\ HalfDone(o)'
<1> DEFINE i == ops[o].item
           row == ops[o].row
           was == ops[o].was
<1>1. /\ ops[o] # NoOp /\ ops[o].step = "save" /\ Goto(o, "saved")
      /\ table' = [table EXCEPT ![i] = row] /\ UNCHANGED <<stock, cache, mem, current>>
  BY DEF SaveApplied
<1>2. /\ Busy' = {o} /\ ops'[o].step = "saved" /\ ops'[o].kind = ops[o].kind
      /\ ops'[o].inst = current /\ ops'[o].item = i /\ ops'[o].row = row
      /\ ops'[o].was = was
  BY <1>1, GotoKeeps, AloneFacts DEF Steps
<1>3. \A j \in Items : table'[j] = IF j = i THEN row ELSE table[j]
  BY <1>1, AloneFacts DEF TypeOK, Contents
<1>4. /\ Cardinality(Present(table')) \in Nat
      /\ table[i] = NoItem =>
           Cardinality(Present(table')) = Cardinality(Present(table)) + 1
      /\ table[i] # NoItem =>
           Cardinality(Present(table')) = Cardinality(Present(table))
  <2>1. i \in Items /\ row \in Rows /\ row # NoItem
    BY <1>1, AloneFacts
  <2> HIDE DEF i, row
  <2> QED
    BY <1>1, <2>1, RowsCounted
<1>5. \/ PlaceHalfDone(o, i, row) \/ MoveHalfDone(o, i, row, was)
      \/ InteractHalfDone(o, i, row, was)
  BY <1>1 DEF HalfDone, PickupHalfDone
<1>6. CASE PlaceHalfDone(o, i, row)
  <2>1. Copies(i, NoItem, NoItem, row) /\ InHands(1)
    BY <1>1, <1>6 DEF PlaceHalfDone
  <2>2. InHands(0)'
    BY <1>1, <1>4, <2>1, AloneFacts DEF InHands, Total, Copies
  <2>3. PlaceHalfDone(o, ops[o].item, ops[o].row)'
    BY <1>1, <1>2, <1>3, <1>6, <2>1, <2>2, AloneFacts DEF PlaceHalfDone, Copies
  <2> QED
    BY <1>1, <1>2, <1>3, <2>3, AloneFacts DEF HalfDone, Copies
<1>7. CASE MoveHalfDone(o, i, row, was)
  <2>1. Copies(i, was, was, was) /\ InHands(0)
    BY <1>1, <1>7 DEF MoveHalfDone
  <2>2. InHands(0)'
    BY <1>1, <1>4, <2>1, AloneFacts DEF InHands, Total, Copies
  <2>3. MoveHalfDone(o, ops[o].item, ops[o].row, ops[o].was)'
    BY <1>1, <1>2, <1>3, <1>7, <2>1, <2>2, AloneFacts DEF MoveHalfDone, Copies
  <2> QED
    BY <1>1, <1>2, <1>3, <2>3, AloneFacts DEF HalfDone, Copies
<1>8. CASE InteractHalfDone(o, i, row, was)
  <2>1. Copies(i, was, was, row) /\ InHands(0)
    BY <1>1, <1>8 DEF InteractHalfDone
  <2>2. InHands(0)'
    BY <1>1, <1>4, <2>1, AloneFacts DEF InHands, Total, Copies
  <2>3. InteractHalfDone(o, ops[o].item, ops[o].row, ops[o].was)'
    BY <1>1, <1>2, <1>3, <1>8, <2>1, <2>2, AloneFacts DEF InteractHalfDone, Copies
  <2> QED
    BY <1>1, <1>2, <1>3, <2>3, AloneFacts DEF HalfDone, Copies
<1> QED
  BY <1>5, <1>6, <1>7, <1>8

LEMMA DeleteSequential ==
  ASSUME TypeOK, TypeOK', NEW o \in Ops, HalfDone(o), Busy = {o},
         DeleteApplied(o) \/ Deleted(o)
  PROVE  Busy' = {o} /\ HalfDone(o)'
<1> DEFINE i == ops[o].item
           row == ops[o].row
<1>0. ops[o] # NoOp /\ UNCHANGED <<stock, cache, mem, current>>
  BY DEF DeleteApplied, Deleted
<1>1. ops[o].kind = "pickup" /\ PickupHalfDone(o, i, row)
  BY DEF HalfDone, DeleteApplied, Deleted, PlaceHalfDone, PickupHalfDone,
         MoveHalfDone, InteractHalfDone
<1>2. CASE DeleteApplied(o)
  <2>1. Copies(i, row, row, NoItem) /\ InHands(0)
    BY <1>1, <1>2 DEF PickupHalfDone, DeleteApplied
  <2>2. table' = [table EXCEPT ![i] = NoItem] /\ Goto(o, "deleted")
    BY <1>2 DEF DeleteApplied
  <2>3. /\ Busy' = {o} /\ ops'[o].step = "deleted" /\ ops'[o].kind = "pickup"
        /\ ops'[o].inst = current /\ ops'[o].item = i /\ ops'[o].row = row
    BY <1>0, <1>1, <2>2, GotoKeeps, AloneFacts DEF Steps
  <2>4. \A j \in Items : table'[j] = IF j = i THEN NoItem ELSE table[j]
    BY <1>0, <2>2, AloneFacts DEF TypeOK, Contents
  <2>5. InHands(1)'
    <3>1. Cardinality(Present(table')) + 1 = Cardinality(Present(table))
          /\ Cardinality(Present(table')) \in Nat
      BY <1>0, <2>1, <2>2, AloneFacts, RowsCounted DEF Copies
    <3> QED
      BY <1>0, <2>1, <3>1, AloneFacts DEF InHands, Total
  <2>6. PickupHalfDone(o, ops[o].item, ops[o].row)'
    BY <1>0, <2>1, <2>3, <2>4, <2>5, AloneFacts DEF PickupHalfDone, Copies
  <2> QED
    BY <1>0, <2>3, <2>4, <2>6, AloneFacts DEF HalfDone, Copies
<1>3. CASE Deleted(o)
  <2>1. Copies(i, NoItem, row, NoItem) /\ InHands(1)
    BY <1>1, <1>3 DEF PickupHalfDone, Deleted
  <2>2. table' = table /\ Goto(o, "refund")
    BY <1>3 DEF Deleted
  <2>3. /\ Busy' = {o} /\ ops'[o].step = "refund" /\ ops'[o].kind = "pickup"
        /\ ops'[o].inst = current /\ ops'[o].item = i /\ ops'[o].row = row
    BY <1>0, <1>1, <2>2, GotoKeeps, AloneFacts DEF Steps
  <2>4. InHands(1)'
    BY <1>0, <2>1, <2>2 DEF InHands, Total
  <2>5. PickupHalfDone(o, ops[o].item, ops[o].row)'
    BY <1>0, <2>1, <2>2, <2>3, <2>4, AloneFacts DEF PickupHalfDone, Copies
  <2> QED
    BY <1>0, <2>2, <2>3, <2>5, AloneFacts DEF HalfDone, Copies
<1> QED
  BY <1>2, <1>3

\* A handler that ends leaves nobody, and copies that agree.

LEMMA EndSequential ==
  ASSUME TypeOK, TypeOK', NEW o \in Ops, HalfDone(o), Busy = {o},
         \/ ReserveRefused(o) \/ SavedInRoom(o) \/ RefundItem(o)
  PROVE  Busy' = {} /\ AllAgree'
<1> DEFINE i == ops[o].item
           row == ops[o].row
<1>1. /\ ops[o] # NoOp /\ Finish(o) /\ UNCHANGED <<table, mem, current>>
  BY DEF ReserveRefused, SavedInRoom, RefundItem
<1>2. Busy' = {}
  BY <1>1, FinishFacts
<1>3. CASE ReserveRefused(o)
  <2>1. /\ Copies(i, NoItem, NoItem, NoItem) /\ InHands(0)
        /\ UNCHANGED <<stock, cache>>
    BY <1>3 DEF ReserveRefused, HalfDone, PlaceHalfDone, PickupHalfDone,
                MoveHalfDone, InteractHalfDone
  <2>2. InHands(0)'
    BY <1>1, <2>1 DEF InHands, Total
  <2> QED
    BY <1>1, <1>2, <2>1, <2>2, AloneFacts, NowAgree DEF Copies
<1>4. CASE SavedInRoom(o)
  <2>1. \/ Copies(i, row, NoItem, row) /\ InHands(0)
        \/ Copies(i, row, ops[o].was, row) /\ InHands(0)
    BY <1>4 DEF SavedInRoom, HalfDone, PlaceHalfDone, PickupHalfDone,
                MoveHalfDone, InteractHalfDone
  <2>2. table[i] = row /\ mem[current][i] = row /\ InHands(0)
    BY <2>1 DEF Copies
  <2>3. InHands(0)'
    BY <1>1, <1>4, <2>2 DEF InHands, Total, SavedInRoom
  <2>4. \A j \in Items : cache'[j] = IF j = i THEN row ELSE cache[j]
    BY <1>1, <1>4, AloneFacts DEF SavedInRoom, TypeOK, Contents
  <2> QED
    BY <1>1, <1>2, <2>2, <2>3, <2>4, AloneFacts, NowAgree
<1>5. CASE RefundItem(o)
  <2>1. /\ \/ ops[o].kind = "place" /\ Copies(i, NoItem, NoItem, NoItem)
           \/ ops[o].kind = "pickup" /\ Copies(i, NoItem, row, NoItem)
        /\ InHands(1)
    BY <1>5 DEF RefundItem, HalfDone, PlaceHalfDone, PickupHalfDone,
                MoveHalfDone, InteractHalfDone
  <2>2. table[i] = NoItem /\ mem[current][i] = NoItem
    BY <2>1 DEF Copies
  <2>3. InHands(0)'
    BY <1>1, <1>5, <2>1, AloneFacts DEF InHands, Total, RefundItem
  <2>4. cache' = AfterRefund(o)
    BY <1>5 DEF RefundItem
  <2>5. \A j \in Items : cache'[j] = table[j]
    <3>1. CASE ops[o].kind = "place" /\ Copies(i, NoItem, NoItem, NoItem)
      BY <1>1, <2>2, <2>4, <3>1, AloneFacts DEF AfterRefund, Copies
    <3>2. CASE ops[o].kind = "pickup" /\ Copies(i, NoItem, row, NoItem)
      BY <1>1, <2>2, <2>4, <3>2, AloneFacts DEF AfterRefund, TypeOK, Contents
    <3> QED
      BY <2>1, <3>1, <3>2
  <2> QED
    BY <1>1, <1>2, <2>2, <2>3, <2>5, AloneFacts, NowAgree
<1> QED
  BY <1>3, <1>4, <1>5

LEMMA MoveSavedSequential ==
  ASSUME TypeOK, TypeOK', NEW o \in Ops, NEW clear \in BOOLEAN, HalfDone(o),
         Busy = {o}, MoveSaved(o, clear), ~mishap'
  PROVE  Busy' = {} /\ AllAgree'
<1> DEFINE i == ops[o].item
           row == ops[o].row
           moved == [mem[current][i] EXCEPT !.tile = row.tile]
<1>1. /\ ops[o] # NoOp /\ Finish(o) /\ UNCHANGED <<stock, table, current>>
      /\ mem' = Put(current, i, moved) /\ cache' = [cache EXCEPT ![i] = moved]
  BY DEF MoveSaved, HalfDone
<1>2. Busy' = {}
  BY <1>1, FinishFacts
<1>3. Copies(i, row, ops[o].was, ops[o].was) /\ InHands(0) /\ row.on = ops[o].was.on
  BY DEF MoveSaved, HalfDone, PlaceHalfDone, PickupHalfDone, MoveHalfDone,
         InteractHalfDone
<1>4. moved = row /\ table[i] = row
  BY <1>1, <1>3, AloneFacts DEF Copies, Rows
<1> HIDE DEF moved
<1>5. \A j \in Items : cache'[j] = table[j] /\ mem'[current][j] = table[j]
  BY <1>1, <1>4, AloneFacts, PutType DEF TypeOK, Contents
<1>6. InHands(0)'
  BY <1>1, <1>3 DEF InHands, Total
<1> QED
  BY <1>1, <1>2, <1>5, <1>6, AloneFacts, NowAgree

\* A failed save: the handler ends, or goes on to refund what it reserved.
LEMMA SaveFailedSequential ==
  ASSUME TypeOK, TypeOK', NEW o \in Ops, HalfDone(o), Busy = {o}, SaveFailed(o)
  PROVE  \/ Busy' = {} /\ AllAgree'
         \/ Busy' = {o} /\ HalfDone(o)'
<1> DEFINE i == ops[o].item
           row == ops[o].row
           was == ops[o].was
<1>1. /\ ops[o] # NoOp /\ ops[o].step = "save" /\ ops[o].inst = current
      /\ UNCHANGED <<stock, table, cache, current>>
      /\ \A n : InHands(n) => InHands(n)'
  BY DEF SaveFailed, HalfDone, InHands, Total
<1>2. CASE ops[o].kind = "place"
  <2>1. mem' = Put(current, i, NoItem) /\ Goto(o, "refund")
    BY <1>1, <1>2 DEF SaveFailed, PlaceUndone
  <2>2. Copies(i, NoItem, NoItem, row) /\ InHands(1)
    BY <1>1, <1>2 DEF HalfDone, PlaceHalfDone, PickupHalfDone, MoveHalfDone,
                      InteractHalfDone
  <2>3. /\ Busy' = {o} /\ ops'[o].step = "refund" /\ ops'[o].kind = "place"
        /\ ops'[o].inst = current /\ ops'[o].item = i /\ ops'[o].row = row
    BY <1>1, <1>2, <2>1, GotoKeeps, AloneFacts DEF Steps
  <2>4. \A j \in Items : mem'[current][j] = IF j = i THEN NoItem ELSE mem[current][j]
    BY <1>1, <2>1, AloneFacts, PutType
  <2>5. PlaceHalfDone(o, ops[o].item, ops[o].row)'
    BY <1>1, <2>2, <2>3, <2>4, AloneFacts DEF PlaceHalfDone, Copies
  <2> QED
    BY <1>1, <2>3, <2>4, <2>5, AloneFacts DEF HalfDone, Copies
<1>3. CASE ops[o].kind = "move"
  <2>1. Finish(o) /\ mem' = mem
    BY <1>1, <1>3 DEF SaveFailed
  <2>2. Copies(i, was, was, was) /\ InHands(0)
    BY <1>1, <1>3 DEF HalfDone, PlaceHalfDone, PickupHalfDone, MoveHalfDone,
                      InteractHalfDone
  <2>3. Busy' = {}
    BY <1>1, <2>1, FinishFacts
  <2> QED
    BY <1>1, <2>1, <2>2, <2>3, AloneFacts, NowAgree DEF Copies
<1>4. CASE ops[o].kind = "interact"
  <2>1. Copies(i, was, was, row) /\ InHands(0) /\ row.tile = was.tile
    BY <1>1, <1>4 DEF HalfDone, PlaceHalfDone, PickupHalfDone, MoveHalfDone,
                      InteractHalfDone
  <2>2. /\ i \in Present(mem[current]) /\ Finish(o)
        /\ mem' = [mem EXCEPT ![current][i].on = was.on]
    BY <1>1, <1>4, <2>1, AloneFacts DEF SaveFailed, Present, Copies
  <2>3. mem' = Put(current, i, was)
    <3>1. mem[current][i] = row
      BY <2>1 DEF Copies
    <3>2. [row EXCEPT !.on = was.on] = was
      BY <1>1, <2>1, AloneFacts DEF Rows
    <3>3. mem' = Put(current, i, [mem[current][i] EXCEPT !.on = was.on])
      BY <2>2 DEF Put
    <3> QED
      BY <3>1, <3>2, <3>3
  <2>4. \A j \in Items : mem'[current][j] = IF j = i THEN was ELSE mem[current][j]
    BY <1>1, <2>3, AloneFacts, PutType
  <2>5. Busy' = {}
    BY <1>1, <2>2, FinishFacts
  <2> QED
    BY <1>1, <2>1, <2>4, <2>5, AloneFacts, NowAgree DEF Copies
<1> QED
  BY <1>2, <1>3, <1>4 DEF SaveFailed

LEMMA DeleteFailedSequential ==
  ASSUME TypeOK, TypeOK', NEW o \in Ops, NEW clear \in BOOLEAN, HalfDone(o),
         Busy = {o}, DeleteFailed(o, clear), ~mishap'
  PROVE  Busy' = {} /\ AllAgree'
<1> DEFINE i == ops[o].item
           row == ops[o].row
<1>1. /\ ops[o] # NoOp /\ Finish(o) /\ UNCHANGED <<stock, table, cache, current>>
      /\ mem' = Put(current, i, row)
  BY DEF DeleteFailed, HalfDone
<1>2. Copies(i, row, row, NoItem) /\ InHands(0)
  BY DEF DeleteFailed, HalfDone, PlaceHalfDone, PickupHalfDone, MoveHalfDone,
         InteractHalfDone
<1>3. \A j \in Items : mem'[current][j] = IF j = i THEN row ELSE mem[current][j]
  BY <1>1, AloneFacts, PutType
<1>4. Busy' = {} /\ InHands(0)'
  BY <1>1, <1>2, FinishFacts DEF InHands, Total
<1> QED
  BY <1>1, <1>2, <1>3, <1>4, AloneFacts, NowAgree DEF Copies

---------------------------------------------------------------------------
\* The Room object changes between two edits.

LEMMA RoomSequential ==
  ASSUME TypeOK, TypeOK', AllAgree, Busy = {},
         \/ LastUserLeaves \/ (\E k \in Insts : FirstUserJoins(k)) \/ Restart
  PROVE  Busy' = {} /\ AllAgree'
<1>1. UNCHANGED <<stock, table>> /\ InHands(0)'
  BY DEF LastUserLeaves, FirstUserJoins, Restart, AllAgree, InHands, Total
<1>2. Busy' = {}
  BY DEF LastUserLeaves, FirstUserJoins, Restart, Busy
<1>3. cache' = table' /\ (current' # NoInst => mem'[current'] = table')
  BY <1>1 DEF LastUserLeaves, FirstUserJoins, Restart, AllAgree, TypeOK
<1> QED
  BY <1>1, <1>2, <1>3 DEF AllAgree

\* Handlers met each other, or an edit failed half-way: that stays so.
LEMMA HistoryGrows ==
  ASSUME TypeOK, [Next]_vars
  PROVE  (overlapped => overlapped') /\ (mishap => mishap')
<1>1. \/ UNCHANGED overlapped \/ overlapped' = (overlapped \/ Busy # {})
  BY DEF Next, vars, history, Start, RequestPlace, RequestMove, RequestPickup,
         RequestInteract, ReserveItem, ReserveRefused, SaveApplied, DeleteApplied,
         SavedInRoom, MoveSaved, SaveFailed, Deleted, DeleteFailed, RefundItem,
         RefundFailed, LastUserLeaves, FirstUserJoins, Restart
<1>2. \/ UNCHANGED mishap \/ mishap' = TRUE \/ mishap' = (mishap \/ Busy # {})
  BY DEF Next, vars, history, Start, RequestPlace, RequestMove, RequestPickup,
         RequestInteract, ReserveItem, ReserveRefused, SaveApplied, DeleteApplied,
         SavedInRoom, MoveSaved, SaveFailed, Deleted, DeleteFailed, RefundItem,
         RefundFailed, LastUserLeaves, FirstUserJoins, Restart
<1>3. overlapped => overlapped'
  BY <1>1
<1>4. ASSUME mishap PROVE mishap'
  <2>1. CASE UNCHANGED mishap
    BY <1>4, <2>1
  <2>2. CASE mishap' = TRUE
    BY <2>2
  <2>3. CASE mishap' = (mishap \/ Busy # {})
    BY <1>4, <2>3
  <2> QED
    BY <1>2, <2>1, <2>2, <2>3
<1> QED
  BY <1>3, <1>4

\* No edit starts, and no Room comes or goes, under a handler.
LEMMA SequentialStep ==
  ASSUME TypeOK, TypeOK', Sequential, [Next]_vars
  PROVE  Sequential'
<1> SUFFICES ASSUME ~overlapped', ~mishap'
             PROVE  \/ Busy' = {} /\ AllAgree'
                    \/ \E o \in Busy' : Busy' = {o} /\ HalfDone(o)'
  BY DEF Sequential
<1>1. \/ Busy = {} /\ AllAgree
      \/ \E o \in Busy : Busy = {o} /\ HalfDone(o)
  BY HistoryGrows DEF Sequential
<1>2. ASSUME NEW o \in Ops, NEW i \in Items,
             \/ \E t \in Tiles : RequestPlace(o, i, t) \/ RequestMove(o, i, t)
             \/ RequestPickup(o, i) \/ RequestInteract(o, i)
      PROVE  \E p \in Busy' : Busy' = {p} /\ HalfDone(p)'
  <2>1. overlapped' = (overlapped \/ Busy # {})
    BY <1>2 DEF RequestPlace, RequestMove, RequestPickup, RequestInteract, Start
  <2>2. Busy = {}
    BY <2>1
  <2> QED
    BY <1>1, <1>2, <2>2, RequestSequential
<1>3. ASSUME NEW o \in Ops, ops[o] # NoOp
      PROVE  Busy = {o} /\ HalfDone(o)
  BY <1>1, <1>3 DEF Busy
<1>4. ASSUME NEW o \in Ops, NEW clear \in BOOLEAN, ReserveItem(o, clear)
      PROVE  Busy' = {o} /\ HalfDone(o)'
  BY <1>3, <1>4, ReserveSequential DEF ReserveItem
<1>5. ASSUME NEW o \in Ops, SaveApplied(o)
      PROVE  Busy' = {o} /\ HalfDone(o)'
  BY <1>3, <1>5, SaveSequential DEF SaveApplied
<1>6. ASSUME NEW o \in Ops, DeleteApplied(o) \/ Deleted(o)
      PROVE  Busy' = {o} /\ HalfDone(o)'
  BY <1>3, <1>6, DeleteSequential DEF DeleteApplied, Deleted
<1>7. ASSUME NEW o \in Ops, ReserveRefused(o) \/ SavedInRoom(o) \/ RefundItem(o)
      PROVE  Busy' = {} /\ AllAgree'
  BY <1>3, <1>7, EndSequential DEF ReserveRefused, SavedInRoom, RefundItem
<1>8. ASSUME NEW o \in Ops, NEW clear \in BOOLEAN, MoveSaved(o, clear)
      PROVE  Busy' = {} /\ AllAgree'
  BY <1>3, <1>8, MoveSavedSequential DEF MoveSaved
<1>9. ASSUME NEW o \in Ops, SaveFailed(o)
      PROVE  \/ Busy' = {} /\ AllAgree'
             \/ Busy' = {o} /\ HalfDone(o)'
  BY <1>3, <1>9, SaveFailedSequential DEF SaveFailed
<1>10. ASSUME NEW o \in Ops, NEW clear \in BOOLEAN, DeleteFailed(o, clear)
       PROVE  Busy' = {} /\ AllAgree'
  BY <1>3, <1>10, DeleteFailedSequential DEF DeleteFailed
<1>11. ASSUME NEW o \in Ops, RefundFailed(o) PROVE FALSE
  BY <1>11 DEF RefundFailed
<1>12. CASE LastUserLeaves \/ (\E k \in Insts : FirstUserJoins(k)) \/ Restart
  <2>1. Busy = {}
    <3>1. \/ overlapped' = (overlapped \/ Busy # {})
          \/ mishap' = (mishap \/ Busy # {})
      BY <1>12 DEF LastUserLeaves, FirstUserJoins, Restart
    <3> QED
      BY <3>1
  <2> QED
    BY <1>1, <1>12, <2>1, RoomSequential
<1>13. CASE UNCHANGED vars
  BY <1>1, <1>13 DEF vars, history, Busy, AllAgree, HalfDone, InHands, Total,
       Copies, PlaceHalfDone, PickupHalfDone, MoveHalfDone, InteractHalfDone
<1> QED
  BY <1>2, <1>4, <1>5, <1>6, <1>7, <1>8, <1>9, <1>10, <1>11, <1>12, <1>13 DEF Next

\* Edits that do not overlap leave the table, the cache and the Room object
\* with the same items, and no piece made or lost, whatever statements fail
\* and however often Rooms are dropped and rebuilt between them.
THEOREM EditsAgree == Spec => []SequentialEditsAgree
<1>1. Init => Sequential
  <2> SUFFICES ASSUME Init PROVE Sequential
    OBVIOUS
  <2>1. Busy = {} /\ cache = table /\ current = NoInst
    BY DEF Init, Busy
  <2>2. stock = InitStock /\ table = InitTable /\ Total \in Nat
        /\ Cardinality(Present(table)) \in Nat
    BY Counted DEF Init
  <2>3. InHands(0)
    BY <2>2 DEF InHands, Total
  <2> QED
    BY <2>1, <2>3 DEF Sequential, AllAgree
<1>2. TypeOK /\ TypeOK' /\ Sequential /\ [Next]_vars => Sequential'
  BY SequentialStep
<1>3. TypeOK /\ Sequential => SequentialEditsAgree
  <2> SUFFICES ASSUME TypeOK, Sequential, Busy = {}, ~overlapped, ~mishap
               PROVE  AllAgree /\ stock + Cardinality(Present(table)) = Total
    BY DEF SequentialEditsAgree, AllAgree
  <2>1. AllAgree
    BY DEF Sequential
  <2>2. stock \in Nat /\ Total \in Nat /\ Cardinality(Present(table)) \in Nat
    BY Counted DEF TypeOK
  <2> QED
    BY <2>1, <2>2 DEF AllAgree, InHands
<1> QED
  BY <1>1, <1>2, <1>3, FurnitureTypeCorrect, PTL DEF Spec
=============================================================================
