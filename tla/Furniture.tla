----------------------------- MODULE Furniture -----------------------------
(***************************************************************************)
(* The furniture of one owned room: the handlers of room.item.place, move, *)
(* pickup and interact, cut at their awaits.                               *)
(*                                                                         *)
(* A piece of furniture is in the owner's inventory or in the room, and    *)
(* the room's items are kept three times: in the room_items table, in the  *)
(* RoomManager's cache that new Room objects are built from, and in the    *)
(* Room object.  Every handler keeps the Room object it started with; the  *)
(* last user may leave meanwhile, and the next one gets another object.    *)
(* Nothing orders the handlers: handleMessage does not wait for them.      *)
(*                                                                         *)
(* All items are of one toggleable, blocking type that covers one tile.    *)
(* Whether an avatar stands on a tile is left open at every validation.    *)
(* A statement that fails was not applied.                                 *)
(***************************************************************************)
EXTENDS Naturals, FiniteSets

CONSTANTS
  Items,       \* item ids; createId never returns one that is in use
  Tiles,       \* walkable tiles of the layout other than its spawn
  Insts,       \* slots for the Room objects of this room
  Ops,         \* slots for handlers in flight
  Kinds,       \* the requests clients send in this instance
  InitTable,   \* [Items -> Rows \cup {NoItem}]: furniture placed before
  InitStock,   \* the inventory quantity before
  MaxStock,    \* bound: the quantity, as furniture can be duplicated
  NoItem, NoOp, NoInst

Rows == [tile : Tiles, on : BOOLEAN]
Contents == [Items -> Rows \cup {NoItem}]

ASSUME FurnitureAssumption ==
  /\ Kinds \subseteq {"place", "move", "pickup", "interact"}
  /\ IsFiniteSet(Items) /\ IsFiniteSet(Ops)
  /\ NoItem \notin Rows /\ NoInst \notin Insts
  /\ InitTable \in Contents /\ InitStock \in Nat /\ MaxStock \in Nat
  /\ \A i, j \in Items : i # j /\ InitTable[i] # NoItem /\ InitTable[j] # NoItem
                           => InitTable[i].tile # InitTable[j].tile

Steps == {"reserve", "save", "saved", "delete", "deleted", "refund"}

\* row is what the handler writes, was what it found.
OpRecords == [kind : Kinds, item : Items, inst : Insts, row : Rows,
              was : Rows, step : Steps]
ASSUME OpAssumption == NoOp \notin OpRecords

VARIABLES
  stock,       \* user_inventory.quantity
  table,       \* room_items
  cache,       \* RoomManager.roomItems
  mem,         \* the items of each Room object
  current,     \* the Room object the RoomManager holds
  ops,         \* the handlers in flight
  overlapped,  \* history: a handler met another one or a change of Room object
  mishap       \* history: a refund failed, the process died under a handler,
               \* or a Room refused what the database had accepted

history == <<overlapped, mishap>>
vars == <<stock, table, cache, mem, current, ops, history>>

---------------------------------------------------------------------------
Busy == {o \in Ops : ops[o] # NoOp}

Present(contents) == {i \in Items : contents[i] # NoItem}

Empty == [i \in Items |-> NoItem]

\* validateItemPlacement against the items of Room object k.
IgnoreAll(k, i, t) == TRUE                                       \* (mutant)
Fits(k, i, t) == \A j \in Present(mem[k]) \ {i} : mem[k][j].tile # t

Fresh(i) ==
  /\ table[i] = NoItem /\ cache[i] = NoItem
  /\ \A k \in Insts : mem[k][i] = NoItem
  /\ \A o \in Busy : ops[o].item # i

Put(k, i, r) == [mem EXCEPT ![k][i] = r]

Start(o, kind, i, r, w, step) ==
  /\ kind \in Kinds
  /\ ops[o] = NoOp
  /\ ops' = [ops EXCEPT ![o] = [kind |-> kind, item |-> i, inst |-> current,
                                row |-> r, was |-> w, step |-> step]]
  /\ overlapped' = (overlapped \/ Busy # {})

Goto(o, step) == ops' = [ops EXCEPT ![o].step = step]
Finish(o) == ops' = [ops EXCEPT ![o] = NoOp]

---------------------------------------------------------------------------
(* What a request does before its first await.                             *)

RequestPlace(o, i, t) ==
  /\ current # NoInst
  /\ Fresh(i)
  /\ LET r == [tile |-> t, on |-> FALSE] IN Start(o, "place", i, r, r, "reserve")
  /\ UNCHANGED <<stock, table, cache, mem, current, mishap>>

RequestMove(o, i, t) ==
  /\ current # NoInst
  /\ i \in Present(mem[current])
  /\ Fits(current, i, t)
  /\ LET w == mem[current][i]
     IN  Start(o, "move", i, [w EXCEPT !.tile = t], w, "save")
  /\ UNCHANGED <<stock, table, cache, mem, current, mishap>>

RequestPickup(o, i) ==
  /\ current # NoInst
  /\ i \in Present(mem[current])
  /\ Start(o, "pickup", i, mem[current][i], mem[current][i], "delete")
  /\ mem' = Put(current, i, NoItem)
  /\ UNCHANGED <<stock, table, cache, current, mishap>>

RequestInteract(o, i) ==
  /\ current # NoInst
  /\ i \in Present(mem[current])
  /\ LET w == mem[current][i]
         r == [w EXCEPT !.on = ~@]
     IN  Start(o, "interact", i, r, w, "save") /\ mem' = Put(current, i, r)
  /\ UNCHANGED <<stock, table, cache, current, mishap>>

---------------------------------------------------------------------------
(* The database.  reserveItem and refundItem are one guarded update each.  *)

\* "clear" is whether no avatar stands on the tile.
MayPlace(o, clear) == clear /\ Fits(ops[o].inst, ops[o].item, ops[o].row.tile)

AlwaysInStock(n) == TRUE                                         \* (mutant)
InStock(n) == n > 0

ReserveItem(o, clear) ==
  /\ ops[o] # NoOp /\ ops[o].step = "reserve"
  /\ InStock(stock)
  /\ stock' = stock - 1
  /\ IF MayPlace(o, clear)
     THEN /\ mem' = Put(ops[o].inst, ops[o].item, ops[o].row)
          /\ Goto(o, "save")
     ELSE Goto(o, "refund") /\ UNCHANGED mem
  /\ UNCHANGED <<table, cache, current, history>>

\* Nothing in the inventory, or the statement throws.
ReserveRefused(o) ==
  /\ ops[o] # NoOp /\ ops[o].step = "reserve"
  /\ Finish(o)
  /\ UNCHANGED <<stock, table, cache, mem, current, history>>

SaveApplied(o) ==
  /\ ops[o] # NoOp /\ ops[o].step = "save"
  /\ table' = [table EXCEPT ![ops[o].item] = ops[o].row]
  /\ Goto(o, "saved")
  /\ UNCHANGED <<stock, cache, mem, current, history>>

DeleteApplied(o) ==
  /\ ops[o] # NoOp /\ ops[o].step = "delete"
  /\ table' = [table EXCEPT ![ops[o].item] = NoItem]
  /\ Goto(o, "deleted")
  /\ UNCHANGED <<stock, cache, mem, current, history>>

---------------------------------------------------------------------------
(* What the handlers do with the answers.                                  *)

\* place and interact: rememberRoomItem of the row that was saved.
SavedInRoom(o) ==
  /\ ops[o] # NoOp /\ ops[o].step = "saved" /\ ops[o].kind # "move"
  /\ cache' = [cache EXCEPT ![ops[o].item] = ops[o].row]
  /\ Finish(o)
  /\ UNCHANGED <<stock, table, mem, current, history>>

\* move: the Room object is only changed now, and validates again; the item
\* keeps the state it has by then.
MoveSaved(o, clear) ==
  LET k == ops[o].inst
      i == ops[o].item
      moved == [mem[k][i] EXCEPT !.tile = ops[o].row.tile]
  IN
  /\ ops[o] # NoOp /\ ops[o].step = "saved" /\ ops[o].kind = "move"
  /\ IF i \in Present(mem[k]) /\ MayPlace(o, clear)
     THEN /\ mem' = Put(k, i, moved)
          /\ cache' = [cache EXCEPT ![i] = moved]
          /\ UNCHANGED mishap
     ELSE mishap' = TRUE /\ UNCHANGED <<mem, cache>>
  /\ Finish(o)
  /\ UNCHANGED <<stock, table, current, overlapped>>

\* A failed save undoes what the handler did to its Room object.
ForgetItemOnly(o) == Finish(o)                                   \* (mutant)
PlaceUndone(o) == Goto(o, "refund")

SaveFailed(o) ==
  LET k == ops[o].inst
      i == ops[o].item
  IN
  /\ ops[o] # NoOp /\ ops[o].step = "save"
  /\ \/ /\ ops[o].kind = "place"
        /\ mem' = Put(k, i, NoItem)
        /\ PlaceUndone(o)
     \/ /\ ops[o].kind = "move"
        /\ Finish(o)
        /\ UNCHANGED mem
     \/ /\ ops[o].kind = "interact"
        /\ mem' = IF i \in Present(mem[k])
                  THEN [mem EXCEPT ![k][i].on = ops[o].was.on] ELSE mem
        /\ Finish(o)
  /\ UNCHANGED <<stock, table, cache, current, history>>

Deleted(o) ==
  /\ ops[o] # NoOp /\ ops[o].step = "deleted"
  /\ Goto(o, "refund")
  /\ UNCHANGED <<stock, table, cache, mem, current, history>>

\* The item is put back unless its tile was taken meanwhile.
DeleteFailed(o, clear) ==
  /\ ops[o] # NoOp /\ ops[o].step = "delete"
  /\ IF MayPlace(o, clear)
     THEN mem' = Put(ops[o].inst, ops[o].item, ops[o].row) /\ UNCHANGED mishap
     ELSE mishap' = TRUE /\ UNCHANGED mem
  /\ Finish(o)
  /\ UNCHANGED <<stock, table, cache, current, overlapped>>

\* refundItem, and after it forgetRoomItem when an item was picked up.
KeepCached(o) == cache                                           \* (mutant)
AfterRefund(o) ==
  IF ops[o].kind = "pickup" THEN [cache EXCEPT ![ops[o].item] = NoItem] ELSE cache

RefundItem(o) ==
  /\ ops[o] # NoOp /\ ops[o].step = "refund"
  /\ stock < MaxStock
  /\ stock' = stock + 1
  /\ cache' = AfterRefund(o)
  /\ Finish(o)
  /\ UNCHANGED <<table, mem, current, history>>

\* The handler ends with the exception.
RefundFailed(o) ==
  /\ ops[o] # NoOp /\ ops[o].step = "refund"
  /\ mishap' = TRUE
  /\ Finish(o)
  /\ UNCHANGED <<stock, table, cache, mem, current, overlapped>>

---------------------------------------------------------------------------
(* The Room object comes and goes with its users.                          *)

LastUserLeaves ==
  /\ current # NoInst
  /\ current' = NoInst
  /\ mem' = IF \E o \in Busy : ops[o].inst = current THEN mem
            ELSE [mem EXCEPT ![current] = Empty]
  /\ overlapped' = (overlapped \/ Busy # {})
  /\ UNCHANGED <<stock, table, cache, ops, mishap>>

FirstUserJoins(k) ==
  /\ current = NoInst
  /\ \A o \in Busy : ops[o].inst # k
  /\ current' = k
  /\ mem' = [mem EXCEPT ![k] = cache]
  /\ overlapped' = (overlapped \/ Busy # {})
  /\ UNCHANGED <<stock, table, cache, ops, mishap>>

Restart ==
  /\ current # NoInst \/ Busy # {}
  /\ ops' = [o \in Ops |-> NoOp]
  /\ mem' = [k \in Insts |-> Empty]
  /\ current' = NoInst
  /\ cache' = table
  /\ mishap' = (mishap \/ Busy # {})
  /\ UNCHANGED <<stock, table, overlapped>>

---------------------------------------------------------------------------
Init ==
  /\ stock = InitStock
  /\ table = InitTable
  /\ cache = InitTable
  /\ mem = [k \in Insts |-> Empty]
  /\ current = NoInst
  /\ ops = [o \in Ops |-> NoOp]
  /\ overlapped = FALSE /\ mishap = FALSE

Next ==
  \/ \E o \in Ops :
       \/ \E i \in Items, t \in Tiles : RequestPlace(o, i, t) \/ RequestMove(o, i, t)
       \/ \E i \in Items : RequestPickup(o, i) \/ RequestInteract(o, i)
       \/ \E clear \in BOOLEAN :
            ReserveItem(o, clear) \/ MoveSaved(o, clear) \/ DeleteFailed(o, clear)
       \/ ReserveRefused(o)
       \/ SaveApplied(o) \/ SavedInRoom(o) \/ SaveFailed(o)
       \/ DeleteApplied(o) \/ Deleted(o)
       \/ RefundItem(o) \/ RefundFailed(o)
  \/ LastUserLeaves
  \/ \E k \in Insts : FirstUserJoins(k)
  \/ Restart

Spec == Init /\ [][Next]_vars

---------------------------------------------------------------------------
TypeOK ==
  /\ stock \in Nat
  /\ table \in Contents /\ cache \in Contents
  /\ mem \in [Insts -> Contents]
  /\ current \in Insts \cup {NoInst}
  /\ ops \in [Ops -> OpRecords \cup {NoOp}]
  /\ overlapped \in BOOLEAN /\ mishap \in BOOLEAN

Total == InitStock + Cardinality(Present(InitTable))

\* Handlers that hold a piece of furniture which is in neither table: it was
\* reserved and its row not saved, or its row deleted and not refunded.
Holding ==
  {o \in Busy : ops[o].step \in {"deleted", "refund"}
                \/ (ops[o].kind = "place" /\ ops[o].step = "save")}

\* However handlers overlap, Rooms are dropped and statements fail, no piece
\* of furniture is lost: it is in the inventory, in the room's table, or
\* held by a handler that is about to put it into one of them.
NeverLost ==
  ~mishap => stock + Cardinality(Present(table)) + Cardinality(Holding) >= Total

\* Edits that do not overlap leave the three copies of the room's items in
\* agreement and the number of pieces unchanged, through failed statements,
\* rollbacks, Rooms that are dropped and rebuilt, and restarts.
SequentialEditsAgree ==
  (Busy = {} /\ ~overlapped /\ ~mishap) =>
    /\ cache = table
    /\ current # NoInst => mem[current] = table
    /\ stock + Cardinality(Present(table)) = Total

Stacked(contents) ==
  \E i, j \in Present(contents) : i # j /\ contents[i].tile = contents[j].tile

\* No handler, not even a late move or a rollback, puts two items of a Room
\* object on one tile; only a Room built from stacked items has them.
HandlersNeverStack ==
  [][\A k \in Insts :
       Stacked(mem'[k]) => Stacked(mem[k]) \/ (current = NoInst /\ current' = k)]_vars

\* The variables keep their types, and no piece is lost.
PiecesKept == TypeOK /\ NeverLost
=============================================================================
