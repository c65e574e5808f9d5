---------------------------- MODULE RoomCreation ----------------------------
(***************************************************************************)
(* Money, bought furniture and rooms: the routes that create a room and    *)
(* buy an item, the personal room made on demand, the tables and the room  *)
(* directory they write, and what the user's page shows of it.             *)
(*                                                                         *)
(* A request is a chain of statements with awaits between them.  A         *)
(* statement takes effect once, or fails, or fails for its caller although *)
(* it took effect.  The server may stop between any two steps.  A page     *)
(* hears of its money twice, in the answer over HTTP and in an event over  *)
(* its socket, and from the socket once more when it connects.             *)
(***************************************************************************)
EXTENDS Integers, Sequences, FiniteSets

CONSTANTS
  Users,
  Rooms,        \* bound: ids of rooms that can be created
  Home,         \* [Users -> ids]: the personal rooms
  Ops,          \* bound: slots for requests in flight
  RoomCost, Price, Start,   \* ROOM_CREATION_COST, an item's price, first dollars
  MaxRooms,     \* config.maxRoomsPerUser
  MaxRequests,  \* bound: requests in a behaviour
  NoOp, Nobody, NoRoom

Ids == Rooms \cup {Home[u] : u \in Users}
Requests ==
  [kind : {"create", "purchase", "inventory", "home", "connect"}, user : Users,
   step : {"owned", "spend", "seed", "credit", "add", "buy", "publish", "read", "open", "answer"},
   room : Ids \cup {NoRoom}, dollars : Nat, items : Nat]

ASSUME RoomCreationAssumption ==
  /\ IsFiniteSet(Users) /\ IsFiniteSet(Rooms) /\ IsFiniteSet(Ops)
  /\ RoomCost \in Nat \ {0} /\ Price \in Nat \ {0} /\ Start \in Nat
  /\ MaxRooms \in Nat /\ MaxRequests \in Nat
  /\ Nobody \notin Users
  /\ NoOp \notin Requests
  /\ \A u, v \in Users : Home[u] \notin Rooms /\ (u # v => Home[u] # Home[v])

VARIABLES
  money,      \* users.dollars
  stock,      \* user_inventory: how many of the item
  owner,      \* the rooms table: [Ids -> Users, or Nobody while there is no row]
  directory,  \* RoomManager: the ids it has a layout of
  ops,        \* requests in flight
  online,     \* users whose page has a socket
  inbox,      \* [Users -> events on the socket's way]
  page,       \* [Users -> what the page shows: dollars and items]
  told,       \* [Users -> rooms the page was told it owns]
  asked,      \* bound: how many requests there were
  hist        \* history: see the properties

tables == <<money, stock, owner>>
client == <<online, inbox, page, told>>
vars == <<tables, directory, ops, client, asked, hist>>

Busy == {o \in Ops : ops[o] # NoOp}
At(o, kind, step) == o \in Busy /\ ops[o].kind = kind /\ ops[o].step = step
Goto(o, step) == ops' = [ops EXCEPT ![o].step = step]
End(o) == ops' = [ops EXCEPT ![o] = NoOp]
Owned(u) == {r \in Ids : owner[r] = u}
Noted(table, u) == [table EXCEPT ![u] = @ + 1]

\* The user has no other request in flight; or this one is noted as overlapping.
Ask(o, u, kind, room, step) ==
  /\ ops[o] = NoOp /\ asked < MaxRequests
  /\ asked' = asked + 1
  /\ ops' = [ops EXCEPT ![o] = [kind |-> kind, user |-> u, step |-> step,
               room |-> room, dollars |-> 0, items |-> 0]]
  /\ hist' = IF \E p \in Busy : ops[p].user = u
             THEN [hist EXCEPT !.clash = @ \cup {u}, !.stale = @ \cup {u}] ELSE hist
  /\ UNCHANGED <<tables, directory, client>>

\* An event to the user's socket; without one it is gone.
Publish(u, event) ==
  inbox' = IF u \in online THEN [inbox EXCEPT ![u] = Append(@, event)] ELSE inbox

\* What the caller of a failed statement does not learn.
Unlearnt(u) == hist' = [hist EXCEPT !.stale = @ \cup {u}]

---------------------------------------------------------------------------
(* Creating a room.                                                        *)

CreateRoom(o, u, r) ==
  /\ owner[r] = Nobody /\ \A p \in Busy : ops[p].room # r
  /\ Ask(o, u, "create", r, "owned")

\* The cap counts the rooms in the table, the personal one too.
OneTooMany(u) == Cardinality(Owned(u)) <= MaxRooms                  \* (mutant)
BelowCap(u) == Cardinality(Owned(u)) < MaxRooms

ListOwnedRooms(o) ==
  /\ At(o, "create", "owned")
  /\ IF BelowCap(ops[o].user) THEN Goto(o, "spend") ELSE End(o)
  /\ UNCHANGED <<tables, directory, client, asked, hist>>

\* DrizzleEconomyStore.spend: one conditional update.
OnCredit(u, amount) == TRUE                                         \* (mutant)
CanPay(u, amount) == money[u] >= amount

Spend(o) ==
  LET u == ops[o].user
  IN
  /\ At(o, "create", "spend")
  /\ IF CanPay(u, RoomCost)
     THEN /\ money' = [money EXCEPT ![u] = @ - RoomCost]
          /\ \/ /\ ops' = [ops EXCEPT ![o].step = "seed", ![o].dollars = money'[u]]
                /\ UNCHANGED hist
             \* Paid, and the route does not know: no refund.
             \/ /\ End(o)
                /\ hist' = [hist EXCEPT !.lost = Noted(@, u), !.stale = @ \cup {u}]
     ELSE End(o) /\ UNCHANGED <<money, hist>>
  /\ UNCHANGED <<stock, owner, directory, client, asked>>

SeedRoom(o) ==
  /\ At(o, "create", "seed")
  /\ owner' = [owner EXCEPT ![ops[o].room] = ops[o].user]
  /\ \/ /\ Goto(o, "add") /\ UNCHANGED hist
     \* There is a row, and the route refunds it.
     \/ /\ Goto(o, "credit")
        /\ hist' = [hist EXCEPT !.free = Noted(@, ops[o].user), !.unlisted = TRUE]
  /\ UNCHANGED <<money, stock, directory, client, asked>>

SeedFails(o) ==
  /\ At(o, "create", "seed")
  /\ Goto(o, "credit")
  /\ UNCHANGED <<tables, directory, client, asked, hist>>

Keeps(o) == money                                                   \* (mutant)
Refund(o) == [money EXCEPT ![ops[o].user] = @ + RoomCost]

\* The refund is published at once; the answer is an error.
Credit(o) ==
  LET u == ops[o].user
  IN
  /\ At(o, "create", "credit")
  /\ money' = Refund(o)
  /\ End(o)
  /\ Publish(u, [type |-> "balance", dollars |-> money'[u], items |-> 0])
  /\ UNCHANGED <<stock, owner, directory, online, page, told, asked, hist>>

CreditFails(o) ==
  LET u == ops[o].user
  IN
  /\ At(o, "create", "credit")
  /\ End(o)
  /\ hist' = [hist EXCEPT !.lost = Noted(@, u), !.stale = @ \cup {u}]
  /\ UNCHANGED <<tables, directory, client, asked>>

\* addRoom, the event, and the answer on its way.
AddRoom(o) ==
  /\ At(o, "create", "add")
  /\ directory' = directory \cup {ops[o].room}
  /\ Publish(ops[o].user, [type |-> "balance", dollars |-> ops[o].dollars, items |-> 0])
  /\ Goto(o, "answer")
  /\ UNCHANGED <<tables, online, page, told, asked, hist>>

---------------------------------------------------------------------------
(* Buying an item, and reading the inventory.                              *)

BuyItem(o, u) == Ask(o, u, "purchase", NoRoom, "buy")
RefreshInventory(o, u) == Ask(o, u, "inventory", NoRoom, "read")

\* One transaction: the money goes and the item comes, or nothing happens.
Purchase(o) ==
  LET u == ops[o].user
  IN
  /\ At(o, "purchase", "buy")
  /\ IF CanPay(u, Price)
     THEN /\ money' = [money EXCEPT ![u] = @ - Price]
          /\ stock' = Noted(stock, u)
          /\ \/ /\ ops' = [ops EXCEPT ![o].step = "publish",
                             ![o].dollars = money'[u], ![o].items = stock'[u]]
                /\ UNCHANGED hist
             \/ End(o) /\ Unlearnt(u)
     ELSE End(o) /\ UNCHANGED <<money, stock, hist>>
  /\ UNCHANGED <<owner, directory, client, asked>>

PublishPurchase(o) ==
  LET u == ops[o].user
  IN
  /\ At(o, "purchase", "publish")
  /\ Publish(u, [type |-> "bought", dollars |-> ops[o].dollars, items |-> ops[o].items])
  /\ Goto(o, "answer")
  /\ UNCHANGED <<tables, directory, online, page, told, asked, hist>>

GetInventory(o) ==
  /\ At(o, "inventory", "read")
  /\ ops' = [ops EXCEPT ![o].step = "answer", ![o].items = stock[ops[o].user]]
  /\ UNCHANGED <<tables, directory, client, asked, hist>>

---------------------------------------------------------------------------
(* The personal room, provisioned when the user lists or joins rooms.      *)

EnsurePersonalRoom(o, u) ==
  /\ Home[u] \notin directory
  /\ Ask(o, u, "home", Home[u], "seed")

SeedPersonalRoom(o) ==
  /\ At(o, "home", "seed")
  /\ owner' = [owner EXCEPT ![ops[o].room] = ops[o].user]
  /\ Goto(o, "add")
  /\ UNCHANGED <<money, stock, directory, client, asked, hist>>

AddPrivateRoom(o) ==
  /\ At(o, "home", "add")
  /\ directory' = directory \cup {ops[o].room}
  /\ End(o)
  /\ UNCHANGED <<tables, client, asked, hist>>

---------------------------------------------------------------------------
(* The page.                                                               *)

Shows(u, dollars, items) == page' = [page EXCEPT ![u] = [dollars |-> dollars, items |-> items]]

Answered(o, kind) ==
  /\ At(o, kind, "answer")
  /\ End(o)
  /\ UNCHANGED <<tables, directory, online, inbox, asked, hist>>

\* The dialog closes; the room is listed as the user's.
RoomCreated(o) ==
  LET u == ops[o].user
  IN
  /\ Answered(o, "create")
  /\ Shows(u, ops[o].dollars, page[u].items)
  /\ told' = [told EXCEPT ![u] = @ \cup {ops[o].room}]

Purchased(o) ==
  /\ Answered(o, "purchase")
  /\ Shows(ops[o].user, ops[o].dollars, ops[o].items)
  /\ UNCHANGED told

\* refreshInventory: the money shown stays.
InventoryRead(o) ==
  LET u == ops[o].user
  IN
  /\ Answered(o, "inventory")
  /\ Shows(u, page[u].dollars, ops[o].items)
  /\ UNCHANGED told

\* onBalanceUpdated, onInventoryUpdated.
Receive(u) ==
  LET e == Head(inbox[u])
  IN
  /\ inbox[u] # <<>>
  /\ inbox' = [inbox EXCEPT ![u] = Tail(@)]
  /\ Shows(u, e.dollars, IF e.type = "bought" THEN e.items ELSE page[u].items)
  /\ UNCHANGED <<tables, directory, ops, online, told, asked, hist>>

\* The user is read when the socket is asked for, and told when it is open.
Upgrade(o, u) == u \notin online /\ Ask(o, u, "connect", NoRoom, "read")
VerifyToken(o) ==
  /\ At(o, "connect", "read")
  /\ ops' = [ops EXCEPT ![o].step = "open", ![o].dollars = money[ops[o].user]]
  /\ UNCHANGED <<tables, directory, client, asked, hist>>
Unset(o) == 0                                                       \* (mutant)
DataDollars(o) == ops[o].dollars

OpenSocket(o) ==
  LET u == ops[o].user
  IN
  /\ At(o, "connect", "open")
  /\ online' = online \cup {u}
  /\ inbox' = [inbox EXCEPT ![u] = <<[type |-> "connected", dollars |-> DataDollars(o), items |-> 0]>>]
  /\ End(o)
  /\ UNCHANGED <<tables, directory, page, told, asked, hist>>

---------------------------------------------------------------------------
(* Failures.                                                               *)

\* A request is refused or a statement fails before it has an effect.
Fails(o) ==
  /\ o \in Busy
  /\ ops[o].step \in {"owned", "spend", "buy", "read", "open"}
     \/ (ops[o].kind = "home" /\ ops[o].step \in {"seed", "add"})
  /\ End(o)
  /\ UNCHANGED <<tables, directory, client, asked, hist>>

Drop(u) ==
  /\ u \in online /\ asked < MaxRequests /\ asked' = asked + 1
  /\ online' = online \ {u}
  /\ inbox' = [inbox EXCEPT ![u] = <<>>]
  /\ IF inbox[u] = <<>> THEN UNCHANGED hist ELSE Unlearnt(u)
  /\ UNCHANGED <<tables, directory, ops, page, told>>

\* RoomManager.create loads the table, or does without it.
NoneLoaded == {}                                                    \* (mutant)
Loaded == {r \in Ids : owner[r] # Nobody}

Charged(u) == {o \in Busy : ops[o].user = u /\ ops[o].kind = "create"
                            /\ ops[o].step \in {"seed", "credit"}}
Restart ==
  /\ asked < MaxRequests /\ asked' = asked + 1
  /\ ops' = [o \in Ops |-> NoOp]
  /\ online' = {} /\ inbox' = [u \in Users |-> <<>>]
  /\ \E loads \in BOOLEAN :
       /\ directory' = IF loads THEN Loaded ELSE {}
       /\ hist' = [hist EXCEPT
            !.lost = [u \in Users |-> @[u] + Cardinality(Charged(u))],
            !.stale = @ \cup {u \in Users : inbox[u] # <<>> \/ \E o \in Busy : ops[o].user = u},
            !.unlisted = ~loads]
  /\ UNCHANGED <<tables, page, told>>

---------------------------------------------------------------------------

Init ==
  /\ money = [u \in Users |-> Start]
  /\ stock = [u \in Users |-> 0]
  /\ owner = [r \in Ids |-> Nobody]
  /\ directory = {}
  /\ ops = [o \in Ops |-> NoOp]
  /\ online = Users
  /\ inbox = [u \in Users |-> <<>>]
  /\ page = [u \in Users |-> [dollars |-> Start, items |-> 0]]
  /\ told = [u \in Users |-> {}]
  /\ asked = 0
  /\ hist = [clash |-> {}, stale |-> {}, unlisted |-> FALSE,
             lost |-> [u \in Users |-> 0], free |-> [u \in Users |-> 0]]

Request(o, u) ==
  \/ \E r \in Rooms : CreateRoom(o, u, r)
  \/ BuyItem(o, u) \/ RefreshInventory(o, u) \/ EnsurePersonalRoom(o, u) \/ Upgrade(o, u)

Serve(o) ==
  \/ ListOwnedRooms(o) \/ Spend(o) \/ SeedRoom(o) \/ SeedFails(o) \/ Credit(o)
  \/ CreditFails(o) \/ AddRoom(o) \/ Purchase(o) \/ PublishPurchase(o)
  \/ GetInventory(o) \/ SeedPersonalRoom(o) \/ AddPrivateRoom(o)
  \/ VerifyToken(o) \/ OpenSocket(o) \/ Fails(o)

Next ==
  \/ \E o \in Ops : Serve(o) \/ RoomCreated(o) \/ Purchased(o) \/ InventoryRead(o)
                   \/ \E u \in Users : Request(o, u)
  \/ \E u \in Users : Receive(u) \/ Drop(u)
  \/ Restart

Spec == Init /\ [][Next]_vars

---------------------------------------------------------------------------
(* Properties.  hist.lost and hist.free count, per user, the rooms paid    *)
(* without the route knowing, or not refunded, and the rooms refunded      *)
(* although they are in the table; hist.clash has the users who had two    *)
(* requests in flight, hist.stale those, the users who got an error for    *)
(* what took effect and those who lost an event with their socket;         *)
(* hist.unlisted is TRUE while the directory was not loaded, or misses a   *)
(* room that was refunded.                                                 *)

\* Every variable holds values of its kind; nobody's money goes below zero,
\* though a price is compared and paid by requests that overlap.
TypeOK ==
  /\ money \in [Users -> Nat] /\ stock \in [Users -> Nat]
  /\ owner \in [Ids -> Users \cup {Nobody}]
  /\ directory \subseteq Ids
  /\ \A o \in Busy : ops[o] \in Requests
  /\ online \subseteq Users
  /\ page \in [Users -> [dollars : Nat, items : Nat]]
  /\ told \in [Users -> SUBSET Ids]

\* Money is where it went: into items, rooms, creations under way, and what
\* failures whose outcome the route does not learn took or gave.
MoneyAccounted ==
  \A u \in Users :
    money[u] + Price * stock[u]
      + RoomCost * (Cardinality(Owned(u) \ {Home[u]}) + Cardinality(Charged(u))
                    + hist.lost[u] - hist.free[u]) = Start

\* A user whose requests do not overlap creates no more rooms than the cap.
CapHolds ==
  \A u \in Users \ hist.clash : Cardinality(Owned(u) \ {Home[u]}) <= MaxRooms

\* A room a page was told of is in the table for good, the directory has only
\* rooms of the table, and has them all once their requests are through, after
\* a restart too, unless it could not be loaded or the room was refunded.
RoomsKept ==
  /\ \A u \in Users : told[u] \subseteq Owned(u)
  /\ \A r \in directory : owner[r] # Nobody
  /\ ~hist.unlisted => \A r \in Rooms :
       owner[r] # Nobody => r \in directory \/ \E o \in Busy : ops[o].room = r

\* When nothing is on its way a connected page shows the table's money and
\* items, if its requests did not overlap, none failed after its effect, and
\* no event was lost: the events run behind the answers, and repeat older ones.
PageShowsTables ==
  \A u \in online \ hist.stale :
    (inbox[u] = <<>> /\ \A o \in Busy : ops[o].user # u)
      => page[u] = [dollars |-> money[u], items |-> stock[u]]

\* The variables keep their types, no money goes below zero or is unaccounted.
MoneyKept == TypeOK /\ MoneyAccounted

\* The cap holds, and rooms stay where they were told to be.
RoomsAccounted == CapHolds /\ RoomsKept
=============================================================================
