------------------------ MODULE RoomCreation_proofs ------------------------
(***************************************************************************)
(* Money and rooms of RoomCreation, for any users, prices and requests.    *)
(* MoneyAccounted is not inductive: a room that is paid is counted with    *)
(* the request until it has a row, so a creation has to be alone with its  *)
(* room, and the room without a row, until then.                           *)
(*                                                                         *)
(* What a page shows, and what the rows say, is compared once nothing is   *)
(* on its way: until then the invariant says, for each stage of the user's *)
(* one request, what the page will show when the events have come.         *)
(***************************************************************************)
EXTENDS RoomCreation, FiniteSetTheorems, TLAPS

Steps == {"owned", "spend", "seed", "credit", "add", "buy", "publish", "read", "open", "answer"}
Event == [type : {"balance", "bought", "connected"}, dollars : Nat, items : Nat]

Types ==
  /\ money \in [Users -> Nat] /\ stock \in [Users -> Nat]
  /\ owner \in [Ids -> Users \cup {Nobody}]
  /\ directory \subseteq Ids
  /\ ops \in [Ops -> Requests \cup {NoOp}]
  /\ online \subseteq Users
  /\ inbox \in [Users -> Seq(Event)]
  /\ page \in [Users -> [dollars : Nat, items : Nat]]
  /\ told \in [Users -> SUBSET Ids]
  /\ hist \in [clash : SUBSET Users, stale : SUBSET Users, unlisted : BOOLEAN,
               lost : [Users -> Nat], free : [Users -> Nat]]

Unseeded == {"owned", "spend", "seed"}

Creations ==
  /\ \A o \in Busy : ops[o].kind = "create" =>
       /\ ops[o].room \in Rooms
       /\ ops[o].step \in Unseeded => owner[ops[o].room] = Nobody
  /\ \A o, p \in Busy :
       ops[o].kind = "create" /\ ops[p].kind = "create" /\ ops[o].room = ops[p].room => o = p

Homes ==
  /\ \A o \in Busy : ops[o].kind = "home" => ops[o].room = Home[ops[o].user]
  /\ \A u \in Users : owner[Home[u]] \in {u, Nobody}

Bought(u) == Owned(u) \ {Home[u]}
Taken(u) == Cardinality(Bought(u)) + Cardinality(Charged(u)) + hist.lost[u] - hist.free[u]
Accounts == \A u \in Users : money[u] + Price * stock[u] + RoomCost * Taken(u) = Start

RInv == Types /\ Creations /\ Homes /\ Accounts

---------------------------------------------------------------------------
(* Arithmetic and counting.                                                *)

LEMMA Balance ==
  ASSUME NEW m \in Int, NEW s \in Int, NEW x \in Int, NEW m2 \in Int, NEW s2 \in Int, NEW x2 \in Int,
         \/ m2 = m /\ s2 = s /\ x2 = x
         \/ m2 = m - RoomCost /\ s2 = s /\ x2 = x + 1
         \/ m2 = m + RoomCost /\ s2 = s /\ x2 = x - 1
         \/ m2 = m - Price /\ s2 = s + 1 /\ x2 = x
  PROVE  m2 + Price * s2 + RoomCost * x2 = m + Price * s + RoomCost * x
<1>1. RoomCost \in Int /\ Price \in Int
  BY RoomCreationAssumption
<1>2. /\ RoomCost * (x + 1) = RoomCost * x + RoomCost
      /\ RoomCost * (x - 1) = RoomCost * x - RoomCost
      /\ Price * (s + 1) = Price * s + Price
  BY <1>1
<1>3. RoomCost * x \in Int /\ Price * s \in Int
  BY <1>1
<1> QED
  BY <1>1, <1>2, <1>3

LEMMA OneElement ==
  ASSUME NEW S, NEW T, NEW x, IsFiniteSet(S), S \ {x} = T \ {x}
  PROVE  /\ IsFiniteSet(T)
         /\ Cardinality(S) \in Nat /\ Cardinality(T) \in Nat
         /\ (x \in S <=> x \in T) => Cardinality(T) = Cardinality(S)
         /\ x \in S /\ x \notin T => Cardinality(T) = Cardinality(S) - 1
         /\ x \notin S /\ x \in T => Cardinality(T) = Cardinality(S) + 1
<1> DEFINE R == S \ {x}
<1>1. IsFiniteSet(R) /\ Cardinality(R) \in Nat
  BY FS_RemoveElement, FS_CardinalityType
<1>2. /\ x \notin S => S = R
      /\ x \in S => S = R \cup {x}
      /\ x \notin T => T = R
      /\ x \in T => T = R \cup {x}
      /\ x \notin R
  OBVIOUS
<1>3. x \notin R => IsFiniteSet(R \cup {x}) /\ Cardinality(R \cup {x}) = Cardinality(R) + 1
  BY <1>1, FS_AddElement
<1> HIDE DEF R
<1>4. /\ x \in S => IsFiniteSet(S) /\ Cardinality(S) = Cardinality(R) + 1
      /\ x \notin S => IsFiniteSet(S) /\ Cardinality(S) = Cardinality(R)
  BY <1>1, <1>2, <1>3, Zenon
<1>5. /\ x \in T => IsFiniteSet(T) /\ Cardinality(T) = Cardinality(R) + 1
      /\ x \notin T => IsFiniteSet(T) /\ Cardinality(T) = Cardinality(R)
  BY <1>1, <1>2, <1>3, Zenon
<1> QED
  BY <1>1, <1>4, <1>5

LEMMA BoughtIsFinite ==
  ASSUME Types, Homes, NEW u \in Users
  PROVE  IsFiniteSet(Bought(u)) /\ IsFiniteSet(Charged(u))
<1>1. Bought(u) \subseteq Rooms
  <2> SUFFICES ASSUME NEW r \in Ids, owner[r] = u, r # Home[u], r \notin Rooms
               PROVE  FALSE
    BY DEF Bought, Owned
  <2>1. PICK v \in Users : r = Home[v]
    BY DEF Ids
  <2>2. owner[Home[v]] \in {v, Nobody}
    BY DEF Homes
  <2> QED
    BY <2>1, <2>2, RoomCreationAssumption
<1>2. Charged(u) \subseteq Ops
  BY DEF Charged, Busy
<1> QED
  BY <1>1, <1>2, FS_Subset, RoomCreationAssumption

---------------------------------------------------------------------------
(* A step of one request.                                                  *)

Others(o) == \A p \in Ops \ {o} : ops'[p] = ops[p]
Ends(o) == ops' \in [Ops -> Requests \cup {NoOp}] /\ ops'[o] = NoOp /\ Others(o)
Moves(o, step) ==
  /\ ops' \in [Ops -> Requests \cup {NoOp}] /\ ops'[o] \in Requests /\ ops'[o] # NoOp
  /\ ops'[o].kind = ops[o].kind /\ ops'[o].user = ops[o].user
  /\ ops'[o].room = ops[o].room /\ ops'[o].step = step
  /\ Others(o)

LEMMA OpIsNot == NoOp \notin Requests
  BY RoomCreationAssumption DEF Requests

LEMMA BusyOp ==
  ASSUME Types, NEW o \in Busy
  PROVE  /\ o \in Ops /\ ops[o] \in Requests /\ ops[o].user \in Users /\ ops[o].room \in Ids \cup {NoRoom}
         /\ ops[o].dollars \in Nat /\ ops[o].items \in Nat
  BY DEF Types, Busy, Requests

LEMMA EndIs ==
  ASSUME Types, NEW o \in Ops, End(o)
  PROVE  Ends(o)
  BY DEF Types, End, Ends, Others

LEMMA SetBoth ==
  ASSUME Types, NEW o \in Busy, NEW step \in Steps, NEW d \in Nat, NEW i \in Nat,
         ops' = [ops EXCEPT ![o].step = step, ![o].dollars = d, ![o].items = i]
  PROVE  Moves(o, step) /\ ops'[o].dollars = d /\ ops'[o].items = i
<1>1. o \in Ops /\ ops[o] \in Requests /\ ops \in [Ops -> Requests \cup {NoOp}]
  BY BusyOp DEF Types
<1> DEFINE op == [ops[o] EXCEPT !.step = step, !.dollars = d, !.items = i]
<1>2. /\ op \in Requests /\ op.kind = ops[o].kind /\ op.user = ops[o].user
      /\ op.room = ops[o].room /\ op.step = step /\ op.dollars = d /\ op.items = i
  BY <1>1 DEF Requests, Steps
<1>3. ops' = [ops EXCEPT ![o] = op]
  BY <1>1
<1> QED
  BY <1>1, <1>2, <1>3, OpIsNot DEF Moves, Others

LEMMA SetDollars ==
  ASSUME Types, NEW o \in Busy, NEW step \in Steps, NEW d \in Nat,
         ops' = [ops EXCEPT ![o].step = step, ![o].dollars = d]
  PROVE  Moves(o, step) /\ ops'[o].dollars = d
<1>1. o \in Ops /\ ops[o] \in Requests /\ ops \in [Ops -> Requests \cup {NoOp}]
  BY BusyOp DEF Types
<1> DEFINE op == [ops[o] EXCEPT !.step = step, !.dollars = d]
<1>2. /\ op \in Requests /\ op.kind = ops[o].kind /\ op.user = ops[o].user
      /\ op.room = ops[o].room /\ op.step = step /\ op.dollars = d
  BY <1>1 DEF Requests, Steps
<1>3. ops' = [ops EXCEPT ![o] = op]
  BY <1>1
<1> QED
  BY <1>1, <1>2, <1>3, OpIsNot DEF Moves, Others

LEMMA SetItems ==
  ASSUME Types, NEW o \in Busy, NEW step \in Steps, NEW i \in Nat,
         ops' = [ops EXCEPT ![o].step = step, ![o].items = i]
  PROVE  Moves(o, step) /\ ops'[o].items = i
<1>1. o \in Ops /\ ops[o] \in Requests /\ ops \in [Ops -> Requests \cup {NoOp}]
  BY BusyOp DEF Types
<1> DEFINE op == [ops[o] EXCEPT !.step = step, !.items = i]
<1>2. /\ op \in Requests /\ op.kind = ops[o].kind /\ op.user = ops[o].user
      /\ op.room = ops[o].room /\ op.step = step /\ op.items = i
  BY <1>1 DEF Requests, Steps
<1>3. ops' = [ops EXCEPT ![o] = op]
  BY <1>1
<1> QED
  BY <1>1, <1>2, <1>3, OpIsNot DEF Moves, Others

LEMMA GotoIs ==
  ASSUME Types, NEW o \in Busy, NEW step \in Steps, Goto(o, step)
  PROVE  Moves(o, step)
<1>1. o \in Ops /\ ops[o] \in Requests /\ ops \in [Ops -> Requests \cup {NoOp}]
  BY BusyOp DEF Types
<1> DEFINE op == [ops[o] EXCEPT !.step = step]
<1>2. /\ op \in Requests /\ op.kind = ops[o].kind /\ op.user = ops[o].user
      /\ op.room = ops[o].room /\ op.step = step
  BY <1>1 DEF Requests, Steps
<1>3. ops' = [ops EXCEPT ![o] = op]
  BY <1>1 DEF Goto
<1> QED
  BY <1>1, <1>2, <1>3, OpIsNot DEF Moves, Others

\* What the history notes.
Hists == [clash : SUBSET Users, stale : SUBSET Users, unlisted : BOOLEAN,
          lost : [Users -> Nat], free : [Users -> Nat]]

LEMMA LossNoted ==
  ASSUME Types, NEW w \in Users, hist' = [hist EXCEPT !.lost = Noted(@, w), !.stale = @ \cup {w}]
  PROVE  /\ hist' \in Hists /\ hist'.free = hist.free /\ hist'.lost[w] = hist.lost[w] + 1
         /\ hist'.clash = hist.clash /\ hist'.unlisted = hist.unlisted
         /\ \A u \in Users \ {w} : hist'.lost[u] = hist.lost[u]
<1> DEFINE lost == [hist.lost EXCEPT ![w] = @ + 1]
           stale == hist.stale \cup {w}
<1>1. hist' = [hist EXCEPT !.lost = lost, !.stale = stale]
  BY DEF Noted
<1>2. lost \in [Users -> Nat] /\ stale \subseteq Users /\ lost[w] = hist.lost[w] + 1
      /\ \A u \in Users \ {w} : lost[u] = hist.lost[u]
  BY DEF Types
<1> HIDE DEF lost, stale
<1>3. /\ hist' \in Hists /\ hist'.lost = lost /\ hist'.free = hist.free
      /\ hist'.clash = hist.clash /\ hist'.unlisted = hist.unlisted
  BY <1>1, <1>2 DEF Types, Hists
<1> QED
  BY <1>2, <1>3

LEMMA GiftNoted ==
  ASSUME Types, NEW w \in Users, hist' = [hist EXCEPT !.free = Noted(@, w), !.unlisted = TRUE]
  PROVE  /\ hist' \in Hists /\ hist'.lost = hist.lost /\ hist'.free[w] = hist.free[w] + 1
         /\ hist'.clash = hist.clash /\ hist'.unlisted
         /\ \A u \in Users \ {w} : hist'.free[u] = hist.free[u]
<1> DEFINE free == [hist.free EXCEPT ![w] = @ + 1]
<1>1. hist' = [hist EXCEPT !.free = free, !.unlisted = TRUE]
  BY DEF Noted
<1>2. free \in [Users -> Nat] /\ free[w] = hist.free[w] + 1
      /\ \A u \in Users \ {w} : free[u] = hist.free[u]
  BY DEF Types
<1> HIDE DEF free
<1>3. /\ hist' \in Hists /\ hist'.free = free /\ hist'.lost = hist.lost
      /\ hist'.clash = hist.clash /\ hist'.unlisted
  BY <1>1, <1>2 DEF Types, Hists
<1> QED
  BY <1>2, <1>3

LEMMA UnlearntNoted ==
  ASSUME Types, NEW w \in Users, Unlearnt(w)
  PROVE  /\ hist' \in Hists /\ hist'.lost = hist.lost /\ hist'.free = hist.free
         /\ hist'.clash = hist.clash /\ hist'.unlisted = hist.unlisted
<1> DEFINE stale == hist.stale \cup {w}
<1>1. hist' = [hist EXCEPT !.stale = stale] /\ stale \subseteq Users
  BY DEF Unlearnt, Types
<1> HIDE DEF stale
<1> QED
  BY <1>1 DEF Types, Hists

---------------------------------------------------------------------------
(* Accounts.                                                               *)

Account(u) == money[u] + Price * stock[u] + RoomCost * Taken(u)

LEMMA TakenIsInt ==
  ASSUME Types, Homes, NEW u \in Users
  PROVE  Taken(u) \in Int
<1>1. Cardinality(Bought(u)) \in Nat /\ Cardinality(Charged(u)) \in Nat
  BY BoughtIsFinite, FS_CardinalityType
<1>2. hist.lost[u] \in Nat /\ hist.free[u] \in Nat
  BY DEF Types
<1> QED
  BY <1>1, <1>2 DEF Taken

LEMMA AccountKept ==
  ASSUME Types, Homes, Types', Homes', NEW u \in Users,
         \/ money'[u] = money[u] /\ stock'[u] = stock[u] /\ Taken(u)' = Taken(u)
         \/ money'[u] = money[u] - RoomCost /\ stock'[u] = stock[u] /\ Taken(u)' = Taken(u) + 1
         \/ money'[u] = money[u] + RoomCost /\ stock'[u] = stock[u] /\ Taken(u)' = Taken(u) - 1
         \/ money'[u] = money[u] - Price /\ stock'[u] = stock[u] + 1 /\ Taken(u)' = Taken(u)
  PROVE  Account(u)' = Account(u)
<1>1. Taken(u) \in Int /\ Taken(u)' \in Int
  BY TakenIsInt
<1>2. money[u] \in Int /\ money'[u] \in Int /\ stock[u] \in Int /\ stock'[u] \in Int
  BY DEF Types
<1>3. money'[u] + Price * stock'[u] + RoomCost * Taken(u)'
        = money[u] + Price * stock[u] + RoomCost * Taken(u)
  BY <1>1, <1>2, Balance
<1> QED
  BY <1>3 DEF Account

\* How a step of one request changes what is counted.
LEMMA ChargedCount ==
  ASSUME Types, Homes, NEW o \in Ops, Others(o), NEW u \in Users
  PROVE  /\ Cardinality(Charged(u)) \in Nat
         /\ (o \in Charged(u) <=> o \in Charged(u)') => Cardinality(Charged(u)') = Cardinality(Charged(u))
         /\ o \in Charged(u) /\ o \notin Charged(u)' => Cardinality(Charged(u)') = Cardinality(Charged(u)) - 1
         /\ o \notin Charged(u) /\ o \in Charged(u)' => Cardinality(Charged(u)') = Cardinality(Charged(u)) + 1
<1>1. IsFiniteSet(Charged(u))
  BY BoughtIsFinite
<1>2. Charged(u) \ {o} = Charged(u)' \ {o}
  BY DEF Charged, Busy, Others
<1> QED
  BY <1>1, <1>2, OneElement

LEMMA OthersNotCharged ==
  ASSUME Types, NEW o \in Busy, Others(o), ops'[o] = NoOp \/ ops'[o].user = ops[o].user,
         NEW u \in Users, u # ops[o].user
  PROVE  Charged(u)' = Charged(u)
  BY BusyOp DEF Charged, Busy, Others

\* A step that neither pays nor delivers.
LEMMA QuietAccounts ==
  ASSUME RInv, Types', Homes', UNCHANGED tables, hist'.lost = hist.lost, hist'.free = hist.free,
         \A u \in Users : Charged(u)' = Charged(u)
  PROVE  Accounts'
<1> SUFFICES ASSUME NEW u \in Users
             PROVE  Account(u)' = Start
  BY DEF Accounts, Account
<1>1. Taken(u)' = Taken(u)
  BY DEF Taken, Bought, Owned, tables
<1>2. Account(u)' = Account(u)
  BY <1>1 DEF Account, tables
<1> QED
  BY <1>2 DEF RInv, Accounts, Account

\* A step of a request that pays or delivers for its user alone.
LEMMA UserAccounts ==
  ASSUME RInv, Types', Homes', NEW o \in Busy, Others(o), ops'[o] = NoOp \/ ops'[o].user = ops[o].user,
         NEW w \in Users, w = ops[o].user,
         \A u \in Users \ {w} :
           /\ money'[u] = money[u] /\ stock'[u] = stock[u] /\ Bought(u)' = Bought(u)
           /\ hist'.lost[u] = hist.lost[u] /\ hist'.free[u] = hist.free[u],
         Account(w)' = Account(w)
  PROVE  Accounts'
<1> SUFFICES ASSUME NEW u \in Users
             PROVE  Account(u)' = Start
  BY DEF Accounts, Account
<1>1. CASE u = w
  BY <1>1 DEF RInv, Accounts, Account
<1>2. CASE u # w
  <2>1. Charged(u)' = Charged(u)
    BY <1>2, OthersNotCharged DEF RInv
  <2>2. Taken(u)' = Taken(u)
    BY <2>1, <1>2 DEF Taken
  <2>3. Account(u)' = Account(u)
    BY <2>2, <1>2 DEF Account
  <2> QED
    BY <2>3 DEF RInv, Accounts, Account
<1> QED
  BY <1>1, <1>2

---------------------------------------------------------------------------
(* Rooms and homes.                                                        *)

Continues(o) ==
  \/ Ends(o)
  \/ \E step \in Steps :
       /\ Moves(o, step)
       /\ ops[o].kind = "create" /\ step \in Unseeded => ops[o].step \in Unseeded

LEMMA CreationsKept ==
  ASSUME Types, Creations, NEW o \in Busy, Continues(o), owner' = owner
  PROVE  Creations'
<1>1. \A p \in Busy' : /\ p \in Busy /\ ops'[p].kind = ops[p].kind /\ ops'[p].room = ops[p].room
                       /\ ops[p].kind = "create" /\ ops'[p].step \in Unseeded => ops[p].step \in Unseeded
  BY DEF Busy, Continues, Ends, Moves, Others
<1> QED
  BY <1>1 DEF Creations

LEMMA HomesKept ==
  ASSUME Types, Homes, NEW o \in Busy, Continues(o), owner' = owner
  PROVE  Homes'
<1>1. \A p \in Busy' : /\ p \in Busy /\ ops'[p].kind = ops[p].kind /\ ops'[p].room = ops[p].room
                       /\ ops'[p].user = ops[p].user
  BY DEF Busy, Continues, Ends, Moves, Others
<1> QED
  BY <1>1 DEF Homes

\* A statement that answers without a change to the tables, or fails.
LEMMA QuietStep ==
  ASSUME RInv, NEW o \in Busy, Continues(o), Types', UNCHANGED tables,
         hist'.lost = hist.lost, hist'.free = hist.free,
         NEW w \in Users, w = ops[o].user, o \in Charged(w) <=> o \in Charged(w)'
  PROVE  RInv'
<1>1. Creations' /\ Homes'
  BY CreationsKept, HomesKept DEF RInv, tables
<1>2. Others(o) /\ (ops'[o] = NoOp \/ ops'[o].user = ops[o].user) /\ ops[o].user \in Users
  BY BusyOp DEF Continues, Ends, Moves, RInv
<1>3. \A u \in Users : Charged(u)' = Charged(u)
  <2> SUFFICES ASSUME NEW u \in Users
               PROVE  Charged(u)' = Charged(u)
    OBVIOUS
  <2>1. CASE u # w
    BY <1>2, <2>1, OthersNotCharged DEF RInv
  <2>2. CASE u = w
    <3>1. Charged(w) \ {o} = Charged(w)' \ {o}
      BY <1>2 DEF Charged, Busy, Others
    <3> QED
      BY <2>2, <3>1
  <2> QED
    BY <2>1, <2>2
<1>4. Accounts'
  BY <1>1, <1>3, QuietAccounts
<1> QED
  BY <1>1, <1>4 DEF RInv

LEMMA ChargedThen ==
  ASSUME NEW o \in Busy, NEW w, w = ops[o].user
  PROVE  /\ o \in Charged(w) <=> (ops[o].kind = "create" /\ ops[o].step \in {"seed", "credit"})
         /\ Ends(o) => o \notin Charged(w)'
         /\ \A step \in Steps : Moves(o, step) =>
              (o \in Charged(w)' <=> (ops[o].kind = "create" /\ step \in {"seed", "credit"}))
  BY DEF Charged, Busy, Ends, Moves

LEMMA PublishIs ==
  ASSUME Types, NEW u \in Users, NEW e \in Event, Publish(u, e)
  PROVE  inbox' \in [Users -> Seq(Event)]
<1>1. inbox[u] \in Seq(Event)
  BY DEF Types
<1>2. Append(inbox[u], e) \in Seq(Event)
  BY <1>1
<1> QED
  BY <1>2 DEF Types, Publish

---------------------------------------------------------------------------
(* The steps.                                                              *)

LEMMA ListOwnedRoomsInv ==
  ASSUME RInv, NEW o \in Ops, ListOwnedRooms(o)
  PROVE  RInv'
<1>1. o \in Busy /\ ops[o].kind = "create" /\ ops[o].step = "owned" /\ Types
  BY DEF ListOwnedRooms, At, RInv
<1>2. Ends(o) \/ Moves(o, "spend")
  BY <1>1, EndIs, GotoIs DEF ListOwnedRooms, Steps
<1>3. Continues(o)
  BY <1>1, <1>2 DEF Continues, Unseeded, Steps
<1>4. Types'
  BY <1>1, <1>2 DEF Types, ListOwnedRooms, Ends, Moves, tables, client
<1>5. PICK w \in Users : w = ops[o].user
  BY <1>1, BusyOp
<1>6. o \in Charged(w) <=> o \in Charged(w)'
  BY <1>1, <1>2, <1>5, ChargedThen DEF Steps
<1> QED
  BY <1>1, <1>3, <1>4, <1>5, <1>6, QuietStep DEF ListOwnedRooms

LEMMA SpendInv ==
  ASSUME RInv, NEW o \in Ops, Spend(o)
  PROVE  RInv'
<1>1. o \in Busy /\ ops[o].kind = "create" /\ ops[o].step = "spend" /\ Types /\ Homes /\ Creations
  BY DEF Spend, At, RInv
<1>2. PICK w \in Users : w = ops[o].user
  BY <1>1, BusyOp
<1>3. CASE ~CanPay(w, RoomCost)
  <2>1. /\ Ends(o) /\ UNCHANGED <<money, hist, stock, owner, directory, client, asked>>
    BY <1>1, <1>2, <1>3, EndIs DEF Spend
  <2>2. Types'
    BY <1>1, <2>1 DEF Types, Ends, client
  <2>3. o \in Charged(w) <=> o \in Charged(w)'
    BY <1>1, <1>2, <2>1, ChargedThen
  <2> QED
    BY <1>1, <1>2, <2>1, <2>2, <2>3, QuietStep DEF Continues, tables
<1>4. CASE CanPay(w, RoomCost)
  <2>1. /\ money' = [money EXCEPT ![w] = @ - RoomCost]
        /\ UNCHANGED <<stock, owner, directory, client, asked>>
    BY <1>2, <1>4 DEF Spend
  <2>2. money' \in [Users -> Nat] /\ money'[w] = money[w] - RoomCost
    BY <1>1, <2>1, <1>4, RoomCreationAssumption DEF CanPay, Types
  <2>3. \A u \in Users : Bought(u)' = Bought(u)
    BY <2>1 DEF Bought, Owned
  <2>4. CASE ops' = [ops EXCEPT ![o].step = "seed", ![o].dollars = money'[w]] /\ UNCHANGED hist
    <3>2. Moves(o, "seed")
      BY <1>1, <1>2, <2>2, <2>4, SetDollars DEF Steps, Types
    <3>3. Types'
      BY <1>1, <2>1, <2>2, <2>4, <3>2 DEF Types, Moves, client
    <3>4. Creations' /\ Homes'
      BY <1>1, <2>1, <3>2, CreationsKept, HomesKept DEF Continues, Unseeded, Steps
    <3>5. Cardinality(Charged(w)) \in Nat /\ Cardinality(Charged(w)') = Cardinality(Charged(w)) + 1
      BY <1>1, <1>2, <3>2, ChargedThen, ChargedCount DEF Moves, Steps
    <3>6. Taken(w)' = Taken(w) + 1
      <4>1. Cardinality(Bought(w)) \in Nat /\ hist.lost[w] \in Nat /\ hist.free[w] \in Nat
        BY <1>1, BoughtIsFinite, FS_CardinalityType DEF Types
      <4> QED
        BY <4>1, <2>3, <2>4, <3>5 DEF Taken
    <3>7. Account(w)' = Account(w)
      BY <1>1, <2>1, <2>2, <3>3, <3>4, <3>6, AccountKept
    <3>8. /\ Others(o) /\ ops'[o].user = ops[o].user
          /\ \A u \in Users \ {w} : money'[u] = money[u] /\ stock'[u] = stock[u]
      BY <1>1, <2>1, <3>2 DEF Moves, Types
    <3>9. Accounts'
      BY <1>1, <1>2, <2>3, <2>4, <3>3, <3>4, <3>7, <3>8, UserAccounts
    <3> QED
      BY <3>3, <3>4, <3>9 DEF RInv
  <2>5. CASE End(o) /\ hist' = [hist EXCEPT !.lost = Noted(@, w), !.stale = @ \cup {w}]
    <3>1. Ends(o)
      BY <1>1, <2>5, EndIs
    <3>2. /\ hist' \in Hists /\ hist'.free = hist.free /\ hist'.lost[w] = hist.lost[w] + 1
          /\ \A u \in Users \ {w} : hist'.lost[u] = hist.lost[u]
      BY <1>1, <2>5, LossNoted
    <3>3. Types'
      BY <1>1, <2>1, <2>2, <3>1, <3>2 DEF Types, Ends, client, Hists
    <3>4. Creations' /\ Homes'
      BY <1>1, <2>1, <3>1, CreationsKept, HomesKept DEF Continues
    <3>5. Cardinality(Charged(w)) \in Nat /\ Cardinality(Charged(w)') = Cardinality(Charged(w))
      BY <1>1, <1>2, <3>1, ChargedThen, ChargedCount DEF Ends
    <3>6. Taken(w)' = Taken(w) + 1
      <4>1. Cardinality(Bought(w)) \in Nat /\ hist.lost[w] \in Nat /\ hist.free[w] \in Nat
            /\ hist'.lost[w] = hist.lost[w] + 1
        BY <1>1, <3>2, BoughtIsFinite, FS_CardinalityType DEF Types
      <4> QED
        BY <4>1, <2>3, <3>2, <3>5 DEF Taken
    <3>7. Account(w)' = Account(w)
      BY <1>1, <2>1, <2>2, <3>3, <3>4, <3>6, AccountKept
    <3>8. /\ Others(o) /\ ops'[o] = NoOp
          /\ \A u \in Users \ {w} : /\ money'[u] = money[u] /\ stock'[u] = stock[u]
                                   /\ hist'.lost[u] = hist.lost[u] /\ hist'.free[u] = hist.free[u]
      BY <1>1, <2>1, <3>1, <3>2 DEF Ends, Types
    <3>9. Accounts'
      BY <1>1, <1>2, <2>3, <3>3, <3>4, <3>7, <3>8, UserAccounts
    <3> QED
      BY <3>3, <3>4, <3>9 DEF RInv
  <2> QED
    BY <1>2, <1>4, <2>4, <2>5 DEF Spend
<1> QED
  BY <1>3, <1>4

LEMMA Stayed ==
  ASSUME RInv, NEW o \in Busy, Types', Continues(o), owner' = owner,
         NEW w \in Users, w = ops[o].user,
         \A u \in Users \ {w} :
           /\ money'[u] = money[u] /\ stock'[u] = stock[u]
           /\ hist'.lost[u] = hist.lost[u] /\ hist'.free[u] = hist.free[u],
         \/ money'[w] = money[w] /\ stock'[w] = stock[w] /\ Taken(w)' = Taken(w)
         \/ money'[w] = money[w] - RoomCost /\ stock'[w] = stock[w] /\ Taken(w)' = Taken(w) + 1
         \/ money'[w] = money[w] + RoomCost /\ stock'[w] = stock[w] /\ Taken(w)' = Taken(w) - 1
         \/ money'[w] = money[w] - Price /\ stock'[w] = stock[w] + 1 /\ Taken(w)' = Taken(w)
  PROVE  RInv'
<1>1. Types /\ Homes /\ Creations' /\ Homes'
  BY CreationsKept, HomesKept DEF RInv
<1>2. Others(o) /\ (ops'[o] = NoOp \/ ops'[o].user = ops[o].user)
  BY DEF Continues, Ends, Moves
<1>3. \A u \in Users : Bought(u)' = Bought(u)
  BY DEF Bought, Owned
<1>4. Account(w)' = Account(w)
  BY <1>1, AccountKept
<1>5. Accounts'
  BY <1>1, <1>2, <1>3, <1>4, UserAccounts
<1> QED
  BY <1>1, <1>5 DEF RInv

LEMMA Counts ==
  ASSUME Types, Homes, NEW u \in Users
  PROVE  /\ Cardinality(Bought(u)) \in Nat /\ Cardinality(Charged(u)) \in Nat
         /\ hist.lost[u] \in Nat /\ hist.free[u] \in Nat
  BY BoughtIsFinite, FS_CardinalityType DEF Types

LEMMA SeedFailsInv ==
  ASSUME RInv, NEW o \in Ops, SeedFails(o)
  PROVE  RInv'
<1>1. o \in Busy /\ ops[o].kind = "create" /\ ops[o].step = "seed" /\ Types
  BY DEF SeedFails, At, RInv
<1>2. Moves(o, "credit")
  BY <1>1, GotoIs DEF SeedFails, Steps
<1>3. Continues(o)
  BY <1>1, <1>2 DEF Continues, Unseeded, Steps
<1>4. Types'
  BY <1>1, <1>2 DEF Types, SeedFails, Moves, tables, client
<1>5. PICK w \in Users : w = ops[o].user
  BY <1>1, BusyOp
<1>6. o \in Charged(w) <=> o \in Charged(w)'
  BY <1>1, <1>2, <1>5, ChargedThen DEF Steps
<1> QED
  BY <1>1, <1>3, <1>4, <1>5, <1>6, QuietStep DEF SeedFails

LEMMA CreditInv ==
  ASSUME RInv, NEW o \in Ops, Credit(o)
  PROVE  RInv'
<1>1. o \in Busy /\ ops[o].kind = "create" /\ ops[o].step = "credit" /\ Types /\ Homes
  BY DEF Credit, At, RInv
<1>2. PICK w \in Users : w = ops[o].user
  BY <1>1, BusyOp
<1>3. /\ money' = [money EXCEPT ![w] = @ + RoomCost]
      /\ UNCHANGED <<stock, owner, directory, online, page, told, asked, hist>>
  BY <1>2 DEF Credit, Refund
<1>4. /\ money' \in [Users -> Nat] /\ money'[w] = money[w] + RoomCost
      /\ \A u \in Users \ {w} : money'[u] = money[u]
  BY <1>1, <1>3, RoomCreationAssumption DEF Types
<1>5. Ends(o)
  BY <1>1, EndIs DEF Credit
<1>6. inbox' \in [Users -> Seq(Event)]
  <2> DEFINE e == [type |-> "balance", dollars |-> money'[w], items |-> 0]
  <2>1. e \in Event /\ Publish(w, e)
    BY <1>2, <1>4 DEF Event, Credit
  <2> HIDE DEF e
  <2> QED
    BY <1>1, <2>1, PublishIs
<1>7. Types'
  BY <1>1, <1>3, <1>4, <1>5, <1>6 DEF Types, Ends
<1>8. Cardinality(Charged(w)') = Cardinality(Charged(w)) - 1
  BY <1>1, <1>2, <1>5, ChargedThen, ChargedCount DEF Ends
<1>9. Taken(w)' = Taken(w) - 1
  <2>1. Bought(w)' = Bought(w)
    BY <1>3 DEF Bought, Owned
  <2> QED
    BY <1>1, <1>3, <1>8, <2>1, Counts DEF Taken
<1> QED
  BY <1>1, <1>2, <1>3, <1>4, <1>5, <1>7, <1>9, Stayed DEF Continues

LEMMA CreditFailsInv ==
  ASSUME RInv, NEW o \in Ops, CreditFails(o)
  PROVE  RInv'
<1>1. o \in Busy /\ ops[o].kind = "create" /\ ops[o].step = "credit" /\ Types /\ Homes
  BY DEF CreditFails, At, RInv
<1>2. PICK w \in Users : w = ops[o].user
  BY <1>1, BusyOp
<1>3. /\ UNCHANGED <<tables, directory, client, asked>>
      /\ hist' = [hist EXCEPT !.lost = Noted(@, w), !.stale = @ \cup {w}]
  BY <1>2 DEF CreditFails
<1>4. Ends(o)
  BY <1>1, EndIs DEF CreditFails
<1>5. /\ hist' \in Hists /\ hist'.free = hist.free /\ hist'.lost[w] = hist.lost[w] + 1
      /\ \A u \in Users \ {w} : hist'.lost[u] = hist.lost[u]
  BY <1>1, <1>3, LossNoted
<1>6. Types'
  BY <1>1, <1>3, <1>4, <1>5 DEF Types, Ends, tables, client, Hists
<1>7. Cardinality(Charged(w)') = Cardinality(Charged(w)) - 1
  BY <1>1, <1>2, <1>4, ChargedThen, ChargedCount DEF Ends
<1>8. Taken(w)' = Taken(w)
  <2>1. Bought(w)' = Bought(w)
    BY <1>3 DEF Bought, Owned, tables
  <2> QED
    BY <1>1, <1>5, <1>7, <2>1, Counts DEF Taken
<1> QED
  BY <1>1, <1>2, <1>3, <1>4, <1>5, <1>6, <1>8, Stayed DEF Continues, tables

LEMMA AddRoomInv ==
  ASSUME RInv, NEW o \in Ops, AddRoom(o)
  PROVE  RInv'
<1>1. o \in Busy /\ ops[o].kind = "create" /\ ops[o].step = "add" /\ Types /\ Creations
  BY DEF AddRoom, At, RInv
<1>2. PICK w \in Users : w = ops[o].user
  BY <1>1, BusyOp
<1>3. Moves(o, "answer")
  BY <1>1, GotoIs DEF AddRoom, Steps
<1>4. Continues(o)
  BY <1>1, <1>3 DEF Continues, Unseeded, Steps
<1>5. inbox' \in [Users -> Seq(Event)]
  <2> DEFINE e == [type |-> "balance", dollars |-> ops[o].dollars, items |-> 0]
  <2>1. e \in Event /\ Publish(w, e)
    BY <1>1, <1>2, BusyOp DEF Event, AddRoom
  <2> HIDE DEF e
  <2> QED
    BY <1>1, <2>1, PublishIs
<1>6. directory' \subseteq Ids
  BY <1>1 DEF AddRoom, Types, Creations, Ids
<1>7. Types'
  BY <1>1, <1>3, <1>5, <1>6 DEF Types, AddRoom, Moves, tables
<1>8. o \in Charged(w) <=> o \in Charged(w)'
  BY <1>1, <1>2, <1>3, ChargedThen DEF Steps
<1> QED
  BY <1>1, <1>2, <1>4, <1>7, <1>8, QuietStep DEF AddRoom

\* A room gets its row: it belongs to the request's user from here.
LEMMA SeedRoomInv ==
  ASSUME RInv, NEW o \in Ops, SeedRoom(o)
  PROVE  RInv'
<1>1. o \in Busy /\ ops[o].kind = "create" /\ ops[o].step = "seed" /\ Types /\ Homes /\ Creations
  BY DEF SeedRoom, At, RInv
<1>2. PICK w \in Users : w = ops[o].user
  BY <1>1, BusyOp
<1>3. PICK r \in Rooms : r = ops[o].room /\ owner[r] = Nobody
  BY <1>1 DEF Creations, Unseeded
<1>4. /\ owner' = [owner EXCEPT ![r] = w]
      /\ UNCHANGED <<money, stock, directory, client, asked>>
  BY <1>2, <1>3 DEF SeedRoom
<1>5. r \in Ids /\ owner' \in [Ids -> Users \cup {Nobody}] /\ owner'[r] = w
      /\ \A i \in Ids \ {r} : owner'[i] = owner[i]
  BY <1>1, <1>4 DEF Types, Ids
<1>6. \/ Moves(o, "add") /\ UNCHANGED hist
      \/ Moves(o, "credit") /\ hist' = [hist EXCEPT !.free = Noted(@, w), !.unlisted = TRUE]
  BY <1>1, <1>2, GotoIs DEF SeedRoom, Steps
<1>7. /\ hist' \in Hists /\ hist'.lost = hist.lost
      /\ \A u \in Users \ {w} : hist'.free[u] = hist.free[u]
      /\ \/ Moves(o, "add") /\ hist'.free[w] = hist.free[w]
         \/ Moves(o, "credit") /\ hist'.free[w] = hist.free[w] + 1
  <2>1. CASE Moves(o, "add") /\ UNCHANGED hist
    BY <1>1, <2>1 DEF Types, Hists
  <2>2. CASE Moves(o, "credit") /\ hist' = [hist EXCEPT !.free = Noted(@, w), !.unlisted = TRUE]
    BY <1>1, <2>2, GiftNoted
  <2> QED
    BY <1>6, <2>1, <2>2
<1>8. Types'
  BY <1>1, <1>4, <1>5, <1>7 DEF Types, Moves, client, Hists
<1>9. Continues(o) /\ Others(o) /\ ops'[o].user = ops[o].user
  BY <1>1, <1>7 DEF Continues, Moves, Unseeded, Steps
<1>10. Creations'
  <2>1. \A p \in Busy' : /\ p \in Busy /\ ops'[p].kind = ops[p].kind /\ ops'[p].room = ops[p].room
                         /\ ops[p].kind = "create" /\ ops'[p].step \in Unseeded
                              => p # o /\ ops[p].step \in Unseeded
    BY <1>1, <1>7 DEF Busy, Moves, Others, Unseeded
  <2>2. \A p \in Busy : p # o /\ ops[p].kind = "create" => ops[p].room \in Rooms \ {r}
    BY <1>1, <1>3 DEF Creations
  <2> QED
    BY <1>1, <1>5, <2>1, <2>2 DEF Creations, Ids
<1>11. Homes'
  <2>1. \A p \in Busy' : /\ p \in Busy /\ ops'[p].kind = ops[p].kind /\ ops'[p].room = ops[p].room
                         /\ ops'[p].user = ops[p].user
    BY <1>1, <1>7, <1>9 DEF Busy, Moves, Others
  <2>2. \A u \in Users : Home[u] \in Ids \ {r}
    BY RoomCreationAssumption DEF Ids
  <2> QED
    BY <1>1, <1>5, <2>1, <2>2 DEF Homes
<1>12. \A u \in Users \ {w} : Bought(u)' = Bought(u)
  BY <1>3, <1>5, RoomCreationAssumption DEF Bought, Owned
<1>13. Cardinality(Bought(w)') = Cardinality(Bought(w)) + 1
  <2>1. r \notin Bought(w) /\ r \in Bought(w)' /\ Bought(w) \ {r} = Bought(w)' \ {r}
    BY <1>3, <1>5, RoomCreationAssumption DEF Bought, Owned
  <2>2. IsFiniteSet(Bought(w))
    BY <1>1, BoughtIsFinite
  <2> HIDE DEF Bought
  <2> QED
    BY <2>1, <2>2, OneElement
<1>14. Taken(w)' = Taken(w)
  <2>1. CASE Moves(o, "add") /\ hist'.free[w] = hist.free[w]
    <3>1. Cardinality(Charged(w)') = Cardinality(Charged(w)) - 1
      BY <1>1, <1>2, <1>9, <2>1, ChargedThen, ChargedCount DEF Steps
    <3> QED
      BY <1>1, <1>7, <1>13, <2>1, <3>1, Counts DEF Taken
  <2>2. CASE Moves(o, "credit") /\ hist'.free[w] = hist.free[w] + 1
    <3>1. Cardinality(Charged(w)') = Cardinality(Charged(w))
      BY <1>1, <1>2, <1>9, <2>2, ChargedThen, ChargedCount DEF Steps
    <3> QED
      BY <1>1, <1>7, <1>13, <2>2, <3>1, Counts DEF Taken
  <2> QED
    BY <1>7, <2>1, <2>2
<1>15. Account(w)' = Account(w)
  BY <1>1, <1>4, <1>8, <1>11, <1>14, AccountKept
<1>16. Accounts'
  BY <1>1, <1>2, <1>4, <1>7, <1>8, <1>9, <1>11, <1>12, <1>15, UserAccounts
<1> QED
  BY <1>8, <1>10, <1>11, <1>16 DEF RInv

\* A personal room gets its row; nothing is paid for it.
LEMMA SeedPersonalRoomInv ==
  ASSUME RInv, NEW o \in Ops, SeedPersonalRoom(o)
  PROVE  RInv'
<1>1. o \in Busy /\ ops[o].kind = "home" /\ ops[o].step = "seed" /\ Types /\ Homes /\ Creations
  BY DEF SeedPersonalRoom, At, RInv
<1>2. PICK w \in Users : w = ops[o].user
  BY <1>1, BusyOp
<1>3. PICK r \in Ids : r = ops[o].room /\ r = Home[w]
  BY <1>1, <1>2 DEF Homes, Ids
<1>4. /\ owner' = [owner EXCEPT ![r] = w]
      /\ UNCHANGED <<money, stock, directory, client, asked, hist>>
  BY <1>2, <1>3 DEF SeedPersonalRoom
<1>5. owner' \in [Ids -> Users \cup {Nobody}] /\ owner'[r] = w
      /\ \A i \in Ids \ {r} : owner'[i] = owner[i]
  BY <1>1, <1>4 DEF Types
<1>6. Moves(o, "add")
  BY <1>1, GotoIs DEF SeedPersonalRoom, Steps
<1>7. Types'
  BY <1>1, <1>4, <1>5, <1>6 DEF Types, Moves, client
<1>8. \A p \in Busy' : /\ p \in Busy /\ ops'[p].kind = ops[p].kind /\ ops'[p].room = ops[p].room
                       /\ ops'[p].user = ops[p].user
                       /\ ops[p].kind = "create" => ops'[p].step = ops[p].step
  BY <1>1, <1>6 DEF Busy, Moves, Others
<1>9. Creations'
  <2>1. \A i \in Rooms : i \in Ids \ {r}
    BY <1>3, RoomCreationAssumption DEF Ids
  <2> QED
    BY <1>1, <1>5, <1>8, <2>1 DEF Creations
<1>10. Homes'
  <2>1. \A u \in Users : Home[u] \in Ids /\ (u # w => Home[u] # r)
    BY <1>3, RoomCreationAssumption DEF Ids
  <2> QED
    BY <1>1, <1>3, <1>5, <1>8, <2>1 DEF Homes
<1>11. \A u \in Users : Bought(u)' = Bought(u)
  <2>1. owner[r] \in {w, Nobody}
    BY <1>1, <1>3 DEF Homes
  <2> QED
    BY <1>3, <1>5, <2>1, RoomCreationAssumption DEF Bought, Owned
<1>12. Others(o) /\ ops'[o].user = ops[o].user
  BY <1>6 DEF Moves
<1>13. Cardinality(Charged(w)') = Cardinality(Charged(w))
  BY <1>1, <1>2, <1>6, <1>12, ChargedThen, ChargedCount DEF Steps
<1>14. Account(w)' = Account(w)
  BY <1>4, <1>11, <1>13 DEF Account, Taken
<1>15. Accounts'
  BY <1>1, <1>2, <1>4, <1>7, <1>10, <1>11, <1>12, <1>14, UserAccounts
<1> QED
  BY <1>7, <1>9, <1>10, <1>15 DEF RInv

LEMMA PurchaseInv ==
  ASSUME RInv, NEW o \in Ops, Purchase(o)
  PROVE  RInv'
<1>1. o \in Busy /\ ops[o].kind = "purchase" /\ ops[o].step = "buy" /\ Types /\ Homes
  BY DEF Purchase, At, RInv
<1>2. PICK w \in Users : w = ops[o].user
  BY <1>1, BusyOp
<1>3. CASE ~CanPay(w, Price)
  <2>1. Ends(o) /\ UNCHANGED <<money, stock, hist, owner, directory, client, asked>>
    BY <1>1, <1>2, <1>3, EndIs DEF Purchase
  <2>2. Types'
    BY <1>1, <2>1 DEF Types, Ends, client
  <2>3. o \in Charged(w) <=> o \in Charged(w)'
    BY <1>1, <1>2, <2>1, ChargedThen
  <2> QED
    BY <1>1, <1>2, <2>1, <2>2, <2>3, QuietStep DEF Continues, tables
<1>4. CASE CanPay(w, Price)
  <2>1. /\ money' = [money EXCEPT ![w] = @ - Price]
        /\ stock' = [stock EXCEPT ![w] = @ + 1]
        /\ UNCHANGED <<owner, directory, client, asked>>
    BY <1>2, <1>4 DEF Purchase, Noted
  <2>2. /\ money' \in [Users -> Nat] /\ money'[w] = money[w] - Price
        /\ stock' \in [Users -> Nat] /\ stock'[w] = stock[w] + 1
        /\ \A u \in Users \ {w} : money'[u] = money[u] /\ stock'[u] = stock[u]
    BY <1>1, <2>1, <1>4, RoomCreationAssumption DEF CanPay, Types
  <2>3. (Ends(o) \/ Moves(o, "publish")) /\ hist' \in Hists
        /\ hist'.lost = hist.lost /\ hist'.free = hist.free
    <3>1. CASE /\ ops' = [ops EXCEPT ![o].step = "publish", ![o].dollars = money'[w], ![o].items = stock'[w]]
               /\ UNCHANGED hist
      BY <1>1, <2>2, <3>1, SetBoth DEF Steps, Types, Hists
    <3>2. CASE End(o) /\ Unlearnt(w)
      BY <1>1, <3>2, EndIs, UnlearntNoted
    <3> QED
      BY <1>2, <1>4, <3>1, <3>2 DEF Purchase
  <2>4. Continues(o)
    BY <2>3 DEF Continues, Unseeded, Steps
  <2>5. Types'
    BY <1>1, <2>1, <2>2, <2>3 DEF Types, Ends, Moves, client, Hists
  <2>6. Cardinality(Charged(w)') = Cardinality(Charged(w))
    BY <1>1, <1>2, <2>3, ChargedThen, ChargedCount DEF Steps, Ends, Moves
  <2>7. Taken(w)' = Taken(w)
    BY <2>1, <2>3, <2>6 DEF Taken, Bought, Owned
  <2> QED
    BY <1>1, <1>2, <2>1, <2>2, <2>3, <2>4, <2>5, <2>7, Stayed
<1> QED
  BY <1>3, <1>4

LEMMA PublishPurchaseInv ==
  ASSUME RInv, NEW o \in Ops, PublishPurchase(o)
  PROVE  RInv'
<1>1. o \in Busy /\ ops[o].kind = "purchase" /\ ops[o].step = "publish" /\ Types
  BY DEF PublishPurchase, At, RInv
<1>2. PICK w \in Users : w = ops[o].user
  BY <1>1, BusyOp
<1>3. Moves(o, "answer")
  BY <1>1, GotoIs DEF PublishPurchase, Steps
<1>4. Continues(o)
  BY <1>1, <1>3 DEF Continues, Unseeded, Steps
<1>5. inbox' \in [Users -> Seq(Event)]
  <2> DEFINE e == [type |-> "bought", dollars |-> ops[o].dollars, items |-> ops[o].items]
  <2>1. e \in Event /\ Publish(w, e)
    BY <1>1, <1>2, BusyOp DEF Event, PublishPurchase
  <2> HIDE DEF e
  <2> QED
    BY <1>1, <2>1, PublishIs
<1>6. Types'
  BY <1>1, <1>3, <1>5 DEF Types, PublishPurchase, Moves, tables
<1>7. o \in Charged(w) <=> o \in Charged(w)'
  BY <1>1, <1>2, <1>3, ChargedThen DEF Steps
<1> QED
  BY <1>1, <1>2, <1>4, <1>6, <1>7, QuietStep DEF PublishPurchase

LEMMA GetInventoryInv ==
  ASSUME RInv, NEW o \in Ops, GetInventory(o)
  PROVE  RInv'
<1>1. o \in Busy /\ ops[o].kind = "inventory" /\ ops[o].step = "read" /\ Types
  BY DEF GetInventory, At, RInv
<1>2. PICK w \in Users : w = ops[o].user
  BY <1>1, BusyOp
<1>3. Moves(o, "answer")
  BY <1>1, <1>2, SetItems DEF GetInventory, Steps, Types
<1>4. Continues(o)
  BY <1>1, <1>3 DEF Continues, Unseeded, Steps
<1>5. Types'
  BY <1>1, <1>3 DEF Types, GetInventory, Moves, tables, client
<1>6. o \in Charged(w) <=> o \in Charged(w)'
  BY <1>1, <1>2, <1>3, ChargedThen DEF Steps
<1> QED
  BY <1>1, <1>2, <1>4, <1>5, <1>6, QuietStep DEF GetInventory

LEMMA AddPrivateRoomInv ==
  ASSUME RInv, NEW o \in Ops, AddPrivateRoom(o)
  PROVE  RInv'
<1>1. o \in Busy /\ ops[o].kind = "home" /\ ops[o].step = "add" /\ Types /\ Homes
  BY DEF AddPrivateRoom, At, RInv
<1>2. PICK w \in Users : w = ops[o].user
  BY <1>1, BusyOp
<1>3. Ends(o)
  BY <1>1, EndIs DEF AddPrivateRoom
<1>4. directory' \subseteq Ids
  BY <1>1, <1>2 DEF AddPrivateRoom, Types, Homes, Ids
<1>5. Types'
  BY <1>1, <1>3, <1>4 DEF Types, AddPrivateRoom, Ends, tables, client
<1>6. o \in Charged(w) <=> o \in Charged(w)'
  BY <1>1, <1>2, <1>3, ChargedThen
<1> QED
  BY <1>1, <1>2, <1>3, <1>5, <1>6, QuietStep DEF AddPrivateRoom, Continues

---------------------------------------------------------------------------
(* A request comes in.                                                     *)

Kinds == {"create", "purchase", "inventory", "home", "connect"}

LEMMA AskIs ==
  ASSUME Types, NEW o \in Ops, NEW u \in Users, NEW kind \in Kinds, NEW room \in Ids \cup {NoRoom},
         NEW step \in Steps, Ask(o, u, kind, room, step)
  PROVE  /\ o \notin Busy /\ Busy' = Busy \cup {o} /\ Others(o) /\ UNCHANGED tables
         /\ ops'[o].kind = kind /\ ops'[o].user = u /\ ops'[o].room = room /\ ops'[o].step = step
         /\ hist'.lost = hist.lost /\ hist'.free = hist.free /\ hist'.unlisted = hist.unlisted
         /\ hist.clash \subseteq hist'.clash /\ ((\E p \in Busy : ops[p].user = u) => u \in hist'.clash)
         /\ directory' = directory /\ told' = told
         /\ Types'
<1> DEFINE op == [kind |-> kind, user |-> u, step |-> step, room |-> room, dollars |-> 0, items |-> 0]
<1>1. op \in Requests
  BY DEF Kinds, Steps, Requests
<1>2. /\ op.kind = kind /\ op.user = u /\ op.room = room /\ op.step = step
      /\ ops' = [ops EXCEPT ![o] = op] /\ ops[o] = NoOp /\ UNCHANGED <<tables, directory, client>>
  BY DEF Ask
<1>3. /\ hist' \in Hists /\ hist'.lost = hist.lost /\ hist'.free = hist.free
      /\ hist'.unlisted = hist.unlisted /\ hist.clash \subseteq hist'.clash
      /\ (\E p \in Busy : ops[p].user = u) => u \in hist'.clash
  <2>1. CASE UNCHANGED hist /\ ~(\E p \in Busy : ops[p].user = u)
    BY <2>1 DEF Types, Hists
  <2>2. CASE hist' = [hist EXCEPT !.clash = @ \cup {u}, !.stale = @ \cup {u}]
    <3> DEFINE clash == hist.clash \cup {u}
               stale == hist.stale \cup {u}
    <3>1. hist' = [hist EXCEPT !.clash = clash, !.stale = stale] /\ clash \subseteq Users /\ stale \subseteq Users
      BY <2>2 DEF Types
    <3>2. u \in clash /\ hist.clash \subseteq clash
      OBVIOUS
    <3> HIDE DEF clash, stale
    <3> QED
      BY <3>1, <3>2 DEF Types, Hists
  <2> QED
    BY <2>1, <2>2 DEF Ask
<1> HIDE DEF op
<1>4. /\ ops' \in [Ops -> Requests \cup {NoOp}] /\ ops'[o] = op /\ Others(o)
  BY <1>1, <1>2 DEF Types, Others
<1>5. o \notin Busy /\ Busy' = Busy \cup {o}
  BY <1>1, <1>2, <1>4, OpIsNot DEF Busy, Others
<1>6. Types'
  BY <1>2, <1>3, <1>4 DEF Types, tables, client, Hists
<1> QED
  BY <1>2, <1>3, <1>4, <1>5, <1>6 DEF client

\* A new request has taken nothing; a creation brings a room nobody else creates.
LEMMA AskedInv ==
  ASSUME RInv, NEW o \in Ops, NEW u \in Users, NEW kind \in Kinds, NEW room \in Ids \cup {NoRoom},
         NEW step \in Steps, Ask(o, u, kind, room, step),
         kind = "create" => /\ room \in Rooms /\ owner[room] = Nobody /\ step = "owned"
                            /\ \A p \in Busy : ops[p].room # room,
         kind = "home" => room = Home[u]
  PROVE  RInv'
<1>1. Types /\ Creations /\ Homes
  BY DEF RInv
<1>2. /\ o \notin Busy /\ Busy' = Busy \cup {o} /\ Others(o) /\ UNCHANGED tables
      /\ ops'[o].kind = kind /\ ops'[o].user = u /\ ops'[o].room = room /\ ops'[o].step = step
      /\ hist'.lost = hist.lost /\ hist'.free = hist.free
      /\ Types'
  BY <1>1, AskIs
<1>3. owner' = owner /\ \A p \in Busy : p # o /\ ops'[p] = ops[p]
  BY <1>2 DEF Others, Busy, tables
<1>4. Creations'
  BY <1>1, <1>2, <1>3 DEF Creations
<1>5. Homes'
  BY <1>1, <1>2, <1>3 DEF Homes
<1>6. \A w \in Users : Charged(w)' = Charged(w)
  BY <1>2, <1>3 DEF Charged
<1>7. Accounts'
  BY <1>2, <1>5, <1>6, QuietAccounts
<1> QED
  BY <1>2, <1>4, <1>5, <1>7 DEF RInv

LEMMA RequestInv ==
  ASSUME RInv, NEW o \in Ops, NEW u \in Users, Request(o, u)
  PROVE  RInv'
<1>1. NoRoom \in Ids \cup {NoRoom} /\ Home[u] \in Ids \cup {NoRoom}
  BY DEF Ids
<1>2. ASSUME NEW r \in Rooms, CreateRoom(o, u, r)
      PROVE  RInv'
  <2>1. r \in Ids \cup {NoRoom}
    BY DEF Ids
  <2> QED
    BY <1>2, <2>1, AskedInv DEF CreateRoom, Kinds, Steps
<1>3. CASE BuyItem(o, u)
  BY <1>1, <1>3, AskedInv DEF BuyItem, Kinds, Steps
<1>4. CASE RefreshInventory(o, u)
  BY <1>1, <1>4, AskedInv DEF RefreshInventory, Kinds, Steps
<1>5. CASE EnsurePersonalRoom(o, u)
  BY <1>1, <1>5, AskedInv DEF EnsurePersonalRoom, Kinds, Steps
<1>6. CASE Upgrade(o, u)
  BY <1>1, <1>6, AskedInv DEF Upgrade, Kinds, Steps
<1> QED
  BY <1>2, <1>3, <1>4, <1>5, <1>6 DEF Request

---------------------------------------------------------------------------
(* The page.                                                               *)

LEMMA ShowsIs ==
  ASSUME Types, NEW u \in Users, NEW d \in Nat, NEW i \in Nat, Shows(u, d, i)
  PROVE  page' \in [Users -> [dollars : Nat, items : Nat]]
  BY DEF Types, Shows

\* An answer reaches the page: a step of a request that has nothing under way.
LEMMA AnsweredInv ==
  ASSUME RInv, NEW o \in Ops, NEW kind, Answered(o, kind),
         page' \in [Users -> [dollars : Nat, items : Nat]], told' \in [Users -> SUBSET Ids]
  PROVE  RInv'
<1>1. o \in Busy /\ ops[o].step = "answer" /\ Types
  BY DEF Answered, At, RInv
<1>2. PICK w \in Users : w = ops[o].user
  BY <1>1, BusyOp
<1>3. Ends(o)
  BY <1>1, EndIs DEF Answered
<1>4. Types'
  BY <1>1, <1>3 DEF Types, Answered, Ends, tables
<1>5. o \in Charged(w) <=> o \in Charged(w)'
  BY <1>1, <1>2, <1>3, ChargedThen
<1> QED
  BY <1>1, <1>2, <1>3, <1>4, <1>5, QuietStep DEF Answered, Continues

LEMMA AnswersInv ==
  ASSUME RInv, NEW o \in Ops, RoomCreated(o) \/ Purchased(o) \/ InventoryRead(o)
  PROVE  RInv'
<1>1. o \in Busy /\ Types /\ Creations
  BY DEF RoomCreated, Purchased, InventoryRead, Answered, At, RInv
<1>2. PICK w \in Users : w = ops[o].user
  BY <1>1, BusyOp
<1>3. page[w].dollars \in Nat /\ page[w].items \in Nat /\ ops[o].dollars \in Nat /\ ops[o].items \in Nat
  BY <1>1, BusyOp DEF Types
<1>4. CASE RoomCreated(o)
  <2>1. Answered(o, "create") /\ Shows(w, ops[o].dollars, page[w].items)
        /\ told' = [told EXCEPT ![w] = @ \cup {ops[o].room}]
    BY <1>2, <1>4 DEF RoomCreated
  <2>2. ops[o].room \in Ids
    BY <1>1, <2>1 DEF Answered, At, Creations, Ids
  <2>3. told' \in [Users -> SUBSET Ids]
    BY <1>1, <2>1, <2>2 DEF Types
  <2> QED
    BY <1>1, <1>3, <2>1, <2>3, ShowsIs, AnsweredInv
<1>5. CASE Purchased(o)
  <2>1. Answered(o, "purchase") /\ Shows(w, ops[o].dollars, ops[o].items) /\ UNCHANGED told
    BY <1>2, <1>5 DEF Purchased
  <2>2. told' \in [Users -> SUBSET Ids]
    BY <1>1, <2>1 DEF Types
  <2> QED
    BY <1>1, <1>3, <2>1, <2>2, ShowsIs, AnsweredInv
<1>6. CASE InventoryRead(o)
  <2>1. Answered(o, "inventory") /\ Shows(w, page[w].dollars, ops[o].items) /\ UNCHANGED told
    BY <1>2, <1>6 DEF InventoryRead
  <2>2. told' \in [Users -> SUBSET Ids]
    BY <1>1, <2>1 DEF Types
  <2> QED
    BY <1>1, <1>3, <2>1, <2>2, ShowsIs, AnsweredInv
<1> QED
  BY <1>4, <1>5, <1>6

\* A step no request and no table takes part in.
LEMMA PassiveStep ==
  ASSUME RInv, UNCHANGED <<tables, ops>>, hist'.lost = hist.lost, hist'.free = hist.free, Types'
  PROVE  RInv'
<1>1. Creations' /\ Homes'
  BY DEF RInv, Creations, Homes, Busy, tables
<1>2. \A u \in Users : Charged(u)' = Charged(u)
  BY DEF Charged, Busy
<1> QED
  BY <1>1, <1>2, QuietAccounts DEF RInv

LEMMA ReceiveInv ==
  ASSUME RInv, NEW u \in Users, Receive(u)
  PROVE  RInv'
<1>1. Types
  BY DEF RInv
<1>2. inbox[u] \in Seq(Event) /\ inbox[u] # <<>>
  BY <1>1 DEF Types, Receive
<1>3. PICK e \in Event : e = Head(inbox[u])
  BY <1>2
<1>4. Tail(inbox[u]) \in Seq(Event)
  BY <1>2
<1>5. inbox' \in [Users -> Seq(Event)]
  BY <1>1, <1>4 DEF Types, Receive
<1>6. page' \in [Users -> [dollars : Nat, items : Nat]]
  <2> DEFINE i == IF e.type = "bought" THEN e.items ELSE page[u].items
  <2>1. i \in Nat /\ e.dollars \in Nat
    BY <1>1 DEF Types, Event
  <2>2. Shows(u, e.dollars, i)
    BY <1>3 DEF Receive
  <2> HIDE DEF i
  <2> QED
    BY <1>1, <2>1, <2>2, ShowsIs
<1>7. Types'
  BY <1>1, <1>5, <1>6 DEF Types, Receive, tables
<1> QED
  BY <1>7, PassiveStep DEF Receive

LEMMA VerifyTokenInv ==
  ASSUME RInv, NEW o \in Ops, VerifyToken(o)
  PROVE  RInv'
<1>1. o \in Busy /\ ops[o].kind = "connect" /\ ops[o].step = "read" /\ Types
  BY DEF VerifyToken, At, RInv
<1>2. PICK w \in Users : w = ops[o].user
  BY <1>1, BusyOp
<1>3. Moves(o, "open")
  BY <1>1, <1>2, SetDollars DEF VerifyToken, Steps, Types
<1>4. Continues(o)
  BY <1>1, <1>3 DEF Continues, Unseeded, Steps
<1>5. Types'
  BY <1>1, <1>3 DEF Types, VerifyToken, Moves, tables, client
<1>6. o \in Charged(w) <=> o \in Charged(w)'
  BY <1>1, <1>2, <1>3, ChargedThen DEF Steps
<1> QED
  BY <1>1, <1>2, <1>4, <1>5, <1>6, QuietStep DEF VerifyToken

LEMMA OpenSocketInv ==
  ASSUME RInv, NEW o \in Ops, OpenSocket(o)
  PROVE  RInv'
<1>1. o \in Busy /\ ops[o].kind = "connect" /\ ops[o].step = "open" /\ Types
  BY DEF OpenSocket, At, RInv
<1>2. PICK w \in Users : w = ops[o].user
  BY <1>1, BusyOp
<1>3. Ends(o)
  BY <1>1, EndIs DEF OpenSocket
<1>4. inbox' \in [Users -> Seq(Event)] /\ online' \subseteq Users
  <2> DEFINE e == [type |-> "connected", dollars |-> DataDollars(o), items |-> 0]
  <2>1. e \in Event
    BY <1>1, BusyOp DEF Event, DataDollars
  <2>2. inbox' = [inbox EXCEPT ![w] = <<e>>] /\ online' = online \cup {w}
    BY <1>2 DEF OpenSocket
  <2> HIDE DEF e
  <2>3. <<e>> \in Seq(Event)
    BY <2>1
  <2> QED
    BY <1>1, <2>2, <2>3 DEF Types
<1>5. Types'
  BY <1>1, <1>3, <1>4 DEF Types, OpenSocket, Ends, tables
<1>6. o \in Charged(w) <=> o \in Charged(w)'
  BY <1>1, <1>2, <1>3, ChargedThen
<1> QED
  BY <1>1, <1>2, <1>3, <1>5, <1>6, QuietStep DEF OpenSocket, Continues

---------------------------------------------------------------------------
(* Failures.                                                               *)

LEMMA FailsInv ==
  ASSUME RInv, NEW o \in Ops, Fails(o)
  PROVE  RInv'
<1>1. o \in Busy /\ Types
  BY DEF Fails, RInv
<1>2. PICK w \in Users : w = ops[o].user
  BY <1>1, BusyOp
<1>3. Ends(o)
  BY <1>1, EndIs DEF Fails
<1>4. Types'
  BY <1>1, <1>3 DEF Types, Fails, Ends, tables, client
<1>5. o \in Charged(w) <=> o \in Charged(w)'
  BY <1>1, <1>2, <1>3, ChargedThen DEF Fails
<1> QED
  BY <1>1, <1>2, <1>3, <1>4, <1>5, QuietStep DEF Fails, Continues

LEMMA DropInv ==
  ASSUME RInv, NEW u \in Users, Drop(u)
  PROVE  RInv'
<1>1. Types
  BY DEF RInv
<1>2. hist' \in Hists /\ hist'.lost = hist.lost /\ hist'.free = hist.free
  <2>1. CASE UNCHANGED hist
    BY <1>1, <2>1 DEF Types, Hists
  <2>2. CASE Unlearnt(u)
    BY <1>1, <2>2, UnlearntNoted
  <2> QED
    BY <2>1, <2>2 DEF Drop
<1>3. inbox' \in [Users -> Seq(Event)]
  <2>1. <<>> \in Seq(Event)
    OBVIOUS
  <2> QED
    BY <1>1, <2>1 DEF Types, Drop
<1>4. Types'
  BY <1>1, <1>2, <1>3 DEF Types, Drop, tables, Hists
<1> QED
  BY <1>2, <1>4, PassiveStep DEF Drop

\* A restart forgets every request: what they had taken is lost.
LEMMA RestartInv ==
  ASSUME RInv, Restart
  PROVE  RInv'
<1>1. Types /\ Homes
  BY DEF RInv
<1>2. \A u \in Users : Cardinality(Charged(u)) \in Nat
  BY <1>1, Counts
<1>3. Busy' = {} /\ ops' \in [Ops -> Requests \cup {NoOp}] /\ UNCHANGED tables
  BY DEF Busy, Restart
<1>4. /\ hist' \in Hists /\ hist'.free = hist.free
      /\ \A u \in Users : hist'.lost[u] = hist.lost[u] + Cardinality(Charged(u))
  <2>1. PICK loads \in BOOLEAN :
          hist' = [hist EXCEPT
            !.lost = [u \in Users |-> @[u] + Cardinality(Charged(u))],
            !.stale = @ \cup {u \in Users : inbox[u] # <<>> \/ \E o \in Busy : ops[o].user = u},
            !.unlisted = ~loads]
    BY DEF Restart
  <2> DEFINE lost == [u \in Users |-> hist.lost[u] + Cardinality(Charged(u))]
             stale == hist.stale \cup {u \in Users : inbox[u] # <<>> \/ \E o \in Busy : ops[o].user = u}
             unlisted == ~loads
  <2>2. hist' = [hist EXCEPT !.lost = lost, !.stale = stale, !.unlisted = unlisted]
    BY <2>1
  <2>3. lost \in [Users -> Nat] /\ stale \subseteq Users /\ unlisted \in BOOLEAN
        /\ \A u \in Users : lost[u] = hist.lost[u] + Cardinality(Charged(u))
    BY <1>1, <1>2 DEF Types
  <2> HIDE DEF lost, stale, unlisted
  <2>4. hist' \in Hists /\ hist'.free = hist.free /\ hist'.lost = lost
    BY <1>1, <2>2, <2>3 DEF Types, Hists
  <2> QED
    BY <2>3, <2>4
<1>5. Types'
  <2>1. directory' \subseteq Ids
    BY DEF Restart, Loaded
  <2>2. inbox' \in [Users -> Seq(Event)] /\ online' \subseteq Users
    BY DEF Restart
  <2> QED
    BY <1>1, <1>3, <1>4, <2>1, <2>2 DEF Types, Restart, tables, Hists
<1>6. Creations' /\ Homes'
  BY <1>1, <1>3 DEF Creations, Homes, tables
<1>7. Accounts'
  <2> SUFFICES ASSUME NEW u \in Users
               PROVE  Account(u)' = Start
    BY DEF Accounts, Account
  <2>1. Cardinality(Charged(u)') = 0
    <3>1. Charged(u)' = {}
      BY <1>3 DEF Charged
    <3> QED
      BY <3>1, FS_EmptySet
  <2>2. Bought(u)' = Bought(u)
    BY <1>3 DEF Bought, Owned, tables
  <2>3. Taken(u)' = Taken(u)
    BY <1>1, <1>4, <2>1, <2>2, Counts DEF Taken
  <2>4. Account(u)' = Account(u)
    BY <1>3, <2>3 DEF Account, tables
  <2> QED
    BY <2>4 DEF RInv, Accounts, Account
<1> QED
  BY <1>5, <1>6, <1>7 DEF RInv

---------------------------------------------------------------------------
(* Theorems.                                                               *)

LEMMA InitInv == Init => RInv
<1> SUFFICES ASSUME Init
             PROVE  RInv
  OBVIOUS
<1>1. Busy = {}
  BY DEF Init, Busy
<1>2. Types
  <2>1. hist \in Hists
    BY DEF Init, Hists
  <2>2. \A u \in Users : <<>> \in Seq(Event)
    OBVIOUS
  <2> QED
    BY <2>1, <2>2, RoomCreationAssumption DEF Init, Types, Hists
<1>3. Creations
  BY <1>1 DEF Creations
<1>4. Homes
  BY <1>1 DEF Homes, Init, Ids
<1>5. Accounts
  <2> SUFFICES ASSUME NEW u \in Users
               PROVE  money[u] + Price * stock[u] + RoomCost * Taken(u) = Start
    BY DEF Accounts
  <2>1. Bought(u) = {} /\ Charged(u) = {}
    BY <1>1, RoomCreationAssumption DEF Bought, Owned, Charged, Init
  <2>2. Taken(u) = 0
    BY <2>1, FS_EmptySet DEF Taken, Init
  <2>3. money[u] = Start /\ stock[u] = 0
    BY DEF Init
  <2>4. Price * 0 = 0 /\ RoomCost * 0 = 0
    BY RoomCreationAssumption
  <2> QED
    BY <2>2, <2>3, <2>4, RoomCreationAssumption
<1> QED
  BY <1>2, <1>3, <1>4, <1>5 DEF RInv

LEMMA NextInv == RInv /\ [Next]_vars => RInv'
<1> SUFFICES ASSUME RInv, [Next]_vars
             PROVE  RInv'
  OBVIOUS
<1>1. ASSUME NEW o \in Ops, Serve(o)
      PROVE  RInv'
  BY <1>1, ListOwnedRoomsInv, SpendInv, SeedRoomInv, SeedFailsInv, CreditInv, CreditFailsInv,
     AddRoomInv, PurchaseInv, PublishPurchaseInv, GetInventoryInv, SeedPersonalRoomInv,
     AddPrivateRoomInv, VerifyTokenInv, OpenSocketInv, FailsInv DEF Serve
<1>2. ASSUME NEW o \in Ops, RoomCreated(o) \/ Purchased(o) \/ InventoryRead(o)
      PROVE  RInv'
  BY <1>2, AnswersInv
<1>3. ASSUME NEW o \in Ops, NEW u \in Users, Request(o, u)
      PROVE  RInv'
  BY <1>3, RequestInv
<1>4. ASSUME NEW u \in Users, Receive(u) \/ Drop(u)
      PROVE  RInv'
  BY <1>4, ReceiveInv, DropInv
<1>5. CASE Restart
  BY <1>5, RestartInv
<1>6. CASE UNCHANGED vars
  <2>1. Types'
    BY <1>6 DEF RInv, Types, vars, tables, client
  <2> QED
    BY <1>6, <2>1, PassiveStep DEF vars, tables
<1> QED
  BY <1>1, <1>2, <1>3, <1>4, <1>5, <1>6 DEF Next

LEMMA Holds == RInv => TypeOK /\ MoneyAccounted
<1> SUFFICES ASSUME RInv
             PROVE  TypeOK /\ MoneyAccounted
  OBVIOUS
<1>1. TypeOK
  BY DEF RInv, Types, TypeOK, Busy
<1>2. MoneyAccounted
  BY DEF RInv, Accounts, Taken, Bought, MoneyAccounted
<1> QED
  BY <1>1, <1>2

LEMMA Always == Spec => []RInv
<1>1. Init => RInv
  BY InitInv
<1>2. RInv /\ [Next]_vars => RInv'
  BY NextInv
<1> QED
  BY <1>1, <1>2, PTL DEF Spec

\* Whatever requests overlap, fail half way or die with the server: nobody's
\* money goes below zero, and every dollar is in an item, in a room with a
\* row, with a creation under way, or noted as lost or given.
THEOREM MoneyIsKept == Spec => []MoneyKept
<1>1. RInv => MoneyKept
  BY Holds DEF MoneyKept
<1> QED
  BY <1>1, Always, PTL

---------------------------------------------------------------------------
(* The cap and the rows.  While the requests of a user do not overlap, the *)
(* rooms that were counted are the rooms there are when one more is added. *)

Sequential ==
  \A o, p \in Busy : ops[o].user = ops[p].user /\ o # p => ops[o].user \in hist.clash

Counted(o, u) == ops[o].user = u /\ ops[o].kind = "create" /\ ops[o].step \in {"spend", "seed"}
UnderCap ==
  \A u \in Users \ hist.clash : (\E o \in Busy : Counted(o, u)) => Cardinality(Bought(u)) < MaxRooms

ToldRows == \A u \in Users : told[u] \subseteq Owned(u) \cap Rooms

Listed == \A r \in directory : owner[r] # Nobody

\* Where a creation is decides whether its room has a row, and is listed.
Progress ==
  \A o \in Busy :
    /\ ops[o].kind = "create" => ops[o].step \in {"owned", "spend", "seed", "credit", "add", "answer"}
    /\ ops[o].kind = "create" /\ ops[o].step \in {"add", "answer"} => owner[ops[o].room] = ops[o].user
    /\ ops[o].kind = "create" /\ ops[o].step = "answer" => ops[o].room \in directory
    /\ ops[o].kind = "create" /\ ops[o].step = "credit" =>
         hist.unlisted \/ owner[ops[o].room] = Nobody
    /\ ops[o].kind = "home" => /\ ops[o].step \in {"seed", "add"}
                               /\ ops[o].step = "add" => owner[ops[o].room] # Nobody

Creating(r) == \E o \in Busy : ops[o].kind = "create" /\ ops[o].room = r
Reachable == hist.unlisted \/ \A r \in Rooms : owner[r] = Nobody \/ r \in directory \/ Creating(r)

KInv == Sequential /\ UnderCap /\ CapHolds /\ ToldRows /\ Listed /\ Progress /\ Reachable

LEMMA BelowCapIs ==
  ASSUME Types, Homes, NEW u \in Users, BelowCap(u)
  PROVE  Cardinality(Bought(u)) < MaxRooms
<1>1. IsFiniteSet(Bought(u)) /\ Owned(u) \subseteq Bought(u) \cup {Home[u]}
  BY BoughtIsFinite DEF Bought
<1>2. IsFiniteSet(Bought(u) \cup {Home[u]})
  BY <1>1, FS_AddElement
<1>3. IsFiniteSet(Owned(u)) /\ Bought(u) \subseteq Owned(u)
  BY <1>1, <1>2, FS_Subset DEF Bought
<1>4. Cardinality(Bought(u)) <= Cardinality(Owned(u))
  BY <1>3, FS_Subset
<1>5. Cardinality(Bought(u)) \in Nat /\ Cardinality(Owned(u)) \in Nat
  BY <1>1, <1>3, FS_CardinalityType
<1> QED
  BY <1>4, <1>5, RoomCreationAssumption DEF BelowCap

\* A step of a request that gives no room a row.
LEMMA NoRowStep ==
  ASSUME RInv, KInv, NEW o \in Busy, Continues(o), owner' = owner,
         directory \subseteq directory', \A r \in directory' : r \in directory \/ owner[r] # Nobody,
         \A u \in Users : told'[u] \subseteq Owned(u) \cap Rooms,
         hist'.clash = hist.clash, hist'.unlisted = hist.unlisted,
         ops[o].kind = "create" =>
           \/ Ends(o) /\ (hist.unlisted \/ owner[ops[o].room] = Nobody \/ ops[o].room \in directory)
           \/ Moves(o, "spend") /\ Cardinality(Bought(ops[o].user)) < MaxRooms
           \/ Moves(o, "seed") /\ ops[o].step = "spend"
           \/ Moves(o, "credit") /\ owner[ops[o].room] = Nobody
           \/ Moves(o, "answer") /\ ops[o].step = "add" /\ ops[o].room \in directory',
         ops[o].kind = "home" => Ends(o)
  PROVE  KInv'
<1>1. /\ Sequential /\ UnderCap /\ CapHolds /\ Listed /\ Progress /\ Reachable
  BY DEF KInv
<1>2. /\ \A p \in Busy' : /\ p \in Busy /\ ops'[p].kind = ops[p].kind /\ ops'[p].room = ops[p].room
                          /\ ops'[p].user = ops[p].user
      /\ \A p \in Busy \ {o} : p \in Busy' /\ ops'[p] = ops[p]
      /\ o \in Busy' => /\ ~Ends(o)
                        /\ \A step : Moves(o, step) => ops'[o].step = step
  BY DEF Busy, Continues, Ends, Moves, Others
<1>3. \A u \in Users : Bought(u)' = Bought(u) /\ Owned(u)' = Owned(u)
  BY DEF Bought, Owned
<1>4. Sequential'
  BY <1>1, <1>2 DEF Sequential
<1>5. UnderCap'
  <2> SUFFICES ASSUME NEW u \in Users, u \notin hist.clash, NEW p \in Busy', Counted(p, u)'
               PROVE  Cardinality(Bought(u)) < MaxRooms
    BY <1>3 DEF UnderCap
  <2>1. p \in Busy /\ ops[p].user = u /\ ops[p].kind = "create"
    BY <1>2 DEF Counted
  <2>2. CASE p # o
    BY <1>1, <1>2, <2>1, <2>2 DEF UnderCap, Counted
  <2>3. CASE p = o
    <3>1. \/ Moves(o, "spend") /\ Cardinality(Bought(ops[o].user)) < MaxRooms
          \/ ops[o].step = "spend"
      BY <1>2, <2>1, <2>3 DEF Counted
    <3> QED
      BY <1>1, <2>1, <2>3, <3>1 DEF UnderCap, Counted
  <2> QED
    BY <2>2, <2>3
<1>6. CapHolds'
  BY <1>1, <1>3 DEF CapHolds, Bought
<1>7. ToldRows'
  BY <1>3 DEF ToldRows
<1>8. Listed'
  BY <1>1 DEF Listed
<1>9. Progress'
  BY <1>1, <1>2 DEF Progress
<1>10. Reachable'
  <2>1. CASE hist.unlisted
    BY <2>1 DEF Reachable
  <2>2. ASSUME ~hist.unlisted, NEW r \in Rooms, owner[r] # Nobody, r \notin directory
        PROVE  r \in directory' \/ Creating(r)'
    <3>1. PICK p \in Busy : ops[p].kind = "create" /\ ops[p].room = r
      BY <1>1, <2>2 DEF Reachable, Creating
    <3>2. p \in Busy' => Creating(r)'
      BY <1>2, <3>1 DEF Creating
    <3>3. p \notin Busy' => p = o /\ Ends(o)
      BY <1>2 DEF Continues, Busy, Moves
    <3>4. Ends(o) => \A step : ~Moves(o, step)
      BY DEF Ends, Moves
    <3> QED
      BY <2>2, <3>1, <3>2, <3>3, <3>4
  <2> QED
    BY <2>1, <2>2 DEF Reachable
<1> QED
  BY <1>4, <1>5, <1>6, <1>7, <1>8, <1>9, <1>10 DEF KInv

\* Nothing the invariant speaks of changes.
LEMMA AsideStep ==
  ASSUME RInv, KInv, UNCHANGED <<owner, directory, ops, told>>,
         hist'.clash = hist.clash, hist'.unlisted = hist.unlisted
  PROVE  KInv'
<1>1. Busy' = Busy /\ \A u \in Users : Bought(u)' = Bought(u) /\ Owned(u)' = Owned(u)
  BY DEF Busy, Bought, Owned
<1>2. Sequential'
  BY <1>1 DEF KInv, Sequential
<1>3. UnderCap'
  BY <1>1 DEF KInv, UnderCap, Counted, Bought
<1>4. CapHolds' /\ ToldRows' /\ Listed' /\ Progress' /\ Reachable'
  BY <1>1 DEF KInv, CapHolds, ToldRows, Listed, Progress, Reachable, Creating, Bought
<1> QED
  BY <1>2, <1>3, <1>4 DEF KInv

\* A request of the user alone that writes no row, or one already there.
LEMMA AskedKeeps ==
  ASSUME RInv, KInv, NEW o \in Ops, NEW u \in Users, NEW kind \in Kinds, NEW room \in Ids \cup {NoRoom},
         NEW step \in Steps, Ask(o, u, kind, room, step),
         kind = "create" => step = "owned",
         kind = "home" => step = "seed"
  PROVE  KInv'
<1>1. /\ Sequential /\ UnderCap /\ CapHolds /\ ToldRows /\ Listed /\ Progress /\ Reachable
  BY DEF KInv
<1>2. Types
  BY DEF RInv
<1>3. /\ o \notin Busy /\ Busy' = Busy \cup {o} /\ Others(o) /\ UNCHANGED tables
      /\ ops'[o].kind = kind /\ ops'[o].user = u /\ ops'[o].room = room /\ ops'[o].step = step
      /\ hist'.unlisted = hist.unlisted /\ directory' = directory /\ told' = told
      /\ hist.clash \subseteq hist'.clash /\ ((\E p \in Busy : ops[p].user = u) => u \in hist'.clash)
  BY <1>2, AskIs
<1>4. owner' = owner /\ \A p \in Busy : p # o /\ ops'[p] = ops[p] /\ ops[p].user \in Users
  BY <1>2, <1>3, BusyOp DEF Others, Busy, tables
<1>5. \A w \in Users : Bought(w)' = Bought(w) /\ Owned(w)' = Owned(w)
  BY <1>4 DEF Bought, Owned
<1>6. Sequential'
  <2> SUFFICES ASSUME NEW p \in Busy', NEW q \in Busy', ops'[p].user = ops'[q].user, p # q
               PROVE  ops'[p].user \in hist'.clash
    BY DEF Sequential
  <2>1. CASE p \in Busy /\ q \in Busy
    BY <1>1, <1>3, <1>4, <2>1 DEF Sequential
  <2>2. CASE p = o
    BY <1>3, <1>4, <2>2
  <2>3. CASE q = o
    BY <1>3, <1>4, <2>3
  <2> QED
    BY <1>3, <2>1, <2>2, <2>3
<1>7. UnderCap'
  BY <1>1, <1>3, <1>4, <1>5 DEF UnderCap, Counted
<1>8. CapHolds'
  BY <1>1, <1>3, <1>5 DEF CapHolds, Bought
<1>9. ToldRows' /\ Listed'
  BY <1>1, <1>3, <1>4, <1>5 DEF ToldRows, Listed
<1>10. Progress'
  BY <1>1, <1>3, <1>4 DEF Progress
<1>11. Reachable'
  BY <1>1, <1>3, <1>4 DEF Reachable, Creating
<1> QED
  BY <1>6, <1>7, <1>8, <1>9, <1>10, <1>11 DEF KInv

LEMMA ToldKept ==
  ASSUME KInv, told' = told
  PROVE  \A u \in Users : told'[u] \subseteq Owned(u) \cap Rooms
  BY DEF KInv, ToldRows

\* A request that creates no room moves on or ends.
LEMMA NoCreationKeeps ==
  ASSUME RInv, KInv, NEW o \in Busy, Continues(o), ops[o].kind # "create",
         ops[o].kind = "home" => Ends(o),
         UNCHANGED <<owner, directory, told>>, hist'.clash = hist.clash, hist'.unlisted = hist.unlisted
  PROVE  KInv'
  BY ToldKept, NoRowStep

\* A request ends; what it was to create is not there, or is listed.
LEMMA EndKeeps ==
  ASSUME RInv, KInv, NEW o \in Busy, Ends(o),
         ops[o].kind = "create" => hist.unlisted \/ owner[ops[o].room] = Nobody \/ ops[o].room \in directory,
         UNCHANGED <<owner, directory>>, \A u \in Users : told'[u] \subseteq Owned(u) \cap Rooms,
         hist'.clash = hist.clash, hist'.unlisted = hist.unlisted
  PROVE  KInv'
  BY NoRowStep DEF Continues

LEMMA ListOwnedRoomsKeeps ==
  ASSUME RInv, KInv, NEW o \in Ops, ListOwnedRooms(o)
  PROVE  KInv'
<1>1. o \in Busy /\ ops[o].kind = "create" /\ ops[o].step = "owned" /\ Types /\ Homes /\ Creations
  BY DEF ListOwnedRooms, At, RInv
<1>2. owner[ops[o].room] = Nobody /\ ops[o].user \in Users
  BY <1>1, BusyOp DEF Creations, Unseeded
<1>3. \/ Ends(o)
      \/ Moves(o, "spend") /\ Cardinality(Bought(ops[o].user)) < MaxRooms
  BY <1>1, <1>2, EndIs, GotoIs, BelowCapIs DEF ListOwnedRooms, Steps
<1>4. Continues(o)
  BY <1>1, <1>3 DEF Continues, Unseeded, Steps
<1> QED
  BY <1>1, <1>2, <1>3, <1>4, ToldKept, NoRowStep DEF ListOwnedRooms, tables, client

LEMMA SpendKeeps ==
  ASSUME RInv, KInv, NEW o \in Ops, Spend(o)
  PROVE  KInv'
<1>1. o \in Busy /\ ops[o].kind = "create" /\ ops[o].step = "spend" /\ Types /\ Creations
  BY DEF Spend, At, RInv
<1>2. owner[ops[o].room] = Nobody
  BY <1>1 DEF Creations, Unseeded
<1>3. PICK w \in Users : w = ops[o].user
  BY <1>1, BusyOp
<1>4. UNCHANGED <<owner, directory, told>>
  BY DEF Spend, client
<1>5. CASE End(o) /\ UNCHANGED hist
  BY <1>1, <1>2, <1>4, <1>5, EndIs, ToldKept, EndKeeps
<1>6. CASE End(o) /\ hist' = [hist EXCEPT !.lost = Noted(@, w), !.stale = @ \cup {w}]
  BY <1>1, <1>2, <1>4, <1>6, EndIs, LossNoted, ToldKept, EndKeeps
<1>7. CASE /\ CanPay(w, RoomCost) /\ money' = [money EXCEPT ![w] = @ - RoomCost]
           /\ ops' = [ops EXCEPT ![o].step = "seed", ![o].dollars = money'[w]] /\ UNCHANGED hist
  <2>1. money'[w] \in Nat
    BY <1>1, <1>7, RoomCreationAssumption DEF CanPay, Types
  <2>2. Moves(o, "seed")
    BY <1>1, <1>7, <2>1, SetDollars DEF Steps
  <2>3. Continues(o)
    BY <1>1, <2>2 DEF Continues, Unseeded, Steps
  <2> QED
    BY <1>1, <1>4, <1>7, <2>2, <2>3, ToldKept, NoRowStep
<1> QED
  BY <1>3, <1>5, <1>6, <1>7 DEF Spend

LEMMA SeedFailsKeeps ==
  ASSUME RInv, KInv, NEW o \in Ops, SeedFails(o)
  PROVE  KInv'
<1>1. o \in Busy /\ ops[o].kind = "create" /\ ops[o].step = "seed" /\ Types /\ Creations
  BY DEF SeedFails, At, RInv
<1>2. owner[ops[o].room] = Nobody
  BY <1>1 DEF Creations, Unseeded
<1>3. Moves(o, "credit")
  BY <1>1, GotoIs DEF SeedFails, Steps
<1>4. Continues(o)
  BY <1>1, <1>3 DEF Continues, Unseeded, Steps
<1> QED
  BY <1>1, <1>2, <1>3, <1>4, ToldKept, NoRowStep DEF SeedFails, tables, client

LEMMA CreditKeeps ==
  ASSUME RInv, KInv, NEW o \in Ops, Credit(o) \/ CreditFails(o)
  PROVE  KInv'
<1>1. o \in Busy /\ ops[o].kind = "create" /\ ops[o].step = "credit" /\ Types /\ Progress
  BY DEF Credit, CreditFails, At, RInv, KInv
<1>2. PICK w \in Users : w = ops[o].user
  BY <1>1, BusyOp
<1>3. Ends(o) /\ UNCHANGED <<owner, directory, told>>
  BY <1>1, EndIs DEF Credit, CreditFails, tables, client
<1>4. hist'.clash = hist.clash /\ hist'.unlisted = hist.unlisted
  BY <1>1, <1>2, LossNoted DEF Credit, CreditFails
<1> QED
  BY <1>1, <1>3, <1>4, ToldKept, EndKeeps DEF Progress

LEMMA AddRoomKeeps ==
  ASSUME RInv, KInv, NEW o \in Ops, AddRoom(o)
  PROVE  KInv'
<1>1. o \in Busy /\ ops[o].kind = "create" /\ ops[o].step = "add" /\ Types /\ Progress
  BY DEF AddRoom, At, RInv, KInv
<1>2. owner[ops[o].room] # Nobody
  BY <1>1, BusyOp, RoomCreationAssumption DEF Progress
<1>3. Moves(o, "answer")
  BY <1>1, GotoIs DEF AddRoom, Steps
<1>4. Continues(o)
  BY <1>1, <1>3 DEF Continues, Unseeded, Steps
<1>5. directory' = directory \cup {ops[o].room} /\ UNCHANGED <<owner, told, hist>>
  BY DEF AddRoom, tables
<1> QED
  BY <1>1, <1>2, <1>3, <1>4, <1>5, ToldKept, NoRowStep

\* The row of a creation is its user's one room more, and was counted.
LEMMA SeedRoomKeeps ==
  ASSUME RInv, KInv, NEW o \in Ops, SeedRoom(o)
  PROVE  KInv'
<1>1. /\ o \in Busy /\ ops[o].kind = "create" /\ ops[o].step = "seed" /\ Types /\ Homes /\ Creations
      /\ Sequential /\ UnderCap /\ CapHolds /\ ToldRows /\ Listed /\ Progress /\ Reachable
  BY DEF SeedRoom, At, RInv, KInv
<1>2. PICK w \in Users : w = ops[o].user
  BY <1>1, BusyOp
<1>3. PICK r \in Rooms : r = ops[o].room /\ owner[r] = Nobody
  BY <1>1 DEF Creations, Unseeded
<1>4. owner' = [owner EXCEPT ![r] = w] /\ UNCHANGED <<directory, told>>
  BY <1>2, <1>3 DEF SeedRoom, client
<1>5. r \in Ids /\ owner'[r] = w /\ w # Nobody /\ \A i \in Ids \ {r} : owner'[i] = owner[i]
  BY <1>1, <1>4, RoomCreationAssumption DEF Types, Ids
<1>6. /\ hist'.clash = hist.clash
      /\ \/ Moves(o, "add") /\ hist'.unlisted = hist.unlisted
         \/ Moves(o, "credit") /\ hist'.unlisted
  <2>1. CASE Goto(o, "add") /\ UNCHANGED hist
    BY <1>1, <2>1, GotoIs DEF Steps
  <2>2. CASE Goto(o, "credit") /\ hist' = [hist EXCEPT !.free = Noted(@, w), !.unlisted = TRUE]
    BY <1>1, <2>2, GotoIs, GiftNoted DEF Steps
  <2> QED
    BY <1>2, <2>1, <2>2 DEF SeedRoom
<1>7. /\ Busy' = Busy /\ ops'[o].step \in {"add", "credit"} /\ (ops'[o].step = "credit" => hist'.unlisted)
      /\ \A p \in Busy : /\ ops'[p].kind = ops[p].kind /\ ops'[p].room = ops[p].room
                         /\ ops'[p].user = ops[p].user
      /\ \A p \in Busy \ {o} : ops'[p] = ops[p]
  BY <1>1, <1>6 DEF Busy, Moves, Others
<1>8. \A u \in Users \ {w} : Bought(u)' = Bought(u)
  BY <1>3, <1>5, RoomCreationAssumption DEF Bought, Owned
<1>9. Sequential'
  BY <1>1, <1>6, <1>7 DEF Sequential
<1>10. UnderCap'
  <2> SUFFICES ASSUME NEW u \in Users, u \notin hist.clash, NEW p \in Busy, Counted(p, u)'
               PROVE  Cardinality(Bought(u)') < MaxRooms
    BY <1>6, <1>7 DEF UnderCap
  <2>1. p # o /\ Counted(p, u)
    BY <1>7 DEF Counted
  <2>2. u # w
    BY <1>1, <1>2, <2>1 DEF Sequential, Counted
  <2> QED
    BY <1>1, <1>8, <2>1, <2>2 DEF UnderCap
<1>11. CapHolds'
  <2> SUFFICES ASSUME NEW u \in Users, u \notin hist.clash
               PROVE  Cardinality(Bought(u)') <= MaxRooms
    BY <1>6 DEF CapHolds, Bought
  <2>1. CASE u # w
    BY <1>1, <1>8, <2>1 DEF CapHolds, Bought
  <2>2. CASE u = w
    <3>1. Cardinality(Bought(w)) < MaxRooms
      BY <1>1, <1>2, <2>2 DEF UnderCap, Counted
    <3>2. r \notin Bought(w) /\ r \in Bought(w)' /\ Bought(w) \ {r} = Bought(w)' \ {r}
      BY <1>3, <1>5, RoomCreationAssumption DEF Bought, Owned
    <3>3. IsFiniteSet(Bought(w))
      BY <1>1, BoughtIsFinite
    <3> HIDE DEF Bought
    <3>4. Cardinality(Bought(w)) \in Nat /\ Cardinality(Bought(w)') = Cardinality(Bought(w)) + 1
      BY <3>2, <3>3, OneElement
    <3> QED
      BY <2>2, <3>1, <3>4, RoomCreationAssumption
  <2> QED
    BY <2>1, <2>2
<1>12. ToldRows'
  <2> SUFFICES ASSUME NEW u \in Users, NEW i \in told[u]
               PROVE  i \in Rooms /\ i \in Ids /\ owner'[i] = u
    BY <1>4 DEF ToldRows, Owned
  <2>1. i \in Rooms /\ i \in Ids /\ owner[i] = u
    BY <1>1 DEF ToldRows, Owned
  <2> QED
    BY <1>3, <1>5, <2>1, RoomCreationAssumption
<1>13. Listed'
  BY <1>1, <1>4, <1>5 DEF Listed, Types
<1>14. Progress'
  <2> SUFFICES ASSUME NEW p \in Busy
               PROVE  /\ ops'[p].kind = "create" => ops'[p].step \in {"owned", "spend", "seed", "credit", "add", "answer"}
                      /\ ops'[p].kind = "create" /\ ops'[p].step \in {"add", "answer"} => owner'[ops'[p].room] = ops'[p].user
                      /\ ops'[p].kind = "create" /\ ops'[p].step = "answer" => ops'[p].room \in directory'
                      /\ ops'[p].kind = "create" /\ ops'[p].step = "credit" =>
                           hist'.unlisted \/ owner'[ops'[p].room] = Nobody
                      /\ ops'[p].kind = "home" => /\ ops'[p].step \in {"seed", "add"}
                                                  /\ ops'[p].step = "add" => owner'[ops'[p].room] # Nobody
    BY <1>7 DEF Progress
  <2>1. CASE p = o
    BY <1>1, <1>2, <1>3, <1>5, <1>7, <2>1
  <2>2. CASE p # o
    <3>1. ops'[p] = ops[p] /\ (ops[p].kind = "create" => ops[p].room \in Ids \ {r})
      BY <1>1, <1>3, <1>7, <2>2 DEF Creations, Ids
    <3>2. ops[p].kind = "home" => ops[p].room \in Ids \ {r}
      BY <1>1, BusyOp, RoomCreationAssumption DEF Homes, Ids
    <3>3. hist.unlisted => hist'.unlisted
      BY <1>6
    <3> QED
      BY <1>1, <1>4, <1>5, <3>1, <3>2, <3>3 DEF Progress
  <2> QED
    BY <2>1, <2>2
<1>15. Reachable'
  <2>1. Creating(r)'
    BY <1>1, <1>3, <1>7 DEF Creating
  <2>2. \A i \in Rooms : Creating(i) => Creating(i)'
    BY <1>7 DEF Creating
  <2>3. \A i \in Rooms : i \in Ids
    BY DEF Ids
  <2> QED
    BY <1>1, <1>4, <1>5, <1>6, <2>1, <2>2, <2>3 DEF Reachable
<1> QED
  BY <1>9, <1>10, <1>11, <1>12, <1>13, <1>14, <1>15 DEF KInv

LEMMA SeedPersonalRoomKeeps ==
  ASSUME RInv, KInv, NEW o \in Ops, SeedPersonalRoom(o)
  PROVE  KInv'
<1>1. /\ o \in Busy /\ ops[o].kind = "home" /\ ops[o].step = "seed" /\ Types /\ Homes /\ Creations
      /\ Sequential /\ UnderCap /\ CapHolds /\ ToldRows /\ Listed /\ Progress /\ Reachable
  BY DEF SeedPersonalRoom, At, RInv, KInv
<1>2. PICK w \in Users : w = ops[o].user
  BY <1>1, BusyOp
<1>3. PICK r \in Ids : r = ops[o].room /\ r = Home[w] /\ r \notin Rooms
  BY <1>1, <1>2, RoomCreationAssumption DEF Homes, Ids
<1>4. owner' = [owner EXCEPT ![r] = w] /\ UNCHANGED <<directory, told, hist>>
  BY <1>2, <1>3 DEF SeedPersonalRoom, client
<1>5. owner'[r] = w /\ w # Nobody /\ \A i \in Ids \ {r} : owner'[i] = owner[i]
  BY <1>1, <1>4, RoomCreationAssumption DEF Types
<1>6. Moves(o, "add")
  BY <1>1, GotoIs DEF SeedPersonalRoom, Steps
<1>7. /\ Busy' = Busy /\ ops'[o].step = "add"
      /\ \A p \in Busy : /\ ops'[p].kind = ops[p].kind /\ ops'[p].room = ops[p].room
                         /\ ops'[p].user = ops[p].user
      /\ \A p \in Busy \ {o} : ops'[p] = ops[p]
  BY <1>1, <1>6 DEF Busy, Moves, Others
<1>8. \A u \in Users : Bought(u)' = Bought(u)
  <2>1. owner[r] \in {w, Nobody}
    BY <1>1, <1>3 DEF Homes
  <2> QED
    BY <1>3, <1>5, <2>1, RoomCreationAssumption DEF Bought, Owned
<1>9. \A i \in Rooms : i \in Ids /\ owner'[i] = owner[i]
  BY <1>3, <1>5 DEF Ids
<1>10. Sequential'
  BY <1>1, <1>4, <1>7 DEF Sequential
<1>11. UnderCap'
  BY <1>1, <1>4, <1>7, <1>8 DEF UnderCap, Counted
<1>12. CapHolds'
  BY <1>1, <1>4, <1>8 DEF CapHolds, Bought
<1>13. ToldRows'
  BY <1>1, <1>4, <1>9 DEF ToldRows, Owned
<1>14. Listed'
  BY <1>1, <1>4, <1>5 DEF Listed, Types
<1>15. Progress'
  <2>1. \A p \in Busy : ops[p].kind = "create" => ops[p].room \in Rooms
    BY <1>1 DEF Creations
  <2>2. \A p \in Busy \ {o} : ops[p].kind = "home" /\ owner[ops[p].room] # Nobody => owner'[ops[p].room] # Nobody
    BY <1>1, <1>5, BusyOp DEF Homes, Ids
  <2>3. \A p \in Busy : ops[p].kind = "create" => ops'[p] = ops[p] /\ owner'[ops[p].room] = owner[ops[p].room]
    BY <1>1, <1>7, <1>9, <2>1
  <2>4. \A p \in Busy : ops[p].kind = "home" =>
          /\ ops'[p].step \in {"seed", "add"}
          /\ ops'[p].step = "add" => owner'[ops[p].room] # Nobody
    BY <1>1, <1>3, <1>5, <1>7, <2>2 DEF Progress
  <2> QED
    BY <1>1, <1>4, <1>7, <2>3, <2>4 DEF Progress
<1>16. Reachable'
  BY <1>1, <1>4, <1>7, <1>9 DEF Reachable, Creating
<1> QED
  BY <1>10, <1>11, <1>12, <1>13, <1>14, <1>15, <1>16 DEF KInv

LEMMA PurchaseKeeps ==
  ASSUME RInv, KInv, NEW o \in Ops, Purchase(o)
  PROVE  KInv'
<1>1. o \in Busy /\ ops[o].kind = "purchase" /\ ops[o].step = "buy" /\ Types
  BY DEF Purchase, At, RInv
<1>2. PICK w \in Users : w = ops[o].user
  BY <1>1, BusyOp
<1>3. UNCHANGED <<owner, directory, told>>
  BY DEF Purchase, client
<1>4. CASE End(o) /\ (UNCHANGED hist \/ Unlearnt(w))
  <2>1. hist'.clash = hist.clash /\ hist'.unlisted = hist.unlisted
    BY <1>1, <1>4, UnlearntNoted
  <2> QED
    BY <1>1, <1>3, <1>4, <2>1, EndIs, NoCreationKeeps DEF Continues
<1>5. CASE /\ CanPay(w, Price) /\ money' = [money EXCEPT ![w] = @ - Price] /\ stock' = [stock EXCEPT ![w] = @ + 1]
           /\ ops' = [ops EXCEPT ![o].step = "publish", ![o].dollars = money'[w], ![o].items = stock'[w]]
           /\ UNCHANGED hist
  <2>1. money'[w] \in Nat /\ stock'[w] \in Nat
    BY <1>1, <1>5, RoomCreationAssumption DEF CanPay, Types
  <2>2. Moves(o, "publish")
    BY <1>1, <1>5, <2>1, SetBoth DEF Steps
  <2>3. Continues(o)
    BY <1>1, <2>2 DEF Continues, Unseeded, Steps
  <2> QED
    BY <1>1, <1>3, <1>5, <2>3, NoCreationKeeps
<1> QED
  BY <1>2, <1>4, <1>5 DEF Purchase, Noted

LEMMA QuietKeeps ==
  ASSUME RInv, KInv, NEW o \in Ops, PublishPurchase(o) \/ GetInventory(o) \/ VerifyToken(o)
  PROVE  KInv'
<1>1. /\ o \in Busy /\ ops[o].kind \in {"purchase", "inventory", "connect"} /\ Types
      /\ UNCHANGED <<owner, directory, told, hist>>
  BY DEF PublishPurchase, GetInventory, VerifyToken, At, RInv, tables, client
<1>2. stock[ops[o].user] \in Nat /\ money[ops[o].user] \in Nat
  BY <1>1, BusyOp DEF Types
<1>3. Moves(o, "answer") \/ Moves(o, "open")
  <2>1. CASE PublishPurchase(o)
    BY <1>1, <2>1, GotoIs DEF PublishPurchase, Steps
  <2>2. CASE GetInventory(o)
    BY <1>1, <1>2, <2>2, SetItems DEF GetInventory, Steps
  <2>3. CASE VerifyToken(o)
    BY <1>1, <1>2, <2>3, SetDollars DEF VerifyToken, Steps
  <2> QED
    BY <2>1, <2>2, <2>3
<1>4. Continues(o)
  BY <1>1, <1>3 DEF Continues, Unseeded, Steps
<1> QED
  BY <1>1, <1>4, NoCreationKeeps

LEMMA AddPrivateRoomKeeps ==
  ASSUME RInv, KInv, NEW o \in Ops, AddPrivateRoom(o)
  PROVE  KInv'
<1>1. o \in Busy /\ ops[o].kind = "home" /\ ops[o].step = "add" /\ Types /\ Progress
  BY DEF AddPrivateRoom, At, RInv, KInv
<1>2. Ends(o) /\ directory' = directory \cup {ops[o].room} /\ UNCHANGED <<owner, told, hist>>
  BY <1>1, EndIs DEF AddPrivateRoom, tables, client
<1>3. owner[ops[o].room] # Nobody
  BY <1>1 DEF Progress
<1> QED
  BY <1>1, <1>2, <1>3, ToldKept, NoRowStep DEF Continues

LEMMA AnswersKeep ==
  ASSUME RInv, KInv, NEW o \in Ops, RoomCreated(o) \/ Purchased(o) \/ InventoryRead(o)
  PROVE  KInv'
<1>1. o \in Busy /\ ops[o].step = "answer" /\ Types /\ Creations /\ Progress
  BY DEF RoomCreated, Purchased, InventoryRead, Answered, At, RInv, KInv
<1>2. Ends(o) /\ UNCHANGED <<owner, directory, hist>>
  BY <1>1, EndIs DEF RoomCreated, Purchased, InventoryRead, Answered, tables
<1>3. \A u \in Users : told'[u] \subseteq Owned(u) \cap Rooms
  <2>1. CASE UNCHANGED told
    BY <2>1, ToldKept
  <2>2. CASE RoomCreated(o)
    <3>1. PICK w \in Users : w = ops[o].user
      BY <1>1, BusyOp
    <3>2. told' = [told EXCEPT ![w] = @ \cup {ops[o].room}] /\ ops[o].kind = "create"
      BY <2>2, <3>1 DEF RoomCreated, Answered, At
    <3>3. ops[o].room \in Owned(w) \cap Rooms
      BY <1>1, <3>1, <3>2 DEF Progress, Creations, Owned, Ids
    <3> QED
      BY <1>1, <3>2, <3>3 DEF KInv, ToldRows, Types
  <2> QED
    BY <2>1, <2>2 DEF Purchased, InventoryRead
<1> QED
  BY <1>1, <1>2, <1>3, EndKeeps DEF Progress

LEMMA OpenSocketKeeps ==
  ASSUME RInv, KInv, NEW o \in Ops, OpenSocket(o)
  PROVE  KInv'
<1>1. o \in Busy /\ ops[o].kind = "connect" /\ Types
  BY DEF OpenSocket, At, RInv
<1>2. Ends(o) /\ UNCHANGED <<owner, directory, told, hist>>
  BY <1>1, EndIs DEF OpenSocket, tables
<1> QED
  BY <1>1, <1>2, ToldKept, EndKeeps

LEMMA FailsKeeps ==
  ASSUME RInv, KInv, NEW o \in Ops, Fails(o)
  PROVE  KInv'
<1>1. o \in Busy /\ Types /\ Creations /\ Progress
  BY DEF Fails, RInv, KInv
<1>2. Ends(o) /\ UNCHANGED <<owner, directory, told, hist>>
  BY <1>1, EndIs DEF Fails, tables, client
<1>3. ops[o].kind = "create" => owner[ops[o].room] = Nobody
  BY <1>1 DEF Fails, Progress, Creations, Unseeded
<1> QED
  BY <1>1, <1>2, <1>3, ToldKept, EndKeeps

LEMMA RequestKeeps ==
  ASSUME RInv, KInv, NEW o \in Ops, NEW u \in Users, Request(o, u)
  PROVE  KInv'
<1>1. NoRoom \in Ids \cup {NoRoom} /\ Home[u] \in Ids \cup {NoRoom}
  BY DEF Ids
<1>2. ASSUME NEW r \in Rooms, CreateRoom(o, u, r)
      PROVE  KInv'
  <2>1. r \in Ids \cup {NoRoom}
    BY DEF Ids
  <2> QED
    BY <1>2, <2>1, AskedKeeps DEF CreateRoom, Kinds, Steps
<1>3. CASE BuyItem(o, u)
  BY <1>1, <1>3, AskedKeeps DEF BuyItem, Kinds, Steps
<1>4. CASE RefreshInventory(o, u)
  BY <1>1, <1>4, AskedKeeps DEF RefreshInventory, Kinds, Steps
<1>5. CASE EnsurePersonalRoom(o, u)
  BY <1>1, <1>5, AskedKeeps DEF EnsurePersonalRoom, Kinds, Steps
<1>6. CASE Upgrade(o, u)
  BY <1>1, <1>6, AskedKeeps DEF Upgrade, Kinds, Steps
<1> QED
  BY <1>2, <1>3, <1>4, <1>5, <1>6 DEF Request

LEMMA PageKeeps ==
  ASSUME RInv, KInv, NEW u \in Users, Receive(u) \/ Drop(u)
  PROVE  KInv'
<1>1. hist'.clash = hist.clash /\ hist'.unlisted = hist.unlisted
  BY UnlearntNoted DEF Receive, Drop, RInv
<1>2. UNCHANGED <<owner, directory, ops, told>>
  BY DEF Receive, Drop, tables
<1> QED
  BY <1>1, <1>2, AsideStep

\* The directory a restart loads is the table, or is known not to be.
LEMMA RestartKeeps ==
  ASSUME RInv, KInv, Restart
  PROVE  KInv'
<1>1. Busy' = {} /\ UNCHANGED <<owner, told>>
  BY DEF Busy, Restart, tables
<1>2. Types /\ CapHolds /\ ToldRows
  BY DEF RInv, KInv
<1>3. PICK loads \in BOOLEAN :
        /\ directory' = IF loads THEN Loaded ELSE {}
        /\ hist' = [hist EXCEPT
             !.lost = [u \in Users |-> @[u] + Cardinality(Charged(u))],
             !.stale = @ \cup {u \in Users : inbox[u] # <<>> \/ \E o \in Busy : ops[o].user = u},
             !.unlisted = ~loads]
  BY DEF Restart
<1>4. hist'.clash = hist.clash /\ hist'.unlisted = ~loads
  <2> DEFINE lost == [u \in Users |-> hist.lost[u] + Cardinality(Charged(u))]
             stale == hist.stale \cup {u \in Users : inbox[u] # <<>> \/ \E o \in Busy : ops[o].user = u}
             unlisted == ~loads
  <2>1. hist' = [hist EXCEPT !.lost = lost, !.stale = stale, !.unlisted = unlisted]
    BY <1>3
  <2> HIDE DEF lost, stale, unlisted
  <2>2. hist'.clash = hist.clash /\ hist'.unlisted = unlisted
    BY <1>2, <2>1 DEF Types
  <2> QED
    BY <2>2 DEF unlisted
<1>5. Sequential' /\ UnderCap' /\ Progress'
  BY <1>1 DEF Sequential, UnderCap, Progress
<1>6. CapHolds' /\ ToldRows'
  BY <1>1, <1>2, <1>4 DEF CapHolds, ToldRows, Owned
<1>7. Listed'
  BY <1>1, <1>3 DEF Listed, Loaded
<1>8. Reachable'
  <2>1. CASE loads
    BY <1>1, <1>3, <2>1 DEF Reachable, Loaded, Ids
  <2>2. CASE ~loads
    BY <1>4, <2>2 DEF Reachable
  <2> QED
    BY <2>1, <2>2
<1> QED
  BY <1>5, <1>6, <1>7, <1>8 DEF KInv

LEMMA InitKeeps == Init => KInv
<1> SUFFICES ASSUME Init
             PROVE  KInv
  OBVIOUS
<1>1. Busy = {} /\ \A u \in Users : Owned(u) \ {Home[u]} = {}
  BY RoomCreationAssumption DEF Init, Busy, Owned
<1>2. Sequential /\ UnderCap /\ Progress
  BY <1>1 DEF Sequential, UnderCap, Progress
<1>3. CapHolds
  BY <1>1, FS_EmptySet, RoomCreationAssumption DEF CapHolds
<1>4. ToldRows /\ Listed /\ Reachable
  BY DEF Init, ToldRows, Listed, Reachable, Ids
<1> QED
  BY <1>2, <1>3, <1>4 DEF KInv

LEMMA NextKeeps == RInv /\ KInv /\ [Next]_vars => KInv'
<1> SUFFICES ASSUME RInv, KInv, [Next]_vars
             PROVE  KInv'
  OBVIOUS
<1>1. ASSUME NEW o \in Ops, Serve(o)
      PROVE  KInv'
  BY <1>1, ListOwnedRoomsKeeps, SpendKeeps, SeedRoomKeeps, SeedFailsKeeps, CreditKeeps,
     AddRoomKeeps, PurchaseKeeps, QuietKeeps, SeedPersonalRoomKeeps, AddPrivateRoomKeeps,
     OpenSocketKeeps, FailsKeeps DEF Serve
<1>2. ASSUME NEW o \in Ops, RoomCreated(o) \/ Purchased(o) \/ InventoryRead(o)
      PROVE  KInv'
  BY <1>2, AnswersKeep
<1>3. ASSUME NEW o \in Ops, NEW u \in Users, Request(o, u)
      PROVE  KInv'
  BY <1>3, RequestKeeps
<1>4. ASSUME NEW u \in Users, Receive(u) \/ Drop(u)
      PROVE  KInv'
  BY <1>4, PageKeeps
<1>5. CASE Restart
  BY <1>5, RestartKeeps
<1>6. CASE UNCHANGED vars
  BY <1>6, AsideStep DEF vars, tables, client
<1> QED
  BY <1>1, <1>2, <1>3, <1>4, <1>5, <1>6 DEF Next

LEMMA HoldsToo == KInv => RoomsAccounted
<1> SUFFICES ASSUME KInv
             PROVE  RoomsAccounted
  OBVIOUS
<1>1. CapHolds
  BY DEF KInv
<1>2. RoomsKept
  BY DEF KInv, ToldRows, Listed, Reachable, Creating, RoomsKept
<1> QED
  BY <1>1, <1>2 DEF RoomsAccounted

\* A user whose requests come one after another never owns more rooms than
\* the cap; a room the page was told of has its row for good; the directory
\* has rooms of the table alone and, but for the cases hist notes, all of them.
THEOREM RoomsAreAccounted == Spec => []RoomsAccounted
<1>1. Init => RInv /\ KInv
  BY InitInv, InitKeeps
<1>2. RInv /\ KInv /\ [Next]_vars => RInv' /\ KInv'
  BY NextInv, NextKeeps
<1>3. KInv => RoomsAccounted
  BY HoldsToo
<1> QED
  BY <1>1, <1>2, <1>3, PTL DEF Spec

---------------------------------------------------------------------------
(* What a page shows.  It hears of its money and items in answers and in   *)
(* events that run behind them, so the invariant says what it will show    *)
(* once the events that are on their way have come: the money of the last  *)
(* one, and the items of the last that has any.  A user who is not stale   *)
(* has one request in flight at most; how far that has got says whether    *)
(* the tables are ahead of what was told.                                  *)

Of(u) == {o \in Busy : ops[o].user = u}

InboxMoney(u, d) == inbox[u] # <<>> => inbox[u][Len(inbox[u])].dollars = d
PageMoney(u, d) == InboxMoney(u, d) /\ (inbox[u] = <<>> => page[u].dollars = d)

\* Event n is the last that has items, and has i of them.
LastBought(u, n, i) ==
  /\ n \in 0 .. Len(inbox[u])
  /\ n > 0 => inbox[u][n].type = "bought" /\ inbox[u][n].items = i
  /\ \A j \in (n + 1) .. Len(inbox[u]) : inbox[u][j].type # "bought"

InboxItems(u, i) == \E n \in Nat : LastBought(u, n, i)
PageItems(u, i) == \E n \in Nat : LastBought(u, n, i) /\ (n = 0 => page[u].items = i)

Agreed(u, d, i) == PageMoney(u, d) /\ PageItems(u, i)

\* Request o of user u, who has d dollars and i items.
CreateShown(o, u, d) ==
  \/ ops[o].step \in {"owned", "spend"} /\ PageMoney(u, d)
  \/ ops[o].step = "seed" /\ PageMoney(u, d + RoomCost) /\ ops[o].dollars = d
  \/ ops[o].step = "credit" /\ PageMoney(u, d + RoomCost)
  \/ ops[o].step = "add" /\ ops[o].dollars = d
  \/ ops[o].step = "answer" /\ ops[o].dollars = d /\ InboxMoney(u, d)

PurchaseShown(o, u, d, i) ==
  \/ ops[o].step = "buy" /\ Agreed(u, d, i)
  \/ ops[o].step = "publish" /\ ops[o].dollars = d /\ ops[o].items = i
  \/ /\ ops[o].step = "answer" /\ ops[o].dollars = d /\ ops[o].items = i
     /\ InboxMoney(u, d) /\ InboxItems(u, i)

InventoryShown(o, i) == ops[o].step = "read" \/ (ops[o].step = "answer" /\ ops[o].items = i)

ConnectShown(o, u, d) ==
  /\ u \notin online
  /\ ops[o].step = "read" \/ (ops[o].step = "open" /\ ops[o].dollars = d)

RequestShown(o, u, d, i) ==
  \/ ops[o].kind = "create" /\ CreateShown(o, u, d) /\ PageItems(u, i)
  \/ ops[o].kind = "purchase" /\ PurchaseShown(o, u, d, i)
  \/ ops[o].kind = "inventory" /\ InventoryShown(o, i) /\ Agreed(u, d, i)
  \/ ops[o].kind = "home" /\ ops[o].step \in {"seed", "add"} /\ Agreed(u, d, i)
  \/ ops[o].kind = "connect" /\ ConnectShown(o, u, d) /\ Agreed(u, d, i)

ShownTo(u, d, i) ==
  \/ Of(u) = {} /\ Agreed(u, d, i)
  \/ \E o \in Busy : Of(u) = {o} /\ RequestShown(o, u, d, i)

Offline == \A u \in Users \ online : inbox[u] = <<>>
PInv ==
  /\ Offline
  /\ \A u \in Users \ hist.stale : \A d, i \in Nat :
       money[u] = d /\ stock[u] = i => ShownTo(u, d, i)

\* The user's page and events tell what they told.
Retold(u) ==
  /\ \A d \in Nat : (InboxMoney(u, d) => InboxMoney(u, d)') /\ (PageMoney(u, d) => PageMoney(u, d)')
  /\ \A i \in Nat : (InboxItems(u, i) => InboxItems(u, i)') /\ (PageItems(u, i) => PageItems(u, i)')

LEMMA SameTold ==
  ASSUME NEW u, inbox'[u] = inbox[u], page'[u] = page[u]
  PROVE  Retold(u)
  BY DEF Retold, InboxMoney, PageMoney, InboxItems, PageItems, LastBought

\* A user none of whose requests, tables and money a step touches.
LEMMA ShownKept ==
  ASSUME NEW u \in Users, Retold(u), u \in online' => u \in online,
         \A o \in Ops : ops'[o] = ops[o] \/ (o \notin Of(u) /\ o \notin Of(u)'),
         NEW d \in Nat, NEW i \in Nat, ShownTo(u, d, i)
  PROVE  ShownTo(u, d, i)'
<1>1. Of(u)' = Of(u) /\ \A o \in Of(u) : ops'[o] = ops[o]
  BY DEF Of, Busy
<1>2. CASE Of(u) = {} /\ Agreed(u, d, i)
  BY <1>1, <1>2 DEF ShownTo, Agreed, Retold
<1>3. ASSUME NEW o \in Busy, Of(u) = {o}, RequestShown(o, u, d, i)
      PROVE  ShownTo(u, d, i)'
  <2>1. ops'[o] = ops[o] /\ Of(u)' = {o} /\ o \in Busy'
    BY <1>1, <1>3 DEF Of, Busy
  <2>2. PageItems(u, i) => PageItems(u, i)'
    BY DEF Retold
  <2>3. Agreed(u, d, i) => Agreed(u, d, i)'
    BY DEF Retold, Agreed
  <2>4. d + RoomCost \in Nat
    BY RoomCreationAssumption
  <2>5. CreateShown(o, u, d) => CreateShown(o, u, d)'
    <3> DEFINE e == d + RoomCost
    <3>1. PageMoney(u, e) => PageMoney(u, e)'
      <4> HIDE DEF e
      <4> QED
        BY <2>4 DEF Retold, e
    <3> QED
      BY <2>1, <3>1 DEF CreateShown, Retold
  <2>6. PurchaseShown(o, u, d, i) => PurchaseShown(o, u, d, i)'
    BY <2>1, <2>3 DEF PurchaseShown, Retold
  <2>7. RequestShown(o, u, d, i)'
    BY <1>3, <2>1, <2>2, <2>3, <2>5, <2>6 DEF RequestShown, InventoryShown, ConnectShown
  <2> QED
    BY <2>1, <2>7 DEF ShownTo
<1> QED
  BY <1>2, <1>3 DEF ShownTo

Untouched(u) ==
  /\ money'[u] = money[u] /\ stock'[u] = stock[u]
  /\ inbox'[u] = inbox[u] /\ page'[u] = page[u] /\ (u \in online <=> u \in online')

\* What a step of request o of user u has to do.
Follows(o, u) ==
  \A d, i, e, k \in Nat :
    money[u] = d /\ stock[u] = i /\ RequestShown(o, u, d, i) /\ money'[u] = e /\ stock'[u] = k
      => \/ ops'[o] = NoOp /\ Agreed(u, e, k)'
         \/ ops'[o] # NoOp /\ RequestShown(o, u, e, k)'

LEMMA ServedShown ==
  ASSUME Types, Types', PInv, NEW o \in Busy, NEW w \in Users, w = ops[o].user,
         Others(o), ops'[o] = NoOp \/ ops'[o].user = w, hist.stale \subseteq hist'.stale,
         \A u \in Users \ {w} : Untouched(u),
         w \in online' \/ inbox'[w] = <<>>,
         w \in hist'.stale \/ Follows(o, w)
  PROVE  PInv'
<1>1. Offline'
  BY DEF PInv, Offline, Untouched
<1>2. ASSUME NEW u \in Users, u \notin hist'.stale, NEW e \in Nat, NEW k \in Nat,
             money'[u] = e, stock'[u] = k
      PROVE  ShownTo(u, e, k)'
  <2>1. PICK d \in Nat, i \in Nat : money[u] = d /\ stock[u] = i
    BY DEF Types
  <2>2. ShownTo(u, d, i)
    BY <1>2, <2>1 DEF PInv
  <2>3. CASE u # w
    <3>1. d = e /\ i = k /\ Retold(u) /\ (u \in online <=> u \in online')
      BY <1>2, <2>1, <2>3, SameTold DEF Untouched
    <3>2. \A p \in Ops : ops'[p] = ops[p] \/ (p \notin Of(u) /\ p \notin Of(u)')
      BY <2>3 DEF Others, Of, Busy
    <3> QED
      BY <2>2, <3>1, <3>2, ShownKept
  <2>4. CASE u = w
    <3>1. o \in Of(w) /\ Of(w) = {o} /\ RequestShown(o, w, d, i)
      BY <2>2, <2>4 DEF ShownTo, Of
    <3>2. \/ ops'[o] = NoOp /\ Agreed(w, e, k)'
          \/ ops'[o] # NoOp /\ RequestShown(o, w, e, k)'
      BY <1>2, <2>1, <2>4, <3>1 DEF Follows
    <3>3. CASE ops'[o] = NoOp /\ Agreed(w, e, k)'
      <4>1. Of(w)' = {}
        BY <3>1, <3>3 DEF Of, Busy, Others
      <4> QED
        BY <2>4, <3>3, <4>1 DEF ShownTo
    <3>4. CASE ops'[o] # NoOp /\ RequestShown(o, w, e, k)'
      <4>1. Of(w)' = {o} /\ o \in Busy'
        BY <3>1, <3>4 DEF Of, Busy, Others
      <4> QED
        BY <2>4, <3>4, <4>1 DEF ShownTo
    <3> QED
      BY <3>2, <3>3, <3>4
  <2> QED
    BY <2>3, <2>4
<1> QED
  BY <1>1, <1>2 DEF PInv

---------------------------------------------------------------------------
(* Events.                                                                 *)

LEMMA Published ==
  ASSUME Types, Offline, NEW u \in Users, NEW e \in Event, Publish(u, e), page' = page
  PROVE  /\ InboxMoney(u, e.dollars)'
         /\ PageMoney(u, e.dollars) => PageMoney(u, e.dollars)'
         /\ e.type = "bought" => InboxItems(u, e.items)'
         /\ \A i \in Nat : e.type # "bought" /\ PageItems(u, i) => PageItems(u, i)'
<1> DEFINE q == inbox[u]
           s == inbox'[u]
<1>1. q \in Seq(Event)
  BY DEF Types
<1>2. CASE u \notin online
  <2>1. q = <<>> /\ s = <<>> /\ inbox'[u] = inbox[u] /\ page'[u] = page[u]
    BY <1>2 DEF Publish, Offline
  <2>2. Len(s) = 0
    BY <2>1
  <2>3. e.items \in Nat /\ LastBought(u, 0, e.items)'
    BY <2>1, <2>2 DEF LastBought, Event
  <2> QED
    BY <2>1, <2>3, SameTold DEF InboxMoney, PageMoney, InboxItems, PageItems, LastBought
<1>3. CASE u \in online
  <2>1. s = Append(q, e)
    BY <1>3 DEF Publish, Types
  <2>2. /\ Len(q) \in Nat /\ Len(s) = Len(q) + 1 /\ s[Len(q) + 1] = e /\ s # <<>>
        /\ \A j \in 1 .. Len(q) : s[j] = q[j]
    BY <1>1, <2>1
  <2>3. InboxMoney(u, e.dollars)' /\ PageMoney(u, e.dollars)'
    BY <2>2 DEF InboxMoney, PageMoney
  <2>4. ASSUME e.type = "bought"
        PROVE  InboxItems(u, e.items)'
    <3>1. PICK n \in Nat : n = Len(q) + 1
      BY <2>2
    <3>2. LastBought(u, n, e.items)'
      BY <2>2, <2>4, <3>1 DEF LastBought
    <3> QED
      BY <3>1, <3>2 DEF InboxItems
  <2>5. ASSUME NEW i \in Nat, e.type # "bought", PageItems(u, i)
        PROVE  PageItems(u, i)'
    <3>1. PICK n \in Nat : LastBought(u, n, i) /\ (n = 0 => page[u].items = i)
      BY <2>5 DEF PageItems
    <3>2. LastBought(u, n, i)'
      BY <2>2, <2>5, <3>1 DEF LastBought
    <3> QED
      BY <3>1, <3>2 DEF PageItems
  <2> QED
    BY <2>3, <2>4, <2>5
<1> QED
  BY <1>2, <1>3

\* The page shows the event that was first on its way.
LEMMA Received ==
  ASSUME Types, NEW u \in Users, Receive(u)
  PROVE  Retold(u)
<1> DEFINE q == inbox[u]
           s == inbox'[u]
           m == IF Head(q).type = "bought" THEN Head(q).items ELSE page[u].items
<1>1. q \in Seq(Event) /\ q # <<>> /\ Len(q) \in Nat \ {0}
  BY DEF Types, Receive
<1>2. s = Tail(q) /\ page'[u].dollars = Head(q).dollars /\ page'[u].items = m
  BY DEF Types, Receive, Shows
<1>3. Head(q) = q[1] /\ Len(s) = Len(q) - 1 /\ \A j \in 1 .. Len(s) : s[j] = q[j + 1]
  BY <1>1, <1>2
<1>4. s \in Seq(Event) /\ (s = <<>> <=> Len(q) = 1)
  <2>1. s \in Seq(Event)
    BY <1>1, <1>2
  <2>2. s = <<>> <=> Len(s) = 0
    BY <2>1
  <2> QED
    BY <1>1, <1>3, <2>1, <2>2
<1>5. ASSUME NEW d \in Nat, InboxMoney(u, d)
      PROVE  PageMoney(u, d)'
  <2>1. q[Len(q)].dollars = d
    BY <1>1, <1>5 DEF InboxMoney
  <2>2. CASE s = <<>>
    BY <1>1, <1>2, <1>3, <1>4, <2>1, <2>2 DEF InboxMoney, PageMoney
  <2>3. CASE s # <<>>
    <3>1. Len(s) \in 1 .. Len(s) /\ s[Len(s)] = q[Len(q)]
      BY <1>1, <1>3, <1>4, <2>3
    <3> QED
      BY <2>1, <2>3, <3>1 DEF InboxMoney, PageMoney
  <2> QED
    BY <2>2, <2>3
<1>6. ASSUME NEW i \in Nat, NEW n \in Nat, LastBought(u, n, i)
      PROVE  /\ n > 1 => LastBought(u, n - 1, i)'
             /\ n <= 1 => LastBought(u, 0, i)'
             /\ n = 1 => page'[u].items = i
             /\ n = 0 => page'[u].items = page[u].items
  <2>1. n \in 0 .. Len(q) /\ (n > 0 => q[n].type = "bought" /\ q[n].items = i)
        /\ \A j \in (n + 1) .. Len(q) : q[j].type # "bought"
    BY <1>6 DEF LastBought
  <2>2. ASSUME n > 1
        PROVE  LastBought(u, n - 1, i)'
    <3>1. n - 1 \in 1 .. Len(s) /\ s[n - 1] = q[n]
      BY <1>1, <1>3, <2>1, <2>2
    <3>2. \A j \in n .. Len(s) : s[j] = q[j + 1] /\ j + 1 \in (n + 1) .. Len(q)
      BY <1>1, <1>3, <2>1, <2>2
    <3>3. \A j \in n .. Len(s) : s[j].type # "bought"
      BY <2>1, <3>2
    <3>4. n - 1 \in 0 .. Len(s) /\ (n - 1) + 1 = n /\ s[n - 1].type = "bought" /\ s[n - 1].items = i
      BY <1>3, <2>1, <2>2, <3>1
    <3> QED
      BY <3>3, <3>4 DEF LastBought
  <2>3. n <= 1 => LastBought(u, 0, i)'
    BY <1>1, <1>3, <2>1 DEF LastBought
  <2>4. n = 1 => page'[u].items = i
    BY <1>2, <1>3, <2>1
  <2>5. n = 0 => page'[u].items = page[u].items
    BY <1>1, <1>2, <1>3, <2>1
  <2> QED
    BY <2>2, <2>3, <2>4, <2>5
<1>7. ASSUME NEW i \in Nat, InboxItems(u, i)
      PROVE  InboxItems(u, i)'
  <2>1. PICK n \in Nat : LastBought(u, n, i)
    BY <1>7 DEF InboxItems
  <2>2. CASE n > 1
    BY <1>6, <2>1, <2>2 DEF InboxItems
  <2>3. CASE n <= 1
    BY <1>6, <2>1, <2>3 DEF InboxItems
  <2> QED
    BY <2>2, <2>3
<1>8. ASSUME NEW i \in Nat, PageItems(u, i)
      PROVE  PageItems(u, i)'
  <2>1. PICK n \in Nat : LastBought(u, n, i) /\ (n = 0 => page[u].items = i)
    BY <1>8 DEF PageItems
  <2>2. CASE n > 1
    <3>1. n - 1 \in Nat /\ n - 1 # 0 /\ LastBought(u, n - 1, i)'
      BY <1>6, <2>1, <2>2
    <3> QED
      BY <3>1 DEF PageItems
  <2>3. CASE n <= 1
    <3>1. LastBought(u, 0, i)' /\ page'[u].items = i
      BY <1>6, <2>1, <2>3
    <3> QED
      BY <3>1 DEF PageItems
  <2> QED
    BY <2>2, <2>3
<1> QED
  BY <1>5, <1>7, <1>8 DEF Retold, PageMoney

\* An answer is shown over what the page showed; the events still come.
LEMMA AnswerShown ==
  ASSUME Types, NEW u \in Users, NEW d \in Nat, NEW i \in Nat, Shows(u, d, i), inbox' = inbox
  PROVE  /\ InboxMoney(u, d) => PageMoney(u, d)'
         /\ InboxItems(u, i) => PageItems(u, i)'
         /\ d = page[u].dollars => \A e \in Nat : PageMoney(u, e) => PageMoney(u, e)'
         /\ i = page[u].items => \A k \in Nat : PageItems(u, k) => PageItems(u, k)'
<1>1. page'[u].dollars = d /\ page'[u].items = i
  BY DEF Shows, Types
<1> QED
  BY <1>1 DEF PageMoney, PageItems, InboxMoney, InboxItems, LastBought

\* Whatever happened to other users' pages, and to the user's requests.
LEMMA StaleGrows ==
  ASSUME Types, NEW w \in Users
  PROVE  /\ Unlearnt(w) => hist'.stale = hist.stale \cup {w}
         /\ hist' = [hist EXCEPT !.lost = Noted(@, w), !.stale = @ \cup {w}]
              => hist'.stale = hist.stale \cup {w}
         /\ hist' = [hist EXCEPT !.free = Noted(@, w), !.unlisted = TRUE]
              => hist'.stale = hist.stale
<1> DEFINE stale == hist.stale \cup {w}
           lost == Noted(hist.lost, w)
           free == Noted(hist.free, w)
<1>1. ASSUME Unlearnt(w)
      PROVE  hist'.stale = hist.stale \cup {w}
  <2>1. hist' = [hist EXCEPT !.stale = stale]
    BY <1>1 DEF Unlearnt
  <2> QED
    BY <2>1 DEF Types
<1>2. ASSUME hist' = [hist EXCEPT !.lost = Noted(@, w), !.stale = @ \cup {w}]
      PROVE  hist'.stale = hist.stale \cup {w}
  <2>1. hist' = [hist EXCEPT !.lost = lost, !.stale = stale]
    BY <1>2
  <2> HIDE DEF lost, stale
  <2>2. hist'.stale = stale
    BY <2>1 DEF Types
  <2> QED
    BY <2>2 DEF stale
<1>3. ASSUME hist' = [hist EXCEPT !.free = Noted(@, w), !.unlisted = TRUE]
      PROVE  hist'.stale = hist.stale
  <2>1. hist' = [hist EXCEPT !.free = free, !.unlisted = TRUE]
    BY <1>3
  <2> HIDE DEF free
  <2> QED
    BY <2>1 DEF Types
<1> QED
  BY <1>1, <1>2, <1>3

---------------------------------------------------------------------------
(* The requests' steps.                                                    *)

LEMMA NotDone ==
  ASSUME NEW o, NEW step, Moves(o, step)
  PROVE  ops'[o] # NoOp /\ ops'[o].user = ops[o].user /\ Others(o)
  BY DEF Moves

LEMMA GotoKeeps ==
  ASSUME Types, NEW o \in Busy, NEW step \in Steps, Goto(o, step)
  PROVE  Moves(o, step) /\ ops'[o].dollars = ops[o].dollars /\ ops'[o].items = ops[o].items
<1>1. o \in Ops /\ ops[o] \in Requests /\ ops \in [Ops -> Requests \cup {NoOp}]
  BY BusyOp DEF Types
<1>2. ops'[o] = [ops[o] EXCEPT !.step = step]
  BY <1>1 DEF Goto
<1> QED
  BY <1>1, <1>2, GotoIs DEF Requests

\* A step that tells the user nothing and leaves everyone's money and items.
LEMMA QuietShown ==
  ASSUME Types, Types', PInv, NEW o \in Busy, Others(o),
         ops'[o] = NoOp \/ ops'[o].user = ops[o].user, hist.stale \subseteq hist'.stale,
         UNCHANGED <<money, stock, online, inbox, page>>,
         ops[o].user \in hist'.stale \/ Follows(o, ops[o].user)
  PROVE  PInv'
<1>1. PICK w \in Users : w = ops[o].user
  BY BusyOp
<1>2. \A u \in Users : Untouched(u)
  BY DEF Untouched
<1>3. w \in online' \/ inbox'[w] = <<>>
  BY DEF PInv, Offline
<1> QED
  BY <1>1, <1>2, <1>3, ServedShown

\* What a request's step shows its user, when page and events stay.
LEMMA StaysShown ==
  ASSUME NEW u, UNCHANGED <<inbox, page>>
  PROVE  \A d, i : /\ InboxMoney(u, d)' = InboxMoney(u, d) /\ PageMoney(u, d)' = PageMoney(u, d)
                   /\ InboxItems(u, i)' = InboxItems(u, i) /\ PageItems(u, i)' = PageItems(u, i)
                   /\ Agreed(u, d, i)' = Agreed(u, d, i)
  BY DEF InboxMoney, PageMoney, InboxItems, PageItems, LastBought, Agreed

LEMMA ListOwnedRoomsShown ==
  ASSUME RInv, RInv', PInv, NEW o \in Ops, ListOwnedRooms(o)
  PROVE  PInv'
<1>1. /\ o \in Busy /\ ops[o].kind = "create" /\ ops[o].step = "owned" /\ Types /\ Types'
      /\ UNCHANGED <<money, stock, online, inbox, page, hist>>
  BY DEF ListOwnedRooms, At, RInv, tables, client
<1>2. Ends(o) \/ Moves(o, "spend")
  BY <1>1, EndIs, GotoIs DEF ListOwnedRooms, Steps
<1>3. PICK w : w = ops[o].user
  OBVIOUS
<1>4. Follows(o, w)
  BY <1>1, <1>2, <1>3, StaysShown DEF Ends, Moves, Follows, RequestShown, CreateShown, Agreed
<1>5. Others(o) /\ (ops'[o] = NoOp \/ ops'[o].user = ops[o].user)
  BY <1>2 DEF Ends, Moves
<1> QED
  BY <1>1, <1>3, <1>4, <1>5, QuietShown

LEMMA SpendShown ==
  ASSUME RInv, RInv', PInv, NEW o \in Ops, Spend(o)
  PROVE  PInv'
<1>1. /\ o \in Busy /\ ops[o].kind = "create" /\ ops[o].step = "spend" /\ Types /\ Types'
      /\ UNCHANGED <<stock, online, inbox, page>>
  BY DEF Spend, At, RInv, client
<1>2. PICK w \in Users : w = ops[o].user
  BY <1>1, BusyOp
<1>3. CASE ~CanPay(w, RoomCost)
  <2>1. Ends(o) /\ UNCHANGED <<money, hist>>
    BY <1>1, <1>2, <1>3, EndIs DEF Spend
  <2>2. Follows(o, w)
    BY <1>1, <2>1, StaysShown DEF Ends, Follows, RequestShown, CreateShown, Agreed
  <2> QED
    BY <1>1, <1>2, <2>1, <2>2, QuietShown DEF Ends
<1>4. CASE CanPay(w, RoomCost)
  <2>1. money' = [money EXCEPT ![w] = @ - RoomCost]
    BY <1>2, <1>4 DEF Spend
  <2>2. money'[w] = money[w] - RoomCost /\ money'[w] \in Nat
    BY <1>1, <2>1 DEF Types
  <2>3. \A u \in Users \ {w} : Untouched(u)
    BY <1>1, <2>1 DEF Untouched, Types
  <2>4. w \in online' \/ inbox'[w] = <<>>
    BY <1>1 DEF PInv, Offline
  <2>5. CASE ops' = [ops EXCEPT ![o].step = "seed", ![o].dollars = money'[w]] /\ UNCHANGED hist
    <3>1. Moves(o, "seed") /\ ops'[o].dollars = money'[w]
      BY <1>1, <2>2, <2>5, SetDollars DEF Steps
    <3>2. Follows(o, w)
      <4> SUFFICES ASSUME NEW d \in Nat, NEW i \in Nat, NEW e \in Nat, NEW k \in Nat,
                          money[w] = d, stock[w] = i, RequestShown(o, w, d, i),
                          money'[w] = e, stock'[w] = k
                   PROVE  ops'[o] # NoOp /\ RequestShown(o, w, e, k)'
        BY DEF Follows
      <4>1. PageMoney(w, d) /\ PageItems(w, i)
        BY <1>1 DEF RequestShown, CreateShown
      <4>2. PICK c \in Nat : c = RoomCost
        BY RoomCreationAssumption
      <4>3. e + c = d /\ k = i
        BY <1>1, <2>2, <4>2
      <4>4. PageMoney(w, e + c)' /\ PageItems(w, k)'
        BY <1>1, <4>1, <4>3, StaysShown
      <4> QED
        BY <1>1, <3>1, <4>2, <4>4 DEF Moves, RequestShown, CreateShown
    <3> QED
      BY <1>1, <1>2, <2>3, <2>4, <2>5, <3>1, <3>2, ServedShown, NotDone
  <2>6. CASE End(o) /\ hist' = [hist EXCEPT !.lost = Noted(@, w), !.stale = @ \cup {w}]
    <3>1. Ends(o) /\ hist'.stale = hist.stale \cup {w}
      BY <1>1, <2>6, EndIs, StaleGrows
    <3> QED
      BY <1>1, <1>2, <2>3, <2>4, <3>1, ServedShown DEF Ends
  <2> QED
    BY <1>2, <1>4, <2>5, <2>6 DEF Spend
<1> QED
  BY <1>3, <1>4

LEMMA SeedRoomShown ==
  ASSUME RInv, RInv', PInv, NEW o \in Ops, SeedRoom(o) \/ SeedFails(o)
  PROVE  PInv'
<1>1. /\ o \in Busy /\ ops[o].kind = "create" /\ ops[o].step = "seed" /\ Types /\ Types'
      /\ UNCHANGED <<money, stock, online, inbox, page>>
  BY DEF SeedRoom, SeedFails, At, RInv, tables, client
<1>2. PICK w \in Users : w = ops[o].user
  BY <1>1, BusyOp
<1>3. /\ Goto(o, "add") \/ Goto(o, "credit")
      /\ \/ UNCHANGED hist
         \/ hist' = [hist EXCEPT !.free = Noted(@, w), !.unlisted = TRUE]
  BY <1>2 DEF SeedRoom, SeedFails
<1>4. hist'.stale = hist.stale
  BY <1>1, <1>3, StaleGrows
<1>5. /\ Moves(o, "add") \/ Moves(o, "credit")
      /\ ops'[o].dollars = ops[o].dollars
  BY <1>1, <1>3, GotoKeeps DEF Steps
<1>6. Follows(o, w)
  BY <1>1, <1>5, StaysShown DEF Moves, Follows, RequestShown, CreateShown
<1> QED
  BY <1>1, <1>2, <1>4, <1>5, <1>6, NotDone, QuietShown

LEMMA CreditShown ==
  ASSUME RInv, RInv', PInv, NEW o \in Ops, Credit(o)
  PROVE  PInv'
<1>1. /\ o \in Busy /\ ops[o].kind = "create" /\ ops[o].step = "credit" /\ Types /\ Types' /\ Offline
      /\ UNCHANGED <<stock, online, page, hist>>
  BY DEF Credit, At, RInv, PInv
<1>2. PICK w \in Users : w = ops[o].user
  BY <1>1, BusyOp
<1>3. Ends(o)
  BY <1>1, EndIs DEF Credit
<1>4. PICK c \in Nat : c = RoomCost
  BY RoomCreationAssumption
<1>5. /\ money' = [money EXCEPT ![w] = @ + RoomCost]
      /\ Publish(w, [type |-> "balance", dollars |-> money'[w], items |-> 0])
  BY <1>2 DEF Credit, Refund
<1>6. PICK e \in Nat : e = money'[w] /\ e = money[w] + c
  BY <1>1, <1>4, <1>5 DEF Types
<1> DEFINE ev == [type |-> "balance", dollars |-> e, items |-> 0]
<1>7. ev \in Event /\ ev.dollars = e /\ ev.type # "bought" /\ Publish(w, ev)
  BY <1>5, <1>6 DEF Event
<1> HIDE DEF ev
<1>8. /\ PageMoney(w, e) => PageMoney(w, e)'
      /\ \A i \in Nat : PageItems(w, i) => PageItems(w, i)'
  BY <1>1, <1>7, Published
<1>9. Follows(o, w)
  <2> SUFFICES ASSUME NEW d \in Nat, NEW i \in Nat, money[w] = d, stock[w] = i, RequestShown(o, w, d, i)
               PROVE  Agreed(w, e, i)'
    BY <1>1, <1>3, <1>6 DEF Follows, Ends
  <2>1. PageMoney(w, d + RoomCost) /\ PageItems(w, i) /\ d + RoomCost = e
    BY <1>1, <1>4, <1>6 DEF RequestShown, CreateShown
  <2>2. PageMoney(w, e)' /\ PageItems(w, i)'
    BY <1>8, <2>1
  <2> QED
    BY <2>2 DEF Agreed
<1>10. \A u \in Users \ {w} : Untouched(u)
  BY <1>1, <1>5, <1>7 DEF Untouched, Publish, Types
<1>11. w \in online' \/ inbox'[w] = <<>>
  BY <1>1, <1>7 DEF Offline, Publish
<1> QED
  BY <1>1, <1>2, <1>3, <1>9, <1>10, <1>11, ServedShown DEF Ends

LEMMA CreditFailsShown ==
  ASSUME RInv, RInv', PInv, NEW o \in Ops, CreditFails(o)
  PROVE  PInv'
<1>1. o \in Busy /\ Types /\ Types' /\ UNCHANGED <<money, stock, online, inbox, page>>
  BY DEF CreditFails, At, RInv, tables, client
<1>2. PICK w \in Users : w = ops[o].user
  BY <1>1, BusyOp
<1>3. Ends(o) /\ hist'.stale = hist.stale \cup {w}
  BY <1>1, <1>2, EndIs, StaleGrows DEF CreditFails
<1> QED
  BY <1>1, <1>2, <1>3, QuietShown DEF Ends

\* The two events that tell what a request did, before its answer.
LEMMA AddRoomShown ==
  ASSUME RInv, RInv', PInv, NEW o \in Ops, AddRoom(o)
  PROVE  PInv'
<1>1. /\ o \in Busy /\ ops[o].kind = "create" /\ ops[o].step = "add" /\ Types /\ Types' /\ Offline
      /\ UNCHANGED <<money, stock, online, page, hist>>
  BY DEF AddRoom, At, RInv, PInv, tables
<1>2. PICK w \in Users : w = ops[o].user
  BY <1>1, BusyOp
<1>3. Moves(o, "answer") /\ ops'[o].dollars = ops[o].dollars
  BY <1>1, GotoKeeps DEF AddRoom, Steps
<1>4. PICK d \in Nat : d = ops[o].dollars
  BY <1>1, BusyOp
<1> DEFINE ev == [type |-> "balance", dollars |-> d, items |-> 0]
<1>5. ev \in Event /\ ev.dollars = d /\ ev.type # "bought" /\ Publish(w, ev)
  BY <1>2, <1>4 DEF Event, AddRoom
<1> HIDE DEF ev
<1>6. InboxMoney(w, d)' /\ \A i \in Nat : PageItems(w, i) => PageItems(w, i)'
  BY <1>1, <1>5, Published
<1>7. Follows(o, w)
  BY <1>1, <1>3, <1>4, <1>6 DEF Moves, Follows, RequestShown, CreateShown
<1>8. \A u \in Users \ {w} : Untouched(u)
  BY <1>1, <1>5 DEF Untouched, Publish, Types
<1>9. w \in online' \/ inbox'[w] = <<>>
  BY <1>1, <1>5 DEF Offline, Publish
<1> QED
  BY <1>1, <1>2, <1>3, <1>7, <1>8, <1>9, NotDone, ServedShown

LEMMA PublishPurchaseShown ==
  ASSUME RInv, RInv', PInv, NEW o \in Ops, PublishPurchase(o)
  PROVE  PInv'
<1>1. /\ o \in Busy /\ ops[o].kind = "purchase" /\ ops[o].step = "publish" /\ Types /\ Types' /\ Offline
      /\ UNCHANGED <<money, stock, online, page, hist>>
  BY DEF PublishPurchase, At, RInv, PInv, tables
<1>2. PICK w \in Users : w = ops[o].user
  BY <1>1, BusyOp
<1>3. Moves(o, "answer") /\ ops'[o].dollars = ops[o].dollars /\ ops'[o].items = ops[o].items
  BY <1>1, GotoKeeps DEF PublishPurchase, Steps
<1>4. PICK d \in Nat, i \in Nat : d = ops[o].dollars /\ i = ops[o].items
  BY <1>1, BusyOp
<1> DEFINE ev == [type |-> "bought", dollars |-> d, items |-> i]
<1>5. ev \in Event /\ ev.dollars = d /\ ev.items = i /\ ev.type = "bought" /\ Publish(w, ev)
  BY <1>2, <1>4 DEF Event, PublishPurchase
<1> HIDE DEF ev
<1>6. InboxMoney(w, d)' /\ InboxItems(w, i)'
  BY <1>1, <1>5, Published
<1>7. Follows(o, w)
  BY <1>1, <1>3, <1>4, <1>6 DEF Moves, Follows, RequestShown, PurchaseShown
<1>8. \A u \in Users \ {w} : Untouched(u)
  BY <1>1, <1>5 DEF Untouched, Publish, Types
<1>9. w \in online' \/ inbox'[w] = <<>>
  BY <1>1, <1>5 DEF Offline, Publish
<1> QED
  BY <1>1, <1>2, <1>3, <1>7, <1>8, <1>9, NotDone, ServedShown

LEMMA PurchaseShows ==
  ASSUME RInv, RInv', PInv, NEW o \in Ops, Purchase(o)
  PROVE  PInv'
<1>1. /\ o \in Busy /\ ops[o].kind = "purchase" /\ ops[o].step = "buy" /\ Types /\ Types'
      /\ UNCHANGED <<online, inbox, page>>
  BY DEF Purchase, At, RInv, client
<1>2. PICK w \in Users : w = ops[o].user
  BY <1>1, BusyOp
<1>3. w \in online' \/ inbox'[w] = <<>>
  BY <1>1 DEF PInv, Offline
<1>4. CASE ~CanPay(w, Price)
  <2>1. Ends(o) /\ UNCHANGED <<money, stock, hist>>
    BY <1>1, <1>2, <1>4, EndIs DEF Purchase
  <2>2. Follows(o, w)
    BY <1>1, <2>1, StaysShown DEF Ends, Follows, RequestShown, PurchaseShown
  <2> QED
    BY <1>1, <1>2, <2>1, <2>2, QuietShown DEF Ends
<1>5. CASE CanPay(w, Price)
  <2>1. money' = [money EXCEPT ![w] = @ - Price] /\ stock' = Noted(stock, w)
    BY <1>2, <1>5 DEF Purchase
  <2>2. \A u \in Users \ {w} : Untouched(u)
    BY <1>1, <2>1 DEF Untouched, Types, Noted
  <2>3. CASE /\ ops' = [ops EXCEPT ![o].step = "publish", ![o].dollars = money'[w], ![o].items = stock'[w]]
             /\ UNCHANGED hist
    <3>1. money'[w] \in Nat /\ stock'[w] \in Nat
      BY <1>1 DEF Types
    <3>2. Moves(o, "publish") /\ ops'[o].dollars = money'[w] /\ ops'[o].items = stock'[w]
      <4>1. o \in Busy /\ Types /\ "publish" \in Steps
        BY <1>1 DEF Steps
      <4>2. ops' = [ops EXCEPT ![o].step = "publish", ![o].dollars = money'[w], ![o].items = stock'[w]]
        BY <2>3
      <4>3. Moves(o, "publish")
        BY <3>1, <4>1, <4>2, SetBoth
      <4>4. ops'[o].dollars = money'[w]
        BY <3>1, <4>1, <4>2, SetBoth
      <4>5. ops'[o].items = stock'[w]
        <5>1. ops[o] \in Requests /\ ops \in [Ops -> Requests \cup {NoOp}]
          BY <4>1, BusyOp DEF Types
        <5> QED
          BY <4>2, <5>1 DEF Requests
      <4> QED
        BY <4>3, <4>4, <4>5
    <3>3. Follows(o, w)
      BY <1>1, <3>2 DEF Moves, Follows, RequestShown, PurchaseShown
    <3> QED
      BY <1>1, <1>2, <1>3, <2>2, <2>3, <3>3, <3>2, NotDone, ServedShown
  <2>4. CASE End(o) /\ Unlearnt(w)
    <3>1. Ends(o) /\ hist'.stale = hist.stale \cup {w}
      BY <1>1, <2>4, EndIs, StaleGrows
    <3> QED
      BY <1>1, <1>2, <1>3, <2>2, <3>1, ServedShown DEF Ends
  <2> QED
    BY <1>2, <1>5, <2>3, <2>4 DEF Purchase
<1> QED
  BY <1>4, <1>5

LEMMA GetInventoryShown ==
  ASSUME RInv, RInv', PInv, NEW o \in Ops, GetInventory(o)
  PROVE  PInv'
<1>1. /\ o \in Busy /\ ops[o].kind = "inventory" /\ ops[o].step = "read" /\ Types /\ Types'
      /\ UNCHANGED <<money, stock, online, inbox, page, hist>>
  BY DEF GetInventory, At, RInv, tables, client
<1>2. PICK w \in Users : w = ops[o].user
  BY <1>1, BusyOp
<1>3. Moves(o, "answer") /\ ops'[o].items = stock[w]
  <2>1. PICK i \in Nat : i = stock[w]
    BY <1>1 DEF Types
  <2>2. ops' = [ops EXCEPT ![o].step = "answer", ![o].items = i] /\ "answer" \in Steps
    BY <1>2, <2>1 DEF GetInventory, Steps
  <2> QED
    BY <1>1, <2>1, <2>2, SetItems
<1>4. Follows(o, w)
  BY <1>1, <1>3, StaysShown DEF Moves, Follows, RequestShown, InventoryShown
<1> QED
  BY <1>1, <1>2, <1>3, <1>4, NotDone, QuietShown

LEMMA HomeShown ==
  ASSUME RInv, RInv', PInv, NEW o \in Ops, SeedPersonalRoom(o) \/ AddPrivateRoom(o)
  PROVE  PInv'
<1>1. /\ o \in Busy /\ ops[o].kind = "home" /\ Types /\ Types'
      /\ UNCHANGED <<money, stock, online, inbox, page, hist>>
  BY DEF SeedPersonalRoom, AddPrivateRoom, At, RInv, tables, client
<1>2. PICK w : w = ops[o].user
  OBVIOUS
<1>3. Ends(o) \/ Moves(o, "add")
  BY <1>1, EndIs, GotoIs DEF SeedPersonalRoom, AddPrivateRoom, Steps
<1>4. Follows(o, w)
  BY <1>1, <1>3, StaysShown DEF Ends, Moves, Follows, RequestShown
<1>5. Others(o) /\ (ops'[o] = NoOp \/ ops'[o].user = ops[o].user)
  BY <1>3 DEF Ends, Moves
<1> QED
  BY <1>1, <1>2, <1>4, <1>5, QuietShown

LEMMA VerifyTokenShown ==
  ASSUME RInv, RInv', PInv, NEW o \in Ops, VerifyToken(o)
  PROVE  PInv'
<1>1. /\ o \in Busy /\ ops[o].kind = "connect" /\ ops[o].step = "read" /\ Types /\ Types'
      /\ UNCHANGED <<money, stock, online, inbox, page, hist>>
  BY DEF VerifyToken, At, RInv, tables, client
<1>2. PICK w \in Users : w = ops[o].user
  BY <1>1, BusyOp
<1>3. Moves(o, "open") /\ ops'[o].dollars = money[w]
  <2>1. PICK d \in Nat : d = money[w]
    BY <1>1 DEF Types
  <2>2. ops' = [ops EXCEPT ![o].step = "open", ![o].dollars = d] /\ "open" \in Steps
    BY <1>2, <2>1 DEF VerifyToken, Steps
  <2> QED
    BY <1>1, <2>1, <2>2, SetDollars
<1>4. Follows(o, w)
  BY <1>1, <1>3, StaysShown DEF Moves, Follows, RequestShown, ConnectShown
<1> QED
  BY <1>1, <1>2, <1>3, <1>4, NotDone, QuietShown

\* The page knows its items from before; the money comes with the socket.
LEMMA OpenSocketShown ==
  ASSUME RInv, RInv', PInv, NEW o \in Ops, OpenSocket(o)
  PROVE  PInv'
<1>1. /\ o \in Busy /\ ops[o].kind = "connect" /\ ops[o].step = "open" /\ Types /\ Types' /\ Offline
      /\ UNCHANGED <<money, stock, page, hist>>
  BY DEF OpenSocket, At, RInv, PInv, tables
<1>2. PICK w \in Users : w = ops[o].user
  BY <1>1, BusyOp
<1>3. Ends(o) /\ online' = online \cup {w}
  BY <1>1, <1>2, EndIs DEF OpenSocket
<1>4. PICK c \in Nat : c = ops[o].dollars
  BY <1>1, BusyOp
<1> DEFINE ev == [type |-> "connected", dollars |-> c, items |-> 0]
<1>5. inbox' = [inbox EXCEPT ![w] = <<ev>>] /\ ev.type # "bought" /\ ev.dollars = c
  BY <1>2, <1>4 DEF OpenSocket, DataDollars
<1> HIDE DEF ev
<1>6. Len(inbox'[w]) = 1 /\ inbox'[w][1] = ev /\ inbox'[w] # <<>>
  BY <1>1, <1>5 DEF Types
<1>7. ASSUME NEW i \in Nat, w \notin online, PageItems(w, i)
      PROVE  PageItems(w, i)'
  <2>1. inbox[w] = <<>> /\ Len(inbox[w]) = 0
    BY <1>1, <1>7 DEF Offline
  <2>2. page[w].items = i
    BY <1>7, <2>1 DEF PageItems, LastBought
  <2>3. LastBought(w, 0, i)'
    BY <1>5, <1>6 DEF LastBought
  <2> QED
    BY <1>1, <2>2, <2>3 DEF PageItems
<1>8. PageMoney(w, c)'
  BY <1>5, <1>6 DEF PageMoney, InboxMoney
<1>9. Follows(o, w)
  BY <1>1, <1>3, <1>4, <1>7, <1>8 DEF Ends, Follows, RequestShown, ConnectShown, Agreed
<1>10. \A u \in Users \ {w} : Untouched(u)
  BY <1>1, <1>3, <1>5 DEF Untouched, Types
<1> QED
  BY <1>1, <1>2, <1>3, <1>9, <1>10, ServedShown DEF Ends

LEMMA FailsShown ==
  ASSUME RInv, RInv', PInv, NEW o \in Ops, Fails(o)
  PROVE  PInv'
<1>1. o \in Busy /\ Types /\ Types' /\ UNCHANGED <<money, stock, online, inbox, page, hist>>
  BY DEF Fails, RInv, tables, client
<1>2. Ends(o)
  BY <1>1, EndIs DEF Fails
<1>3. PICK w : w = ops[o].user
  OBVIOUS
<1>4. ASSUME NEW d \in Nat, NEW i \in Nat, RequestShown(o, w, d, i)
      PROVE  Agreed(w, d, i)
  BY <1>4 DEF Fails, RequestShown, CreateShown, PurchaseShown, Agreed
<1>5. Follows(o, w)
  BY <1>1, <1>2, <1>4, StaysShown DEF Ends, Follows
<1> QED
  BY <1>1, <1>2, <1>3, <1>5, QuietShown DEF Ends

LEMMA AnswersShown ==
  ASSUME RInv, RInv', PInv, NEW o \in Ops, RoomCreated(o) \/ Purchased(o) \/ InventoryRead(o)
  PROVE  PInv'
<1>1. /\ o \in Busy /\ ops[o].step = "answer" /\ Types /\ Types' /\ Offline
      /\ UNCHANGED <<money, stock, online, inbox, hist>>
  BY DEF RoomCreated, Purchased, InventoryRead, Answered, At, RInv, PInv, tables
<1>2. PICK w \in Users : w = ops[o].user
  BY <1>1, BusyOp
<1>3. Ends(o)
  BY <1>1, EndIs DEF RoomCreated, Purchased, InventoryRead, Answered
<1>4. PICK c \in Nat, m \in Nat, pd \in Nat, pm \in Nat :
        c = ops[o].dollars /\ m = ops[o].items /\ pd = page[w].dollars /\ pm = page[w].items
  BY <1>1, BusyOp DEF Types
<1>5. ASSUME NEW x \in Nat, NEW y \in Nat, Shows(w, x, y), Follows(o, w)
      PROVE  PInv'
  <2>1. \A u \in Users \ {w} : Untouched(u)
    BY <1>1, <1>5 DEF Untouched, Shows, Types
  <2>2. w \in online' \/ inbox'[w] = <<>>
    BY <1>1 DEF Offline
  <2> QED
    BY <1>1, <1>2, <1>3, <1>5, <2>1, <2>2, ServedShown DEF Ends
<1>6. CASE RoomCreated(o)
  <2>1. ops[o].kind = "create" /\ Shows(w, c, pm)
    BY <1>2, <1>4, <1>6 DEF RoomCreated, Answered, At
  <2>2. /\ InboxMoney(w, c) => PageMoney(w, c)'
        /\ \A k \in Nat : PageItems(w, k) => PageItems(w, k)'
    BY <1>1, <1>4, <2>1, AnswerShown
  <2>3. Follows(o, w)
    BY <1>1, <1>3, <1>4, <2>1, <2>2 DEF Ends, Follows, RequestShown, CreateShown, Agreed
  <2> QED
    BY <1>5, <2>1, <2>3
<1>7. CASE Purchased(o)
  <2>1. ops[o].kind = "purchase" /\ Shows(w, c, m)
    BY <1>2, <1>4, <1>7 DEF Purchased, Answered, At
  <2>2. (InboxMoney(w, c) => PageMoney(w, c)') /\ (InboxItems(w, m) => PageItems(w, m)')
    BY <1>1, <2>1, AnswerShown
  <2>3. Follows(o, w)
    BY <1>1, <1>3, <1>4, <2>1, <2>2 DEF Ends, Follows, RequestShown, PurchaseShown, Agreed
  <2> QED
    BY <1>5, <2>1, <2>3
<1>8. CASE InventoryRead(o)
  <2>1. ops[o].kind = "inventory" /\ Shows(w, pd, m)
    BY <1>2, <1>4, <1>8 DEF InventoryRead, Answered, At
  <2>2. /\ \A e \in Nat : PageMoney(w, e) => PageMoney(w, e)'
        /\ InboxItems(w, m) => PageItems(w, m)'
    BY <1>1, <1>4, <2>1, AnswerShown
  <2>3. PageItems(w, m) => InboxItems(w, m)
    BY DEF PageItems, InboxItems
  <2>4. Follows(o, w)
    BY <1>1, <1>3, <1>4, <2>1, <2>2, <2>3 DEF Ends, Follows, RequestShown, InventoryShown, Agreed
  <2> QED
    BY <1>5, <2>1, <2>4
<1> QED
  BY <1>6, <1>7, <1>8

---------------------------------------------------------------------------
(* New requests, and steps no request takes part in.                       *)

LEMMA AskShown ==
  ASSUME Types, Types', PInv, NEW o \in Ops, NEW u \in Users, NEW kind \in Kinds,
         NEW room \in Ids \cup {NoRoom}, NEW step \in Steps, Ask(o, u, kind, room, step),
         \/ kind = "create" /\ step = "owned"
         \/ kind = "purchase" /\ step = "buy"
         \/ kind = "inventory" /\ step = "read"
         \/ kind = "home" /\ step = "seed"
         \/ kind = "connect" /\ step = "read" /\ u \notin online
  PROVE  PInv'
<1>1. /\ o \notin Busy /\ Busy' = Busy \cup {o} /\ Others(o) /\ UNCHANGED tables
      /\ ops'[o].kind = kind /\ ops'[o].user = u /\ ops'[o].step = step
  BY AskIs
<1>2. UNCHANGED <<money, stock, online, inbox, page>>
  BY DEF Ask, tables, client
<1>3. hist.stale \subseteq hist'.stale /\ ((\E p \in Busy : ops[p].user = u) => u \in hist'.stale)
  <2> DEFINE clash == hist.clash \cup {u}
             stale == hist.stale \cup {u}
  <2>1. CASE \E p \in Busy : ops[p].user = u
    <3>1. hist' = [hist EXCEPT !.clash = clash, !.stale = stale]
      BY <2>1 DEF Ask
    <3> HIDE DEF clash, stale
    <3>2. hist'.stale = stale
      BY <3>1 DEF Types
    <3> QED
      BY <3>2 DEF stale
  <2>2. CASE ~(\E p \in Busy : ops[p].user = u)
    BY <2>2 DEF Ask
  <2> QED
    BY <2>1, <2>2
<1>4. Offline'
  BY <1>2 DEF PInv, Offline
<1>5. ASSUME NEW v \in Users, v \notin hist'.stale, NEW d \in Nat, NEW i \in Nat,
             money'[v] = d, stock'[v] = i
      PROVE  ShownTo(v, d, i)'
  <2>1. ShownTo(v, d, i)
    BY <1>2, <1>3, <1>5 DEF PInv
  <2>2. Retold(v)
    BY <1>2, SameTold
  <2>3. CASE v # u
    <3>1. \A p \in Ops : ops'[p] = ops[p] \/ (p \notin Of(v) /\ p \notin Of(v)')
      BY <1>1, <2>3 DEF Others, Of
    <3> QED
      BY <1>2, <2>1, <2>2, <3>1, ShownKept
  <2>4. CASE v = u
    <3>1. Of(u) = {} /\ Agreed(u, d, i)
      BY <1>3, <1>5, <2>1, <2>4 DEF ShownTo, Of
    <3>2. Of(u)' = {o} /\ o \in Busy'
      BY <1>1, <3>1 DEF Of, Others, Busy
    <3>3. Agreed(u, d, i)'
      BY <2>2, <2>4, <3>1 DEF Retold, Agreed
    <3>4. RequestShown(o, u, d, i)'
      BY <1>1, <1>2, <3>3 DEF RequestShown, CreateShown, PurchaseShown, InventoryShown, ConnectShown, Agreed
    <3> QED
      BY <2>4, <3>2, <3>4 DEF ShownTo
  <2> QED
    BY <2>3, <2>4
<1> QED
  BY <1>4, <1>5 DEF PInv

LEMMA RequestsShown ==
  ASSUME RInv, RInv', PInv, NEW o \in Ops, NEW u \in Users, Request(o, u)
  PROVE  PInv'
<1>1. NoRoom \in Ids \cup {NoRoom} /\ Home[u] \in Ids \cup {NoRoom} /\ Types /\ Types'
  BY DEF Ids, RInv
<1>2. ASSUME NEW r \in Rooms, CreateRoom(o, u, r)
      PROVE  PInv'
  <2>1. r \in Ids \cup {NoRoom}
    BY DEF Ids
  <2> QED
    BY <1>1, <1>2, <2>1, AskShown DEF CreateRoom, Kinds, Steps
<1>3. CASE BuyItem(o, u)
  BY <1>1, <1>3, AskShown DEF BuyItem, Kinds, Steps
<1>4. CASE RefreshInventory(o, u)
  BY <1>1, <1>4, AskShown DEF RefreshInventory, Kinds, Steps
<1>5. CASE EnsurePersonalRoom(o, u)
  BY <1>1, <1>5, AskShown DEF EnsurePersonalRoom, Kinds, Steps
<1>6. CASE Upgrade(o, u)
  BY <1>1, <1>6, AskShown DEF Upgrade, Kinds, Steps
<1> QED
  BY <1>2, <1>3, <1>4, <1>5, <1>6 DEF Request

\* No request takes part, and who is not stale hears what was on its way.
LEMMA AsideShown ==
  ASSUME Types, PInv, UNCHANGED <<money, stock, ops>>, hist.stale \subseteq hist'.stale, Offline',
         \A u \in Users \ hist'.stale : Retold(u) /\ (u \in online' => u \in online)
  PROVE  PInv'
<1>1. ASSUME NEW v \in Users, v \notin hist'.stale, NEW d \in Nat, NEW i \in Nat,
             money'[v] = d, stock'[v] = i
      PROVE  ShownTo(v, d, i)'
  <2>1. ShownTo(v, d, i)
    BY <1>1 DEF PInv
  <2> QED
    BY <1>1, <2>1, ShownKept
<1> QED
  BY <1>1 DEF PInv

LEMMA ReceiveShown ==
  ASSUME RInv, PInv, NEW u \in Users, Receive(u)
  PROVE  PInv'
<1>1. Types /\ UNCHANGED <<money, stock, ops, online, hist>> /\ Offline
  BY DEF Receive, RInv, PInv, tables
<1>2. \A v \in Users : v # u => inbox'[v] = inbox[v] /\ page'[v] = page[v]
  BY <1>1 DEF Receive, Shows, Types
<1>3. \A v \in Users : Retold(v)
  BY <1>1, <1>2, Received, SameTold
<1>4. Offline'
  BY <1>1, <1>2 DEF Offline, Receive
<1> QED
  BY <1>1, <1>3, <1>4, AsideShown

LEMMA DropShown ==
  ASSUME RInv, PInv, NEW u \in Users, Drop(u)
  PROVE  PInv'
<1>1. /\ Types /\ Offline /\ UNCHANGED <<money, stock, ops, page>> /\ online' = online \ {u}
      /\ inbox' = [inbox EXCEPT ![u] = <<>>]
  BY DEF Drop, RInv, PInv, tables
<1>2. \/ hist' = hist /\ inbox[u] = <<>>
      \/ hist'.stale = hist.stale \cup {u}
  BY <1>1, StaleGrows DEF Drop
<1>3. \A v \in Users \ hist'.stale : inbox'[v] = inbox[v] /\ page'[v] = page[v]
  BY <1>1, <1>2 DEF Types
<1>4. Offline'
  BY <1>1 DEF Offline, Types
<1> QED
  BY <1>1, <1>2, <1>3, <1>4, SameTold, AsideShown

LEMMA RestartShown ==
  ASSUME RInv, PInv, Restart
  PROVE  PInv'
<1>1. /\ Types /\ UNCHANGED <<money, stock, page>> /\ Busy' = {}
      /\ inbox' = [u \in Users |-> <<>>]
  BY DEF Restart, RInv, Busy, tables
<1>2. PICK loads \in BOOLEAN :
        hist' = [hist EXCEPT
             !.lost = [u \in Users |-> @[u] + Cardinality(Charged(u))],
             !.stale = @ \cup {u \in Users : inbox[u] # <<>> \/ \E o \in Busy : ops[o].user = u},
             !.unlisted = ~loads]
  BY DEF Restart
<1>3. hist'.stale = hist.stale \cup {u \in Users : inbox[u] # <<>> \/ \E o \in Busy : ops[o].user = u}
  <2> DEFINE lost == [u \in Users |-> hist.lost[u] + Cardinality(Charged(u))]
             stale == hist.stale \cup {u \in Users : inbox[u] # <<>> \/ \E o \in Busy : ops[o].user = u}
             unlisted == ~loads
  <2>1. hist' = [hist EXCEPT !.lost = lost, !.stale = stale, !.unlisted = unlisted]
    BY <1>2
  <2> HIDE DEF lost, stale, unlisted
  <2>2. hist'.stale = stale
    BY <1>1, <2>1 DEF Types
  <2> QED
    BY <2>2 DEF stale
<1>4. Offline'
  BY <1>1 DEF Offline
<1>5. ASSUME NEW v \in Users, v \notin hist'.stale, NEW d \in Nat, NEW i \in Nat,
             money'[v] = d, stock'[v] = i
      PROVE  ShownTo(v, d, i)'
  <2>1. ShownTo(v, d, i)
    BY <1>1, <1>3, <1>5 DEF PInv
  <2>2. Of(v) = {} /\ inbox[v] = <<>>
    BY <1>3, <1>5 DEF Of
  <2>3. Agreed(v, d, i)
    BY <2>1, <2>2 DEF ShownTo
  <2>4. Retold(v)
    BY <1>1, <2>2, SameTold
  <2>5. Agreed(v, d, i)' /\ Of(v)' = {}
    BY <1>1, <2>3, <2>4 DEF Retold, Agreed, Of
  <2> QED
    BY <2>5 DEF ShownTo
<1> QED
  BY <1>4, <1>5 DEF PInv

LEMMA InitShown == Init => PInv
<1> SUFFICES ASSUME Init
             PROVE  PInv
  OBVIOUS
<1>1. Offline
  BY DEF Init, Offline
<1>2. ASSUME NEW u \in Users, NEW d \in Nat, NEW i \in Nat, money[u] = d, stock[u] = i
      PROVE  ShownTo(u, d, i)
  <2>1. inbox[u] = <<>> /\ Len(inbox[u]) = 0 /\ page[u].dollars = d /\ page[u].items = i
    BY <1>2 DEF Init
  <2>2. PageMoney(u, d)
    BY <2>1 DEF PageMoney, InboxMoney
  <2>3. LastBought(u, 0, i)
    BY <2>1 DEF LastBought
  <2>4. PageItems(u, i)
    BY <2>1, <2>3 DEF PageItems
  <2>5. Of(u) = {}
    BY DEF Init, Of, Busy
  <2> QED
    BY <2>2, <2>4, <2>5 DEF ShownTo, Agreed
<1> QED
  BY <1>1, <1>2 DEF PInv

LEMMA NextShown == RInv /\ PInv /\ [Next]_vars => PInv'
<1> SUFFICES ASSUME RInv, PInv, [Next]_vars
             PROVE  PInv'
  OBVIOUS
<1>0. RInv'
  BY NextInv
<1>1. ASSUME NEW o \in Ops, Serve(o)
      PROVE  PInv'
  BY <1>0, <1>1, ListOwnedRoomsShown, SpendShown, SeedRoomShown, CreditShown, CreditFailsShown,
     AddRoomShown, PurchaseShows, PublishPurchaseShown, GetInventoryShown, HomeShown,
     VerifyTokenShown, OpenSocketShown, FailsShown DEF Serve
<1>2. ASSUME NEW o \in Ops, RoomCreated(o) \/ Purchased(o) \/ InventoryRead(o)
      PROVE  PInv'
  BY <1>0, <1>2, AnswersShown
<1>3. ASSUME NEW o \in Ops, NEW u \in Users, Request(o, u)
      PROVE  PInv'
  BY <1>0, <1>3, RequestsShown
<1>4. ASSUME NEW u \in Users, Receive(u) \/ Drop(u)
      PROVE  PInv'
  BY <1>4, ReceiveShown, DropShown
<1>5. CASE Restart
  BY <1>5, RestartShown
<1>6. CASE UNCHANGED vars
  <2>1. /\ UNCHANGED <<money, stock, ops, hist, online, inbox, page>> /\ Types /\ Offline
    BY <1>6 DEF vars, tables, client, RInv, PInv
  <2>2. Offline'
    BY <2>1 DEF Offline
  <2> QED
    BY <2>1, <2>2, SameTold, AsideShown
<1> QED
  BY <1>1, <1>2, <1>3, <1>4, <1>5, <1>6 DEF Next

LEMMA Shown == RInv /\ PInv => PageShowsTables
<1> SUFFICES ASSUME RInv, PInv, NEW u \in online \ hist.stale,
                    inbox[u] = <<>>, \A o \in Busy : ops[o].user # u
             PROVE  page[u] = [dollars |-> money[u], items |-> stock[u]]
  BY DEF PageShowsTables
<1>1. u \in Users /\ page[u] \in [dollars : Nat, items : Nat] /\ money[u] \in Nat /\ stock[u] \in Nat
  BY DEF RInv, Types
<1>2. PICK d \in Nat, i \in Nat : d = money[u] /\ i = stock[u]
  BY <1>1
<1>3. ShownTo(u, d, i) /\ Of(u) = {}
  BY <1>1, <1>2 DEF PInv, Of
<1>4. Agreed(u, d, i)
  BY <1>3 DEF ShownTo
<1>5. page[u].dollars = d /\ page[u].items = i
  BY <1>4 DEF Agreed, PageMoney, PageItems, LastBought
<1> QED
  BY <1>1, <1>2, <1>5

\* A connected page that waits for nothing shows what the tables have: its
\* answers and its events, which overtake one another, end in the same money
\* and items, unless its requests overlapped, one failed after it had taken
\* effect, or an event went with a socket.
THEOREM PagesShowTables == Spec => []PageShowsTables
<1>1. Init => RInv /\ PInv
  BY InitInv, InitShown
<1>2. RInv /\ PInv /\ [Next]_vars => RInv' /\ PInv'
  BY NextInv, NextShown
<1>3. RInv /\ PInv => PageShowsTables
  BY Shown
<1> QED
  BY <1>1, <1>2, <1>3, PTL DEF Spec
=============================================================================
