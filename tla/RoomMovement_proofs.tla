------------------------ MODULE RoomMovement_proofs ------------------------
(***************************************************************************)
(* What RoomMovement promises for every floor, every number of avatars and *)
(* pieces of furniture, every speed and every choice of paths.             *)
(*                                                                         *)
(* All four properties compare where an avatar is, or will stop, before    *)
(* and after a step.  Lazily stored positions make neither visible in the  *)
(* variables, so two lemmas come first: bringing the positions of any set  *)
(* of users up to date changes nobody's tile and nobody's goal.            *)
(*                                                                         *)
(* The second half is about a page (AvatarView).  Of an avatar its         *)
(* invariant says where the page will head once it has handled what is on  *)
(* its way (the last message says it, or else the page's own path), that   *)
(* the Room has told where a walk ends, and, of a walk that started at     *)
(* rest, that every message and the page's avatar are behind the Room on   *)
(* that walk: the leg the page walks is compared with the Room's clock.    *)
(*                                                                         *)
(* The last part is about the paths: findPath (Pathfinding).  Costs are    *)
(* ordered as real numbers, since no square is twice another; the heap is  *)
(* a set of entries with a best one in front; and the invariant says of    *)
(* the search that the tile taken last divides the scores, which gives a   *)
(* closed tile its final cost.  What goes by induction (a heap's bubbling, *)
(* the walks of n steps) is proved by the least n that would be wrong.     *)
(***************************************************************************)
EXTENDS AvatarView, Pathfinding, FiniteSetTheorems, SequenceTheorems, WellFoundedInduction, TLAPS

OnlyPresentWalk == \A u \in Users : Walking(u) => u \in present

ItemsBounded == IsFiniteSet(items) /\ Cardinality(items) <= MaxItems

\* The inductive invariant.
MInv ==
  /\ TypeOK
  /\ StoredBehind
  /\ OnlyPresentWalk
  /\ ItemsBounded

---------------------------------------------------------------------------
\* The number of tiles walked after n ticks at d ticks per tile.
LEMMA TilesWalked ==
  ASSUME NEW d \in Nat \ {0}, NEW n \in Nat
  PROVE  n \div d \in Nat /\ 0 \div d = 0 /\ (n + 1) \div d >= n \div d
OBVIOUS

\* A walker is on its path.
LEMMA OnPath ==
  ASSUME MovementAssumption, TypeOK, NEW u \in Users, Walking(u)
  PROVE  /\ walk[u] \in Walks /\ Len(walk[u].path) \in Nat /\ Len(walk[u].path) > 1
         /\ Reached(u) \in 1 .. Len(walk[u].path)
         /\ Tile(u) \in Floor /\ Goal(u) \in Floor
<1>1. walk[u] \in Walks /\ Len(walk[u].path) > 1
  BY DEF TypeOK, Walking
<1>2. walk[u].path \in Seq(Floor) /\ walk[u].ticks \in Nat
  BY <1>1 DEF Walks
<1>3. walk[u].ticks \div TicksPerTile \in Nat
  BY <1>2, TilesWalked DEF MovementAssumption
<1>4. Len(walk[u].path) \in Nat
  BY <1>2
<1>5. Reached(u) \in 1 .. Len(walk[u].path)
  BY <1>1, <1>3, <1>4 DEF Reached, Smaller
<1> QED
  BY <1>1, <1>2, <1>4, <1>5 DEF Tile, Goal, LastOf

LEMMA TilesAreTiles ==
  ASSUME MovementAssumption, TypeOK, NEW u \in Users
  PROVE  Tile(u) \in Tiles /\ Goal(u) \in Tiles
<1>1. CASE Walking(u)
  BY <1>1, OnPath DEF Tiles
<1>2. CASE ~Walking(u)
  BY <1>2 DEF Tile, Goal, TypeOK
<1> QED
  BY <1>1, <1>2

\* Who has arrived is where the walk was to end.
LEMMA ArrivedAtGoal ==
  ASSUME NEW u \in Users, Arrived(u)
  PROVE  Tile(u) = Goal(u)
BY DEF Arrived, Tile, Goal, LastOf

\* The position of a user is what a sweep stores, unless it is on its way.
LEMMA SweptTile ==
  ASSUME NEW u \in Users, ~Walking(u) \/ Arrived(u)
  PROVE  SweptPos[u] = Tile(u) /\ Tile(u) = Goal(u)
<1>1. CASE Arrived(u)
  BY <1>1, ArrivedAtGoal DEF SweptPos
<1>2. CASE ~Walking(u)
  BY <1>2 DEF SweptPos, Tile, Goal, Arrived
<1> QED
  BY <1>1, <1>2

\* Storing the positions of the users in R moves nobody.
LEMMA ResolvingMovesNobody ==
  ASSUME NEW R \in SUBSET Users, NEW u \in Users,
         pos'[u] = Resolved(R)[u], walk'[u] = SweptWalk[u]
  PROVE  Tile(u)' = Tile(u) /\ Goal(u)' = Goal(u)
<1>1. CASE Walking(u) /\ ~Arrived(u)
  <2>1. walk'[u] = walk[u]
    BY <1>1 DEF SweptWalk
  <2> QED
    BY <1>1, <2>1 DEF Tile, Goal, Walking, Reached
<1>2. CASE ~Walking(u) \/ Arrived(u)
  <2>1. walk'[u] = NoWalk
    BY <1>2 DEF SweptWalk, Walking, Arrived
  <2>2. pos'[u] = Tile(u)
    BY <1>2, SweptTile DEF Resolved
  <2> QED
    BY <1>2, <2>1, <2>2, SweptTile DEF Tile, Goal, Walking
<1> QED
  BY <1>1, <1>2

LEMMA SweepIsResolved == Sweep => pos' = Resolved({}) /\ walk' = SweptWalk
BY DEF Sweep, Resolved, SweptPos

---------------------------------------------------------------------------
\* A set of numbers that is not empty has a least one.
LEMMA LeastExists ==
  ASSUME NEW S \in SUBSET Nat, S # {}
  PROVE  \E k \in S : \A j \in S : k <= j
<1> DEFINE less == {p \in Nat \X Nat : p[1] < p[2]}
<1>1. IsWellFoundedOn(less, Nat)
  BY NatLessThanWellFounded DEF OpToRel
<1> HIDE DEF less
<1>2. PICK k \in S : \A j \in S : <<j, k>> \notin less
  BY <1>1, WFMin
<1>3. \A j \in S : ~(j < k)
  BY <1>2 DEF less
<1> QED
  BY <1>2, <1>3

\* Avatars are put on tiles.
LEMMA SpawnIsTile ==
  ASSUME MovementAssumption
  PROVE  SpawnPosition \in Tiles
<1> DEFINE free == {k \in DOMAIN TileOrder : Unoccupied(TileOrder[k])}
<1>1. free \subseteq Nat /\ \A k \in free : TileOrder[k] \in Floor
  BY DEF MovementAssumption
<1> HIDE DEF free
<1>2. free # {} => \E k \in free : \A j \in free : k <= j
  BY <1>1, LeastExists
<1>3. free = {} \/ TileOrder[CHOOSE k \in free : \A j \in free : k <= j] \in Floor
  BY <1>1, <1>2
<1> QED
  BY <1>3 DEF SpawnPosition, free, MovementAssumption, Tiles

---------------------------------------------------------------------------
(* The invariant.                                                          *)

LEMMA SweptTypes ==
  ASSUME MovementAssumption, TypeOK, NEW R \in SUBSET Users
  PROVE  /\ SweptPos \in [Users -> Tiles] /\ Resolved(R) \in [Users -> Tiles]
         /\ SweptWalk \in [Users -> Walks \cup {NoWalk}]
         /\ \A u \in Users : SweptWalk[u] # NoWalk =>
              Walking(u) /\ ~Arrived(u) /\ SweptWalk[u] = walk[u]
<1>1. \A u \in Users : Tile(u) \in Tiles
  BY TilesAreTiles
<1> QED
  BY <1>1 DEF SweptPos, Resolved, SweptWalk, Walking, TypeOK

\* What is stored for u stays behind when positions are brought up to date.
LEMMA ResolvedBehind ==
  ASSUME MovementAssumption, TypeOK, StoredBehind,
         NEW R \in SUBSET Users, NEW u \in Users,
         pos'[u] = Resolved(R)[u], walk'[u] = SweptWalk[u], Walking(u)'
  PROVE  \E k \in 1 .. Reached(u)' : walk'[u].path[k] = pos'[u]
<1>1. Walking(u) /\ ~Arrived(u) /\ walk'[u] = walk[u]
  BY SweptTypes DEF Walking
<1>2. Reached(u)' = Reached(u)
  BY <1>1 DEF Reached
<1>3. Reached(u) \in Nat /\ Reached(u) >= 1
  BY <1>1, OnPath
<1>4. CASE u \in R
  <2>1. pos'[u] = walk[u].path[Reached(u)]
    BY <1>1, <1>4 DEF Resolved, Tile
  <2>2. Reached(u) \in 1 .. Reached(u)
    BY <1>3
  <2> QED
    BY <1>1, <1>2, <2>1, <2>2
<1>5. CASE u \notin R
  <2>1. pos'[u] = pos[u]
    BY <1>1, <1>5 DEF Resolved, SweptPos
  <2> QED
    BY <1>1, <1>2, <2>1 DEF StoredBehind
<1> QED
  BY <1>4, <1>5

\* What a move does: it is refused or changes nothing, starts a walk from
\* where the avatar is, or ends one there.
LEMMA MoveOutcomes ==
  ASSUME MovementAssumption, MInv, NEW u \in Users, NEW target \in Tiles,
         MoveUser(u, target)
  PROVE  /\ u \in present /\ pos' = Resolved({u})
         /\ UNCHANGED <<present, items>>
         /\ \/ walk' = SweptWalk /\ UNCHANGED shown
            \/ /\ ~IsOccupiedByOtherUser(target, u)
               /\ \E p \in Seq(Floor) :
                    /\ Len(p) > 1 /\ p[1] = Tile(u) /\ LastOf(p) = target
                    /\ StartWalk(u, p)
            \/ /\ ~IsOccupiedByOtherUser(target, u)
               /\ target = Tile(u) /\ StopWalk(u)
<1>1. /\ u \in present /\ pos' = Resolved({u})
      /\ UNCHANGED <<present, items>>
  BY DEF MoveUser
<1>2. CASE walk' = SweptWalk /\ UNCHANGED shown
  BY <1>1, <1>2
<1>3. ASSUME ~IsOccupiedByOtherUser(target, u),
             NEW p \in FindPaths(items, Tile(u), target),
             IF Len(p) > 1 THEN StartWalk(u, p) ELSE StopWalk(u)
      PROVE  \/ /\ p \in Seq(Floor) /\ Len(p) > 1
                /\ p[1] = Tile(u) /\ LastOf(p) = target /\ StartWalk(u, p)
             \/ target = Tile(u) /\ StopWalk(u)
  <2>1. items \in SUBSET Floor /\ Cardinality(items) <= MaxItems /\ Tile(u) \in Tiles
    BY TilesAreTiles DEF MInv, TypeOK, ItemsBounded
  <2>2. /\ p \in Seq(Floor)
        /\ Tile(u) # target => Len(p) > 1 /\ p[1] = Tile(u) /\ p[Len(p)] = target
        /\ Tile(u) = target => p = <<>>
    BY <2>1 DEF MovementAssumption
  <2>3. CASE Tile(u) # target
    BY <1>3, <2>2, <2>3 DEF LastOf
  <2>4. CASE Tile(u) = target
    <3>1. Len(p) = 0
      BY <2>2, <2>4
    <3> QED
      BY <1>3, <2>4, <3>1
  <2> QED
    BY <2>3, <2>4
<1>4. \/ walk' = SweptWalk /\ UNCHANGED shown
      \/ /\ ~IsOccupiedByOtherUser(target, u)
         /\ \E p \in FindPaths(items, Tile(u), target) :
              IF Len(p) > 1 THEN StartWalk(u, p) ELSE StopWalk(u)
  BY DEF MoveUser, StartOf
<1> QED
  BY <1>1, <1>2, <1>3, <1>4

LEMMA MInvInit == MovementAssumption /\ Init => MInv
<1> SUFFICES ASSUME MovementAssumption, Init PROVE MInv
  OBVIOUS
<1>1. IsFiniteSet({}) /\ Cardinality({}) = 0
  BY FS_EmptySet
<1>2. \A u \in Users : ~Walking(u)
  BY DEF Init, Walking
<1> QED
  BY <1>1, <1>2 DEF Init, MInv, TypeOK, StoredBehind, OnlyPresentWalk, ItemsBounded,
     MovementAssumption, Tiles

\* The furniture after each edit is bounded.
LEMMA EditsBounded ==
  ASSUME MovementAssumption, MInv, NEW t \in Floor, NEW next \in Floor,
         PlaceItem(t) \/ PickupItem(t) \/ MoveItem(t, next)
  PROVE  ItemsBounded' /\ items' \subseteq Floor
<1> USE DEF MInv, TypeOK, ItemsBounded, MovementAssumption
<1>1. /\ IsFiniteSet(items \ {t}) /\ Cardinality(items) \in Nat
      /\ Cardinality(items \ {t}) = IF t \in items THEN Cardinality(items) - 1
                                    ELSE Cardinality(items)
  BY FS_RemoveElement, FS_CardinalityType
<1>2. CASE PlaceItem(t)
  <2>1. t \notin items
    BY <1>2 DEF PlaceItem, ValidPlacement
  <2>2. IsFiniteSet(items \cup {t}) /\ Cardinality(items \cup {t}) = Cardinality(items) + 1
    BY <2>1, FS_AddElement
  <2> QED
    BY <1>1, <1>2, <2>2 DEF PlaceItem
<1>3. CASE PickupItem(t)
  BY <1>1, <1>3 DEF PickupItem
<1>4. CASE MoveItem(t, next)
  <2>1. t \in items /\ next \notin items \ {t}
    BY <1>4 DEF MoveItem, ValidPlacement
  <2>2. /\ IsFiniteSet((items \ {t}) \cup {next})
        /\ Cardinality((items \ {t}) \cup {next}) = Cardinality(items \ {t}) + 1
    BY <1>1, <2>1, FS_AddElement
  <2> QED
    BY <1>1, <1>4, <2>1, <2>2 DEF MoveItem
<1> QED
  BY <1>2, <1>3, <1>4

\* The invariant after positions were brought up to date and nothing else
\* happened to the avatars.
LEMMA ResolvedInv ==
  ASSUME MovementAssumption, MInv, NEW R \in SUBSET Users,
         pos' = Resolved(R), walk' = SweptWalk, UNCHANGED <<present, shown>>,
         ItemsBounded', items' \subseteq Floor
  PROVE  MInv'
<1>1. TypeOK'
  BY SweptTypes DEF MInv, TypeOK, Walking
<1>2. StoredBehind'
  BY ResolvedBehind DEF MInv, StoredBehind
<1>3. OnlyPresentWalk'
  BY SweptTypes DEF MInv, OnlyPresentWalk, Walking
<1> QED
  BY <1>1, <1>2, <1>3 DEF MInv

LEMMA JoinInv ==
  ASSUME MovementAssumption, MInv, NEW u \in Users, Join(u)
  PROVE  MInv'
<1> USE DEF MInv
<1>1. present \in SUBSET Users /\ SpawnPosition \in Tiles
  BY SpawnIsTile DEF TypeOK
<1>2. ~Walking(u) /\ walk'[u] = NoWalk
  BY DEF Join, OnlyPresentWalk, SweptWalk, Walking, Arrived
<1>3. \A v \in Users \ {u} : pos'[v] = Resolved(present)[v] /\ walk'[v] = SweptWalk[v]
  BY <1>1, SweptTypes DEF Join
<1>4. TypeOK'
  BY <1>1, SweptTypes DEF Join, TypeOK, Walking
<1>5. StoredBehind'
  BY <1>1, <1>2, <1>3, ResolvedBehind DEF StoredBehind, Walking
<1>6. OnlyPresentWalk'
  BY SweptTypes DEF Join, OnlyPresentWalk, Walking
<1>7. ItemsBounded'
  BY DEF Join, ItemsBounded
<1> QED
  BY <1>4, <1>5, <1>6, <1>7

LEMMA LeaveInv ==
  ASSUME MovementAssumption, MInv, NEW u \in Users, Leave(u)
  PROVE  MInv'
<1> USE DEF MInv
<1>1. \A v \in Users \ {u} : pos'[v] = pos[v] /\ walk'[v] = walk[v]
  BY DEF Leave, TypeOK
<1>2. ~(Walking(u)')
  BY DEF Leave, TypeOK, Walking
<1>3. TypeOK'
  BY DEF Leave, TypeOK, Walking, MovementAssumption, Tiles
<1>4. StoredBehind'
  BY <1>1, <1>2 DEF StoredBehind, Walking, Reached
<1>5. OnlyPresentWalk'
  BY <1>1, <1>2 DEF Leave, OnlyPresentWalk, Walking
<1>6. ItemsBounded'
  BY DEF Leave, ItemsBounded
<1> QED
  BY <1>3, <1>4, <1>5, <1>6

LEMMA MoveUserInv ==
  ASSUME MovementAssumption, MInv, NEW u \in Users, NEW target \in Tiles,
         MoveUser(u, target)
  PROVE  MInv'
<1> USE DEF MInv
<1>1. /\ u \in present /\ pos' = Resolved({u}) /\ UNCHANGED <<present, items>>
      /\ ItemsBounded' /\ items' \subseteq Floor /\ {u} \in SUBSET Users
  BY MoveOutcomes DEF ItemsBounded, TypeOK
<1>2. CASE walk' = SweptWalk /\ UNCHANGED shown
  BY <1>1, <1>2, ResolvedInv
<1>3. ASSUME NEW p \in Seq(Floor), Len(p) > 1, p[1] = Tile(u), StartWalk(u, p)
      PROVE  MInv'
  <2>1. /\ \A v \in Users \ {u} : walk'[v] = SweptWalk[v]
        /\ walk'[u] = [path |-> p, ticks |-> 0]
    BY <1>3, SweptTypes DEF StartWalk
  <2>2. [path |-> p, ticks |-> 0] \in Walks /\ LastOf(p) \in Floor
    BY <1>3 DEF Walks, LastOf
  <2>3. TypeOK'
    <3>1. walk' \in [Users -> Walks \cup {NoWalk}]
      BY <1>3, <2>2, SweptTypes DEF StartWalk
    <3>2. shown' \in [Users -> Tiles] /\ pos' \in [Users -> Tiles]
      BY <1>1, <1>3, <2>2, SweptTypes DEF StartWalk, TypeOK, Tiles
    <3>3. \A v \in Users \ {u} : walk'[v] # NoWalk => Len(walk'[v].path) > 1
      BY <2>1, SweptTypes DEF TypeOK
    <3>4. Len(walk'[u].path) > 1
      BY <1>3, <2>1
    <3> QED
      BY <1>1, <3>1, <3>2, <3>3, <3>4 DEF TypeOK, Walking
  <2>4. 1 \in 1 .. Reached(u)'
    BY <1>3, <2>1, TilesWalked DEF Reached, Smaller, MovementAssumption
  <2>5. walk'[u].path[1] = pos'[u]
    BY <1>1, <1>3, <2>1 DEF Resolved
  <2>6. StoredBehind'
    <3>1. \A v \in Users \ {u} : Walking(v)' =>
            \E k \in 1 .. Reached(v)' : walk'[v].path[k] = pos'[v]
      BY <1>1, <2>1, ResolvedBehind
    <3> QED
      BY <2>4, <2>5, <3>1 DEF StoredBehind
  <2>7. OnlyPresentWalk'
    BY <1>1, <2>1, SweptTypes DEF OnlyPresentWalk, Walking
  <2> QED
    BY <1>1, <2>3, <2>6, <2>7
<1>4. CASE StopWalk(u)
  <2>1. /\ \A v \in Users \ {u} : walk'[v] = SweptWalk[v]
        /\ walk'[u] = NoWalk
    BY <1>4, SweptTypes DEF StopWalk
  <2>2. TypeOK'
    BY <1>1, <1>4, <2>1, SweptTypes DEF TypeOK, StopWalk, Walking
  <2>3. StoredBehind'
    BY <1>1, <2>1, ResolvedBehind DEF StoredBehind, Walking
  <2>4. OnlyPresentWalk'
    BY <1>1, <2>1, SweptTypes DEF OnlyPresentWalk, Walking
  <2> QED
    BY <1>1, <2>2, <2>3, <2>4
<1>5. \/ walk' = SweptWalk /\ UNCHANGED shown
      \/ \E p \in Seq(Floor) : Len(p) > 1 /\ p[1] = Tile(u) /\ StartWalk(u, p)
      \/ StopWalk(u)
  BY MoveOutcomes
<1> QED
  BY <1>2, <1>3, <1>4, <1>5

LEMMA TickInv ==
  ASSUME MovementAssumption, MInv, Tick
  PROVE  MInv'
<1> USE DEF MInv
<1>1. \A u \in Users :
        /\ Walking(u)' <=> Walking(u)
        /\ Walking(u) => /\ walk'[u] \in Walks /\ walk'[u].path = walk[u].path
                         /\ Reached(u)' >= Reached(u) /\ Reached(u)' \in Nat
  <2> SUFFICES ASSUME NEW u \in Users
               PROVE  /\ Walking(u)' <=> Walking(u)
                      /\ Walking(u) => /\ walk'[u] \in Walks
                                       /\ walk'[u].path = walk[u].path
                                       /\ Reached(u)' >= Reached(u)
                                       /\ Reached(u)' \in Nat
    OBVIOUS
  <2>1. CASE Walking(u) /\ ~Arrived(u)
    <3>1. /\ walk[u] \in Walks /\ Len(walk[u].path) \in Nat
          /\ Len(walk[u].path) > 1 /\ Reached(u) \in Nat
      BY <2>1, OnPath
    <3>2. walk'[u] = [path |-> walk[u].path, ticks |-> walk[u].ticks + 1]
      BY <2>1, <3>1 DEF Tick, Walks
    <3>3. walk'[u] \in Walks /\ walk'[u] # NoWalk
      BY <3>1, <3>2 DEF Walks, MovementAssumption
    <3>4. walk[u].ticks \in Nat /\ walk[u].ticks + 1 \in Nat /\ TicksPerTile \in Nat \ {0}
      BY <3>1 DEF Walks, MovementAssumption
    <3>5. /\ walk[u].ticks \div TicksPerTile \in Nat
          /\ (walk[u].ticks + 1) \div TicksPerTile >= walk[u].ticks \div TicksPerTile
          /\ (walk[u].ticks + 1) \div TicksPerTile \in Nat
      BY <3>4, TilesWalked
    <3>6. Reached(u)' = Smaller(Len(walk[u].path),
                                (walk[u].ticks + 1) \div TicksPerTile + 1)
      BY <3>2 DEF Reached
    <3>7. Reached(u)' >= Reached(u) /\ Reached(u)' \in Nat
      BY <3>1, <3>5, <3>6 DEF Reached, Smaller
    <3> QED
      BY <2>1, <3>2, <3>3, <3>7 DEF Walking
  <2>2. CASE ~(Walking(u) /\ ~Arrived(u))
    <3>1. walk'[u] = walk[u]
      BY <2>2 DEF Tick
    <3>2. Reached(u)' = Reached(u) /\ (Walking(u)' <=> Walking(u))
      BY <3>1 DEF Reached, Walking
    <3> QED
      BY <3>1, <3>2, OnPath
  <2> QED
    BY <2>1, <2>2
<1>2. TypeOK'
  BY <1>1 DEF Tick, TypeOK, Walking
<1>3. StoredBehind'
  <2> SUFFICES ASSUME NEW u \in Users, Walking(u)'
               PROVE  \E k \in 1 .. Reached(u)' : walk'[u].path[k] = pos'[u]
    BY DEF StoredBehind
  <2>1. PICK k \in 1 .. Reached(u) : walk[u].path[k] = pos[u]
    BY <1>1 DEF StoredBehind
  <2>2. Reached(u) \in Nat
    BY <1>1, OnPath
  <2>3. k \in 1 .. Reached(u)'
    BY <1>1, <2>1, <2>2
  <2> QED
    BY <1>1, <2>1, <2>3 DEF Tick
<1>4. OnlyPresentWalk' /\ ItemsBounded'
  BY <1>1 DEF Tick, OnlyPresentWalk, ItemsBounded
<1> QED
  BY <1>2, <1>3, <1>4

\* The invariant holds of every reachable state.
THEOREM MovementInvariant == Spec => []MInv
<1>1. Init => MInv
  BY MInvInit, MovementAssumption
<1>2. MInv /\ [Next]_vars => MInv'
  <2> SUFFICES ASSUME MInv, [Next]_vars PROVE MInv'
    OBVIOUS
  <2> USE MovementAssumption
  <2>1. ASSUME NEW u \in Users, Join(u) PROVE MInv'
    BY <2>1, JoinInv
  <2>2. ASSUME NEW u \in Users, Leave(u) PROVE MInv'
    BY <2>2, LeaveInv
  <2>3. ASSUME NEW u \in Users, NEW target \in Tiles, MoveUser(u, target) PROVE MInv'
    BY <2>3, MoveUserInv
  <2>4. CASE GetSnapshot
    <3>1. present \in SUBSET Users /\ ItemsBounded' /\ items' \subseteq Floor
      BY <2>4 DEF GetSnapshot, MInv, TypeOK, ItemsBounded
    <3> QED
      BY <2>4, <3>1, ResolvedInv DEF GetSnapshot
  <2>5. ASSUME NEW t \in Floor, NEW next \in Floor, PlaceItem(t) \/ MoveItem(t, next)
        PROVE  MInv'
    <3>1. Sweep /\ UNCHANGED <<present, shown>>
      BY <2>5 DEF PlaceItem, MoveItem
    <3> QED
      BY <2>5, <3>1, EditsBounded, SweepIsResolved, ResolvedInv
  <2>6. ASSUME NEW t \in Floor, PickupItem(t) PROVE MInv'
    <3>1. ItemsBounded' /\ items' \subseteq Floor
      BY <2>6, EditsBounded
    <3> QED
      BY <2>6, <3>1 DEF PickupItem, MInv, TypeOK, StoredBehind, OnlyPresentWalk,
         Walking, Reached
  <2>7. CASE Tick
    BY <2>7, TickInv
  <2>8. CASE UNCHANGED vars
    BY <2>8 DEF vars, MInv, TypeOK, StoredBehind, OnlyPresentWalk, ItemsBounded,
       Walking, Reached
  <2> QED
    BY <2>1, <2>2, <2>3, <2>4, <2>5, <2>6, <2>7, <2>8 DEF Next
<1> QED
  BY <1>1, <1>2, PTL DEF Spec

\* Every variable of RoomMovement keeps its type.
THEOREM MovementTypeCorrect == Spec => []TypeOK
BY MovementInvariant, PTL DEF MInv

\* What the Room stores about a walker is a tile it has already been on.
THEOREM StoredStaysBehind == Spec => []StoredBehind
BY MovementInvariant, PTL DEF MInv

---------------------------------------------------------------------------
(* What a step does to an avatar that is there before and after it.        *)

Settles(v) == Tile(v)' = Tile(v) /\ Goal(v)' = Goal(v)

LEMMA MoverStays ==
  ASSUME MovementAssumption, MInv, NEW u \in Users, NEW target \in Tiles,
         MoveUser(u, target)
  PROVE  /\ Tile(u)' = Tile(u)
         /\ \/ Goal(u)' = Goal(u)
            \/ Goal(u)' = target /\ ~IsOccupiedByOtherUser(target, u)
         /\ \A v \in Users \ {u} : Settles(v)
<1> USE DEF MInv
<1>1. u \in present /\ pos' = Resolved({u}) /\ {u} \in SUBSET Users
  BY MoveOutcomes
<1>2. pos'[u] = Tile(u)
  BY <1>1 DEF Resolved
<1>3. CASE walk' = SweptWalk
  BY <1>1, <1>3, ResolvingMovesNobody DEF Settles
<1>4. ASSUME NEW p \in Seq(Floor), Len(p) > 1, p[1] = Tile(u), LastOf(p) = target,
             ~IsOccupiedByOtherUser(target, u), StartWalk(u, p)
      PROVE  /\ Tile(u)' = Tile(u) /\ Goal(u)' = target
             /\ \A v \in Users \ {u} : Settles(v)
  <2>1. /\ \A v \in Users \ {u} : walk'[v] = SweptWalk[v]
        /\ walk'[u] = [path |-> p, ticks |-> 0]
    BY <1>4, SweptTypes DEF StartWalk
  <2>2. Reached(u)' = 1
    BY <1>4, <2>1, TilesWalked DEF Reached, Smaller, MovementAssumption
  <2>3. walk'[u] # NoWalk
    BY <2>1 DEF Walks, MovementAssumption
  <2>4. Tile(u)' = Tile(u) /\ Goal(u)' = target
    BY <1>4, <2>1, <2>2, <2>3 DEF Tile, Goal, Walking
  <2> QED
    BY <1>1, <2>1, <2>4, ResolvingMovesNobody DEF Settles
<1>5. ASSUME target = Tile(u), StopWalk(u), ~IsOccupiedByOtherUser(target, u)
      PROVE  /\ Tile(u)' = Tile(u) /\ Goal(u)' = target
             /\ \A v \in Users \ {u} : Settles(v)
  <2>1. (\A v \in Users \ {u} : walk'[v] = SweptWalk[v]) /\ walk'[u] = NoWalk
    BY <1>5, SweptTypes DEF StopWalk
  <2>2. Tile(u)' = Tile(u) /\ Goal(u)' = target
    BY <1>2, <1>5, <2>1 DEF Tile, Goal, Walking
  <2> QED
    BY <1>1, <2>1, <2>2, ResolvingMovesNobody DEF Settles
<1>6. \/ walk' = SweptWalk
      \/ \E p \in Seq(Floor) :
           /\ Len(p) > 1 /\ p[1] = Tile(u) /\ LastOf(p) = target
           /\ ~IsOccupiedByOtherUser(target, u) /\ StartWalk(u, p)
      \/ target = Tile(u) /\ ~IsOccupiedByOtherUser(target, u) /\ StopWalk(u)
  BY MoveOutcomes
<1>7. ASSUME Tile(u)' = Tile(u) /\ Goal(u)' = target,
             \A v \in Users \ {u} : Settles(v),
             ~IsOccupiedByOtherUser(target, u)
      PROVE  /\ Tile(u)' = Tile(u)
             /\ \/ Goal(u)' = Goal(u)
                \/ Goal(u)' = target /\ ~IsOccupiedByOtherUser(target, u)
             /\ \A v \in Users \ {u} : Settles(v)
  BY <1>7
<1> QED
  BY <1>3, <1>4, <1>5, <1>6, <1>7

\* A step settles every avatar that stays, except that the clock moves
\* walkers and a move gives one avatar a new goal.
LEMMA EveryStepSettles ==
  ASSUME MovementAssumption, MInv, [Next]_vars
  PROVE  \/ \A v \in present \cap present' : Settles(v)
         \/ Tick /\ UNCHANGED <<present, items>>
         \/ \E u \in Users, target \in Tiles : MoveUser(u, target)
<1> USE DEF MInv
<1>1. ASSUME NEW R \in SUBSET Users, NEW v \in Users,
             pos'[v] = Resolved(R)[v], walk'[v] = SweptWalk[v]
      PROVE  Settles(v)
  BY <1>1, ResolvingMovesNobody DEF Settles
<1>2. ASSUME NEW v \in Users, pos'[v] = pos[v], walk'[v] = walk[v]
      PROVE  Settles(v)
  BY <1>2 DEF Settles, Tile, Goal, Walking, Reached
<1>3. present \in SUBSET Users /\ {} \in SUBSET Users
  BY DEF TypeOK
<1>4. ASSUME NEW u \in Users, Join(u), NEW v \in present PROVE Settles(v)
  <2>1. v # u
    BY <1>4 DEF Join
  <2>2. pos'[v] = Resolved(present)[v] /\ walk'[v] = SweptWalk[v]
    BY <1>3, <1>4, <2>1, SweptTypes DEF Join
  <2> QED
    BY <1>1, <1>3, <2>2
<1>5. ASSUME NEW u \in Users, Leave(u), NEW v \in present \cap present'
      PROVE  Settles(v)
  <2>1. v # u
    BY <1>5 DEF Leave
  <2>2. pos'[v] = pos[v] /\ walk'[v] = walk[v]
    BY <1>3, <1>5, <2>1 DEF Leave, TypeOK
  <2> QED
    BY <1>2, <1>3, <2>2
<1>6. ASSUME GetSnapshot, NEW v \in present PROVE Settles(v)
  BY <1>1, <1>3, <1>6 DEF GetSnapshot
<1>7. ASSUME Sweep, NEW v \in present PROVE Settles(v)
  BY <1>1, <1>3, <1>7, SweepIsResolved
<1>8. ASSUME UNCHANGED <<pos, walk>>, NEW v \in present PROVE Settles(v)
  BY <1>2, <1>3, <1>8
<1>9. \/ \E u \in Users : Join(u) \/ Leave(u)
      \/ \E u \in Users, target \in Tiles : MoveUser(u, target)
      \/ GetSnapshot
      \/ Sweep
      \/ UNCHANGED <<pos, walk>>
      \/ Tick /\ UNCHANGED <<present, items>>
  BY DEF Next, vars, PlaceItem, MoveItem, PickupItem, Tick
<1> QED
  BY <1>4, <1>5, <1>6, <1>7, <1>8, <1>9

\* Only the clock moves avatars: no request, snapshot, reroute or late update
\* of the stored position makes one jump (NoJumps).
THEOREM OnlyTheClockMoves == Spec => NoJumps
<1> DEFINE Stays == Tick \/ \A u \in present \cap present' : Tile(u)' = Tile(u)
<1>1. MInv /\ [Next]_vars => [Stays]_vars
  <2> SUFFICES ASSUME MInv, [Next]_vars PROVE Stays
    OBVIOUS
  <2>1. present \subseteq Users
    BY DEF MInv, TypeOK
  <2>2. ASSUME NEW u \in Users, NEW target \in Tiles, MoveUser(u, target),
               NEW v \in Users
        PROVE  Tile(v)' = Tile(v)
    BY <2>2, MoverStays, MovementAssumption DEF Settles
  <2> QED
    BY <2>1, <2>2, EveryStepSettles, MovementAssumption DEF Settles
<1> QED
  BY <1>1, MovementInvariant, PTL DEF Spec, NoJumps

\* The clock takes avatars along their walks, and the goals stay.
LEMMA TickSettles ==
  ASSUME MovementAssumption, MInv, Tick, NEW u \in Users
  PROVE  /\ Goal(u)' = Goal(u)
         /\ ~(Walking(u) /\ ~Arrived(u)) => Tile(u)' = Tile(u)
<1> USE DEF MInv
<1>1. CASE Walking(u) /\ ~Arrived(u)
  <2>1. walk[u] \in Walks
    BY <1>1, OnPath
  <2>2. walk'[u] = [path |-> walk[u].path, ticks |-> walk[u].ticks + 1]
    BY <1>1, <2>1 DEF Tick, Walks
  <2>3. walk'[u] # NoWalk
    BY <2>1, <2>2 DEF Walks, MovementAssumption
  <2> QED
    BY <1>1, <2>2, <2>3 DEF Goal, Walking
<1>2. CASE ~(Walking(u) /\ ~Arrived(u))
  BY <1>2 DEF Tick, Tile, Goal, Walking, Reached
<1> QED
  BY <1>1, <1>2

\* Destinations are reserved: no interleaving of moves, arrivals, stops and
\* furniture edits sends two avatars to one tile (GoalsStayApart).
THEOREM DestinationsAreReserved == Spec => GoalsStayApart
<1> DEFINE Apart ==
      \A u, v \in present \cap present' :
        u # v /\ Goal(u) # Goal(v) => Goal(u)' # Goal(v)'
<1>1. MInv /\ [Next]_vars => [Apart]_vars
  <2> SUFFICES ASSUME MInv, [Next]_vars PROVE Apart
    OBVIOUS
  <2>1. present \subseteq Users
    BY DEF MInv, TypeOK
  <2>2. CASE \A v \in present \cap present' : Settles(v)
    BY <2>2 DEF Settles
  <2>3. CASE Tick
    BY <2>1, <2>3, TickSettles, MovementAssumption
  <2>4. ASSUME NEW m \in Users, NEW target \in Tiles, MoveUser(m, target)
        PROVE  Apart
    <3>1. /\ \/ Goal(m)' = Goal(m)
             \/ Goal(m)' = target /\ ~IsOccupiedByOtherUser(target, m)
          /\ \A v \in Users \ {m} : Goal(v)' = Goal(v)
      BY <2>4, MoverStays, MovementAssumption DEF Settles
    <3>2. ASSUME NEW v \in present \ {m}, ~IsOccupiedByOtherUser(target, m)
          PROVE  Goal(v) # target
      <4>1. SweptPos[v] # target /\ ~(Walking(v) /\ Goal(v) = target)
        BY <3>2 DEF IsOccupiedByOtherUser
      <4> QED
        BY <2>1, <4>1, SweptTile
    <3> QED
      BY <2>1, <3>1, <3>2
  <2> QED
    BY <2>2, <2>3, <2>4, EveryStepSettles, MovementAssumption
<1> QED
  BY <1>1, MovementInvariant, PTL DEF Spec, GoalsStayApart

\* Furniture is never put on a standing avatar, not even on one whose arrival
\* the Room has not stored yet (NobodyIsBuried).
THEOREM StandingAvatarsStayFree == Spec => NobodyIsBuried
<1> DEFINE Free ==
      \A u \in present \cap present' :
        (Walking(u) /\ ~Arrived(u)) \/ Tile(u) \in items \/ Tile(u)' \notin items'
<1>1. MInv /\ [Next]_vars => [Free]_vars
  <2> SUFFICES ASSUME MInv, [Next]_vars,
                      NEW u \in present \cap present',
                      ~(Walking(u) /\ ~Arrived(u)), Tile(u) \notin items
               PROVE  Tile(u)' \notin items'
    OBVIOUS
  <2>1. u \in Users /\ u \in present
    BY DEF MInv, TypeOK
  <2>2. Tile(u)' = Tile(u)
    <3>1. ASSUME NEW m \in Users, NEW target \in Tiles, MoveUser(m, target)
          PROVE  Tile(u)' = Tile(u)
      BY <2>1, <3>1, MoverStays, MovementAssumption DEF Settles
    <3> QED
      BY <2>1, <3>1, EveryStepSettles, TickSettles, MovementAssumption DEF Settles
  <2>3. SweptPos[u] = Tile(u)
    BY <2>1, SweptTile
  <2>4. ASSUME NEW t \in Floor, ~HasUserAt(t) PROVE Tile(u) # t
    BY <2>1, <2>3, <2>4 DEF HasUserAt
  <2>5. \/ items' \subseteq items
        \/ \E t \in Floor : ~HasUserAt(t) /\ items' \subseteq items \cup {t}
    BY DEF Next, vars, Join, Leave, MoveUser, GetSnapshot, PlaceItem, PickupItem,
       MoveItem, ValidPlacement, Tick
  <2> QED
    BY <2>2, <2>4, <2>5
<1> QED
  BY <1>1, MovementInvariant, PTL DEF Spec, NobodyIsBuried

\* The properties of the run, put together from the theorems above: types and
\* stored positions, and what a step may do to the tiles of others.
THEOREM WalksAreKept == Spec => []WalksKept
BY MovementTypeCorrect, StoredStaysBehind, PTL DEF WalksKept

\* No step puts two avatars' goals or furniture on a tile that is taken, and
\* only the clock moves avatars.
THEOREM TilesAreRespected == Spec => TilesRespected
BY DestinationsAreReserved, StandingAvatarsStayFree, OnlyTheClockMoves DEF TilesRespected

---------------------------------------------------------------------------
(* What is left of a path.                                                 *)

LEMMA FromPath ==
  ASSUME NEW p \in Seq(Floor), NEW k \in 1 .. Len(p) + 1
  PROVE  /\ From(p, k) \in Seq(Floor)
         /\ Len(From(p, k)) = Len(p) - k + 1
         /\ \A j \in 1 .. Len(p) - k + 1 : From(p, k)[j] = p[k + j - 1]
<1>1. k \in Int /\ Len(p) \in Nat /\ \A j \in k .. Len(p) : p[j] \in Floor
  OBVIOUS
<1> QED
  BY <1>1, SubSeqProperties DEF From

LEMMA TailIs ==
  ASSUME NEW f \in Seq(Floor), NEW g \in Seq(Floor), Len(f) = Len(g) + 1,
         \A j \in 1 .. Len(g) : f[j + 1] = g[j]
  PROVE  f # <<>> /\ Head(f) = f[1] /\ Tail(f) = g
<1>1. Len(f) \in Nat \ {0} /\ Len(g) \in Nat
  OBVIOUS
<1>2. f # <<>>
  BY <1>1
<1> DEFINE t == Tail(f)
<1>3. t \in Seq(Floor) /\ Len(t) = Len(f) - 1 /\ \A j \in 1 .. Len(t) : t[j] = f[j + 1]
  BY <1>2, HeadTailProperties
<1> HIDE DEF t
<1>4. Len(t) = Len(g)
  BY <1>1, <1>3
<1>5. \A j \in 1 .. Len(g) : t[j] = g[j]
  BY <1>3, <1>4
<1>6. t = g
  BY <1>3, <1>4, <1>5, SeqEqual
<1> QED
  BY <1>2, <1>6 DEF t

LEMMA FromTail ==
  ASSUME NEW p \in Seq(Floor), NEW k \in 1 .. Len(p)
  PROVE  /\ From(p, k) # <<>> /\ Head(From(p, k)) = p[k]
         /\ Tail(From(p, k)) = From(p, k + 1)
         /\ LastOf(From(p, k)) = LastOf(p)
<1> DEFINE f == From(p, k)
           g == From(p, k + 1)
<1>1. Len(p) \in Nat /\ k + 1 \in 1 .. Len(p) + 1 /\ k \in 1 .. Len(p) + 1
  OBVIOUS
<1>2. f \in Seq(Floor) /\ Len(f) = Len(p) - k + 1 /\ \A j \in 1 .. Len(p) - k + 1 : f[j] = p[k + j - 1]
  BY <1>1, FromPath
<1>3. /\ g \in Seq(Floor) /\ Len(g) = Len(p) - (k + 1) + 1
      /\ \A j \in 1 .. Len(p) - (k + 1) + 1 : g[j] = p[(k + 1) + j - 1]
  BY <1>1, FromPath
<1> HIDE DEF f, g
<1>4. Len(g) \in Nat /\ Len(f) = Len(g) + 1 /\ Len(g) = Len(p) - k
  BY <1>1, <1>2, <1>3
<1>5. \A j \in 1 .. Len(g) : f[j + 1] = g[j]
  <2> SUFFICES ASSUME NEW j \in 1 .. Len(g) PROVE f[j + 1] = g[j]
    OBVIOUS
  <2>1. j \in 1 .. Len(p) - (k + 1) + 1 /\ j + 1 \in 1 .. Len(p) - k + 1
    BY <1>1, <1>4
  <2>2. f[j + 1] = p[k + (j + 1) - 1] /\ g[j] = p[(k + 1) + j - 1]
    BY <1>2, <1>3, <2>1
  <2>3. k + (j + 1) - 1 = (k + 1) + j - 1
    BY <2>1
  <2> QED
    BY <2>2, <2>3
<1>6. f # <<>> /\ Head(f) = f[1] /\ Tail(f) = g
  BY <1>2, <1>3, <1>4, <1>5, TailIs
<1>7. f[1] = p[k] /\ f[Len(f)] = p[Len(p)]
  <2>1. 1 \in 1 .. Len(p) - k + 1 /\ Len(f) \in 1 .. Len(p) - k + 1
    BY <1>1, <1>2
  <2>2. f[1] = p[k + 1 - 1] /\ f[Len(f)] = p[k + Len(f) - 1]
    BY <1>2, <2>1
  <2>3. k + 1 - 1 = k /\ k + Len(f) - 1 = Len(p)
    BY <1>1, <1>2
  <2> QED
    BY <2>2, <2>3
<1> QED
  BY <1>6, <1>7 DEF f, g, LastOf

LEMMA FromFrom ==
  ASSUME NEW p \in Seq(Floor), NEW r \in 1 .. Len(p), NEW s \in 1 .. Len(p) - r + 2
  PROVE  From(From(p, r), s) = From(p, r + s - 1)
<1>1. Len(p) \in Nat /\ r \in 1 .. Len(p) + 1 /\ r + s - 1 \in 1 .. Len(p) + 1
  OBVIOUS
<1> DEFINE f == From(p, r)
           g == From(f, s)
           h == From(p, r + s - 1)
<1>2. f \in Seq(Floor) /\ Len(f) = Len(p) - r + 1 /\ \A j \in 1 .. Len(p) - r + 1 : f[j] = p[r + j - 1]
  BY <1>1, FromPath
<1>3. /\ h \in Seq(Floor) /\ Len(h) = Len(p) - (r + s - 1) + 1
      /\ \A j \in 1 .. Len(p) - (r + s - 1) + 1 : h[j] = p[(r + s - 1) + j - 1]
  BY <1>1, FromPath
<1> HIDE DEF f, h
<1>4. s \in 1 .. Len(f) + 1
  BY <1>1, <1>2
<1>5. g \in Seq(Floor) /\ Len(g) = Len(f) - s + 1 /\ \A j \in 1 .. Len(f) - s + 1 : g[j] = f[s + j - 1]
  BY <1>2, <1>4, FromPath
<1> HIDE DEF g
<1>6. Len(g) = Len(h)
  BY <1>1, <1>2, <1>3, <1>5
<1>7. \A j \in 1 .. Len(g) : g[j] = h[j]
  <2> SUFFICES ASSUME NEW j \in 1 .. Len(g) PROVE g[j] = h[j]
    OBVIOUS
  <2>1. j \in 1 .. Len(f) - s + 1 /\ j \in 1 .. Len(p) - (r + s - 1) + 1
    BY <1>3, <1>5, <1>6
  <2>2. s + j - 1 \in 1 .. Len(p) - r + 1
    BY <1>1, <1>2, <2>1
  <2>3. g[j] = p[r + (s + j - 1) - 1]
    BY <1>2, <1>5, <2>1, <2>2
  <2>4. h[j] = p[(r + s - 1) + j - 1]
    BY <1>3, <2>1
  <2>5. r + (s + j - 1) - 1 = (r + s - 1) + j - 1
    BY <1>1, <2>1
  <2> QED
    BY <2>3, <2>4, <2>5
<1> QED
  BY <1>3, <1>5, <1>6, <1>7, SeqEqual DEF f, g, h

LEMMA FromFirst ==
  ASSUME NEW p \in Seq(Floor)
  PROVE  From(p, 1) = p
BY SubSeqFull DEF From

LEMMA FirstIndex ==
  ASSUME NEW p \in Seq(Floor), NEW t \in Visited(p)
  PROVE  Index(p, t) \in 1 .. Len(p) /\ p[Index(p, t)] = t
<1>1. DOMAIN p = 1 .. Len(p) /\ Len(p) \in Nat
  OBVIOUS
<1> DEFINE S == {k \in DOMAIN p : p[k] = t}
<1>2. S # {} /\ S \in SUBSET Nat
  BY <1>1 DEF Visited
<1>3. PICK k \in S : \A j \in S : k <= j
  BY <1>2, LeastExists
<1>4. k \in DOMAIN p /\ p[k] = t /\ \A j \in 1 .. k - 1 : p[j] # t
  BY <1>1, <1>3
<1> QED
  BY <1>1, <1>4 DEF Index

---------------------------------------------------------------------------
(* What a path does to the avatar of a page.                               *)

LEMMA Unreached ==
  ASSUME NEW a \in Avatars, NEW p \in Seq(Floor), p # <<>>
  PROVE  /\ UnreachedPath(a, p) \in Seq(Floor)
         /\ \/ UnreachedPath(a, p) # <<>> /\ LastOf(UnreachedPath(a, p)) = LastOf(p)
            \/ UnreachedPath(a, p) = <<>> /\ a.at = LastOf(p)
<1>1. Len(p) \in Nat /\ Len(p) >= 1
  OBVIOUS
<1>2. ASSUME NEW t \in Visited(p)
      PROVE  /\ From(p, Index(p, t)) \in Seq(Floor) /\ From(p, Index(p, t)) # <<>>
             /\ LastOf(From(p, Index(p, t))) = LastOf(p)
  <2>1. Index(p, t) \in 1 .. Len(p) /\ Index(p, t) \in 1 .. Len(p) + 1
    BY <1>1, FirstIndex
  <2> QED
    BY <2>1, FromPath, FromTail
<1>3. CASE a.at \in Visited(p)
  <2> DEFINE i == Index(p, a.at)
  <2>1. i \in 1 .. Len(p) /\ p[i] = a.at
    BY <1>3, FirstIndex
  <2>2. UnreachedPath(a, p) = From(p, i + 1)
    BY <1>3 DEF UnreachedPath
  <2> HIDE DEF i
  <2>3. i + 1 \in 1 .. Len(p) + 1
    BY <1>1, <2>1
  <2>4. From(p, i + 1) \in Seq(Floor) /\ Len(From(p, i + 1)) = Len(p) - (i + 1) + 1
    BY <2>3, FromPath
  <2>5. CASE i = Len(p)
    <3>1. Len(From(p, i + 1)) = 0
      BY <1>1, <2>4, <2>5
    <3>2. From(p, i + 1) = <<>>
      BY <2>4, <3>1
    <3> QED
      BY <2>1, <2>2, <2>4, <2>5, <3>2 DEF LastOf
  <2>6. CASE i # Len(p)
    <3>1. i + 1 \in 1 .. Len(p)
      BY <1>1, <2>1, <2>6
    <3> QED
      BY <2>2, <2>4, <3>1, FromTail
  <2> QED
    BY <2>5, <2>6
<1>4. CASE a.at \notin Visited(p) /\ a.to \in Visited(p)
  BY <1>2, <1>4 DEF UnreachedPath
<1>5. CASE a.at \notin Visited(p) /\ a.to \notin Visited(p)
  BY <1>5 DEF UnreachedPath
<1> QED
  BY <1>3, <1>4, <1>5

LEMMA TailLast ==
  ASSUME NEW p \in Seq(Floor), p # <<>>
  PROVE  /\ Head(p) \in Floor /\ Tail(p) \in Seq(Floor)
         /\ LastOf(p) = IF Tail(p) # <<>> THEN LastOf(Tail(p)) ELSE Head(p)
<1> DEFINE q == Tail(p)
<1>1. /\ Head(p) \in Floor /\ q \in Seq(Floor) /\ Len(q) = Len(p) - 1
      /\ \A j \in 1 .. Len(q) : q[j] = p[j + 1]
  BY HeadTailProperties
<1>2. Len(p) \in Nat \ {0} /\ Head(p) = p[1]
  OBVIOUS
<1> HIDE DEF q
<1>3. CASE q # <<>>
  <2>1. Len(q) \in Nat \ {0}
    BY <1>1, <1>3
  <2> QED
    BY <1>1, <1>2, <1>3, <2>1 DEF LastOf, q
<1>4. CASE q = <<>>
  <2>1. Len(q) = 0
    BY <1>4
  <2>2. Len(p) = 1
    BY <1>1, <1>2, <2>1
  <2> QED
    BY <1>2, <1>4, <2>2 DEF LastOf, q
<1> QED
  BY <1>3, <1>4

LEMMA SetPathGoes ==
  ASSUME ViewAssumption, NEW a \in Avatars, NEW p \in Seq(Floor), p # <<>>
  PROVE  /\ SetPath(a, p) \in Avatars
         /\ \/ Destination(SetPath(a, p)) = LastOf(p)
            \/ ~Idle(a) /\ UnreachedPath(a, p) = <<>>
<1> DEFINE next == UnreachedPath(a, p)
<1>1. /\ next \in Seq(Floor)
      /\ \/ next # <<>> /\ LastOf(next) = LastOf(p)
         \/ next = <<>> /\ a.at = LastOf(p)
  BY Unreached
<1>2. /\ a.at \in Tiles /\ a.to \in Tiles \cup {NoTile} /\ a.path \in Seq(Floor) /\ a.ticks \in Nat
      /\ a = [at |-> a.at, to |-> a.to, path |-> a.path, ticks |-> a.ticks]
  BY DEF Avatars
<1>3. NoTile \notin Floor
  BY DEF ViewAssumption, Tiles
<1>4. SetPath(a, p) = IF next = <<>> THEN a
                      ELSE IF a.to = NoTile THEN [a EXCEPT !.path = next, !.ticks = 0]
                      ELSE IF Head(next) = a.to THEN [a EXCEPT !.path = Tail(next)]
                      ELSE [a EXCEPT !.to = Head(next), !.path = Tail(next), !.ticks = 0]
  BY DEF SetPath
<1> HIDE DEF next
<1>5. CASE next = <<>>
  <2>1. SetPath(a, p) = a
    BY <1>4, <1>5
  <2>2. Idle(a) => Destination(a) = LastOf(p)
    BY <1>1, <1>5 DEF Idle, Destination
  <2> QED
    BY <1>5, <2>1, <2>2 DEF next
<1>6. CASE next # <<>> /\ a.to = NoTile
  <2>1. SetPath(a, p) = [at |-> a.at, to |-> a.to, path |-> next, ticks |-> 0]
    BY <1>2, <1>4, <1>6
  <2>2. SetPath(a, p) \in Avatars
    BY <1>1, <1>2, <2>1 DEF Avatars
  <2>3. Destination(SetPath(a, p)) = LastOf(next)
    BY <1>6, <2>1 DEF Destination
  <2> QED
    BY <1>1, <1>6, <2>2, <2>3
<1>7. ASSUME next # <<>>, NEW b, NEW k \in Nat,
             b = [at |-> a.at, to |-> Head(next), path |-> Tail(next), ticks |-> k]
      PROVE  b \in Avatars /\ Destination(b) = LastOf(next)
  <2>1. /\ Head(next) \in Floor /\ Tail(next) \in Seq(Floor)
        /\ LastOf(next) = IF Tail(next) # <<>> THEN LastOf(Tail(next)) ELSE Head(next)
    BY <1>1, <1>7, TailLast
  <2>2. b \in Avatars
    BY <1>2, <1>7, <2>1 DEF Avatars, Tiles
  <2>3. CASE Tail(next) # <<>>
    <3>1. Destination(b) = LastOf(Tail(next))
      BY <1>7, <2>3 DEF Destination
    <3> QED
      BY <2>1, <2>2, <2>3, <3>1
  <2>4. CASE Tail(next) = <<>>
    <3>1. Destination(b) = Head(next)
      BY <1>3, <1>7, <2>1, <2>4 DEF Destination
    <3> QED
      BY <2>1, <2>2, <2>4, <3>1
  <2> QED
    BY <2>3, <2>4
<1>8. CASE next # <<>> /\ a.to # NoTile /\ Head(next) = a.to
  <2>1. SetPath(a, p) = [at |-> a.at, to |-> Head(next), path |-> Tail(next), ticks |-> a.ticks]
    BY <1>2, <1>4, <1>8
  <2> QED
    BY <1>1, <1>2, <1>7, <1>8, <2>1
<1>9. CASE next # <<>> /\ a.to # NoTile /\ Head(next) # a.to
  <2>1. SetPath(a, p) = [at |-> a.at, to |-> Head(next), path |-> Tail(next), ticks |-> 0]
    BY <1>2, <1>4, <1>9
  <2> QED
    BY <1>1, <1>7, <1>9, <2>1
<1> QED
  BY <1>5, <1>6, <1>8, <1>9

\* A frame takes an avatar along, and not somewhere else.
LEMMA UpdateGoesOn ==
  ASSUME ViewAssumption, NEW a \in Avatars
  PROVE  Update(a) \in Avatars /\ Destination(Update(a)) = Destination(a)
<1>1. /\ a.at \in Tiles /\ a.to \in Tiles \cup {NoTile} /\ a.path \in Seq(Floor) /\ a.ticks \in Nat
      /\ a = [at |-> a.at, to |-> a.to, path |-> a.path, ticks |-> a.ticks]
  BY DEF Avatars
<1>2. NoTile \notin Floor
  BY DEF ViewAssumption, Tiles
<1>3. CASE a.to = NoTile /\ a.path = <<>>
  <2>1. Update(a) = a
    BY <1>3 DEF Update, BeginSegment
  <2> QED
    BY <2>1
<1>4. ASSUME NEW b \in Avatars, b.to # NoTile
      PROVE  /\ [b EXCEPT !.ticks = @ + 1] \in Avatars
             /\ Destination([b EXCEPT !.ticks = @ + 1]) = Destination(b)
             /\ [b EXCEPT !.at = b.to, !.to = NoTile, !.ticks = 0] \in Avatars
             /\ Destination([b EXCEPT !.at = b.to, !.to = NoTile, !.ticks = 0]) = Destination(b)
  <2>1. /\ b.at \in Tiles /\ b.to \in Tiles /\ b.path \in Seq(Floor) /\ b.ticks \in Nat
        /\ b = [at |-> b.at, to |-> b.to, path |-> b.path, ticks |-> b.ticks]
    BY <1>4 DEF Avatars
  <2>2. [b EXCEPT !.ticks = @ + 1] = [at |-> b.at, to |-> b.to, path |-> b.path, ticks |-> b.ticks + 1]
    BY <2>1
  <2>3. [b EXCEPT !.at = b.to, !.to = NoTile, !.ticks = 0]
          = [at |-> b.to, to |-> NoTile, path |-> b.path, ticks |-> 0]
    <3> DEFINE t == b.to
    <3> HIDE DEF t
    <3> DEFINE c == [b EXCEPT !.at = t]
    <3>2. c = [at |-> t, to |-> b.to, path |-> b.path, ticks |-> b.ticks]
      BY <2>1
    <3> HIDE DEF c
    <3> DEFINE d == [c EXCEPT !.to = NoTile]
    <3>3. d = [at |-> t, to |-> NoTile, path |-> b.path, ticks |-> b.ticks]
      BY <3>2
    <3> HIDE DEF d
    <3>4. [d EXCEPT !.ticks = 0] = [at |-> t, to |-> NoTile, path |-> b.path, ticks |-> 0]
      BY <3>3
    <3>5. [b EXCEPT !.at = t, !.to = NoTile, !.ticks = 0] = [d EXCEPT !.ticks = 0]
      BY DEF c, d
    <3> QED
      BY <3>4, <3>5 DEF t
  <2> QED
    BY <1>4, <2>1, <2>2, <2>3 DEF Avatars, Destination
<1>5. ~(a.to = NoTile /\ a.path = <<>>)
      => /\ BeginSegment(a) \in Avatars /\ BeginSegment(a).to # NoTile
         /\ Destination(BeginSegment(a)) = Destination(a)
  <2>1. CASE a.to # NoTile
    <3>1. BeginSegment(a) = a
      BY <2>1 DEF BeginSegment
    <3> QED
      BY <2>1, <3>1
  <2>2. CASE a.to = NoTile /\ a.path # <<>>
    <3>1. BeginSegment(a) = [at |-> a.at, to |-> Head(a.path), path |-> Tail(a.path), ticks |-> 0]
      BY <1>1, <2>2 DEF BeginSegment
    <3>2. /\ Head(a.path) \in Floor /\ Tail(a.path) \in Seq(Floor)
          /\ LastOf(a.path) = IF Tail(a.path) # <<>> THEN LastOf(Tail(a.path)) ELSE Head(a.path)
      BY <1>1, <2>2, TailLast
    <3>3. BeginSegment(a) \in Avatars
      BY <1>1, <3>1, <3>2 DEF Avatars, Tiles
    <3>4. Destination(a) = LastOf(a.path)
      BY <2>2 DEF Destination
    <3>5. CASE Tail(a.path) # <<>>
      <4>1. Destination(BeginSegment(a)) = LastOf(Tail(a.path))
        BY <3>1, <3>5 DEF Destination
      <4> QED
        BY <1>2, <3>1, <3>2, <3>3, <3>4, <3>5, <4>1
    <3>6. CASE Tail(a.path) = <<>>
      <4>1. Destination(BeginSegment(a)) = Head(a.path)
        BY <1>2, <3>1, <3>2, <3>6 DEF Destination
      <4> QED
        BY <1>2, <3>1, <3>2, <3>3, <3>4, <3>6, <4>1
    <3> QED
      BY <3>5, <3>6
  <2> QED
    BY <2>1, <2>2
<1>6. CASE ~(a.to = NoTile /\ a.path = <<>>)
  <2> DEFINE b == BeginSegment(a)
  <2>1. b \in Avatars /\ b.to # NoTile /\ Destination(b) = Destination(a)
    BY <1>5, <1>6
  <2>2. Update(a) = IF b.ticks + 1 < TicksPerTile THEN [b EXCEPT !.ticks = @ + 1]
                    ELSE [b EXCEPT !.at = b.to, !.to = NoTile, !.ticks = 0]
    BY <2>1 DEF Update
  <2> HIDE DEF b
  <2> QED
    BY <1>4, <2>1, <2>2
<1> QED
  BY <1>3, <1>6

---------------------------------------------------------------------------
(* The invariant of a page's view.                                         *)

\* Where the avatar will stop on a page that has handled the message.
Ends(m) == IF m.path # <<>> THEN LastOf(m.path) ELSE m.at

Messages ==
  [type : {"joined", "left", "moved", "snapshot"}, at : Tiles \cup {NoTile}, path : Seq(Floor)]

Formed(m) ==
  /\ m.type \in {"joined", "snapshot"} => m.at \in Tiles
  /\ m.type = "joined" => m.path = <<>>
  /\ m.type = "snapshot" => Len(m.path) # 1
  /\ m.type = "moved" => m.path # <<>>

ViewTypes ==
  /\ watching \in BOOLEAN /\ missed \in BOOLEAN /\ direct \in BOOLEAN
  /\ avatar \in Avatars \cup {NoAvatar}
  /\ link \in Seq(Messages)
  /\ \A j \in 1 .. Len(link) : Formed(link[j])

\* The page has, and will have, an avatar exactly while the user is there.
Appears ==
  /\ ~watching => link = <<>> /\ avatar = NoAvatar
  /\ \A j \in 1 .. Len(link) :
       link[j].type = "moved" =>
         IF j = 1 THEN avatar # NoAvatar ELSE link[j - 1].type # "left"
  /\ watching =>
       (Watched \in present <=>
          IF link = <<>> THEN avatar # NoAvatar ELSE link[Len(link)].type # "left")

\* The goal of a walk was told; that of one that was stopped was not.
GoalIsTold == Walking(Watched) => shown[Watched] = Goal(Watched)

\* The last message, or the avatar once there is none, says where the Room's
\* walk will end.
Heads ==
  watching /\ Watched \in present /\ shown[Watched] = Goal(Watched) =>
    IF link = <<>> THEN missed \/ Destination(avatar) = Goal(Watched)
    ELSE Ends(link[Len(link)]) = Goal(Watched)

Simple(p) == \A j, k \in 1 .. Len(p) : p[j] = p[k] => j = k

NoLoops == Walking(Watched) => Simple(walk[Watched].path)

\* An avatar is on its way to the j-th tile of the path, and the clock will be
\* there no later.
Leg(a, j) ==
  LET w == walk[Watched] IN
  /\ \/ a.to = NoTile /\ a.path = From(w.path, j) /\ a.ticks = 0
     \/ a.to = w.path[j] /\ a.path = From(w.path, j + 1)
  /\ \/ Arrived(Watched)
     \/ a.ticks <= w.ticks /\ j - 2 <= (w.ticks - a.ticks) \div TicksPerTile

OnItsWay(a) ==
  LET p == walk[Watched].path IN
  /\ a # NoAvatar
  /\ \E i \in 1 .. Reached(Watched) : a.at = p[i]
  /\ Idle(a) \/ \E j \in 2 .. Len(p) : Leg(a, j)

\* An avatar that was at rest follows the walk, and what it will be told is
\* the rest of the walk from where the Room had it.
Trails ==
  direct /\ Walking(Watched) =>
    /\ OnItsWay(avatar)
    /\ \A j \in 1 .. Len(link) :
         /\ link[j].type = "moved"
         /\ \E k \in 1 .. Reached(Watched) : link[j].path = From(walk[Watched].path, k)

WInv == ViewTypes /\ Appears /\ GoalIsTold /\ Heads /\ NoLoops /\ Trails

---------------------------------------------------------------------------
(* The Room's steps.                                                       *)

\* A step of the view is a step of the Room, or none.
LEMMA ViewSteps == [ViewNext]_allVars => [Next]_vars
<1>1. ASSUME NEW u \in Users, Join(u) \/ Leave(u) PROVE Next
  BY <1>1 DEF Next
<1>2. ASSUME NEW u \in Users, NEW target \in Tiles, MoveUser(u, target) PROVE Next
  BY <1>2 DEF Next
<1>3. ASSUME OthersAct PROVE Next
  <2>1. \/ \E u \in Users : Join(u) \/ Leave(u) \/ \E target \in Tiles : MoveUser(u, target)
        \/ \E t \in Floor : PlaceItem(t) \/ PickupItem(t)
        \/ \E t, next \in Floor : MoveItem(t, next)
    BY <1>3 DEF OthersAct
  <2> QED
    BY <1>1, <1>2, <2>1 DEF Next
<1>4. Watched \in Users
  BY ViewAssumption DEF ViewAssumption
<1>5. ASSUME ViewNext PROVE [Next]_vars
  <2>1. CASE WatchedJoins \/ WatchedLeaves
    BY <1>1, <1>4, <2>1 DEF WatchedJoins, WatchedLeaves
  <2>2. ASSUME NEW target \in Tiles, WatchedMoves(target) PROVE Next
    BY <1>2, <1>4, <2>2 DEF WatchedMoves
  <2>3. CASE SendSnapshot
    BY <2>3 DEF SendSnapshot, Next
  <2>4. CASE HandleServerMessage
    BY <2>4 DEF HandleServerMessage
  <2>5. CASE Time
    <3>1. Tick \/ UNCHANGED vars
      BY <2>5 DEF Time
    <3> QED
      BY <3>1 DEF Next
  <2> QED
    BY <1>3, <1>5, <2>1, <2>2, <2>3, <2>4, <2>5 DEF ViewNext
<1> QED
  BY <1>5 DEF allVars

\* What a step that does not concern the watched user may do: store where a
\* walk ended that is over.
Unmoved ==
  /\ Watched \in present' <=> Watched \in present
  /\ shown'[Watched] = shown[Watched]
  /\ Goal(Watched)' = Goal(Watched)
  /\ walk'[Watched] \in {walk[Watched], NoWalk}

LEMMA SweptIsUnmoved ==
  ASSUME MovementAssumption, ViewAssumption, TypeOK, NEW R \in SUBSET Users,
         pos'[Watched] = Resolved(R)[Watched], walk'[Watched] = SweptWalk[Watched],
         Watched \in present' <=> Watched \in present, shown'[Watched] = shown[Watched]
  PROVE  Unmoved
<1>1. Watched \in Users
  BY DEF ViewAssumption
<1>2. Goal(Watched)' = Goal(Watched)
  BY <1>1, ResolvingMovesNobody
<1>3. SweptWalk[Watched] \in {walk[Watched], NoWalk}
  BY <1>1 DEF SweptWalk
<1> QED
  BY <1>2, <1>3 DEF Unmoved

LEMMA OthersAreOthers ==
  ASSUME MovementAssumption, ViewAssumption, MInv, OthersAct
  PROVE  Unmoved /\ UNCHANGED view
<1>1. Watched \in Users /\ TypeOK /\ {} \in SUBSET Users /\ present \in SUBSET Users
  BY DEF ViewAssumption, MInv, TypeOK
<1>2. ASSUME NEW u \in Users \ {Watched}, Join(u) PROVE Unmoved
  <2>1. pos'[Watched] = Resolved(present)[Watched] /\ walk'[Watched] = SweptWalk[Watched]
    BY <1>1, <1>2, SweptTypes DEF Join
  <2>2. (Watched \in present' <=> Watched \in present) /\ shown'[Watched] = shown[Watched]
    BY <1>1, <1>2 DEF Join, TypeOK
  <2> QED
    BY <1>1, <2>1, <2>2, SweptIsUnmoved
<1>3. ASSUME NEW u \in Users \ {Watched}, Leave(u) PROVE Unmoved
  <2>1. /\ pos'[Watched] = pos[Watched] /\ walk'[Watched] = walk[Watched]
        /\ shown'[Watched] = shown[Watched] /\ (Watched \in present' <=> Watched \in present)
    BY <1>1, <1>3 DEF Leave, TypeOK
  <2>2. Goal(Watched)' = Goal(Watched)
    BY <2>1 DEF Goal, Walking
  <2> QED
    BY <2>1, <2>2 DEF Unmoved
<1>4. ASSUME NEW u \in Users \ {Watched}, NEW target \in Tiles, MoveUser(u, target) PROVE Unmoved
  <2>1. /\ pos' = Resolved({u}) /\ UNCHANGED <<present, items>>
        /\ \/ walk' = SweptWalk /\ UNCHANGED shown
           \/ \E p \in Seq(Floor) : StartWalk(u, p)
           \/ StopWalk(u)
    BY <1>4, MoveOutcomes
  <2>2. {u} \in SUBSET Users
    BY <1>4
  <2>3. walk'[Watched] = SweptWalk[Watched] /\ shown'[Watched] = shown[Watched]
    BY <1>1, <1>4, <2>1, SweptTypes DEF StartWalk, StopWalk, TypeOK
  <2> QED
    BY <1>1, <2>1, <2>2, <2>3, SweptIsUnmoved
<1>5. ASSUME NEW t \in Floor, NEW next \in Floor, PlaceItem(t) \/ MoveItem(t, next) PROVE Unmoved
  <2>1. Sweep /\ UNCHANGED <<present, shown>>
    BY <1>5 DEF PlaceItem, MoveItem
  <2>2. pos' = Resolved({}) /\ walk' = SweptWalk
    BY <2>1, SweepIsResolved
  <2> QED
    BY <1>1, <2>1, <2>2, SweptIsUnmoved
<1>6. ASSUME NEW t \in Floor, PickupItem(t) PROVE Unmoved
  BY <1>6 DEF PickupItem, Unmoved, Goal, Walking
<1>7. UNCHANGED view
  BY DEF OthersAct
<1>8. \/ \E u \in Users \ {Watched} : Join(u) \/ Leave(u) \/ \E target \in Tiles : MoveUser(u, target)
      \/ \E t \in Floor : PlaceItem(t) \/ PickupItem(t)
      \/ \E t, next \in Floor : MoveItem(t, next)
  BY DEF OthersAct
<1> QED
  BY <1>2, <1>3, <1>4, <1>5, <1>6, <1>7, <1>8

LEMMA UnmovedKeeps ==
  ASSUME GoalIsTold, NoLoops, Unmoved
  PROVE  GoalIsTold' /\ NoLoops'
<1>1. ASSUME Walking(Watched)' PROVE walk'[Watched] = walk[Watched] /\ Walking(Watched)
  BY <1>1 DEF Unmoved, Walking
<1>2. GoalIsTold'
  BY <1>1 DEF GoalIsTold, Unmoved
<1>3. NoLoops'
  BY <1>1 DEF NoLoops, Simple
<1> QED
  BY <1>2, <1>3

LEMMA SameWalk ==
  ASSUME NEW a, walk'[Watched] = walk[Watched], OnItsWay(a)
  PROVE  OnItsWay(a)'
<1>1. /\ Reached(Watched)' = Reached(Watched)
      /\ Arrived(Watched)' <=> Arrived(Watched)
  BY DEF Reached, Arrived, Walking
<1>2. ASSUME NEW j, Leg(a, j) PROVE Leg(a, j)'
  BY <1>1, <1>2 DEF Leg
<1> QED
  BY <1>1, <1>2 DEF OnItsWay, Idle

LEMMA UnmovedTrails ==
  ASSUME Trails, Unmoved, UNCHANGED <<avatar, link>>, direct' => direct
  PROVE  Trails'
<1> SUFFICES ASSUME direct', Walking(Watched)'
             PROVE  /\ OnItsWay(avatar)'
                    /\ \A j \in 1 .. Len(link') :
                         /\ link'[j].type = "moved"
                         /\ \E k \in 1 .. Reached(Watched)' : link'[j].path = From(walk'[Watched].path, k)
  BY DEF Trails
<1>1. walk'[Watched] = walk[Watched] /\ Walking(Watched) /\ direct
  BY DEF Unmoved, Walking
<1>2. PICK a : a = avatar
  OBVIOUS
<1>3. avatar' = a
  BY <1>2
<1>4. OnItsWay(a)
  BY <1>1, <1>2 DEF Trails
<1>5. OnItsWay(a)'
  BY <1>1, <1>4, SameWalk
<1>6. OnItsWay(avatar)'
  BY <1>3, <1>5 DEF OnItsWay, Leg, Idle
<1>7. Reached(Watched)' = Reached(Watched)
  BY <1>1 DEF Reached
<1> QED
  BY <1>1, <1>6, <1>7 DEF Trails

\* The page is told.
LEMMA Telling ==
  ASSUME ViewTypes, Appears, NEW m \in Messages, Formed(m),
         m.type = "moved" => Watched \in present /\ watching,
         watching' = TRUE, missed' \in BOOLEAN, direct' \in BOOLEAN,
         link' = Append(link, m), avatar' = avatar,
         Watched \in present' <=> m.type # "left",
         Watched \in present' /\ shown'[Watched] = Goal(Watched)' => Ends(m) = Goal(Watched)'
  PROVE  ViewTypes' /\ Appears' /\ Heads'
<1>1. link \in Seq(Messages) /\ Len(link) \in Nat
  BY DEF ViewTypes
<1>2. link' \in Seq(Messages)
  BY <1>1
<1>3. Len(link') = Len(link) + 1
  BY <1>1
<1>4. link'[Len(link) + 1] = m /\ \A j \in 1 .. Len(link) : link'[j] = link[j]
  BY <1>1
<1>5. link' # <<>>
  BY <1>1, <1>3
<1>6. \A j \in 1 .. Len(link') : j \in 1 .. Len(link) \/ j = Len(link) + 1
  BY <1>1, <1>3
<1>7. ViewTypes'
  <2>1. \A j \in 1 .. Len(link') : Formed(link'[j])
    BY <1>4, <1>6 DEF ViewTypes
  <2>2. avatar' \in Avatars \cup {NoAvatar}
    BY DEF ViewTypes
  <2> QED
    BY <1>2, <2>1, <2>2 DEF ViewTypes, Formed, Avatars, Tiles
<1>8. ASSUME NEW j \in 1 .. Len(link'), link'[j].type = "moved"
      PROVE  IF j = 1 THEN avatar' # NoAvatar ELSE link'[j - 1].type # "left"
  <2>1. CASE j \in 1 .. Len(link)
    <3>1. link[j].type = "moved" /\ (j # 1 => j - 1 \in 1 .. Len(link))
      BY <1>1, <1>4, <1>8, <2>1
    <3>2. IF j = 1 THEN avatar # NoAvatar ELSE link[j - 1].type # "left"
      BY <2>1, <3>1 DEF Appears
    <3> QED
      BY <1>4, <3>1, <3>2
  <2>2. CASE j = Len(link) + 1
    <3>1. Watched \in present /\ watching
      BY <1>4, <1>8, <2>2
    <3>2. IF link = <<>> THEN avatar # NoAvatar ELSE link[Len(link)].type # "left"
      BY <3>1 DEF Appears
    <3>3. CASE link = <<>>
      <4>1. j = 1
        BY <2>2, <3>3
      <4> QED
        BY <3>2, <3>3, <4>1
    <3>4. CASE link # <<>>
      <4>1. Len(link) \in 1 .. Len(link) /\ j # 1 /\ j - 1 = Len(link)
        BY <1>1, <2>2, <3>4
      <4> QED
        BY <1>4, <3>2, <3>4, <4>1
    <3> QED
      BY <3>3, <3>4
  <2> QED
    BY <1>6, <2>1, <2>2
<1>9. link'[Len(link')] = m
  BY <1>3, <1>4
<1>10. Appears'
  <2>1. watching' => (Watched \in present' <=>
          IF link' = <<>> THEN avatar' # NoAvatar ELSE link'[Len(link')].type # "left")
    BY <1>5, <1>9
  <2> QED
    BY <1>8, <2>1 DEF Appears
<1>11. Heads'
  BY <1>5, <1>9 DEF Heads, Ends
<1> QED
  BY <1>7, <1>10, <1>11

\* The page is not told, of what there is nothing to tell.
LEMMA NotTelling ==
  ASSUME ViewTypes, Appears, Heads, UNCHANGED <<watching, link, avatar, missed>>,
         direct' \in BOOLEAN, ~watching \/ (Watched \in present' <=> Watched \in present),
         Watched \in present' /\ watching /\ shown'[Watched] = Goal(Watched)' =>
           shown[Watched] = Goal(Watched) /\ Goal(Watched)' = Goal(Watched)
  PROVE  ViewTypes' /\ Appears' /\ Heads'
<1>1. ViewTypes'
  <2>1. \A j \in 1 .. Len(link') : Formed(link'[j])
    BY DEF ViewTypes
  <2>2. watching' \in BOOLEAN /\ missed' \in BOOLEAN /\ avatar' \in Avatars \cup {NoAvatar} /\ link' \in Seq(Messages)
    BY DEF ViewTypes
  <2> QED
    BY <2>1, <2>2 DEF ViewTypes, Formed, Avatars, Tiles, Messages
<1>2. Appears'
  BY DEF Appears
<1>3. Heads'
  BY DEF Heads, Ends, Destination
<1> QED
  BY <1>1, <1>2, <1>3

---------------------------------------------------------------------------
(* The watched user's steps.                                               *)

LEMMA MessagesAre ==
  ASSUME NEW type \in {"joined", "left", "moved", "snapshot"},
         NEW t \in Tiles \cup {NoTile}, NEW p \in Seq(Floor)
  PROVE  \E m \in Messages : m = Message(type, t, p) /\ m.type = type /\ m.at = t /\ m.path = p
<1> DEFINE m == [type |-> type, at |-> t, path |-> p]
<1>1. m \in Messages
  BY DEF Messages
<1>2. m.type = type /\ m.at = t /\ m.path = p
  OBVIOUS
<1>3. m = Message(type, t, p)
  BY DEF Message
<1> HIDE DEF m
<1> QED
  BY <1>1, <1>2, <1>3

LEMMA WatchedJoinsInv ==
  ASSUME MovementAssumption, ViewAssumption, MInv, WInv, WatchedJoins
  PROVE  WInv'
<1>1. Watched \in Users /\ TypeOK /\ SpawnPosition \in Tiles
  BY SpawnIsTile DEF ViewAssumption, MInv
<1>2. /\ Watched \notin present /\ Watched \in present'
      /\ walk'[Watched] = SweptWalk[Watched]
      /\ pos'[Watched] = SpawnPosition /\ shown'[Watched] = SpawnPosition
  BY <1>1, SweptTypes DEF WatchedJoins, Join, TypeOK
<1>3. ~Walking(Watched) /\ walk'[Watched] = NoWalk
  BY <1>1, <1>2 DEF MInv, OnlyPresentWalk, SweptWalk, Arrived, Walking
<1>4. ~Walking(Watched)' /\ Goal(Watched)' = SpawnPosition
  BY <1>2, <1>3 DEF Walking, Goal
<1>5. GoalIsTold' /\ NoLoops' /\ Trails'
  BY <1>4 DEF GoalIsTold, NoLoops, Trails
<1>6. UNCHANGED <<watching, avatar, missed, direct>> /\ missed \in BOOLEAN /\ direct \in BOOLEAN /\ watching \in BOOLEAN
  BY DEF WatchedJoins, WInv, ViewTypes
<1>7. CASE watching
  <2> DEFINE m == Message("joined", SpawnPosition, <<>>)
  <2>1. link' = Append(link, m)
    BY <1>7 DEF WatchedJoins, Send
  <2>2. PICK s \in Tiles : s = SpawnPosition
    BY <1>1
  <2>3. <<>> \in Seq(Floor)
    OBVIOUS
  <2>4. PICK n \in Messages : n = m /\ n.type = "joined" /\ n.at = s /\ n.path = <<>>
    <3>1. "joined" \in {"joined", "left", "moved", "snapshot"} /\ s \in Tiles \cup {NoTile}
      OBVIOUS
    <3>2. \E n \in Messages :
            n = Message("joined", s, <<>>) /\ n.type = "joined" /\ n.at = s /\ n.path = <<>>
      <4>1. PICK type \in {"joined", "left", "moved", "snapshot"} : type = "joined"
        OBVIOUS
      <4>2. PICK e \in Seq(Floor) : e = <<>>
        BY <2>3, <3>1
      <4>3. \E n \in Messages : n = Message(type, s, e) /\ n.type = type /\ n.at = s /\ n.path = e
        BY <2>3, <3>1, MessagesAre
      <4> QED
        BY <4>1, <4>2, <4>3
    <3>3. m = Message("joined", s, <<>>)
      BY <2>2
    <3> QED
      BY <3>2, <3>3
  <2>5. m = n /\ n.type = "joined" /\ n.at = s /\ n.path = <<>>
    BY <2>4
  <2>6. Formed(n) /\ Ends(n) = s
    BY <2>2, <2>5 DEF Formed, Ends
  <2> HIDE DEF m
  <2>7. watching' = TRUE
    BY <1>6, <1>7
  <2> QED
    BY <1>2, <1>4, <1>5, <1>6, <2>1, <2>2, <2>4, <2>5, <2>6, <2>7, Telling DEF WInv
<1>8. CASE ~watching
  <2>1. UNCHANGED link
    BY <1>8 DEF WatchedJoins, Send
  <2> QED
    BY <1>5, <1>6, <1>8, <2>1, NotTelling DEF WInv
<1> QED
  BY <1>7, <1>8

LEMMA WatchedLeavesInv ==
  ASSUME MovementAssumption, ViewAssumption, MInv, WInv, WatchedLeaves
  PROVE  WInv'
<1>1. Watched \in Users /\ TypeOK
  BY DEF ViewAssumption, MInv
<1>2. Watched \notin present' /\ walk'[Watched] = NoWalk
  BY <1>1 DEF WatchedLeaves, Leave, TypeOK
<1>3. ~Walking(Watched)'
  BY <1>2 DEF Walking
<1>4. GoalIsTold' /\ NoLoops' /\ Trails'
  BY <1>3 DEF GoalIsTold, NoLoops, Trails
<1>5. /\ UNCHANGED <<watching, avatar, missed>> /\ direct' = FALSE
      /\ missed \in BOOLEAN /\ watching \in BOOLEAN
  BY DEF WatchedLeaves, WInv, ViewTypes
<1>6. CASE watching
  <2>1. link' = Append(link, Message("left", NoTile, <<>>))
    BY <1>6 DEF WatchedLeaves, Send
  <2>2. PICK n \in Messages : n = Message("left", NoTile, <<>>) /\ n.type = "left"
    <3>1. <<>> \in Seq(Floor) /\ NoTile \in Tiles \cup {NoTile}
      OBVIOUS
    <3>2. "left" \in {"joined", "left", "moved", "snapshot"}
      OBVIOUS
    <3>3. \E n \in Messages :
            n = Message("left", NoTile, <<>>) /\ n.type = "left" /\ n.at = NoTile /\ n.path = <<>>
      <4>1. PICK type \in {"joined", "left", "moved", "snapshot"} : type = "left"
        OBVIOUS
      <4>2. PICK e \in Seq(Floor) : e = <<>>
        BY <3>1, <3>2
      <4>3. \E n \in Messages : n = Message(type, NoTile, e) /\ n.type = type /\ n.at = NoTile /\ n.path = e
        BY <3>1, <3>2, MessagesAre
      <4> QED
        BY <4>1, <4>2, <4>3
    <3> QED
      BY <3>3
  <2>3. Message("left", NoTile, <<>>) = n
    BY <2>2
  <2>4. n.type = "left"
    BY <2>2
  <2>5. Formed(n)
    BY <2>4 DEF Formed
  <2>6. watching' = TRUE
    BY <1>5, <1>6
  <2> QED
    BY <1>2, <1>4, <1>5, <2>1, <2>3, <2>4, <2>5, <2>6, Telling DEF WInv
<1>7. CASE ~watching
  <2>1. UNCHANGED link
    BY <1>7 DEF WatchedLeaves, Send
  <2> QED
    BY <1>2, <1>4, <1>5, <1>7, <2>1, NotTelling DEF WInv
<1> QED
  BY <1>6, <1>7

\* What is left of a walk that is not over.
LEMMA RemainingIs ==
  ASSUME MovementAssumption, ViewAssumption, TypeOK, Walking(Watched), ~Arrived(Watched)
  PROVE  /\ RemainingPath \in Seq(Floor) /\ RemainingPath # <<>> /\ Len(RemainingPath) > 1
         /\ LastOf(RemainingPath) = Goal(Watched)
         /\ \E k \in 1 .. Reached(Watched) : RemainingPath = From(walk[Watched].path, k)
<1>1. Watched \in Users
  BY DEF ViewAssumption
<1> DEFINE p == walk[Watched].path
           r == Reached(Watched)
<1>2. p \in Seq(Floor) /\ Len(p) \in Nat /\ r \in 1 .. Len(p) /\ r # Len(p)
  BY <1>1, OnPath DEF Walks, Arrived
<1>3. RemainingPath = From(p, r) /\ Goal(Watched) = LastOf(p)
  BY DEF RemainingPath, Goal
<1> HIDE DEF p, r
<1>4. r \in 1 .. Len(p) + 1 /\ r \in 1 .. r
  BY <1>2
<1>5. From(p, r) \in Seq(Floor) /\ Len(From(p, r)) = Len(p) - r + 1
  BY <1>2, <1>4, FromPath
<1>6. From(p, r) # <<>> /\ LastOf(From(p, r)) = LastOf(p)
  BY <1>2, FromTail
<1>7. Len(From(p, r)) > 1
  BY <1>2, <1>5
<1> QED
  BY <1>3, <1>4, <1>5, <1>6, <1>7 DEF p, r

\* What a move of the watched user does, and what the page is sent.
LEMMA WatchedOutcomes ==
  ASSUME MovementAssumption, ViewAssumption, MInv, WInv, NEW target \in Tiles, WatchedMoves(target)
  PROVE  /\ Watched \in present /\ present' = present
         /\ UNCHANGED <<watching, avatar, missed>> /\ direct' \in BOOLEAN
         /\ pos'[Watched] = Resolved({Watched})[Watched]
         /\ \/ /\ Walking(Watched) /\ ~Arrived(Watched) /\ walk'[Watched] = walk[Watched]
               /\ UNCHANGED shown /\ (direct' => direct)
               /\ Send(Message("moved", NoTile, RemainingPath))
            \/ /\ walk'[Watched] = SweptWalk[Watched] /\ UNCHANGED <<shown, link>> /\ (direct' => direct)
            \/ /\ \E p \in Seq(Floor) :
                    /\ Len(p) > 1 /\ p[1] = Tile(Watched) /\ Simple(p)
                    /\ walk'[Watched] = [path |-> p, ticks |-> 0]
                    /\ shown'[Watched] = LastOf(p)
                    /\ Send(Message("moved", NoTile, p))
               /\ direct' => link = <<>> /\ avatar = At(Tile(Watched))
            \/ /\ walk'[Watched] = NoWalk /\ UNCHANGED <<shown, link>>
               /\ Walking(Watched) /\ ~Arrived(Watched) => Goal(Watched) # Tile(Watched)
<1> DEFINE again == SweptWalk[Watched] # NoWalk /\ Goal(Watched) = target
           starts == ~again /\ walk'[Watched] \notin {NoWalk, SweptWalk[Watched]}
<1>1. /\ MoveUser(Watched, target) /\ UNCHANGED <<watching, avatar, missed>>
      /\ IF again THEN Send(Message("moved", NoTile, RemainingPath))
         ELSE IF starts THEN Send(Message("moved", NoTile, walk'[Watched].path))
         ELSE UNCHANGED link
      /\ direct' = IF starts
                   THEN /\ SweptWalk[Watched] = NoWalk /\ link = <<>>
                        /\ avatar = At(Tile(Watched))
                   ELSE direct /\ walk'[Watched] # NoWalk
  BY DEF WatchedMoves
<1>2. /\ Watched \in Users /\ TypeOK /\ items \in SUBSET Floor /\ Cardinality(items) <= MaxItems
      /\ Tile(Watched) \in Tiles /\ direct \in BOOLEAN
  BY TilesAreTiles DEF ViewAssumption, MInv, TypeOK, ItemsBounded, WInv, ViewTypes
<1>3. /\ Watched \in present /\ present' = present /\ pos' = Resolved({Watched})
      /\ IF again \/ IsOccupiedByOtherUser(target, Watched) \/ FindPaths(items, Tile(Watched), target) = {}
         THEN walk' = SweptWalk /\ UNCHANGED shown
         ELSE \E p \in FindPaths(items, Tile(Watched), target) :
                IF Len(p) > 1 THEN StartWalk(Watched, p) ELSE StopWalk(Watched)
  BY <1>1 DEF MoveUser, StartOf
<1>4. again => Walking(Watched) /\ ~Arrived(Watched) /\ SweptWalk[Watched] = walk[Watched]
  BY <1>2 DEF SweptWalk, Walking
<1>5. Walking(Watched) /\ ~Arrived(Watched) => SweptWalk[Watched] # NoWalk
  BY <1>2 DEF SweptWalk, Walking
<1>6. direct' \in BOOLEAN
  <2>1. direct' = (SweptWalk[Watched] = NoWalk /\ link = <<>> /\ avatar = At(Tile(Watched)))
        \/ direct' = (direct /\ walk'[Watched] # NoWalk)
    BY <1>1
  <2> QED
    BY <2>1, Zenon
<1>7. /\ ~starts => (direct' => direct)
      /\ starts => (direct' => link = <<>> /\ avatar = At(Tile(Watched)))
  BY <1>1
<1> HIDE DEF again, starts
<1>8. CASE again
  <2>1. walk' = SweptWalk /\ UNCHANGED shown /\ ~starts
    BY <1>3, <1>8 DEF starts
  <2>2. Send(Message("moved", NoTile, RemainingPath))
    BY <1>1, <1>8
  <2>3. walk'[Watched] = walk[Watched]
    BY <1>4, <1>8, <2>1
  <2> QED
    BY <1>1, <1>3, <1>4, <1>6, <1>7, <1>8, <2>1, <2>2, <2>3
<1>9. CASE ~again /\ walk' = SweptWalk /\ UNCHANGED shown
  <2>1. ~starts
    BY <1>9 DEF starts
  <2>2. UNCHANGED link
    BY <1>1, <1>9, <2>1
  <2> QED
    BY <1>1, <1>3, <1>6, <1>7, <1>9, <2>1, <2>2
<1>10. ASSUME ~again, NEW p \in FindPaths(items, Tile(Watched), target),
              IF Len(p) > 1 THEN StartWalk(Watched, p) ELSE StopWalk(Watched)
       PROVE  \/ /\ p \in Seq(Floor) /\ Len(p) > 1 /\ p[1] = Tile(Watched) /\ Simple(p)
                 /\ walk'[Watched] = [path |-> p, ticks |-> 0]
                 /\ shown'[Watched] = LastOf(p)
                 /\ Send(Message("moved", NoTile, p))
                 /\ direct' => link = <<>> /\ avatar = At(Tile(Watched))
              \/ /\ walk'[Watched] = NoWalk /\ UNCHANGED <<shown, link>>
                 /\ Walking(Watched) /\ ~Arrived(Watched) => Goal(Watched) # Tile(Watched)
  <2>1. /\ p \in Seq(Floor)
        /\ Tile(Watched) # target => Len(p) > 1 /\ p[1] = Tile(Watched) /\ p[Len(p)] = target
        /\ Tile(Watched) = target => p = <<>>
        /\ \A j, k \in DOMAIN p : p[j] = p[k] => j = k
    BY <1>2 DEF MovementAssumption, ViewAssumption
  <2>2. Simple(p)
    BY <2>1 DEF Simple
  <2>3. CASE Tile(Watched) # target
    <3>1. StartWalk(Watched, p) /\ LastOf(p) = target
      BY <1>10, <2>1, <2>3 DEF LastOf
    <3>2. walk'[Watched] = [path |-> p, ticks |-> 0] /\ shown'[Watched] = LastOf(p)
      <4> DEFINE w == [path |-> p, ticks |-> 0]
      <4>1. walk' = [SweptWalk EXCEPT ![Watched] = w] /\ shown' = [shown EXCEPT ![Watched] = LastOf(p)]
        BY <3>1 DEF StartWalk
      <4> HIDE DEF w
      <4>2. Watched \in DOMAIN SweptWalk /\ Watched \in DOMAIN shown
        BY <1>2 DEF SweptWalk, TypeOK
      <4>3. walk'[Watched] = w /\ shown'[Watched] = LastOf(p)
        BY <4>1, <4>2
      <4> QED
        BY <4>3 DEF w
    <3>3. [path |-> p, ticks |-> 0] \in Walks
      BY <2>1 DEF Walks
    <3>4. walk'[Watched] # NoWalk
      BY <3>2, <3>3 DEF MovementAssumption
    <3>5. walk'[Watched] # SweptWalk[Watched]
      <4> SUFFICES ASSUME walk'[Watched] = SweptWalk[Watched] PROVE FALSE
        OBVIOUS
      <4>1. Walking(Watched) /\ walk[Watched] = walk'[Watched]
        BY <1>2, <3>4 DEF SweptWalk, Walking
      <4>2. Goal(Watched) = LastOf(p)
        BY <3>2, <4>1 DEF Goal
      <4> QED
        BY <1>10, <3>1, <3>4, <4>2 DEF again
    <3>6. starts
      BY <1>10, <3>4, <3>5 DEF starts
    <3>7. Send(Message("moved", NoTile, walk'[Watched].path))
      BY <1>1, <1>10, <3>6
    <3>8. walk'[Watched].path = p
      BY <3>2
    <3> QED
      BY <1>7, <2>1, <2>2, <2>3, <3>2, <3>6, <3>7, <3>8
  <2>4. CASE Tile(Watched) = target
    <3>1. Len(p) = 0
      BY <2>1, <2>4
    <3>2. StopWalk(Watched)
      BY <1>10, <3>1
    <3>3. walk'[Watched] = NoWalk /\ UNCHANGED shown
      BY <1>2, <3>2, SweptTypes DEF StopWalk
    <3>4. ~starts
      BY <3>3 DEF starts
    <3>5. UNCHANGED link
      BY <1>1, <1>10, <3>4
    <3>6. Walking(Watched) /\ ~Arrived(Watched) => Goal(Watched) # Tile(Watched)
      BY <1>5, <1>10, <2>4 DEF again
    <3> QED
      BY <3>3, <3>5, <3>6
  <2> QED
    BY <2>3, <2>4
<1>11. \/ again
       \/ ~again /\ walk' = SweptWalk /\ UNCHANGED shown
       \/ ~again /\ \E p \in FindPaths(items, Tile(Watched), target) :
                      IF Len(p) > 1 THEN StartWalk(Watched, p) ELSE StopWalk(Watched)
  BY <1>3
<1>12. ASSUME ~again, NEW p \in FindPaths(items, Tile(Watched), target),
              IF Len(p) > 1 THEN StartWalk(Watched, p) ELSE StopWalk(Watched)
       PROVE  \/ /\ \E q \in Seq(Floor) :
                      /\ Len(q) > 1 /\ q[1] = Tile(Watched) /\ Simple(q)
                      /\ walk'[Watched] = [path |-> q, ticks |-> 0]
                      /\ shown'[Watched] = LastOf(q)
                      /\ Send(Message("moved", NoTile, q))
                 /\ direct' => link = <<>> /\ avatar = At(Tile(Watched))
              \/ /\ walk'[Watched] = NoWalk /\ UNCHANGED <<shown, link>>
                 /\ Walking(Watched) /\ ~Arrived(Watched) => Goal(Watched) # Tile(Watched)
  BY <1>10, <1>12, Zenon
<1>13. pos'[Watched] = Resolved({Watched})[Watched]
  BY <1>3
<1> QED
  BY <1>1, <1>3, <1>6, <1>8, <1>9, <1>11, <1>12, <1>13

LEMMA MovedIs ==
  ASSUME NEW q \in Seq(Floor)
  PROVE  \E n \in Messages : n = Message("moved", NoTile, q) /\ n.type = "moved" /\ n.path = q
<1> DEFINE m == [type |-> "moved", at |-> NoTile, path |-> q]
<1>1. m \in Messages
  BY DEF Messages
<1>2. m.type = "moved" /\ m.path = q
  OBVIOUS
<1>3. m = Message("moved", NoTile, q)
  BY DEF Message
<1> HIDE DEF m
<1> QED
  BY <1>1, <1>2, <1>3

LEMMA TellMove ==
  ASSUME WInv, watching, Watched \in present, present' = present,
         NEW q \in Seq(Floor), q # <<>>,
         link' = Append(link, Message("moved", NoTile, q)),
         UNCHANGED <<watching, avatar, missed>>, direct' \in BOOLEAN,
         shown'[Watched] = Goal(Watched)' => LastOf(q) = Goal(Watched)'
  PROVE  /\ ViewTypes' /\ Appears' /\ Heads'
         /\ Len(link) \in Nat /\ Len(link') = Len(link) + 1
         /\ link'[Len(link) + 1].type = "moved" /\ link'[Len(link) + 1].path = q
         /\ \A j \in 1 .. Len(link) : link'[j] = link[j]
<1>1. PICK n \in Messages : link' = Append(link, n) /\ n.type = "moved" /\ n.path = q
  BY MovedIs
<1>2. Formed(n) /\ Ends(n) = LastOf(q)
  BY <1>1 DEF Formed, Ends
<1>3. missed' \in BOOLEAN /\ watching' = TRUE /\ link \in Seq(Messages)
  BY DEF WInv, ViewTypes
<1>4. Watched \in present' <=> n.type # "left"
  BY <1>1
<1>5. ViewTypes' /\ Appears' /\ Heads'
  BY <1>1, <1>2, <1>3, <1>4, Telling DEF WInv
<1>6. Len(link) \in Nat /\ Len(link') = Len(link) + 1
  BY <1>1, <1>3
<1>7. link'[Len(link) + 1] = n /\ \A j \in 1 .. Len(link) : link'[j] = link[j]
  BY <1>1, <1>3
<1> QED
  BY <1>1, <1>5, <1>6, <1>7

LEMMA WatchedMovesInv ==
  ASSUME MovementAssumption, ViewAssumption, MInv, WInv, NEW target \in Tiles, WatchedMoves(target)
  PROVE  WInv'
<1>1. /\ Watched \in Users /\ TypeOK /\ {Watched} \in SUBSET Users
      /\ ViewTypes /\ Appears /\ Heads /\ GoalIsTold /\ NoLoops /\ Trails
      /\ watching \in BOOLEAN
  BY DEF ViewAssumption, MInv, WInv, ViewTypes
<1>2. /\ Watched \in present /\ present' = present
      /\ UNCHANGED <<watching, avatar, missed>> /\ direct' \in BOOLEAN
      /\ pos'[Watched] = Resolved({Watched})[Watched]
  BY WatchedOutcomes
<1>3. CASE /\ Walking(Watched) /\ ~Arrived(Watched) /\ walk'[Watched] = walk[Watched]
           /\ UNCHANGED shown /\ (direct' => direct)
           /\ Send(Message("moved", NoTile, RemainingPath))
  <2>1. Goal(Watched)' = Goal(Watched)
    BY <1>3 DEF Goal, Walking
  <2>2. Unmoved
    BY <1>2, <1>3, <2>1 DEF Unmoved
  <2>3. GoalIsTold' /\ NoLoops'
    BY <1>1, <2>2, UnmovedKeeps
  <2>4. PICK q \in Seq(Floor) : /\ q = RemainingPath /\ q # <<>> /\ LastOf(q) = Goal(Watched)
                                /\ \E k \in 1 .. Reached(Watched) : q = From(walk[Watched].path, k)
    BY <1>1, <1>3, RemainingIs
  <2>5. CASE watching
    <3>1. link' = Append(link, Message("moved", NoTile, q))
      BY <1>3, <2>4, <2>5 DEF Send
    <3>2. /\ ViewTypes' /\ Appears' /\ Heads'
          /\ Len(link) \in Nat /\ Len(link') = Len(link) + 1
          /\ link'[Len(link) + 1].type = "moved" /\ link'[Len(link) + 1].path = q
          /\ \A j \in 1 .. Len(link) : link'[j] = link[j]
      BY <1>2, <2>1, <2>4, <2>5, <3>1, TellMove
    <3>3. Trails'
      <4> SUFFICES ASSUME direct'
                   PROVE  /\ OnItsWay(avatar)'
                          /\ \A j \in 1 .. Len(link') :
                               /\ link'[j].type = "moved"
                               /\ \E k \in 1 .. Reached(Watched)' : link'[j].path = From(walk'[Watched].path, k)
        BY DEF Trails
      <4>1. PICK a : a = avatar
        OBVIOUS
      <4>2. avatar' = a /\ OnItsWay(a)
        BY <1>1, <1>2, <1>3, <4>1 DEF Trails
      <4>3. OnItsWay(a)'
        BY <1>3, <4>2, SameWalk
      <4>4. OnItsWay(avatar)'
        BY <4>2, <4>3 DEF OnItsWay, Leg, Idle
      <4>5. Reached(Watched)' = Reached(Watched)
        BY <1>3 DEF Reached
      <4>6. ASSUME NEW j \in 1 .. Len(link')
            PROVE  /\ link'[j].type = "moved"
                   /\ \E k \in 1 .. Reached(Watched) : link'[j].path = From(walk[Watched].path, k)
        <5>1. CASE j \in 1 .. Len(link)
          BY <1>1, <1>3, <3>2, <5>1 DEF Trails
        <5>2. CASE j = Len(link) + 1
          BY <2>4, <3>2, <5>2
        <5> QED
          BY <3>2, <5>1, <5>2
      <4> QED
        BY <1>3, <4>4, <4>5, <4>6
    <3> QED
      BY <2>3, <3>2, <3>3 DEF WInv
  <2>6. CASE ~watching
    <3>1. UNCHANGED link
      BY <1>3, <2>6 DEF Send
    <3>2. Trails'
      BY <1>1, <1>2, <1>3, <2>2, <3>1, UnmovedTrails
    <3>3. ViewTypes' /\ Appears' /\ Heads'
      BY <1>1, <1>2, <2>6, <3>1, NotTelling
    <3> QED
      BY <2>3, <3>2, <3>3 DEF WInv
  <2> QED
    BY <2>5, <2>6
<1>4. CASE walk'[Watched] = SweptWalk[Watched] /\ UNCHANGED <<shown, link>> /\ (direct' => direct)
  <2>1. Unmoved
    BY <1>1, <1>2, <1>4, SweptIsUnmoved
  <2>2. GoalIsTold' /\ NoLoops'
    BY <1>1, <2>1, UnmovedKeeps
  <2>3. Trails'
    BY <1>1, <1>2, <1>4, <2>1, UnmovedTrails
  <2>4. ViewTypes' /\ Appears' /\ Heads'
    BY <1>1, <1>2, <1>4, <2>1, NotTelling DEF Unmoved
  <2> QED
    BY <2>2, <2>3, <2>4 DEF WInv
<1>5. ASSUME NEW p \in Seq(Floor), Len(p) > 1, p[1] = Tile(Watched), Simple(p),
             walk'[Watched] = [path |-> p, ticks |-> 0], shown'[Watched] = LastOf(p),
             Send(Message("moved", NoTile, p)),
             direct' => link = <<>> /\ avatar = At(Tile(Watched))
      PROVE  WInv'
  <2>1. [path |-> p, ticks |-> 0] \in Walks /\ p # <<>>
    BY <1>5 DEF Walks
  <2>2. walk'[Watched] # NoWalk /\ walk'[Watched].path = p /\ walk'[Watched].ticks = 0
    BY <1>5, <2>1 DEF MovementAssumption
  <2>3. Walking(Watched)' /\ Goal(Watched)' = LastOf(p)
    BY <2>2 DEF Walking, Goal
  <2>4. Reached(Watched)' = 1
    <3>1. 0 \div TicksPerTile = 0
      BY TilesWalked DEF MovementAssumption
    <3>2. Len(p) \in Nat
      OBVIOUS
    <3> QED
      BY <1>5, <2>2, <3>1, <3>2 DEF Reached, Smaller
  <2>5. GoalIsTold' /\ NoLoops'
    BY <1>5, <2>2, <2>3 DEF GoalIsTold, NoLoops, Simple
  <2>6. CASE watching
    <3>1. link' = Append(link, Message("moved", NoTile, p))
      BY <1>5, <2>6 DEF Send
    <3>2. /\ ViewTypes' /\ Appears' /\ Heads'
          /\ Len(link) \in Nat /\ Len(link') = Len(link) + 1
          /\ link'[Len(link) + 1].type = "moved" /\ link'[Len(link) + 1].path = p
      BY <1>2, <2>1, <2>3, <2>6, <3>1, TellMove
    <3>3. Trails'
      <4> SUFFICES ASSUME direct'
                   PROVE  /\ OnItsWay(avatar)'
                          /\ \A j \in 1 .. Len(link') :
                               /\ link'[j].type = "moved"
                               /\ \E k \in 1 .. Reached(Watched)' : link'[j].path = From(walk'[Watched].path, k)
        BY DEF Trails
      <4>1. avatar' = At(Tile(Watched)) /\ link = <<>>
        BY <1>2, <1>5
      <4>2. PICK t \in Tiles : t = Tile(Watched)
        BY <1>1, TilesAreTiles
      <4>3. /\ avatar'.at = t /\ Idle(avatar')
            /\ avatar' \in Avatars
        BY <4>1, <4>2 DEF At, Idle, Avatars
      <4>4. avatar' # NoAvatar
        BY <4>3 DEF ViewAssumption
      <4>5. avatar'.at = walk'[Watched].path[1]
        BY <1>5, <2>2, <4>2, <4>3
      <4>6. 1 \in 1 .. Reached(Watched)'
        BY <2>4
      <4>7. OnItsWay(avatar)'
        BY <4>3, <4>4, <4>5, <4>6 DEF OnItsWay, Idle
      <4>8. Len(link') = 1
        <5>1. Len(link) = 0
          BY <4>1
        <5> QED
          BY <3>2, <5>1
      <4>9. link'[1].type = "moved" /\ link'[1].path = From(walk'[Watched].path, 1)
        <5>1. Len(link) + 1 = 1
          BY <3>2, <4>8
        <5>2. From(walk'[Watched].path, 1) = p
          BY <2>2, FromFirst
        <5> QED
          BY <3>2, <5>1, <5>2
      <4> QED
        BY <4>6, <4>7, <4>8, <4>9
    <3> QED
      BY <2>5, <3>2, <3>3 DEF WInv
  <2>7. CASE ~watching
    <3>1. UNCHANGED link
      BY <1>5, <2>7 DEF Send
    <3>2. avatar = NoAvatar
      BY <1>1, <2>7 DEF Appears
    <3>3. ~direct'
      <4>1. PICK t \in Tiles : t = Tile(Watched)
        BY <1>1, TilesAreTiles
      <4>2. At(t) \in Avatars
        BY DEF At, Avatars
      <4>3. At(Tile(Watched)) # NoAvatar
        BY <4>1, <4>2 DEF ViewAssumption
      <4> QED
        BY <1>5, <3>2, <4>3
    <3>4. Trails'
      BY <3>3 DEF Trails
    <3>5. ViewTypes' /\ Appears' /\ Heads'
      BY <1>1, <1>2, <2>7, <3>1, NotTelling
    <3> QED
      BY <2>5, <3>4, <3>5 DEF WInv
  <2> QED
    BY <1>1, <2>6, <2>7
<1>6. CASE /\ walk'[Watched] = NoWalk /\ UNCHANGED <<shown, link>>
           /\ Walking(Watched) /\ ~Arrived(Watched) => Goal(Watched) # Tile(Watched)
  <2>1. ~Walking(Watched)'
    BY <1>6 DEF Walking
  <2>2. GoalIsTold' /\ NoLoops' /\ Trails'
    BY <2>1 DEF GoalIsTold, NoLoops, Trails
  <2>3. Goal(Watched)' = Tile(Watched)
    BY <1>1, <1>2, <2>1 DEF Goal, Resolved
  <2>4. shown'[Watched] = Goal(Watched)' => shown[Watched] = Goal(Watched) /\ Goal(Watched)' = Goal(Watched)
    <3>1. CASE Walking(Watched) /\ ~Arrived(Watched)
      BY <1>1, <1>6, <2>3, <3>1 DEF GoalIsTold
    <3>2. CASE ~Walking(Watched) \/ Arrived(Watched)
      <4>1. Tile(Watched) = Goal(Watched)
        BY <1>1, <3>2, SweptTile
      <4> QED
        BY <1>6, <2>3, <4>1
    <3> QED
      BY <3>1, <3>2
  <2>5. ViewTypes' /\ Appears' /\ Heads'
    BY <1>1, <1>2, <1>6, <2>4, NotTelling
  <2> QED
    BY <2>2, <2>5 DEF WInv
<1>7. \/ /\ Walking(Watched) /\ ~Arrived(Watched) /\ walk'[Watched] = walk[Watched]
         /\ UNCHANGED shown /\ (direct' => direct)
         /\ Send(Message("moved", NoTile, RemainingPath))
      \/ walk'[Watched] = SweptWalk[Watched] /\ UNCHANGED <<shown, link>> /\ (direct' => direct)
      \/ /\ \E p \in Seq(Floor) :
              /\ Len(p) > 1 /\ p[1] = Tile(Watched) /\ Simple(p)
              /\ walk'[Watched] = [path |-> p, ticks |-> 0]
              /\ shown'[Watched] = LastOf(p)
              /\ Send(Message("moved", NoTile, p))
         /\ direct' => link = <<>> /\ avatar = At(Tile(Watched))
      \/ /\ walk'[Watched] = NoWalk /\ UNCHANGED <<shown, link>>
         /\ Walking(Watched) /\ ~Arrived(Watched) => Goal(Watched) # Tile(Watched)
  BY WatchedOutcomes
<1>8. ASSUME /\ \E p \in Seq(Floor) :
                  /\ Len(p) > 1 /\ p[1] = Tile(Watched) /\ Simple(p)
                  /\ walk'[Watched] = [path |-> p, ticks |-> 0]
                  /\ shown'[Watched] = LastOf(p)
                  /\ Send(Message("moved", NoTile, p))
             /\ direct' => link = <<>> /\ avatar = At(Tile(Watched))
      PROVE  WInv'
  BY <1>5, <1>8, Zenon
<1> QED
  BY <1>3, <1>4, <1>6, <1>7, <1>8

LEMMA SendSnapshotInv ==
  ASSUME MovementAssumption, ViewAssumption, MInv, WInv, SendSnapshot
  PROVE  WInv'
<1>1. /\ Watched \in Users /\ TypeOK /\ present \in SUBSET Users
      /\ ViewTypes /\ Appears /\ Heads /\ GoalIsTold /\ NoLoops /\ Trails
      /\ missed \in BOOLEAN /\ Tile(Watched) \in Tiles
  BY TilesAreTiles DEF ViewAssumption, MInv, WInv, ViewTypes, TypeOK
<1>2. /\ pos' = Resolved(present) /\ walk' = SweptWalk /\ UNCHANGED <<present, shown>>
      /\ watching' = TRUE /\ direct' = FALSE /\ UNCHANGED <<avatar, missed>>
      /\ link' = Append(link, IF Watched \in present
                   THEN Message("snapshot", Tile(Watched),
                                IF SweptWalk[Watched] = NoWalk THEN <<>> ELSE RemainingPath)
                   ELSE Message("left", NoTile, <<>>))
  BY DEF SendSnapshot, GetSnapshot
<1>3. Unmoved
  BY <1>1, <1>2, SweptIsUnmoved
<1>4. GoalIsTold' /\ NoLoops' /\ Trails'
  BY <1>1, <1>2, <1>3, UnmovedKeeps DEF Trails
<1>5. CASE Watched \in present
  <2>1. ASSUME SweptWalk[Watched] # NoWalk PROVE Walking(Watched) /\ ~Arrived(Watched)
    BY <1>1, <2>1 DEF SweptWalk, Walking
  <2>2. ASSUME SweptWalk[Watched] = NoWalk PROVE Tile(Watched) = Goal(Watched)
    <3>1. ~Walking(Watched) \/ Arrived(Watched)
      BY <1>1, <2>2 DEF SweptWalk, Walking
    <3> QED
      BY <1>1, <3>1, SweptTile
  <2>3. PICK q \in Seq(Floor) :
          /\ q = IF SweptWalk[Watched] = NoWalk THEN <<>> ELSE RemainingPath
          /\ Len(q) # 1
          /\ (IF q # <<>> THEN LastOf(q) ELSE Tile(Watched)) = Goal(Watched)
    <3>1. CASE SweptWalk[Watched] = NoWalk
      <4>1. <<>> \in Seq(Floor) /\ Len(<<>>) # 1
        OBVIOUS
      <4> QED
        BY <2>2, <3>1, <4>1
    <3>2. CASE SweptWalk[Watched] # NoWalk
      <4>1. /\ RemainingPath \in Seq(Floor) /\ RemainingPath # <<>> /\ Len(RemainingPath) > 1
            /\ LastOf(RemainingPath) = Goal(Watched)
        BY <1>1, <2>1, <3>2, RemainingIs
      <4>2. PICK q \in Seq(Floor) : q = RemainingPath
        BY <4>1
      <4>3. Len(q) \in Nat /\ Len(q) > 1
        BY <4>1, <4>2
      <4>4. Len(q) # 1
        BY <4>3
      <4> QED
        BY <3>2, <4>1, <4>2, <4>4
    <3> QED
      BY <3>1, <3>2
  <2>4. PICK type \in {"joined", "left", "moved", "snapshot"} : type = "snapshot"
    OBVIOUS
  <2>5. PICK t \in Tiles \cup {NoTile} : t = Tile(Watched)
    BY <1>1
  <2>6. PICK n \in Messages : n = Message(type, t, q) /\ n.type = type /\ n.at = t /\ n.path = q
    BY MessagesAre
  <2>7. link' = Append(link, n) /\ n.type = "snapshot" /\ n.at = Tile(Watched) /\ n.path = q
    BY <1>2, <1>5, <2>3, <2>4, <2>5, <2>6
  <2>8. Formed(n) /\ Ends(n) = Goal(Watched)
    BY <1>1, <2>3, <2>7 DEF Formed, Ends
  <2>9. (Watched \in present' <=> n.type # "left") /\ Goal(Watched)' = Goal(Watched)
    BY <1>2, <1>3, <1>5, <2>7 DEF Unmoved
  <2>10. direct' \in BOOLEAN /\ missed' \in BOOLEAN
    BY <1>1, <1>2
  <2>11. ViewTypes' /\ Appears' /\ Heads'
    BY <1>1, <1>2, <2>7, <2>8, <2>9, <2>10, Telling
  <2> QED
    BY <1>4, <2>11 DEF WInv
<1>6. CASE Watched \notin present
  <2>1. PICK type \in {"joined", "left", "moved", "snapshot"} : type = "left"
    OBVIOUS
  <2>2. PICK q \in Seq(Floor) : q = <<>>
    <3>1. <<>> \in Seq(Floor)
      OBVIOUS
    <3> QED
      BY <3>1
  <2>3. NoTile \in Tiles \cup {NoTile}
    OBVIOUS
  <2>4. PICK n \in Messages : n = Message(type, NoTile, q) /\ n.type = type /\ n.at = NoTile /\ n.path = q
    BY <2>3, MessagesAre
  <2>5. link' = Append(link, n) /\ n.type = "left"
    BY <1>2, <1>6, <2>1, <2>2, <2>4
  <2>6. Formed(n) /\ (Watched \in present' <=> n.type # "left") /\ Watched \notin present'
    BY <1>2, <1>6, <2>5 DEF Formed
  <2>7. direct' \in BOOLEAN /\ missed' \in BOOLEAN
    BY <1>1, <1>2
  <2>8. ViewTypes' /\ Appears' /\ Heads'
    BY <1>1, <1>2, <2>5, <2>6, <2>7, Telling
  <2> QED
    BY <1>4, <2>8 DEF WInv
<1> QED
  BY <1>5, <1>6

---------------------------------------------------------------------------
(* What the page does with a message.                                      *)

LEMMA RestOfWalk ==
  ASSUME MovementAssumption, ViewAssumption, TypeOK, NoLoops, Walking(Watched)
  PROVE  /\ walk[Watched].path \in Seq(Floor) /\ Len(walk[Watched].path) \in Nat
         /\ Len(walk[Watched].path) > 1 /\ Simple(walk[Watched].path)
         /\ walk[Watched].ticks \in Nat /\ TicksPerTile \in Nat \ {0}
         /\ walk[Watched].ticks \div TicksPerTile \in Nat
         /\ Reached(Watched) \in 1 .. Len(walk[Watched].path)
         /\ ~Arrived(Watched) => Reached(Watched) = walk[Watched].ticks \div TicksPerTile + 1
         /\ Reached(Watched) <= walk[Watched].ticks \div TicksPerTile + 1
<1>1. Watched \in Users
  BY DEF ViewAssumption
<1>2. walk[Watched] \in Walks /\ Len(walk[Watched].path) > 1 /\ Reached(Watched) \in 1 .. Len(walk[Watched].path)
  BY <1>1, OnPath
<1>3. walk[Watched].path \in Seq(Floor) /\ walk[Watched].ticks \in Nat
  BY <1>2 DEF Walks
<1>4. TicksPerTile \in Nat \ {0}
  BY DEF MovementAssumption
<1>5. walk[Watched].ticks \div TicksPerTile \in Nat
  BY <1>3, <1>4, TilesWalked
<1>6. Len(walk[Watched].path) \in Nat
  BY <1>3
<1>7. /\ ~Arrived(Watched) => Reached(Watched) = walk[Watched].ticks \div TicksPerTile + 1
      /\ Reached(Watched) <= walk[Watched].ticks \div TicksPerTile + 1
  BY <1>5, <1>6 DEF Arrived, Reached, Smaller
<1> QED
  BY <1>2, <1>3, <1>4, <1>5, <1>6, <1>7 DEF NoLoops

\* An avatar that is sent the rest of the walk is on its way still.
LEMMA Rerouted ==
  ASSUME MovementAssumption, ViewAssumption, TypeOK, NoLoops, Walking(Watched),
         NEW a \in Avatars, OnItsWay(a), NEW k \in 1 .. Reached(Watched)
  PROVE  OnItsWay(SetPath(a, From(walk[Watched].path, k)))
<1> DEFINE p == walk[Watched].path
           q == From(p, k)
           r == Reached(Watched)
           n == walk[Watched].ticks \div TicksPerTile
           next == UnreachedPath(a, q)
           b == SetPath(a, q)
<1> SUFFICES OnItsWay(b)
  OBVIOUS
<1>1. /\ p \in Seq(Floor) /\ Len(p) \in Nat /\ Len(p) > 1 /\ Simple(p)
      /\ r \in 1 .. Len(p) /\ n \in Nat /\ (~Arrived(Watched) => r = n + 1)
  BY RestOfWalk
<1>2. walk[Watched].ticks \in Nat
  BY RestOfWalk
<1>3. PICK i \in 1 .. r : a.at = p[i]
  BY DEF OnItsWay
<1>4. Idle(a) \/ \E j \in 2 .. Len(p) : Leg(a, j)
  BY DEF OnItsWay
<1>5. /\ a.at \in Tiles /\ a.to \in Tiles \cup {NoTile} /\ a.path \in Seq(Floor) /\ a.ticks \in Nat
      /\ a = [at |-> a.at, to |-> a.to, path |-> a.path, ticks |-> a.ticks]
  BY DEF Avatars
<1>6. NoTile \notin Floor /\ NoAvatar \notin Avatars
  BY DEF ViewAssumption, Tiles
<1>7. k \in 1 .. r
  OBVIOUS
<1>8. /\ b = IF next = <<>> THEN a
             ELSE IF a.to = NoTile THEN [a EXCEPT !.path = next, !.ticks = 0]
             ELSE IF Head(next) = a.to THEN [a EXCEPT !.path = Tail(next)]
             ELSE [a EXCEPT !.to = Head(next), !.path = Tail(next), !.ticks = 0]
      /\ next = IF a.at \in Visited(q) THEN From(q, Index(q, a.at) + 1)
                ELSE IF a.to \in Visited(q) THEN From(q, Index(q, a.to))
                ELSE q
  BY DEF SetPath, UnreachedPath
<1>9. ASSUME NEW c, c # NoAvatar, c.at = a.at, NEW j \in 2 .. Len(p), Leg(c, j)
      PROVE  OnItsWay(c)
  BY <1>3, <1>9 DEF OnItsWay
<1>10. ASSUME NEW c, NEW j \in 2 .. Len(p), j <= r + 1, c.ticks = 0,
              \/ c.to = NoTile /\ c.path = From(p, j)
              \/ c.to = p[j] /\ c.path = From(p, j + 1)
       PROVE  Leg(c, j)
  <2>1. walk[Watched].ticks - 0 = walk[Watched].ticks /\ 0 <= walk[Watched].ticks
    BY <1>2
  <2>2. ~Arrived(Watched) => j - 2 <= n
    BY <1>1, <1>10
  <2>3. Arrived(Watched) \/ (c.ticks <= walk[Watched].ticks
                             /\ j - 2 <= (walk[Watched].ticks - c.ticks) \div TicksPerTile)
    BY <1>10, <2>1, <2>2
  <2> QED
    BY <1>10, <2>3 DEF Leg
<1> HIDE DEF p, r, n, next
<1>11. /\ q \in Seq(Floor) /\ Len(q) = Len(p) - k + 1
       /\ \A x \in 1 .. Len(p) - k + 1 : q[x] = p[k + x - 1]
       /\ q # <<>> /\ Head(q) = p[k] /\ Tail(q) = From(p, k + 1)
       /\ k \in 1 .. Len(p)
  <2>1. k \in 1 .. Len(p) /\ k \in 1 .. Len(p) + 1
    BY <1>1, <1>7
  <2> QED
    BY <1>1, <2>1, FromPath, FromTail DEF q
<1>12. b \in Avatars
  BY <1>11, SetPathGoes
<1>13. b # NoAvatar
  BY <1>6, <1>12
<1> HIDE DEF q, b
<1>14. ASSUME NEW t \in Visited(q)
       PROVE  /\ Index(q, t) \in 1 .. Len(p) - k + 1 /\ k + Index(q, t) - 1 \in k .. Len(p)
              /\ p[k + Index(q, t) - 1] = t
  <2>1. Index(q, t) \in 1 .. Len(q) /\ q[Index(q, t)] = t
    BY <1>11, FirstIndex
  <2>2. Index(q, t) \in 1 .. Len(p) - k + 1
    BY <1>11, <2>1
  <2> DEFINE y == Index(q, t)
  <2>3. y \in 1 .. Len(p) - k + 1 /\ q[y] = t
    BY <2>1, <2>2
  <2> HIDE DEF y
  <2>4. q[y] = p[k + y - 1]
    BY <1>11, <2>3
  <2>5. k + y - 1 \in k .. Len(p)
    BY <1>1, <1>11, <2>3
  <2> QED
    BY <2>3, <2>4, <2>5 DEF y
<1>15. ASSUME NEW u \in 1 .. Len(p), NEW v \in 1 .. Len(p), p[u] = p[v] PROVE u = v
  BY <1>1, <1>15 DEF Simple
<1>16. ASSUME NEW s \in 1 .. Len(p) - k + 2 PROVE From(q, s) = From(p, k + s - 1)
  BY <1>1, <1>11, <1>16, FromFrom DEF q
<1>17. ASSUME NEW j \in 1 .. Len(p)
       PROVE  From(p, j) # <<>> /\ Head(From(p, j)) = p[j] /\ Tail(From(p, j)) = From(p, j + 1) /\ p[j] \in Floor
  BY <1>1, <1>17, FromTail
<1>18. ASSUME NEW j \in 2 .. Len(p), j <= r + 1, next = From(p, j), a.to # p[j]
       PROVE  OnItsWay(b)
  <2>1. /\ next # <<>> /\ Head(next) = p[j] /\ Tail(next) = From(p, j + 1)
    BY <1>1, <1>17, <1>18
  <2>2. CASE a.to = NoTile
    <3>1. b = [a EXCEPT !.path = next, !.ticks = 0]
      BY <1>8, <2>1, <2>2
    <3>2. b = [at |-> a.at, to |-> a.to, path |-> next, ticks |-> 0]
      BY <1>5, <3>1
    <3>3. b.at = a.at /\ b.to = NoTile /\ b.path = From(p, j) /\ b.ticks = 0
      BY <1>18, <2>2, <3>2
    <3>4. Leg(b, j)
      BY <1>10, <1>18, <3>3
    <3> QED
      BY <1>9, <1>13, <3>3, <3>4
  <2>3. CASE a.to # NoTile
    <3> DEFINE h == p[j]
               l == From(p, j + 1)
    <3>1. b = [a EXCEPT !.to = h, !.path = l, !.ticks = 0]
      BY <1>8, <1>18, <2>1, <2>3
    <3> HIDE DEF h, l
    <3>2. b = [at |-> a.at, to |-> h, path |-> l, ticks |-> 0]
      BY <1>5, <3>1
    <3>3. b.at = a.at /\ b.to = p[j] /\ b.path = From(p, j + 1) /\ b.ticks = 0
      BY <3>2 DEF h, l
    <3>4. Leg(b, j)
      BY <1>10, <1>18, <3>3
    <3> QED
      BY <1>9, <1>13, <3>3, <3>4
  <2> QED
    BY <2>2, <2>3
<1>19. ASSUME NEW j \in 2 .. Len(p), a.to = p[j], next = From(p, j)
       PROVE  OnItsWay(b)
  <2>1. /\ next # <<>> /\ Head(next) = a.to /\ Tail(next) = From(p, j + 1) /\ a.to \in Floor
    BY <1>1, <1>17, <1>19
  <2>2. a.to # NoTile /\ ~Idle(a)
    BY <1>6, <2>1 DEF Idle
  <2>3. PICK m \in 2 .. Len(p) : Leg(a, m)
    BY <1>4, <2>2
  <2>4. /\ a.to = p[m] /\ a.path = From(p, m + 1)
        /\ \/ Arrived(Watched)
           \/ /\ a.ticks <= walk[Watched].ticks
              /\ m - 2 <= (walk[Watched].ticks - a.ticks) \div TicksPerTile
    BY <2>2, <2>3 DEF Leg, p
  <2>5. m = j
    <3>1. m \in 1 .. Len(p) /\ j \in 1 .. Len(p) /\ p[m] = p[j]
      BY <1>1, <1>19, <2>4
    <3> QED
      BY <1>15, <3>1
  <2>6. b = [a EXCEPT !.path = Tail(next)]
    BY <1>8, <2>1, <2>2
  <2>7. b = [at |-> a.at, to |-> a.to, path |-> Tail(next), ticks |-> a.ticks]
    BY <1>5, <2>6
  <2>8. b.at = a.at /\ b.to = a.to /\ b.path = From(p, j + 1) /\ b.ticks = a.ticks
    BY <2>1, <2>7
  <2>9. Leg(b, j)
    BY <2>4, <2>5, <2>8 DEF Leg, p
  <2> QED
    BY <1>9, <1>13, <2>8, <2>9
<1>20. ASSUME NEW j \in 2 .. Len(p), j <= r + 1, next = From(p, j) PROVE OnItsWay(b)
  BY <1>18, <1>19, <1>20
<1>21. CASE a.at \in Visited(q)
  <2> DEFINE x == Index(q, a.at)
  <2>1. x \in 1 .. Len(p) - k + 1 /\ k + x - 1 \in k .. Len(p) /\ p[k + x - 1] = p[i]
    BY <1>3, <1>14, <1>21
  <2>2. next = From(q, x + 1)
    BY <1>8, <1>21
  <2> HIDE DEF x
  <2>3. i \in 1 .. Len(p) /\ k + x - 1 \in 1 .. Len(p)
    BY <1>1, <1>3, <1>11, <2>1
  <2>4. k + x - 1 = i
    BY <1>15, <2>1, <2>3
  <2>5. x + 1 \in 1 .. Len(p) - k + 2 /\ k + (x + 1) - 1 = i + 1
    BY <1>1, <1>11, <2>1, <2>4
  <2>6. next = From(p, i + 1)
    BY <1>16, <2>2, <2>5
  <2>7. CASE i = Len(p)
    <3>1. Len(p) \in Nat /\ Len(p) + 1 \in 1 .. Len(p) + 1
      BY <1>1
    <3>2. From(p, Len(p) + 1) \in Seq(Floor) /\ Len(From(p, Len(p) + 1)) = Len(p) - (Len(p) + 1) + 1
      BY <1>1, <3>1, FromPath
    <3>3. Len(From(p, Len(p) + 1)) = 0
      BY <1>1, <3>2
    <3>4. next = <<>>
      BY <2>6, <2>7, <3>2, <3>3
    <3>5. b = a
      BY <1>8, <3>4
    <3> QED
      BY <3>5
  <2>8. CASE i # Len(p)
    <3>1. i + 1 \in 2 .. Len(p) /\ i + 1 <= r + 1
      BY <1>1, <1>3, <2>8
    <3> QED
      BY <1>20, <2>6, <3>1
  <2> QED
    BY <2>7, <2>8
<1>22. CASE a.at \notin Visited(q) /\ a.to \in Visited(q)
  <2> DEFINE x == Index(q, a.to)
  <2>1. x \in 1 .. Len(p) - k + 1 /\ k + x - 1 \in k .. Len(p) /\ p[k + x - 1] = a.to
    BY <1>14, <1>22
  <2>2. next = From(q, x)
    BY <1>8, <1>22
  <2> HIDE DEF x
  <2>3. x \in 1 .. Len(p) - k + 2 /\ k + x - 1 \in 1 .. Len(p)
    BY <1>1, <1>11, <2>1
  <2>4. next = From(p, k + x - 1)
    BY <1>16, <2>2, <2>3
  <2>5. a.to \in Floor
    BY <1>17, <2>1, <2>3
  <2>6. ~Idle(a) /\ a.to # NoTile
    BY <1>6, <2>5 DEF Idle
  <2>7. PICK m \in 2 .. Len(p) : Leg(a, m)
    BY <1>4, <2>6
  <2>8. a.to = p[m]
    BY <2>6, <2>7 DEF Leg, p
  <2>9. m = k + x - 1
    BY <1>1, <1>15, <2>1, <2>3, <2>8
  <2> QED
    BY <1>19, <2>4, <2>8, <2>9
<1>23. CASE a.at \notin Visited(q) /\ a.to \notin Visited(q)
  <2>1. next = From(p, k)
    BY <1>8, <1>23 DEF q
  <2>2. ASSUME i >= k PROVE FALSE
    <3>1. i - k + 1 \in 1 .. Len(q) /\ i - k + 1 \in 1 .. Len(p) - k + 1
      BY <1>1, <1>3, <1>11, <2>2
    <3>2. q[i - k + 1] = p[k + (i - k + 1) - 1] /\ k + (i - k + 1) - 1 = i
      BY <1>3, <1>11, <3>1
    <3>3. q[i - k + 1] \in Visited(q)
      BY <1>11, <3>1 DEF Visited
    <3> QED
      BY <1>3, <1>23, <3>2, <3>3
  <2>3. k \in 2 .. Len(p) /\ k <= r + 1
    BY <1>1, <1>3, <1>7, <1>11, <2>2
  <2> QED
    BY <1>20, <2>1, <2>3
<1> QED
  BY <1>21, <1>22, <1>23

\* A message leaves the avatar it announces, headed where it says.
LEMMA ShownIs ==
  ASSUME ViewAssumption, ViewTypes, Appears, link # <<>>, HandleServerMessage
  PROVE  /\ avatar' \in Avatars \cup {NoAvatar} /\ missed' \in BOOLEAN
         /\ avatar' # NoAvatar <=> link[1].type # "left"
         /\ avatar' # NoAvatar => missed' \/ Destination(avatar') = Ends(link[1])
<1> DEFINE m == link[1]
<1>1. /\ m \in Messages /\ Formed(m) /\ Head(link) = m /\ (m.type = "moved" => avatar # NoAvatar)
      /\ 1 \in 1 .. Len(link)
  <2>1. link \in Seq(Messages) /\ 1 \in 1 .. Len(link) /\ Head(link) = link[1]
    BY DEF ViewTypes
  <2> QED
    BY <2>1 DEF ViewTypes, Appears
<1>2. /\ m.type \in {"joined", "left", "moved", "snapshot"}
      /\ m.at \in Tiles \cup {NoTile} /\ m.path \in Seq(Floor)
  BY <1>1 DEF Messages
<1>3. /\ m.type \in {"joined", "snapshot"} => m.at \in Tiles
      /\ m.type = "joined" => m.path = <<>>
      /\ m.type = "snapshot" => Len(m.path) # 1
      /\ m.type = "moved" => m.path # <<>>
  BY <1>1 DEF Formed
<1>4. /\ avatar' = Shown(m)
      /\ missed' = (/\ m.type = "moved" /\ avatar # NoAvatar
                    /\ ~Idle(avatar) /\ UnreachedPath(avatar, m.path) = <<>>)
  BY <1>1 DEF HandleServerMessage
<1>5. missed' \in BOOLEAN
  BY <1>4
<1>6. NoAvatar \notin Avatars
  BY DEF ViewAssumption
<1> HIDE DEF m
<1>7. ASSUME NEW t \in Tiles
      PROVE  At(t) \in Avatars /\ Destination(At(t)) = t /\ Idle(At(t))
  BY DEF At, Avatars, Destination, Idle
<1>8. CASE m.type = "left"
  <2>1. Shown(m) = NoAvatar
    BY <1>8 DEF Shown
  <2> QED
    BY <1>4, <1>5, <1>8, <2>1 DEF m
<1>9. CASE m.type = "joined"
  <2>1. avatar' = At(m.at) /\ m.at \in Tiles /\ m.path = <<>>
    BY <1>3, <1>4, <1>9 DEF Shown
  <2>2. Destination(avatar') = Ends(m)
    BY <1>7, <2>1 DEF Ends
  <2> QED
    BY <1>5, <1>6, <1>7, <1>9, <2>1, <2>2 DEF m
<1>10. CASE m.type = "snapshot"
  <2>1. m.at \in Tiles /\ Len(m.path) # 1
    BY <1>3, <1>10
  <2>2. CASE Len(m.path) > 1
    <3>1. avatar' = SetPath(At(m.at), m.path)
      BY <1>4, <1>10, <2>2 DEF Shown
    <3>2. m.path # <<>>
      BY <2>2
    <3>3. avatar' \in Avatars /\ Destination(avatar') = LastOf(m.path)
      BY <1>2, <1>7, <2>1, <3>1, <3>2, SetPathGoes
    <3> QED
      BY <1>5, <1>6, <1>10, <3>2, <3>3 DEF m, Ends
  <2>3. CASE ~(Len(m.path) > 1)
    <3>1. avatar' = At(m.at)
      BY <1>4, <1>10, <2>3 DEF Shown
    <3>2. PICK n \in Nat : n = Len(m.path)
      BY <1>2
    <3>3. Len(m.path) = 0
      <4>1. n # 1 /\ ~(n > 1)
        BY <2>1, <2>3, <3>2
      <4>2. n = 0
        BY <4>1
      <4> QED
        BY <3>2, <4>2
    <3>4. m.path = <<>>
      BY <1>2, <3>3
    <3>5. Destination(avatar') = Ends(m)
      BY <1>7, <2>1, <3>1, <3>4 DEF Ends
    <3> QED
      BY <1>5, <1>6, <1>7, <1>10, <2>1, <3>1, <3>5 DEF m
  <2> QED
    BY <2>2, <2>3
<1>11. CASE m.type = "moved"
  <2>1. avatar # NoAvatar /\ avatar \in Avatars /\ m.path # <<>>
    BY <1>1, <1>3, <1>11 DEF ViewTypes, m
  <2>2. avatar' = SetPath(avatar, m.path)
    BY <1>4, <1>11, <2>1 DEF Shown
  <2>3. PICK a \in Avatars : a = avatar
    BY <2>1
  <2>4. /\ SetPath(a, m.path) \in Avatars
        /\ \/ Destination(SetPath(a, m.path)) = LastOf(m.path)
           \/ ~Idle(a) /\ UnreachedPath(a, m.path) = <<>>
    BY <1>2, <2>1, SetPathGoes
  <2>5. avatar' = SetPath(a, m.path)
    BY <2>2, <2>3
  <2>6. missed' \/ Destination(avatar') = Ends(m)
    BY <1>4, <1>11, <2>1, <2>3, <2>4, <2>5 DEF Ends
  <2> QED
    BY <1>5, <1>6, <1>11, <2>4, <2>5, <2>6 DEF m
<1> QED
  BY <1>2, <1>8, <1>9, <1>10, <1>11

LEMMA HandleServerMessageInv ==
  ASSUME MovementAssumption, ViewAssumption, MInv, WInv, HandleServerMessage
  PROVE  WInv'
<1>1. /\ TypeOK /\ ViewTypes /\ Appears /\ GoalIsTold /\ Heads /\ NoLoops /\ Trails
      /\ link \in Seq(Messages) /\ watching \in BOOLEAN /\ direct \in BOOLEAN
  BY DEF MInv, WInv, ViewTypes
<1>2. /\ link # <<>> /\ link' = Tail(link) /\ UNCHANGED <<vars, watching, direct>>
      /\ UNCHANGED <<present, pos, walk, items, shown>>
  BY DEF HandleServerMessage, vars
<1>3. /\ avatar' \in Avatars \cup {NoAvatar} /\ missed' \in BOOLEAN
      /\ avatar' # NoAvatar <=> link[1].type # "left"
      /\ avatar' # NoAvatar => missed' \/ Destination(avatar') = Ends(link[1])
  BY <1>1, <1>2, ShownIs
<1>4. /\ link' \in Seq(Messages) /\ Len(link') = Len(link) - 1
      /\ \A j \in 1 .. Len(link') : link'[j] = link[j + 1]
  BY <1>1, <1>2, HeadTailProperties
<1>5. Len(link) \in Nat /\ Len(link) >= 1
  BY <1>1, <1>2
<1>6. Unmoved
  BY <1>2 DEF Unmoved, Goal, Walking
<1>7. GoalIsTold' /\ NoLoops'
  BY <1>1, <1>6, UnmovedKeeps
<1>8. \A j \in 1 .. Len(link') : j + 1 \in 1 .. Len(link)
  BY <1>4, <1>5
<1>9. ViewTypes'
  <2>1. \A j \in 1 .. Len(link') : Formed(link'[j])
    BY <1>1, <1>4, <1>8 DEF ViewTypes
  <2> QED
    BY <1>1, <1>2, <1>3, <1>4, <2>1 DEF ViewTypes, Formed, Avatars, Tiles, Messages
<1>10. watching
  BY <1>1, <1>2 DEF Appears
<1>11. Watched \in present <=> link[Len(link)].type # "left"
  BY <1>1, <1>2, <1>10 DEF Appears
<1>12. ASSUME link' = <<>> PROVE Appears' /\ Heads'
  <2>1. Len(link') = 0
    BY <1>12
  <2>2. Len(link) = 1 /\ 1 .. Len(link') = {}
    <3>1. Len(link') = Len(link) - 1
      BY <1>4
    <3>2. Len(link) = 1
      BY <1>5, <2>1, <3>1
    <3>3. 1 .. Len(link') = {}
      BY <2>1
    <3> QED
      BY <3>2, <3>3
  <2>3. Appears'
    BY <1>2, <1>3, <1>10, <1>11, <1>12, <2>2 DEF Appears
  <2>4. Heads'
    <3> SUFFICES ASSUME Watched \in present, shown[Watched] = Goal(Watched)
                 PROVE  missed' \/ Destination(avatar') = Goal(Watched)
      BY <1>2, <1>12 DEF Heads, Goal, Walking
    <3>1. Ends(link[Len(link)]) = Goal(Watched)
      BY <1>1, <1>2, <1>10 DEF Heads
    <3> QED
      BY <1>3, <1>11, <2>2, <3>1
  <2> QED
    BY <2>3, <2>4
<1>13. ASSUME link' # <<>> PROVE Appears' /\ Heads'
  <2>1. Len(link') \in Nat /\ Len(link') >= 1
    BY <1>4, <1>13
  <2>2. link'[Len(link')] = link[Len(link)]
    <3>1. Len(link') \in 1 .. Len(link') /\ Len(link') + 1 = Len(link)
      BY <1>4, <1>5, <2>1
    <3> QED
      BY <1>4, <3>1
  <2>3. ASSUME NEW j \in 1 .. Len(link'), link'[j].type = "moved"
        PROVE  IF j = 1 THEN avatar' # NoAvatar ELSE link'[j - 1].type # "left"
    <3>1. link[j + 1].type = "moved" /\ j + 1 \in 1 .. Len(link) /\ j + 1 # 1 /\ (j + 1) - 1 = j
      BY <1>4, <1>8, <2>3
    <3>2. link[(j + 1) - 1].type # "left"
      BY <1>1, <3>1 DEF Appears
    <3>3. link[j].type # "left"
      BY <3>1, <3>2
    <3>4. CASE j = 1
      BY <1>3, <3>3, <3>4
    <3>5. CASE j # 1
      <4>1. j - 1 \in 1 .. Len(link') /\ (j - 1) + 1 = j
        BY <2>1, <3>5
      <4>2. link'[j - 1] = link[j]
        BY <1>4, <4>1
      <4> QED
        BY <3>3, <3>5, <4>2
    <3> QED
      BY <3>4, <3>5
  <2>4. Appears'
    <3>1. Watched \in present' <=> link'[Len(link')].type # "left"
      BY <1>2, <1>11, <2>2
    <3> QED
      BY <1>2, <1>10, <1>13, <2>3, <3>1 DEF Appears
  <2>5. Heads'
    <3> SUFFICES ASSUME Watched \in present, shown[Watched] = Goal(Watched)
                 PROVE  Ends(link'[Len(link')]) = Goal(Watched)
      BY <1>2, <1>13 DEF Heads, Goal, Walking, Ends
    <3> QED
      BY <1>1, <1>2, <1>10, <2>2 DEF Heads
  <2> QED
    BY <2>4, <2>5
<1>14. Trails'
  <2> SUFFICES ASSUME direct, Walking(Watched)
               PROVE  /\ OnItsWay(avatar)'
                      /\ \A j \in 1 .. Len(link') :
                           /\ link'[j].type = "moved"
                           /\ \E k \in 1 .. Reached(Watched) : link'[j].path = From(walk[Watched].path, k)
    BY <1>2 DEF Trails, Walking, Reached
  <2>1. /\ OnItsWay(avatar)
        /\ \A j \in 1 .. Len(link) :
             /\ link[j].type = "moved"
             /\ \E k \in 1 .. Reached(Watched) : link[j].path = From(walk[Watched].path, k)
    BY <1>1 DEF Trails
  <2>2. \A j \in 1 .. Len(link') :
          /\ link'[j].type = "moved"
          /\ \E k \in 1 .. Reached(Watched) : link'[j].path = From(walk[Watched].path, k)
    <3> SUFFICES ASSUME NEW j \in 1 .. Len(link')
                 PROVE  /\ link'[j].type = "moved"
                        /\ \E k \in 1 .. Reached(Watched) : link'[j].path = From(walk[Watched].path, k)
      OBVIOUS
    <3>1. j + 1 \in 1 .. Len(link)
      BY <1>8
    <3>2. link'[j] = link[j + 1]
      BY <1>4
    <3> QED
      BY <2>1, <3>1, <3>2
  <2>3. 1 \in 1 .. Len(link)
    BY <1>5
  <2>4. PICK k \in 1 .. Reached(Watched) : link[1].path = From(walk[Watched].path, k)
    BY <2>1, <2>3
  <2>5. link[1].type = "moved"
    BY <2>1, <2>3
  <2>6. PICK a \in Avatars : a = avatar
    <3>1. avatar \in Avatars \cup {NoAvatar} /\ avatar # NoAvatar
      BY <1>1, <2>1 DEF ViewTypes, OnItsWay
    <3> QED
      BY <3>1
  <2>7. OnItsWay(a)
    BY <2>1, <2>6
  <2>8. PICK b : b = SetPath(a, From(walk[Watched].path, k))
    OBVIOUS
  <2>9. OnItsWay(b)
    BY <1>1, <2>7, <2>8, Rerouted
  <2>10. avatar' = b
    <3>1. a # NoAvatar
      BY <2>7 DEF OnItsWay
    <3>2. Head(link) = link[1]
      BY <1>1, <1>2
    <3>3. avatar' = Shown(link[1])
      BY <3>2 DEF HandleServerMessage
    <3>4. Shown(link[1]) = SetPath(avatar, link[1].path)
      BY <2>5, <2>6, <3>1 DEF Shown
    <3> QED
      BY <2>4, <2>6, <2>8, <3>3, <3>4
  <2>11. OnItsWay(b)'
    BY <1>2, <2>9, SameWalk
  <2>12. OnItsWay(avatar)'
    BY <2>10, <2>11 DEF OnItsWay, Leg, Idle
  <2> QED
    BY <2>2, <2>12
<1> QED
  BY <1>7, <1>9, <1>12, <1>13, <1>14 DEF WInv

---------------------------------------------------------------------------
(* Time.                                                                   *)

\* After a tile's time the clock is a tile further.
LEMMA NextTile ==
  ASSUME NEW d \in Nat \ {0}, NEW n \in Nat, NEW k \in 0 .. n, k + 1 >= d
  PROVE  (n + 1) \div d >= (n - k) \div d + 1
<1>1. (n + 1) - d \in Nat /\ n - k \in Nat /\ n - k <= (n + 1) - d
  OBVIOUS
<1>2. \A x, y \in Nat : x <= y => x \div d <= y \div d
  OBVIOUS
<1>3. \A x \in Nat : (x + d) \div d = x \div d + 1
  OBVIOUS
<1>4. ((n + 1) - d) + d = n + 1
  OBVIOUS
<1>5. (n + 1) \div d = ((n + 1) - d) \div d + 1
  BY <1>1, <1>3, <1>4
<1>6. (n - k) \div d <= ((n + 1) - d) \div d
  BY <1>1, <1>2
<1>7. (n - k) \div d \in Int /\ ((n + 1) - d) \div d \in Int
  OBVIOUS
<1> QED
  BY <1>5, <1>6, <1>7

LEMMA TickIs ==
  ASSUME MovementAssumption, ViewAssumption, TypeOK, NoLoops, Walking(Watched), Tick
  PROVE  /\ Walking(Watched)' /\ walk'[Watched].path = walk[Watched].path
         /\ walk'[Watched].ticks = IF Arrived(Watched) THEN walk[Watched].ticks ELSE walk[Watched].ticks + 1
         /\ Reached(Watched)' \in Nat /\ Reached(Watched)' >= Reached(Watched)
         /\ Arrived(Watched) => walk'[Watched] = walk[Watched] /\ Arrived(Watched)'
<1>1. Watched \in Users /\ walk[Watched] \in Walks
  BY OnPath DEF ViewAssumption
<1>2. /\ walk[Watched].path \in Seq(Floor) /\ Len(walk[Watched].path) \in Nat
      /\ walk[Watched].ticks \in Nat /\ TicksPerTile \in Nat \ {0}
      /\ Reached(Watched) \in 1 .. Len(walk[Watched].path)
  BY RestOfWalk
<1>3. CASE Arrived(Watched)
  <2>1. walk'[Watched] = walk[Watched]
    BY <1>1, <1>3 DEF Tick
  <2>2. Walking(Watched)' /\ Arrived(Watched)' /\ Reached(Watched)' = Reached(Watched)
    BY <1>3, <2>1 DEF Walking, Arrived, Reached
  <2> QED
    BY <1>2, <1>3, <2>1, <2>2
<1>4. CASE ~Arrived(Watched)
  <2> DEFINE t == walk[Watched].ticks
             p == walk[Watched].path
  <2>1. walk'[Watched] = [path |-> p, ticks |-> t + 1]
    BY <1>1, <1>4 DEF Tick, Walks
  <2>2. walk'[Watched] \in Walks
    BY <1>2, <2>1 DEF Walks
  <2>3. walk'[Watched] # NoWalk
    BY <2>2 DEF MovementAssumption
  <2>4. walk'[Watched].path = p /\ walk'[Watched].ticks = t + 1
    BY <2>1
  <2>5. t \div TicksPerTile \in Nat /\ (t + 1) \div TicksPerTile >= t \div TicksPerTile
        /\ (t + 1) \div TicksPerTile \in Nat
    <3>1. t \in Nat /\ t + 1 \in Nat
      BY <1>2
    <3> QED
      BY <1>2, <3>1, TilesWalked
  <2>6. Reached(Watched)' = Smaller(Len(p), (t + 1) \div TicksPerTile + 1)
    BY <2>4 DEF Reached
  <2>7. Reached(Watched) = Smaller(Len(p), t \div TicksPerTile + 1)
    BY DEF Reached
  <2> HIDE DEF t, p
  <2>8. Len(p) \in Nat
    BY <1>2 DEF p
  <2>9. Reached(Watched)' \in Nat /\ Reached(Watched)' >= Reached(Watched)
    BY <2>5, <2>6, <2>7, <2>8 DEF Smaller
  <2> QED
    BY <1>4, <2>3, <2>4, <2>9 DEF Walking, t, p
<1> QED
  BY <1>3, <1>4

\* The clock alone leaves the avatar behind.
LEMMA ClockOnWay ==
  ASSUME MovementAssumption, ViewAssumption, TypeOK, NoLoops, Walking(Watched), Tick,
         NEW a \in Avatars, OnItsWay(a)
  PROVE  OnItsWay(a)'
<1>1. /\ walk'[Watched].path = walk[Watched].path
      /\ walk'[Watched].ticks = IF Arrived(Watched) THEN walk[Watched].ticks ELSE walk[Watched].ticks + 1
      /\ Reached(Watched)' \in Nat /\ Reached(Watched)' >= Reached(Watched)
      /\ Arrived(Watched) => Arrived(Watched)'
  BY TickIs
<1>2. /\ walk[Watched].ticks \in Nat /\ TicksPerTile \in Nat \ {0} /\ Len(walk[Watched].path) \in Nat
      /\ Reached(Watched) \in 1 .. Len(walk[Watched].path)
  BY RestOfWalk
<1>3. ASSUME NEW j \in 2 .. Len(walk[Watched].path), Leg(a, j) PROVE Leg(a, j)'
  <2> DEFINE t == walk[Watched].ticks
  <2>1. /\ \/ a.to = NoTile /\ a.path = From(walk[Watched].path, j) /\ a.ticks = 0
           \/ a.to = walk[Watched].path[j] /\ a.path = From(walk[Watched].path, j + 1)
        /\ \/ Arrived(Watched)
           \/ a.ticks <= t /\ j - 2 <= (t - a.ticks) \div TicksPerTile
    BY <1>3 DEF Leg
  <2>2. a.ticks \in Nat
    BY DEF Avatars
  <2>3. CASE ~Arrived(Watched)
    <3>1. walk'[Watched].ticks = t + 1 /\ t \in Nat /\ a.ticks <= t
      BY <1>1, <1>2, <2>1, <2>3
    <3> HIDE DEF t
    <3>2. t - a.ticks \in Nat /\ (t - a.ticks) + 1 = (t + 1) - a.ticks /\ a.ticks <= t + 1
      BY <2>2, <3>1
    <3>3. ((t - a.ticks) + 1) \div TicksPerTile >= (t - a.ticks) \div TicksPerTile
      BY <1>2, <3>2, TilesWalked
    <3>4. (t - a.ticks) \div TicksPerTile \in Nat /\ ((t - a.ticks) + 1) \div TicksPerTile \in Nat
      <4>1. PICK x \in Nat : x = t - a.ticks
        BY <3>2
      <4>2. x + 1 \in Nat /\ x \div TicksPerTile \in Nat
        BY <1>2, TilesWalked
      <4>3. (x + 1) \div TicksPerTile \in Nat
        BY <1>2, <4>2, TilesWalked
      <4> QED
        BY <4>1, <4>2, <4>3
    <3>5. j - 2 <= ((t + 1) - a.ticks) \div TicksPerTile
      <4>1. j - 2 <= (t - a.ticks) \div TicksPerTile
        BY <2>1, <2>3 DEF t
      <4>2. j - 2 <= ((t - a.ticks) + 1) \div TicksPerTile
        BY <3>3, <3>4, <4>1
      <4> QED
        BY <3>2, <4>2
    <3> QED
      BY <1>1, <2>1, <3>1, <3>2, <3>5 DEF Leg
  <2>4. CASE Arrived(Watched)
    BY <1>1, <2>1, <2>4 DEF Leg
  <2> QED
    BY <2>3, <2>4
<1>4. \E i \in 1 .. Reached(Watched)' : a.at = walk'[Watched].path[i]
  <2>1. PICK i \in 1 .. Reached(Watched) : a.at = walk[Watched].path[i]
    BY DEF OnItsWay
  <2>2. i \in 1 .. Reached(Watched)'
    BY <1>1, <1>2
  <2> QED
    BY <1>1, <2>1, <2>2
<1> QED
  BY <1>1, <1>3, <1>4 DEF OnItsWay, Idle

\* A frame takes the avatar no further than the clock takes the Room.
LEMMA UpdateOnWay ==
  ASSUME MovementAssumption, ViewAssumption, TypeOK, NoLoops, Walking(Watched),
         Tick \/ (UNCHANGED walk /\ Arrived(Watched)),
         NEW a \in Avatars, OnItsWay(a), NEW b, b = Update(a)
  PROVE  OnItsWay(b)'
<1> DEFINE p == walk[Watched].path
           t == walk[Watched].ticks
           T == TicksPerTile
           w == BeginSegment(a)
           r == Reached(Watched)
           s == Reached(Watched)'
           arr == Arrived(Watched)
           arr2 == Arrived(Watched)'
<1>1. /\ p \in Seq(Floor) /\ Len(p) \in Nat /\ Len(p) > 1 /\ t \in Nat /\ T \in Nat \ {0}
      /\ r \in 1 .. Len(p) /\ (~arr => r = t \div T + 1)
  BY RestOfWalk
<1>2. /\ Walking(Watched)' /\ walk'[Watched].path = p /\ s \in Nat /\ s >= r
      /\ walk'[Watched].ticks = IF arr THEN t ELSE t + 1
      /\ arr => arr2
  <2>1. CASE Tick
    BY <2>1, TickIs
  <2>2. CASE UNCHANGED walk /\ Arrived(Watched)
    BY <1>1, <2>2 DEF Walking, Reached, Arrived
  <2> QED
    BY <2>1, <2>2
<1>3. s = Smaller(Len(p), walk'[Watched].ticks \div T + 1)
  BY <1>2 DEF Reached
<1>4. arr => s = Len(p)
  <2>1. arr2 => s = Len(p)
    BY <1>2 DEF Arrived
  <2> QED
    BY <1>2, <2>1
<1>5. /\ a.at \in Tiles /\ a.to \in Tiles \cup {NoTile} /\ a.path \in Seq(Floor) /\ a.ticks \in Nat
      /\ a = [at |-> a.at, to |-> a.to, path |-> a.path, ticks |-> a.ticks]
      /\ a # NoAvatar
  BY DEF Avatars, OnItsWay
<1>6. NoTile \notin Floor /\ NoAvatar \notin Avatars
  BY DEF ViewAssumption, Tiles
<1>7. b \in Avatars /\ b # NoAvatar
  BY <1>6, UpdateGoesOn
<1>8. PICK i \in 1 .. r : a.at = p[i]
  BY DEF OnItsWay
<1>9. i \in 1 .. s
  BY <1>1, <1>2
<1>10. Idle(a) \/ \E j \in 2 .. Len(p) : Leg(a, j)
  BY DEF OnItsWay
<1>11. w = IF a.to # NoTile \/ a.path = <<>> THEN a
           ELSE [a EXCEPT !.to = Head(a.path), !.path = Tail(a.path), !.ticks = 0]
  BY DEF BeginSegment
<1>12. b = IF w.to = NoTile THEN w
           ELSE IF w.ticks + 1 < T THEN [w EXCEPT !.ticks = @ + 1]
           ELSE [w EXCEPT !.at = w.to, !.to = NoTile, !.ticks = 0]
  BY DEF Update
<1>13. ASSUME NEW x \in 1 .. s, b.at = p[x],
              Idle(b) \/ \E j \in 2 .. Len(p) : Leg(b, j)'
       PROVE  OnItsWay(b)'
  BY <1>2, <1>7, <1>13 DEF OnItsWay, Idle
<1>14. ASSUME NEW j, Leg(a, j)
       PROVE  /\ \/ a.to = NoTile /\ a.path = From(p, j) /\ a.ticks = 0
                 \/ a.to = p[j] /\ a.path = From(p, j + 1)
              /\ ~arr => a.ticks <= t /\ j - 2 <= (t - a.ticks) \div T
  BY <1>14 DEF Leg
<1>15. ASSUME NEW j, NEW k \in Nat, b.ticks = k,
              \/ b.to = NoTile /\ b.path = From(p, j) /\ k = 0
              \/ b.to = p[j] /\ b.path = From(p, j + 1),
              ~arr => k <= t + 1 /\ j - 2 <= ((t + 1) - k) \div T
       PROVE  Leg(b, j)'
  <2>1. CASE arr
    BY <1>2, <1>15, <2>1 DEF Leg
  <2>2. CASE ~arr
    <3>1. walk'[Watched].ticks = t + 1
      BY <1>2, <2>2
    <3>2. /\ b.ticks <= walk'[Watched].ticks
          /\ j - 2 <= (walk'[Watched].ticks - b.ticks) \div TicksPerTile
      BY <1>15, <2>2, <3>1
    <3> QED
      BY <1>2, <1>15, <3>2 DEF Leg
  <2> QED
    BY <2>1, <2>2
<1>16. CASE Idle(a)
  <2>1. a.to = NoTile /\ a.path = <<>>
    BY <1>16 DEF Idle
  <2>2. b = a
    BY <1>11, <1>12, <2>1
  <2> QED
    BY <1>8, <1>9, <1>13, <1>16, <2>2
<1> HIDE DEF p, t, T, w, r, s, arr, arr2
<1>17. ASSUME NEW j \in 2 .. Len(p), Leg(a, j), ~Idle(a)
       PROVE  OnItsWay(b)'
  <2>1. /\ \/ a.to = NoTile /\ a.path = From(p, j) /\ a.ticks = 0
           \/ a.to = p[j] /\ a.path = From(p, j + 1)
        /\ ~arr => a.ticks <= t /\ j - 2 <= (t - a.ticks) \div T
    BY <1>14, <1>17
  <2>2. /\ From(p, j) # <<>> /\ Head(From(p, j)) = p[j] /\ Tail(From(p, j)) = From(p, j + 1)
        /\ p[j] \in Floor /\ j \in 1 .. Len(p)
    <3>1. j \in 1 .. Len(p)
      BY <1>1
    <3> QED
      BY <1>1, <3>1, FromTail
  <2>3. w = [at |-> a.at, to |-> p[j], path |-> From(p, j + 1), ticks |-> a.ticks]
    <3>1. CASE a.to = NoTile
      <4>1. a.path = From(p, j) /\ a.ticks = 0
        BY <1>6, <2>1, <2>2, <3>1
      <4> DEFINE h == p[j]
                 l == From(p, j + 1)
      <4>2. w = [a EXCEPT !.to = h, !.path = l, !.ticks = 0]
        BY <1>11, <2>2, <3>1, <4>1
      <4> HIDE DEF h, l
      <4>3. w = [at |-> a.at, to |-> h, path |-> l, ticks |-> 0]
        BY <1>5, <4>2
      <4> QED
        BY <4>1, <4>3 DEF h, l
    <3>2. CASE a.to # NoTile
      BY <1>5, <1>11, <2>1, <3>2
    <3> QED
      BY <3>1, <3>2
  <2>4. PICK q \in Nat : q = a.ticks
    BY <1>5
  <2>5. w.at = a.at /\ w.to = p[j] /\ w.path = From(p, j + 1) /\ w.ticks = q /\ w.to # NoTile
    BY <1>6, <2>2, <2>3, <2>4
  <2>6. CASE q + 1 < T
    <3>1. b = [w EXCEPT !.ticks = @ + 1]
      BY <1>12, <2>5, <2>6
    <3>2. b = [at |-> a.at, to |-> p[j], path |-> From(p, j + 1), ticks |-> q + 1]
      BY <2>3, <2>4, <3>1
    <3>3. b.at = p[i] /\ b.to = p[j] /\ b.path = From(p, j + 1) /\ b.ticks = q + 1
      BY <1>8, <3>2
    <3>4. ~arr => q + 1 <= t + 1 /\ j - 2 <= ((t + 1) - (q + 1)) \div T
      <4>1. (t + 1) - (q + 1) = t - q
        BY <1>1
      <4>2. q <= t => q + 1 <= t + 1
        BY <1>1
      <4> QED
        BY <2>1, <2>4, <4>1, <4>2
    <3>5. q + 1 \in Nat
      OBVIOUS
    <3>6. Leg(b, j)'
      BY <1>15, <3>3, <3>4, <3>5
    <3> QED
      BY <1>9, <1>13, <1>17, <3>3, <3>6
  <2>7. CASE ~(q + 1 < T)
    <3> DEFINE h == p[j]
               l == From(p, j + 1)
    <3>1. w = [at |-> a.at, to |-> h, path |-> l, ticks |-> q] /\ w.to = h
      BY <2>3, <2>4, <2>5
    <3>2. b = [w EXCEPT !.at = h, !.to = NoTile, !.ticks = 0]
      BY <1>12, <2>5, <2>7
    <3> HIDE DEF h, l
    <3>3. b = [at |-> h, to |-> NoTile, path |-> l, ticks |-> 0]
      <4> DEFINE c == [w EXCEPT !.at = h]
      <4>1. c = [at |-> h, to |-> h, path |-> l, ticks |-> q]
        BY <3>1
      <4>2. b = [c EXCEPT !.to = NoTile, !.ticks = 0]
        BY <3>2
      <4> HIDE DEF c
      <4> DEFINE d == [c EXCEPT !.to = NoTile]
      <4>3. d = [at |-> h, to |-> NoTile, path |-> l, ticks |-> q]
        BY <4>1
      <4>4. b = [d EXCEPT !.ticks = 0]
        BY <4>2
      <4> HIDE DEF d
      <4> QED
        BY <4>3, <4>4
    <3>4. b.at = p[j] /\ b.to = NoTile /\ b.path = From(p, j + 1) /\ b.ticks = 0
      BY <3>3 DEF h, l
    <3>5. ~arr => j - 1 <= (t + 1) \div T /\ (t + 1) \div T \in Nat
      <4> SUFFICES ASSUME ~arr PROVE j - 1 <= (t + 1) \div T /\ (t + 1) \div T \in Nat
        OBVIOUS
      <4>1. q \in 0 .. t /\ q + 1 >= T /\ j - 2 <= (t - q) \div T
        BY <1>1, <2>1, <2>4, <2>7
      <4>2. (t + 1) \div T >= (t - q) \div T + 1
        BY <1>1, <4>1, NextTile
      <4>3. t + 1 \in Nat /\ t - q \in Nat
        BY <1>1, <4>1
      <4>4. (t + 1) \div T \in Nat /\ (t - q) \div T \in Nat
        BY <1>1, <4>3, TilesWalked
      <4> QED
        BY <1>1, <4>1, <4>2, <4>4
    <3>6. j \in 1 .. s
      <4>1. CASE arr
        BY <1>1, <1>4, <4>1
      <4>2. CASE ~arr
        <5>1. s = Smaller(Len(p), (t + 1) \div T + 1)
          BY <1>2, <1>3, <4>2
        <5> QED
          BY <1>1, <3>5, <4>2, <5>1 DEF Smaller
      <4> QED
        BY <4>1, <4>2
    <3>7. CASE j = Len(p)
      <4>1. j + 1 \in 1 .. Len(p) + 1
        BY <1>1
      <4>2. From(p, j + 1) \in Seq(Floor) /\ Len(From(p, j + 1)) = Len(p) - (j + 1) + 1
        BY <1>1, <4>1, FromPath
      <4>3. Len(From(p, j + 1)) = 0
        BY <1>1, <3>7, <4>2
      <4>4. From(p, j + 1) = <<>>
        BY <4>2, <4>3
      <4>5. Idle(b)
        BY <3>4, <4>4 DEF Idle
      <4> QED
        BY <1>13, <3>4, <3>6, <4>5
    <3>8. CASE j # Len(p)
      <4>1. j + 1 \in 2 .. Len(p) /\ (j + 1) - 2 = j - 1 /\ (t + 1) - 0 = t + 1 /\ 0 <= t + 1
        BY <1>1, <3>8
      <4>2. ~arr => 0 <= t + 1 /\ (j + 1) - 2 <= ((t + 1) - 0) \div T
        BY <3>5, <4>1
      <4>3. Leg(b, j + 1)'
        BY <1>15, <3>4, <4>2
      <4> QED
        BY <1>13, <3>4, <3>6, <4>1, <4>3
    <3> QED
      BY <3>7, <3>8
  <2> QED
    BY <2>6, <2>7
<1> QED
  BY <1>10, <1>16, <1>17

LEMMA TimeInv ==
  ASSUME MovementAssumption, ViewAssumption, MInv, WInv, Time
  PROVE  WInv'
<1>1. /\ Watched \in Users /\ TypeOK /\ ViewTypes /\ Appears /\ GoalIsTold /\ Heads /\ NoLoops /\ Trails
  BY DEF ViewAssumption, MInv, WInv
<1>2. /\ UNCHANGED <<present, shown, watching, link, missed, direct>>
      /\ Tick \/ (UNCHANGED walk /\ (Walking(Watched) => Arrived(Watched)))
      /\ Goal(Watched)' = Goal(Watched)
  <2>1. CASE Tick
    BY <1>1, <2>1, TickSettles DEF Time, Tick, vars
  <2>2. CASE ~Tick
    <3>1. /\ UNCHANGED <<vars, watching, link, missed, direct>>
          /\ \A u \in Users : ~Walking(u) \/ Arrived(u)
      BY <2>2 DEF Time
    <3>2. UNCHANGED <<present, pos, walk, items, shown>>
      BY <3>1 DEF vars
    <3> QED
      BY <1>1, <3>1, <3>2 DEF Goal, Walking
  <2> QED
    BY <2>1, <2>2
<1>3. /\ avatar' = avatar \/ (avatar # NoAvatar /\ avatar' = Update(avatar))
      /\ Tick \/ (avatar # NoAvatar /\ avatar' = Update(avatar))
  BY DEF Time
<1>4. NoAvatar \notin Avatars
  BY DEF ViewAssumption
<1>5. /\ avatar' \in Avatars \cup {NoAvatar} /\ (avatar' # NoAvatar <=> avatar # NoAvatar)
      /\ avatar # NoAvatar => Destination(avatar') = Destination(avatar)
  <2>1. CASE avatar' = avatar
    BY <1>1, <2>1 DEF ViewTypes, Destination
  <2>2. CASE avatar # NoAvatar /\ avatar' = Update(avatar)
    <3>1. PICK a \in Avatars : a = avatar
      BY <1>1, <2>2 DEF ViewTypes
    <3>2. Update(a) \in Avatars /\ Destination(Update(a)) = Destination(a)
      BY UpdateGoesOn
    <3>3. avatar' = Update(a)
      BY <2>2, <3>1
    <3>4. PICK b : b = Update(a)
      OBVIOUS
    <3> QED
      BY <1>4, <2>2, <3>1, <3>2, <3>3, <3>4
  <2> QED
    BY <1>3, <2>1, <2>2
<1>6. ViewTypes'
  <2>1. \A j \in 1 .. Len(link') : Formed(link'[j])
    BY <1>1, <1>2 DEF ViewTypes
  <2>2. watching' \in BOOLEAN /\ missed' \in BOOLEAN /\ direct' \in BOOLEAN /\ link' \in Seq(Messages)
    BY <1>1, <1>2 DEF ViewTypes
  <2> QED
    BY <1>5, <2>1, <2>2 DEF ViewTypes, Formed, Avatars, Tiles, Messages
<1>7. Appears'
  <2>1. ~watching => avatar' = NoAvatar
    BY <1>1, <1>5 DEF Appears
  <2> QED
    BY <1>1, <1>2, <1>5, <2>1 DEF Appears
<1>8. Heads'
  <2> SUFFICES ASSUME watching, Watched \in present, shown[Watched] = Goal(Watched)
               PROVE  IF link = <<>> THEN missed \/ Destination(avatar') = Goal(Watched)
                      ELSE Ends(link[Len(link)]) = Goal(Watched)
    BY <1>2 DEF Heads, Ends, Destination
  <2>1. IF link = <<>> THEN missed \/ Destination(avatar) = Goal(Watched)
        ELSE Ends(link[Len(link)]) = Goal(Watched)
    BY <1>1 DEF Heads
  <2>2. link = <<>> => avatar # NoAvatar
    BY <1>1 DEF Appears
  <2> QED
    BY <1>5, <2>1, <2>2
<1>9. (Walking(Watched)' => Walking(Watched))
      /\ (Walking(Watched) => walk'[Watched].path = walk[Watched].path)
      /\ (Walking(Watched) => Reached(Watched)' \in Nat /\ Reached(Watched)' >= Reached(Watched))
  <2>1. CASE Tick
    <3>1. Walking(Watched)' => Walking(Watched)
      BY <1>1, <2>1 DEF Tick, Walking
    <3> QED
      BY <1>1, <2>1, <3>1, TickIs
  <2>2. CASE UNCHANGED walk
    <3>1. Reached(Watched)' = Reached(Watched)
      BY <2>2 DEF Reached
    <3>2. Walking(Watched) => Reached(Watched) \in 1 .. Len(walk[Watched].path) /\ Len(walk[Watched].path) \in Nat
      BY <1>1, RestOfWalk
    <3> QED
      BY <2>2, <3>1, <3>2 DEF Walking
  <2> QED
    BY <1>2, <2>1, <2>2
<1>10. GoalIsTold' /\ NoLoops'
  BY <1>1, <1>2, <1>9 DEF GoalIsTold, NoLoops, Simple
<1>11. Trails'
  <2> SUFFICES ASSUME direct, Walking(Watched)
               PROVE  /\ OnItsWay(avatar)'
                      /\ \A j \in 1 .. Len(link) :
                           /\ link[j].type = "moved"
                           /\ \E k \in 1 .. Reached(Watched)' : link[j].path = From(walk'[Watched].path, k)
    BY <1>2, <1>9 DEF Trails
  <2>1. /\ OnItsWay(avatar)
        /\ \A j \in 1 .. Len(link) :
             /\ link[j].type = "moved"
             /\ \E k \in 1 .. Reached(Watched) : link[j].path = From(walk[Watched].path, k)
    BY <1>1 DEF Trails
  <2>2. Reached(Watched) \in 1 .. Len(walk[Watched].path) /\ Len(walk[Watched].path) \in Nat
    BY <1>1, RestOfWalk
  <2>3. ASSUME NEW j \in 1 .. Len(link)
        PROVE  /\ link[j].type = "moved"
               /\ \E k \in 1 .. Reached(Watched)' : link[j].path = From(walk'[Watched].path, k)
    <3>1. PICK k \in 1 .. Reached(Watched) : link[j].path = From(walk[Watched].path, k)
      BY <2>1
    <3>2. k \in 1 .. Reached(Watched)'
      BY <1>9, <2>2
    <3> QED
      BY <1>9, <2>1, <3>1, <3>2
  <2>4. PICK a \in Avatars : a = avatar
    <3>1. avatar \in Avatars \cup {NoAvatar} /\ avatar # NoAvatar
      BY <1>1, <2>1 DEF ViewTypes, OnItsWay
    <3> QED
      BY <3>1
  <2>5. OnItsWay(a) /\ a # NoAvatar
    BY <2>1, <2>4 DEF OnItsWay
  <2>6. PICK b : b = avatar'
    OBVIOUS
  <2>7. OnItsWay(b)'
    <3>1. CASE Tick /\ avatar' = avatar
      <4>1. b = a
        BY <2>4, <2>6, <3>1
      <4>2. OnItsWay(a)'
        BY <1>1, <2>5, <3>1, ClockOnWay
      <4> QED
        BY <4>1, <4>2
    <3>2. CASE avatar' = Update(avatar)
      <4>1. b = Update(a)
        BY <2>4, <2>6, <3>2
      <4>2. Tick \/ (UNCHANGED walk /\ Arrived(Watched))
        BY <1>2
      <4> QED
        BY <1>1, <2>5, <4>1, <4>2, UpdateOnWay
    <3> QED
      BY <1>3, <3>1, <3>2
  <2>8. OnItsWay(avatar)'
    BY <2>6, <2>7 DEF OnItsWay, Leg, Idle
  <2> QED
    BY <2>3, <2>8
<1> QED
  BY <1>6, <1>7, <1>8, <1>10, <1>11 DEF WInv

---------------------------------------------------------------------------
LEMMA InitView == MovementAssumption /\ ViewAssumption /\ ViewInit => WInv
<1> SUFFICES ASSUME MovementAssumption, ViewAssumption, ViewInit PROVE WInv
  OBVIOUS
<1>1. /\ watching = FALSE /\ link = <<>> /\ avatar = NoAvatar /\ missed = FALSE /\ direct = FALSE
      /\ present = {} /\ walk = [u \in Users |-> NoWalk] /\ Watched \in Users
  BY DEF ViewInit, Init, ViewAssumption
<1>2. link \in Seq(Messages) /\ 1 .. Len(link) = {} /\ Len(link) = 0
  BY <1>1
<1>3. ViewTypes
  BY <1>1, <1>2 DEF ViewTypes
<1>4. Appears
  BY <1>1, <1>2 DEF Appears
<1>5. ~Walking(Watched)
  BY <1>1 DEF Walking
<1> QED
  BY <1>1, <1>3, <1>4, <1>5 DEF WInv, GoalIsTold, NoLoops, Trails, Heads

LEMMA NextView == MInv /\ WInv /\ [ViewNext]_allVars => WInv'
<1> SUFFICES ASSUME MInv, WInv, [ViewNext]_allVars PROVE WInv'
  OBVIOUS
<1> USE MovementAssumption, ViewAssumption
<1>1. TypeOK /\ ViewTypes /\ Appears /\ GoalIsTold /\ Heads /\ NoLoops /\ Trails
  BY DEF MInv, WInv
<1>2. ASSUME Unmoved, UNCHANGED view PROVE WInv'
  <2>1. UNCHANGED <<watching, link, avatar, missed, direct>> /\ direct' \in BOOLEAN
    BY <1>1, <1>2 DEF view, ViewTypes
  <2>2. ViewTypes' /\ Appears' /\ Heads'
    BY <1>1, <1>2, <2>1, NotTelling DEF Unmoved
  <2> QED
    BY <1>1, <1>2, <2>1, <2>2, UnmovedKeeps, UnmovedTrails DEF WInv
<1>3. CASE UNCHANGED allVars
  <2>1. Unmoved /\ UNCHANGED view
    BY <1>3 DEF allVars, vars, Unmoved, Goal, Walking
  <2> QED
    BY <1>2, <2>1
<1>4. CASE OthersAct
  BY <1>2, <1>4, OthersAreOthers
<1>5. ASSUME NEW target \in Tiles, WatchedMoves(target) PROVE WInv'
  BY <1>5, WatchedMovesInv
<1> QED
  BY <1>3, <1>4, <1>5, WatchedJoinsInv, WatchedLeavesInv, SendSnapshotInv, HandleServerMessageInv,
     TimeInv DEF ViewNext

LEMMA ViewHolds ==
  ASSUME WInv
  PROVE  ViewFollows
<1>1. HeadsForGoal
  <2> SUFFICES ASSUME watching, link = <<>>
               PROVE  /\ (avatar # NoAvatar) <=> (Watched \in present)
                      /\ (avatar # NoAvatar /\ ~missed /\ shown[Watched] = Goal(Watched))
                           => Destination(avatar) = Goal(Watched)
    BY DEF HeadsForGoal
  <2>1. (avatar # NoAvatar) <=> (Watched \in present)
    BY DEF WInv, Appears
  <2>2. (avatar # NoAvatar /\ ~missed /\ shown[Watched] = Goal(Watched))
          => Destination(avatar) = Goal(Watched)
    BY <2>1 DEF WInv, Heads
  <2> QED
    BY <2>1, <2>2
<1>2. NeverAhead
  <2> SUFFICES ASSUME direct, Walking(Watched)
               PROVE  \E k \in 1 .. Reached(Watched) : walk[Watched].path[k] = avatar.at
    BY DEF NeverAhead
  <2>1. OnItsWay(avatar)
    BY DEF WInv, Trails
  <2> QED
    BY <2>1 DEF OnItsWay
<1> QED
  BY <1>1, <1>2 DEF ViewFollows

\* The pages' Room is RoomMovement's: what is proved of it holds there.
THEOREM ViewMoves == ViewSpec => Spec
<1>1. ViewInit => Init
  BY DEF ViewInit
<1> QED
  BY <1>1, ViewSteps, PTL DEF ViewSpec, Spec

\* Once a page has heard everything, it has an avatar exactly while the user
\* is in the Room, headed for where the Room's walk will end; and however long
\* messages take, and however often a move is repeated, an avatar that was at
\* rest is not shown further along than the Room has it.
THEOREM PagesFollow == ViewSpec => []ViewFollows
<1>1. ViewSpec => []MInv
  BY ViewMoves, MovementInvariant, PTL
<1>2. ViewInit => WInv
  BY InitView, MovementAssumption, ViewAssumption
<1>3. MInv /\ WInv /\ [ViewNext]_allVars => WInv'
  BY NextView
<1>4. WInv => ViewFollows
  BY ViewHolds
<1> QED
  BY <1>1, <1>2, <1>3, <1>4, PTL DEF ViewSpec

---------------------------------------------------------------------------
(* Costs.  They are ordered as real numbers, which the squares of integers *)
(* decide: sums of positive numbers are positive, and as no square is      *)
(* twice another, two costs that are equally large are the same pair.      *)

LEMMA ProductsGrow ==
  ASSUME NEW x \in Nat, NEW y \in Nat, NEW u \in Nat, NEW v \in Nat, x <= u, y <= v
  PROVE  x * y <= u * v
<1>1. PICK i \in Nat : u = x + i
  <2>1. u - x \in Nat /\ u = x + (u - x) OBVIOUS
  <2>. QED BY <2>1
<1>2. PICK j \in Nat : v = y + j
  <2>1. v - y \in Nat /\ v = y + (v - y) OBVIOUS
  <2>. QED BY <2>1
<1>3. u * v = x * y + x * j + i * y + i * j BY <1>1, <1>2
<1>4. x * j \in Nat /\ i * y \in Nat /\ i * j \in Nat /\ x * y \in Nat OBVIOUS
<1>. QED BY <1>3, <1>4

LEMMA SquaresGrow ==
  ASSUME NEW x \in Nat, NEW y \in Nat
  PROVE  /\ x * x <= y * y <=> x <= y
         /\ x * x < y * y <=> x < y
<1>1. x <= y => x * x <= y * y BY ProductsGrow
<1>2. ASSUME x < y PROVE x * x < y * y
  <2>1. (x + 1) * (x + 1) <= y * y BY <1>2, ProductsGrow
  <2>2. (x + 1) * (x + 1) = x * x + 2 * x + 1 /\ x * x \in Nat OBVIOUS
  <2>. QED BY <2>1, <2>2
<1>3. ASSUME y < x PROVE y * y < x * x
  <2>1. (y + 1) * (y + 1) <= x * x BY <1>3, ProductsGrow
  <2>2. (y + 1) * (y + 1) = y * y + 2 * y + 1 /\ y * y \in Nat OBVIOUS
  <2>. QED BY <2>1, <2>2
<1>4. x * x \in Nat /\ y * y \in Nat OBVIOUS
<1>. QED BY <1>1, <1>2, <1>3, <1>4

\* x below u times the root of two, p below d times: so are the sums.
LEMMA Below ==
  ASSUME NEW x \in Nat, NEW p \in Nat, NEW u \in Nat, NEW d \in Nat,
         x * x <= 2 * (u * u), p * p <= 2 * (d * d)
  PROVE  /\ (x + p) * (x + p) <= 2 * ((u + d) * (u + d))
         /\ p * p < 2 * (d * d) => (x + p) * (x + p) < 2 * ((u + d) * (u + d))
<1>1. (x * x) * (p * p) <= (2 * (u * u)) * (2 * (d * d))
  <2>1. x * x \in Nat /\ p * p \in Nat /\ 2 * (u * u) \in Nat /\ 2 * (d * d) \in Nat OBVIOUS
  <2>. QED BY <2>1, ProductsGrow
<1>2. (x * x) * (p * p) = (x * p) * (x * p) OBVIOUS
<1>3. (2 * (u * u)) * (2 * (d * d)) = (2 * (u * d)) * (2 * (u * d)) OBVIOUS
<1>4. x * p \in Nat /\ u * d \in Nat OBVIOUS
<1>5. x * p <= 2 * (u * d)
  <2>1. 2 * (u * d) \in Nat BY <1>4
  <2>. QED BY <1>1, <1>2, <1>3, <1>4, <2>1, SquaresGrow
<1>6. (x + p) * (x + p) = x * x + 2 * (x * p) + p * p OBVIOUS
<1>7. 2 * ((u + d) * (u + d)) = 2 * (u * u) + 4 * (u * d) + 2 * (d * d) OBVIOUS
<1>8. x * x \in Nat /\ p * p \in Nat /\ u * u \in Nat /\ d * d \in Nat OBVIOUS
<1> DEFINE xx == x * x  pp == p * p  uu == u * u  dd == d * d  xp == x * p  ud == u * d
           s == (x + p) * (x + p)  t == (u + d) * (u + d)
<1>9. /\ s = xx + 2 * xp + pp /\ 2 * t = 2 * uu + 4 * ud + 2 * dd
      /\ xp <= 2 * ud /\ xx <= 2 * uu /\ pp <= 2 * dd
      /\ xx \in Nat /\ pp \in Nat /\ uu \in Nat /\ dd \in Nat /\ xp \in Nat /\ ud \in Nat
  BY <1>4, <1>5, <1>6, <1>7, <1>8
<1>10. s \in Int /\ t \in Int OBVIOUS
<1> HIDE DEF xx, pp, uu, dd, xp, ud, s, t
<1>11. s <= 2 * t /\ (pp < 2 * dd => s < 2 * t) BY <1>9, <1>10
<1>. QED BY <1>11 DEF pp, dd, s, t

LEMMA Above ==
  ASSUME NEW x \in Nat, NEW p \in Nat, NEW u \in Nat, NEW d \in Nat,
         x * x >= 2 * (u * u), p * p >= 2 * (d * d)
  PROVE  /\ (x + p) * (x + p) >= 2 * ((u + d) * (u + d))
         /\ p * p > 2 * (d * d) => (x + p) * (x + p) > 2 * ((u + d) * (u + d))
<1>1. (2 * (u * u)) * (2 * (d * d)) <= (x * x) * (p * p)
  <2>1. x * x \in Nat /\ p * p \in Nat /\ 2 * (u * u) \in Nat /\ 2 * (d * d) \in Nat OBVIOUS
  <2>. QED BY <2>1, ProductsGrow
<1>2. (x * x) * (p * p) = (x * p) * (x * p) OBVIOUS
<1>3. (2 * (u * u)) * (2 * (d * d)) = (2 * (u * d)) * (2 * (u * d)) OBVIOUS
<1>4. x * p \in Nat /\ u * d \in Nat OBVIOUS
<1>5. 2 * (u * d) <= x * p
  <2>1. 2 * (u * d) \in Nat BY <1>4
  <2>. QED BY <1>1, <1>2, <1>3, <1>4, <2>1, SquaresGrow
<1>6. (x + p) * (x + p) = x * x + 2 * (x * p) + p * p OBVIOUS
<1>7. 2 * ((u + d) * (u + d)) = 2 * (u * u) + 4 * (u * d) + 2 * (d * d) OBVIOUS
<1>8. x * x \in Nat /\ p * p \in Nat /\ u * u \in Nat /\ d * d \in Nat OBVIOUS
<1> DEFINE xx == x * x  pp == p * p  uu == u * u  dd == d * d  xp == x * p  ud == u * d
           s == (x + p) * (x + p)  t == (u + d) * (u + d)
<1>9. /\ s = xx + 2 * xp + pp /\ 2 * t = 2 * uu + 4 * ud + 2 * dd
      /\ xp >= 2 * ud /\ xx >= 2 * uu /\ pp >= 2 * dd
      /\ xx \in Nat /\ pp \in Nat /\ uu \in Nat /\ dd \in Nat /\ xp \in Nat /\ ud \in Nat
  BY <1>4, <1>5, <1>6, <1>7, <1>8
<1>10. s \in Int /\ t \in Int OBVIOUS
<1> HIDE DEF xx, pp, uu, dd, xp, ud, s, t
<1>11. s >= 2 * t /\ (pp > 2 * dd => s > 2 * t) BY <1>9, <1>10
<1>. QED BY <1>11 DEF pp, dd, s, t

LEMMA Parity == ASSUME NEW a \in Nat PROVE \E k \in Nat : a = 2 * k \/ a = 2 * k + 1
<1>1. a \div 2 \in Nat /\ (a = 2 * (a \div 2) \/ a = 2 * (a \div 2) + 1) OBVIOUS
<1>. QED BY <1>1

LEMMA NoSquareIsTwice ==
  ASSUME NEW a \in Nat, NEW b \in Nat, a * a = 2 * (b * b)
  PROVE  a = 0 /\ b = 0
<1> DEFINE S == {n \in Nat : n # 0 /\ \E m \in Nat : m * m = 2 * (n * n)}
<1>1. S = {}
  <2>1. SUFFICES ASSUME S # {} PROVE FALSE OBVIOUS
  <2>2. PICK n \in S : \A j \in S : n <= j BY <2>1, LeastExists
  <2>3. n \in Nat /\ n # 0 BY <2>2
  <2>4. PICK m \in Nat : m * m = 2 * (n * n) BY <2>2
  <2>5. PICK k \in Nat : m = 2 * k \/ m = 2 * k + 1 BY Parity
  <2>6. m = 2 * k
    <3>1. SUFFICES ASSUME m = 2 * k + 1 PROVE FALSE BY <2>5
    <3>2. m * m = 2 * (2 * (k * k) + 2 * k) + 1 BY <3>1
    <3>3. 2 * (k * k) + 2 * k \in Nat /\ n * n \in Nat BY <2>3
    <3>. QED BY <2>4, <3>2, <3>3
  <2>7. n * n = 2 * (k * k)
    <3>1. m * m = 4 * (k * k) BY <2>6
    <3>2. k * k \in Nat /\ n * n \in Nat BY <2>3
    <3>. QED BY <2>4, <3>1, <3>2
  <2>8. k # 0
    <3>1. SUFFICES ASSUME k = 0 PROVE FALSE OBVIOUS
    <3>2. n * n = 0 BY <2>7, <3>1
    <3>3. 0 < n /\ 0 * 0 < n * n BY <2>3, SquaresGrow
    <3>. QED BY <3>2, <3>3
  <2>9. k < n
    <3>1. k * k \in Nat /\ 0 < k * k BY <2>8, SquaresGrow
    <3>2. k * k < n * n BY <2>7, <3>1
    <3>. QED BY <2>3, <3>2, SquaresGrow
  <2>10. k \in S
    BY <2>3, <2>7, <2>8
  <2>. QED BY <2>2, <2>3, <2>9, <2>10
<1>2. b = 0 BY <1>1
<1>3. a * a = 0 BY <1>2
<1>4. a = 0
  <2>1. SUFFICES ASSUME a # 0 PROVE FALSE OBVIOUS
  <2>2. 0 < a /\ 0 * 0 < a * a BY <2>1, SquaresGrow
  <2>. QED BY <1>3, <2>2
<1>. QED BY <1>2, <1>4

\* A positive number x * 1 + y * sqrt(2) with one of x and y negative, in naturals.
LEMMA PositiveIs ==
  ASSUME NEW a \in Int, NEW b \in Int
  PROVE  /\ a >= 0 /\ b >= 0 => (Positive(a, b) <=> a + b > 0)
         /\ a <= 0 /\ b <= 0 => ~Positive(a, b)
         /\ a > 0 /\ b < 0 => (Positive(a, b) <=> a * a > 2 * ((-b) * (-b)))
         /\ a < 0 /\ b > 0 => (Positive(a, b) <=> 2 * (b * b) > (-a) * (-a))
<1>1. (-a) * (-a) = a * a /\ (-b) * (-b) = b * b OBVIOUS
<1>2. 2 * b * b = 2 * (b * b) OBVIOUS
<1>. QED BY <1>1, <1>2 DEF Positive

LEMMA MixedSum ==
  ASSUME NEW a \in Nat, NEW b \in Nat, NEW c \in Nat, NEW d \in Nat,
         a > 0, b > 0, c > 0, d > 0,
         a * a > 2 * (b * b), 2 * (d * d) > c * c
  PROVE  Positive(a - c, d - b)
<1>0. a * a \in Nat /\ b * b \in Nat /\ c * c \in Nat /\ d * d \in Nat OBVIOUS
<1>1. ASSUME a <= c, d <= b PROVE FALSE
  <2>1. a * a <= c * c /\ d * d <= b * b BY <1>1, SquaresGrow
  <2>. QED BY <1>0, <2>1
<1>2. CASE a >= c /\ d >= b
  <2>1. a - c \in Int /\ d - b \in Int /\ a - c >= 0 /\ d - b >= 0 BY <1>2
  <2>2. a - c + (d - b) > 0 BY <1>1, <1>2
  <2>. QED BY <2>1, <2>2, PositiveIs
<1>3. CASE a > c /\ d < b
  <2>1. a - c \in Nat /\ b - d \in Nat /\ d - b \in Int /\ -(d - b) = b - d BY <1>3
  <2>2. SUFFICES (a - c) * (a - c) > 2 * ((b - d) * (b - d))
    BY <1>3, <2>1, PositiveIs
  <2>3. SUFFICES ASSUME ~((a - c) * (a - c) > 2 * ((b - d) * (b - d))) PROVE FALSE OBVIOUS
  <2>4. (a - c) * (a - c) <= 2 * ((b - d) * (b - d))
    <3>1. (a - c) * (a - c) \in Int /\ 2 * ((b - d) * (b - d)) \in Int BY <2>1
    <3>. QED BY <2>3, <3>1
  <2> DEFINE x == a - c  u == b - d
  <2>5. x \in Nat /\ u \in Nat /\ x + c = a /\ u + d = b /\ x * x <= 2 * (u * u) BY <2>1, <2>4
  <2> HIDE DEF x, u
  <2>6. (x + c) * (x + c) <= 2 * ((u + d) * (u + d)) BY <1>0, <2>5, Below
  <2>7. a * a <= 2 * (b * b) BY <2>5, <2>6
  <2>. QED BY <1>0, <2>7
<1>4. CASE a < c /\ d > b
  <2>1. c - a \in Nat /\ d - b \in Nat /\ a - c \in Int /\ -(a - c) = c - a BY <1>4
  <2>2. SUFFICES 2 * ((d - b) * (d - b)) > (c - a) * (c - a)
    BY <1>4, <2>1, PositiveIs
  <2>3. SUFFICES ASSUME ~(2 * ((d - b) * (d - b)) > (c - a) * (c - a)) PROVE FALSE OBVIOUS
  <2>4. 2 * ((d - b) * (d - b)) <= (c - a) * (c - a)
    <3>1. (c - a) * (c - a) \in Int /\ 2 * ((d - b) * (d - b)) \in Int BY <2>1
    <3>. QED BY <2>3, <3>1
  <2> DEFINE x == c - a  u == d - b
  <2>5. x \in Nat /\ u \in Nat /\ x + a = c /\ u + b = d /\ x * x >= 2 * (u * u) BY <2>1, <2>4
  <2> HIDE DEF x, u
  <2>6. (x + a) * (x + a) >= 2 * ((u + b) * (u + b)) BY <1>0, <2>5, Above
  <2>7. c * c >= 2 * (d * d) BY <2>5, <2>6
  <2>. QED BY <1>0, <2>7
<1>5. CASE a = c /\ d < b BY <1>1, <1>5
<1>6. CASE a < c /\ d = b BY <1>1, <1>6
<1>. QED BY <1>1, <1>2, <1>3, <1>4

LEMMA PositiveSum ==
  ASSUME NEW a \in Int, NEW b \in Int, NEW c \in Int, NEW d \in Int,
         Positive(a, b), Positive(c, d)
  PROVE  Positive(a + c, b + d)
<1> DEFINE Plain(x, y) == x >= 0 /\ y >= 0
           Right(x, y) == x > 0 /\ y < 0
           Left(x, y) == x < 0 /\ y > 0
<1>1. \A x, y \in Int : Positive(x, y) => Plain(x, y) \/ Right(x, y) \/ Left(x, y)
  BY DEF Positive
\* A plain number and another.
<1>2. ASSUME NEW x \in Int, NEW y \in Int, NEW z \in Int, NEW w \in Int,
             Plain(x, y), Positive(x, y), Positive(z, w)
      PROVE  Positive(x + z, y + w)
  <2>1. CASE Plain(z, w)
    <3>1. z + w > 0 BY <1>2, <2>1, PositiveIs
    <3>. QED BY <1>2, <2>1, <3>1, PositiveIs
  <2>2. CASE Right(z, w)
    <3>1. z * z > 2 * ((-w) * (-w)) BY <1>2, <2>2, PositiveIs
    <3>2. CASE y + w >= 0 BY <1>2, <2>2, <3>2, PositiveIs
    <3>3. CASE y + w < 0
      <4>1. x + z > 0 /\ -(y + w) \in Nat /\ -w \in Nat /\ -(y + w) <= -w /\ z <= x + z /\ z \in Nat /\ x + z \in Nat
        BY <1>2, <2>2, <3>3
      <4> DEFINE s == x + z  t == -(y + w)  v == -w
      <4>2. z * z <= s * s /\ t * t <= v * v BY <4>1, SquaresGrow
      <4>3. z * z \in Nat /\ s * s \in Nat /\ t * t \in Nat /\ v * v \in Nat BY <4>1
      <4>4. s * s > 2 * (t * t) BY <3>1, <4>2, <4>3
      <4>. QED BY <3>3, <4>1, <4>4, PositiveIs
    <3>. QED BY <3>2, <3>3
  <2>3. CASE Left(z, w)
    <3>1. 2 * (w * w) > (-z) * (-z) BY <1>2, <2>3, PositiveIs
    <3>2. CASE x + z >= 0 BY <1>2, <2>3, <3>2, PositiveIs
    <3>3. CASE x + z < 0
      <4>1. y + w > 0 /\ -(x + z) \in Nat /\ -z \in Nat /\ -(x + z) <= -z /\ w <= y + w /\ w \in Nat /\ y + w \in Nat
        BY <1>2, <2>3, <3>3
      <4> DEFINE s == y + w  t == -(x + z)  v == -z
      <4>2. w * w <= s * s /\ t * t <= v * v BY <4>1, SquaresGrow
      <4>3. w * w \in Nat /\ s * s \in Nat /\ t * t \in Nat /\ v * v \in Nat BY <4>1
      <4>4. 2 * (s * s) > t * t BY <3>1, <4>2, <4>3
      <4>. QED BY <3>3, <4>1, <4>4, PositiveIs
    <3>. QED BY <3>2, <3>3
  <2>. QED BY <1>1, <1>2, <2>1, <2>2, <2>3
\* Two of opposite signs.
<1>3. ASSUME NEW x \in Int, NEW y \in Int, NEW z \in Int, NEW w \in Int,
             Right(x, y), Left(z, w), Positive(x, y), Positive(z, w)
      PROVE  Positive(x + z, y + w)
  <2>1. x \in Nat /\ -y \in Nat /\ -z \in Nat /\ w \in Nat /\ x > 0 /\ -y > 0 /\ -z > 0 /\ w > 0 BY <1>3
  <2>2. x * x > 2 * ((-y) * (-y)) /\ 2 * (w * w) > (-z) * (-z) BY <1>3, PositiveIs
  <2> DEFINE b0 == -y  c0 == -z
  <2>3. b0 \in Nat /\ c0 \in Nat /\ b0 > 0 /\ c0 > 0 /\ x - c0 = x + z /\ w - b0 = y + w BY <2>1
  <2>4. x * x > 2 * (b0 * b0) /\ 2 * (w * w) > c0 * c0 BY <2>2
  <2> HIDE DEF b0, c0
  <2>5. Positive(x - c0, w - b0) BY <2>1, <2>3, <2>4, MixedSum
  <2>. QED BY <2>3, <2>5
\* Two of one kind.
<1>4. ASSUME Right(a, b), Right(c, d) PROVE Positive(a + c, b + d)
  <2> DEFINE u == -b  v == -d
  <2>1. a \in Nat /\ c \in Nat /\ u \in Nat /\ v \in Nat /\ -(b + d) = u + v /\ a + c > 0 /\ b + d < 0 BY <1>4
  <2>2. a * a > 2 * (u * u) /\ c * c > 2 * (v * v) BY <1>4, PositiveIs
  <2> HIDE DEF u, v
  <2>3. a * a \in Nat /\ c * c \in Nat /\ u * u \in Nat /\ v * v \in Nat BY <2>1
  <2>4. (a + c) * (a + c) > 2 * ((u + v) * (u + v)) BY <2>1, <2>2, <2>3, Above
  <2>. QED BY <2>1, <2>4, PositiveIs
<1>5. ASSUME Left(a, b), Left(c, d) PROVE Positive(a + c, b + d)
  <2> DEFINE u == -a  v == -c
  <2>1. b \in Nat /\ d \in Nat /\ u \in Nat /\ v \in Nat /\ -(a + c) = u + v /\ b + d > 0 /\ a + c < 0 BY <1>5
  <2>2. 2 * (b * b) > u * u /\ 2 * (d * d) > v * v BY <1>5, PositiveIs
  <2> HIDE DEF u, v
  <2>3. b * b \in Nat /\ d * d \in Nat /\ u * u \in Nat /\ v * v \in Nat BY <2>1
  <2>4. (u + v) * (u + v) < 2 * ((b + d) * (b + d)) BY <2>1, <2>2, <2>3, Below
  <2>5. (u + v) * (u + v) \in Nat /\ 2 * ((b + d) * (b + d)) \in Nat BY <2>1
  <2>. QED BY <2>1, <2>4, <2>5, PositiveIs
<1>6. a + c = c + a /\ b + d = d + b OBVIOUS
<1>7. CASE Plain(a, b) BY <1>2, <1>7
<1>8. CASE Plain(c, d)
  <2>1. Positive(c + a, d + b) BY <1>2, <1>8
  <2>. QED BY <1>6, <2>1
<1>9. CASE Right(a, b) /\ Left(c, d) BY <1>3, <1>9
<1>10. CASE Left(a, b) /\ Right(c, d)
  <2>1. Positive(c + a, d + b) BY <1>3, <1>10
  <2>. QED BY <1>6, <2>1
<1>. QED BY <1>1, <1>4, <1>5, <1>7, <1>8, <1>9, <1>10

\* Of a number and its opposite exactly one is positive, unless it is zero.
LEMMA SignIs ==
  ASSUME NEW a \in Int, NEW b \in Int
  PROVE  /\ ~(Positive(a, b) /\ Positive(-a, -b))
         /\ Positive(a, b) \/ Positive(-a, -b) \/ (a = 0 /\ b = 0)
<1>1. ASSUME Positive(a, b), Positive(-a, -b) PROVE FALSE
  <2>1. -a \in Int /\ -b \in Int /\ a + (-a) = 0 /\ b + (-b) = 0 OBVIOUS
  <2>2. Positive(a + (-a), b + (-b)) BY <1>1, <2>1, PositiveSum
  <2>. QED BY <2>1, <2>2 DEF Positive
<1>2. -a \in Int /\ -b \in Int /\ -(-a) = a /\ -(-b) = b OBVIOUS
<1>3. CASE (a >= 0 /\ b >= 0) \/ (a <= 0 /\ b <= 0) BY <1>2, <1>3, PositiveIs
<1>4. ASSUME NEW x \in Nat, NEW y \in Nat, x > 0, y > 0
      PROVE  Positive(x, -y) \/ Positive(-x, y)
  <2>1. /\ -x \in Int /\ -y \in Int /\ -x < 0 /\ -y < 0 /\ -(-x) = x /\ -(-y) = y BY <1>4
  <2>2. x * x \in Nat /\ y * y \in Nat OBVIOUS
  <2>3. x * x # 2 * (y * y) BY <1>4, NoSquareIsTwice
  <2>4. CASE x * x > 2 * (y * y) BY <1>4, <2>1, <2>4, PositiveIs
  <2>5. CASE 2 * (y * y) > x * x BY <1>4, <2>1, <2>5, PositiveIs
  <2>. QED BY <2>2, <2>3, <2>4, <2>5
<1>5. CASE a > 0 /\ b < 0
  <2> DEFINE u == -b
  <2>1. a \in Nat /\ u \in Nat /\ a > 0 /\ u > 0 /\ -u = b /\ u = -b BY <1>5
  <2> HIDE DEF u
  <2>2. Positive(a, -u) \/ Positive(-a, u) BY <1>4, <2>1
  <2>3. Positive(a, b) \/ Positive(-a, -b) BY <2>1, <2>2
  <2>. QED BY <1>1, <2>3
<1>6. CASE a < 0 /\ b > 0
  <2> DEFINE u == -a
  <2>1. u \in Nat /\ b \in Nat /\ u > 0 /\ b > 0 /\ -u = a /\ u = -a BY <1>6
  <2> HIDE DEF u
  <2>2. Positive(u, -b) \/ Positive(-u, b) BY <1>4, <2>1
  <2>3. Positive(-a, -b) \/ Positive(a, b) BY <2>1, <2>2
  <2>. QED BY <1>1, <2>3
<1>7. Positive(a, b) \/ Positive(-a, -b) \/ (a = 0 /\ b = 0) BY <1>3, <1>5, <1>6
<1>. QED BY <1>1, <1>7

\* Costs are totally ordered, and adding a cost keeps the order.
Pairs == Int \X Int
AtMost(c, d) == ~Less(d, c)

LEMMA PlusIs ==
  ASSUME NEW c \in Pairs, NEW d \in Pairs
  PROVE  /\ Plus(c, d) \in Pairs /\ Plus(c, d) = Plus(d, c)
         /\ Plus(c, d)[1] = c[1] + d[1] /\ Plus(c, d)[2] = c[2] + d[2]
         /\ Plus(c, <<0, 0>>) = c
         /\ c \in Costs /\ d \in Costs => Plus(c, d) \in Costs
BY DEF Plus, Pairs, Costs

LEMMA PlusThree ==
  ASSUME NEW c \in Pairs, NEW d \in Pairs, NEW e \in Pairs
  PROVE  Plus(Plus(c, d), e) = Plus(c, Plus(d, e))
BY DEF Plus, Pairs

LEMMA LessTotal ==
  ASSUME NEW c \in Pairs, NEW d \in Pairs
  PROVE  /\ ~(Less(c, d) /\ Less(d, c))
         /\ Less(c, d) \/ Less(d, c) \/ c = d
         /\ ~Less(c, c)
<1>1. /\ c[1] \in Int /\ c[2] \in Int /\ d[1] \in Int /\ d[2] \in Int
      /\ c = <<c[1], c[2]>> /\ d = <<d[1], d[2]>>
  BY DEF Pairs
<1> DEFINE a == d[1] - c[1]  b == d[2] - c[2]
<1>2. a \in Int /\ b \in Int /\ c[1] - d[1] = -a /\ c[2] - d[2] = -b BY <1>1
<1>3. Less(c, d) = Positive(a, b) /\ Less(d, c) = Positive(-a, -b) BY <1>2 DEF Less
<1>4. a = 0 /\ b = 0 => c = d BY <1>1
<1>5. ~Less(c, c)
  <2>1. c[1] - c[1] = 0 /\ c[2] - c[2] = 0 BY <1>1
  <2>. QED BY <2>1 DEF Less, Positive
<1> HIDE DEF a, b
<1>. QED BY <1>2, <1>3, <1>4, <1>5, SignIs

LEMMA LessChains ==
  ASSUME NEW c \in Pairs, NEW d \in Pairs, NEW e \in Pairs
  PROVE  /\ Less(c, d) /\ Less(d, e) => Less(c, e)
         /\ AtMost(c, d) /\ Less(d, e) => Less(c, e)
         /\ Less(c, d) /\ AtMost(d, e) => Less(c, e)
         /\ AtMost(c, d) /\ AtMost(d, e) => AtMost(c, e)
<1>1. c[1] \in Int /\ c[2] \in Int /\ d[1] \in Int /\ d[2] \in Int /\ e[1] \in Int /\ e[2] \in Int BY DEF Pairs
<1>2. ASSUME Less(c, d), Less(d, e) PROVE Less(c, e)
  <2> DEFINE p == d[1] - c[1]  q == d[2] - c[2]  r == e[1] - d[1]  s == e[2] - d[2]
  <2>1. /\ p \in Int /\ q \in Int /\ r \in Int /\ s \in Int
        /\ p + r = e[1] - c[1] /\ q + s = e[2] - c[2]
    BY <1>1
  <2>2. Positive(p, q) /\ Positive(r, s) BY <1>2 DEF Less
  <2>3. Positive(p + r, q + s)
    <3> HIDE DEF p, q, r, s
    <3>. QED BY <2>1, <2>2, PositiveSum
  <2>. QED BY <2>1, <2>3 DEF Less
<1>3. /\ Less(c, d) \/ Less(d, c) \/ c = d
      /\ Less(d, e) \/ Less(e, d) \/ d = e
      /\ Less(c, e) \/ Less(e, c) \/ c = e
      /\ ~(Less(c, d) /\ Less(d, c)) /\ ~(Less(d, e) /\ Less(e, d)) /\ ~(Less(c, e) /\ Less(e, c))
  BY LessTotal
<1>4. ASSUME Less(e, d), Less(d, c) PROVE Less(e, c)
  <2> DEFINE p == d[1] - e[1]  q == d[2] - e[2]  r == c[1] - d[1]  s == c[2] - d[2]
  <2>1. /\ p \in Int /\ q \in Int /\ r \in Int /\ s \in Int
        /\ p + r = c[1] - e[1] /\ q + s = c[2] - e[2]
    BY <1>1
  <2>2. Positive(p, q) /\ Positive(r, s) BY <1>4 DEF Less
  <2>3. Positive(p + r, q + s)
    <3> HIDE DEF p, q, r, s
    <3>. QED BY <2>1, <2>2, PositiveSum
  <2>. QED BY <2>1, <2>3 DEF Less
<1>. QED BY <1>2, <1>3, <1>4 DEF AtMost

LEMMA LessSums ==
  ASSUME NEW c \in Pairs, NEW d \in Pairs, NEW e \in Pairs
  PROVE  /\ Less(Plus(c, e), Plus(d, e)) <=> Less(c, d)
         /\ AtMost(Plus(c, e), Plus(d, e)) <=> AtMost(c, d)
<1>1. c[1] \in Int /\ c[2] \in Int /\ d[1] \in Int /\ d[2] \in Int /\ e[1] \in Int /\ e[2] \in Int BY DEF Pairs
<1>2. (d[1] + e[1]) - (c[1] + e[1]) = d[1] - c[1] /\ (d[2] + e[2]) - (c[2] + e[2]) = d[2] - c[2] BY <1>1
<1>3. (c[1] + e[1]) - (d[1] + e[1]) = c[1] - d[1] /\ (c[2] + e[2]) - (d[2] + e[2]) = c[2] - d[2] BY <1>1
<1>4. Less(Plus(c, e), Plus(d, e)) = Less(c, d) BY <1>2, PlusIs DEF Less
<1>5. Less(Plus(d, e), Plus(c, e)) = Less(d, c) BY <1>3, PlusIs DEF Less
<1>. QED BY <1>4, <1>5 DEF AtMost

LEMMA AtMostSame == ASSUME NEW c \in Pairs, NEW d \in Pairs, AtMost(c, d), AtMost(d, c) PROVE c = d
BY LessTotal DEF AtMost

---------------------------------------------------------------------------
(* Recursion.  A function that only calls itself last exists: its value is *)
(* the outcome at an end of the chain of calls, and a call and the one it  *)
(* makes have the same ends.                                               *)

LEMMA TailRecursion ==
  ASSUME NEW S, NEW D \in SUBSET S, NEW next \in [D -> S], NEW V, NEW out \in [S -> V]
  PROVE  \E f \in [S -> V] : \A x \in S : f[x] = IF x \in D THEN f[next[x]] ELSE out[x]
<1> DEFINE Closed == {C \in SUBSET S : \A z \in C \cap D : next[z] \in C}
           Stops(x) == {y \in S \ D : \A C \in Closed : x \in C => y \in C}
           Stop(E) == IF E = {} THEN CHOOSE y : y \in S ELSE CHOOSE y : y \in E
           f == [x \in S |-> out[Stop(Stops(x))]]
<1>1. ASSUME NEW x \in D PROVE Stops(x) = Stops(next[x])
  <2>1. ASSUME NEW y \in Stops(x) PROVE y \in Stops(next[x])
    <3>1. ASSUME NEW C \in Closed, next[x] \in C PROVE y \in C
      <4>1. C \cup {x} \in Closed BY <3>1
      <4>2. y \in C \cup {x} BY <2>1, <4>1
      <4>. QED BY <2>1, <4>2
    <3>. QED BY <2>1, <3>1
  <2>2. ASSUME NEW y \in Stops(next[x]) PROVE y \in Stops(x) BY <2>2
  <2>. QED BY <2>1, <2>2
<1>2. ASSUME NEW x \in S \ D PROVE Stop(Stops(x)) = x
  <2>1. {x} \in Closed BY <1>2
  <2>2. Stops(x) = {x}
    <3>1. ASSUME NEW y \in Stops(x) PROVE y = x BY <2>1, <3>1
    <3>2. x \in Stops(x) BY <1>2
    <3>. QED BY <3>1, <3>2
  <2> HIDE DEF Stops
  <2>. QED BY <2>2
<1>e. ASSUME NEW x \in S PROVE Stop(Stops(x)) \in S
  <2>1. Stops(x) \subseteq S OBVIOUS
  <2> HIDE DEF Stops
  <2>. QED BY <2>1
<1> HIDE DEF Stops, Stop
<1>3. ASSUME NEW x \in S PROVE f[x] = IF x \in D THEN f[next[x]] ELSE out[x]
  <2>1. CASE x \in D
    <3>1. Stops(x) = Stops(next[x]) /\ next[x] \in S BY <1>1, <2>1
    <3>2. f[x] = out[Stop(Stops(x))] /\ f[next[x]] = out[Stop(Stops(next[x]))] BY <1>3, <3>1
    <3>. QED BY <2>1, <3>1, <3>2
  <2>2. CASE x \notin D BY <1>2, <2>2
  <2>. QED BY <2>1, <2>2
<1>4. f \in [S -> V] BY <1>e
<1>. QED BY <1>3, <1>4

LEMMA SwapIs ==
  ASSUME NEW q \in Queues, NEW i \in 1 .. Len(q), NEW j \in 1 .. Len(q)
  PROVE  /\ Swap(q, i, j) \in Queues /\ Len(Swap(q, i, j)) = Len(q)
         /\ Swap(q, i, j)[j] = q[i]
         /\ i # j => Swap(q, i, j)[i] = q[j]
         /\ \A k \in 1 .. Len(q) : k # i /\ k # j => Swap(q, i, j)[k] = q[k]
         /\ <<Swap(q, i, j), j>> \in Places
<1> DEFINE E == [position : Int \X Int, score : Costs, rounding : Int, heuristic : Costs]
<1>1. q \in Seq(E) BY DEF Queues
<1> HIDE DEF E
<1>2. Len(q) \in Nat /\ q[i] \in E /\ q[j] \in E BY <1>1
<1>3. Swap(q, i, j) \in Seq(E) /\ Len(Swap(q, i, j)) = Len(q) BY <1>1, <1>2 DEF Swap
<1>4. /\ Swap(q, i, j)[j] = q[i]
      /\ i # j => Swap(q, i, j)[i] = q[j]
      /\ \A k \in 1 .. Len(q) : k # i /\ k # j => Swap(q, i, j)[k] = q[k]
  BY <1>1, <1>2 DEF Swap
<1>5. Swap(q, i, j) \in Queues BY <1>3 DEF Queues, E
<1>6. <<Swap(q, i, j), j>> \in Places BY <1>2, <1>3, <1>5 DEF Places
<1>. QED BY <1>3, <1>4, <1>5, <1>6

LEMMA BubbleUpIs ==
  ASSUME NEW p \in Places
  PROVE  BubbleUp[p] = IF p[2] > 1 /\ IsBetter(p[1][p[2]], p[1][p[2] \div 2])
                       THEN BubbleUp[<<Swap(p[1], p[2], p[2] \div 2), p[2] \div 2>>]
                       ELSE p[1]
<1> DEFINE D == {x \in Places : x[2] > 1 /\ IsBetter(x[1][x[2]], x[1][x[2] \div 2])}
           next == [x \in D |-> <<Swap(x[1], x[2], x[2] \div 2), x[2] \div 2>>]
           out == [x \in Places |-> x[1]]
<1>1. next \in [D -> Places]
  <2>1. ASSUME NEW x \in D PROVE <<Swap(x[1], x[2], x[2] \div 2), x[2] \div 2>> \in Places
    <3>1. x[1] \in Queues /\ x[2] \in 1 .. Len(x[1]) /\ x[2] > 1 BY DEF Places
    <3>2. Len(x[1]) \in Nat BY <3>1 DEF Queues
    <3>3. x[2] \div 2 \in 1 .. Len(x[1]) BY <3>1, <3>2
    <3>. QED BY <3>1, <3>3, SwapIs
  <2>. QED BY <2>1
<1>2. D \in SUBSET Places /\ out \in [Places -> Queues] BY DEF Places
<1> HIDE DEF D, next, out
<1>3. \E f \in [Places -> Queues] : \A x \in Places : f[x] = IF x \in D THEN f[next[x]] ELSE out[x]
  BY <1>1, <1>2, TailRecursion
<1>4. PICK f \in [Places -> Queues] : \A x \in Places : f[x] = IF x \in D THEN f[next[x]] ELSE out[x] BY <1>3
<1>5. f = [x \in Places |-> IF x[2] > 1 /\ IsBetter(x[1][x[2]], x[1][x[2] \div 2])
                            THEN f[<<Swap(x[1], x[2], x[2] \div 2), x[2] \div 2>>] ELSE x[1]]
  BY <1>4 DEF D, next, out
<1>6. BubbleUp = [x \in Places |-> IF x[2] > 1 /\ IsBetter(x[1][x[2]], x[1][x[2] \div 2])
                                   THEN BubbleUp[<<Swap(x[1], x[2], x[2] \div 2), x[2] \div 2>>] ELSE x[1]]
  BY <1>5 DEF BubbleUp
<1>. QED BY <1>6

LEMMA BestIs ==
  ASSUME NEW p \in Places
  PROVE  /\ p[1] \in Queues /\ p[2] \in 1 .. Len(p[1]) /\ Len(p[1]) \in Nat
         /\ BestOf(p[1], p[2]) \in 1 .. Len(p[1])
         /\ BestOf(p[1], p[2]) \in {p[2], 2 * p[2], 2 * p[2] + 1}
<1>1. p[1] \in Queues /\ p[2] \in 1 .. Len(p[1]) BY DEF Places
<1>2. Len(p[1]) \in Nat BY <1>1 DEF Queues
<1> DEFINE q == p[1]  i == p[2]  j == Best(q, i, 2 * i)
<1>3. j \in 1 .. Len(q) /\ j \in {i, 2 * i} BY <1>1, <1>2 DEF Best
<1>4. BestOf(q, i) \in 1 .. Len(q) /\ BestOf(q, i) \in {j, 2 * i + 1}
  <2>1. BestOf(q, i) = Best(q, j, 2 * i + 1) BY DEF BestOf
  <2>2. 2 * i + 1 \in Nat /\ 2 * i + 1 >= 1 BY <1>1, <1>2
  <2> HIDE DEF j
  <2>. QED BY <1>2, <1>3, <2>1, <2>2 DEF Best
<1>. QED BY <1>1, <1>2, <1>3, <1>4

LEMMA BubbleDownIs ==
  ASSUME NEW p \in Places
  PROVE  BubbleDown[p] = IF BestOf(p[1], p[2]) = p[2] THEN p[1]
                         ELSE BubbleDown[<<Swap(p[1], p[2], BestOf(p[1], p[2])), BestOf(p[1], p[2])>>]
<1> DEFINE D == {x \in Places : BestOf(x[1], x[2]) # x[2]}
           next == [x \in D |-> <<Swap(x[1], x[2], BestOf(x[1], x[2])), BestOf(x[1], x[2])>>]
           out == [x \in Places |-> x[1]]
<1>1. next \in [D -> Places]
  <2>1. ASSUME NEW x \in D PROVE <<Swap(x[1], x[2], BestOf(x[1], x[2])), BestOf(x[1], x[2])>> \in Places
    <3>1. x \in Places OBVIOUS
    <3>. QED BY <3>1, BestIs, SwapIs
  <2>. QED BY <2>1
<1>2. D \in SUBSET Places /\ out \in [Places -> Queues] BY DEF Places
<1> HIDE DEF D, next, out
<1>3. \E f \in [Places -> Queues] : \A x \in Places : f[x] = IF x \in D THEN f[next[x]] ELSE out[x]
  BY <1>1, <1>2, TailRecursion
<1>4. PICK f \in [Places -> Queues] : \A x \in Places : f[x] = IF x \in D THEN f[next[x]] ELSE out[x] BY <1>3
<1>5. f = [x \in Places |-> IF BestOf(x[1], x[2]) = x[2] THEN x[1]
                            ELSE f[<<Swap(x[1], x[2], BestOf(x[1], x[2])), BestOf(x[1], x[2])>>]]
  BY <1>4 DEF D, next, out
<1>6. BubbleDown = [x \in Places |-> IF BestOf(x[1], x[2]) = x[2] THEN x[1]
                            ELSE BubbleDown[<<Swap(x[1], x[2], BestOf(x[1], x[2])), BestOf(x[1], x[2])>>]]
  BY <1>5 DEF BubbleDown
<1>. QED BY <1>6

---------------------------------------------------------------------------
(* The heap.                                                               *)

QueueEntry == [position : Int \X Int, score : Costs, rounding : Int, heuristic : Costs]
Entries(q) == {q[k] : k \in 1 .. Len(q)}

LEMMA QueueIs ==
  ASSUME NEW q \in Queues
  PROVE  /\ q \in Seq(QueueEntry) /\ Len(q) \in Nat /\ \A k \in 1 .. Len(q) : q[k] \in QueueEntry
         /\ DOMAIN q = 1 .. Len(q)
<1>1. q \in Seq(QueueEntry) BY DEF Queues, QueueEntry
<1>. QED BY <1>1

LEMMA EntryCosts ==
  ASSUME NEW a \in QueueEntry
  PROVE  /\ a.score \in Pairs /\ a.heuristic \in Pairs /\ a.score \in Costs /\ a.heuristic \in Costs
         /\ a.rounding \in Int
BY DEF QueueEntry, Costs, Pairs

LEMMA BetterIs ==
  ASSUME NEW a \in QueueEntry, NEW b \in QueueEntry
  PROVE  /\ ~IsBetter(a, a)
         /\ IsBetter(a, b) => ~IsBetter(b, a)
         /\ ~IsBetter(a, b) => AtMost(b.score, a.score)
<1>1. /\ a.score \in Pairs /\ a.heuristic \in Pairs /\ b.score \in Pairs /\ b.heuristic \in Pairs
      /\ a.rounding \in Int /\ b.rounding \in Int
  BY EntryCosts
<1>2. /\ ~Less(a.score, a.score) /\ ~Less(a.heuristic, a.heuristic)
      /\ ~(Less(a.score, b.score) /\ Less(b.score, a.score))
      /\ ~(Less(a.heuristic, b.heuristic) /\ Less(b.heuristic, a.heuristic))
  BY <1>1, LessTotal
<1>3. a.score = b.score => ~Less(a.score, b.score) /\ ~Less(b.score, a.score) BY <1>1, LessTotal
<1>. QED BY <1>1, <1>2, <1>3 DEF IsBetter, LessAsDoubles, AtMost

\* Not better, spelled out.
LEMMA NotBetterIs ==
  ASSUME NEW a \in QueueEntry, NEW b \in QueueEntry
  PROVE  ~IsBetter(a, b) <=>
           /\ AtMost(b.score, a.score)
           /\ a.score = b.score =>
                /\ b.rounding <= a.rounding
                /\ a.rounding = b.rounding => AtMost(b.heuristic, a.heuristic)
<1>1. a.rounding \in Int /\ b.rounding \in Int BY EntryCosts
<1>2. LessAsDoubles(a.score, a.rounding, b.score, b.rounding) <=>
        Less(a.score, b.score) \/ (a.score = b.score /\ ~(b.rounding <= a.rounding))
  BY <1>1 DEF LessAsDoubles
<1>. QED BY <1>2 DEF IsBetter, AtMost

LEMMA BetterChains ==
  ASSUME NEW a \in QueueEntry, NEW b \in QueueEntry, NEW c \in QueueEntry,
         ~IsBetter(a, b), ~IsBetter(b, c)
  PROVE  ~IsBetter(a, c)
<1>1. /\ a.score \in Pairs /\ a.heuristic \in Pairs /\ b.score \in Pairs /\ b.heuristic \in Pairs
      /\ c.score \in Pairs /\ c.heuristic \in Pairs
      /\ a.rounding \in Int /\ b.rounding \in Int /\ c.rounding \in Int
  BY EntryCosts
<1>2. AtMost(b.score, a.score) /\ AtMost(c.score, b.score) BY NotBetterIs
<1>3. AtMost(c.score, a.score) BY <1>1, <1>2, LessChains
<1>4. ASSUME a.score = c.score
      PROVE  c.rounding <= a.rounding /\ (a.rounding = c.rounding => AtMost(c.heuristic, a.heuristic))
  <2>1. AtMost(a.score, b.score) BY <1>2, <1>4
  <2>2. a.score = b.score /\ b.score = c.score BY <1>1, <1>2, <1>4, <2>1, AtMostSame
  <2>3. /\ b.rounding <= a.rounding /\ (a.rounding = b.rounding => AtMost(b.heuristic, a.heuristic))
        /\ c.rounding <= b.rounding /\ (b.rounding = c.rounding => AtMost(c.heuristic, b.heuristic))
    BY <2>2, NotBetterIs
  <2>4. ASSUME a.rounding = c.rounding PROVE AtMost(c.heuristic, a.heuristic)
    <3>1. a.rounding = b.rounding /\ b.rounding = c.rounding BY <1>1, <2>3, <2>4
    <3>. QED BY <1>1, <2>3, <3>1, LessChains
  <2>. QED BY <1>1, <2>3, <2>4
<1>. QED BY <1>3, <1>4, NotBetterIs

LEMMA BetterThanWorse ==
  ASSUME NEW a \in QueueEntry, NEW b \in QueueEntry, NEW c \in QueueEntry,
         IsBetter(a, b), ~IsBetter(c, b)
  PROVE  ~IsBetter(c, a)
<1>1. ~IsBetter(b, a) BY BetterIs
<1>. QED BY <1>1, BetterChains

Heap(q) == \A k \in 2 .. Len(q) : ~IsBetter(q[k], q[k \div 2])

LEMMA Halves ==
  ASSUME NEW n \in Nat, NEW k \in 1 .. n
  PROVE  /\ k > 1 => k \div 2 \in 1 .. n /\ k \div 2 < k
         /\ k \div 2 \in Nat
         /\ \A j \in 1 .. n : j > 1 /\ j \div 2 = k <=> j = 2 * k \/ j = 2 * k + 1
OBVIOUS

LEMMA RootIsBest ==
  ASSUME NEW q \in Queues, Heap(q)
  PROVE  \A k \in 1 .. Len(q) : ~IsBetter(q[k], q[1])
<1> DEFINE S == {k \in 1 .. Len(q) : IsBetter(q[k], q[1])}
<1>1. SUFFICES ASSUME S # {} PROVE FALSE OBVIOUS
<1>2. Len(q) \in Nat /\ S \in SUBSET Nat BY QueueIs
<1>3. PICK k \in S : \A j \in S : k <= j BY <1>1, <1>2, LeastExists
<1>4. k \in 1 .. Len(q) /\ q[k] \in QueueEntry /\ 1 \in 1 .. Len(q) /\ q[1] \in QueueEntry BY <1>2, QueueIs
<1>5. k > 1
  <2>1. k # 1 BY <1>4, BetterIs
  <2>. QED BY <1>4, <2>1
<1>6. k \div 2 \in 1 .. Len(q) /\ k \div 2 < k BY <1>2, <1>4, <1>5, Halves
<1>7. q[k \div 2] \in QueueEntry BY <1>6, QueueIs
<1>8. ~IsBetter(q[k \div 2], q[1]) BY <1>2, <1>3, <1>6
<1>9. ~IsBetter(q[k], q[k \div 2]) BY <1>2, <1>4, <1>5 DEF Heap
<1>10. ~IsBetter(q[k], q[1]) BY <1>4, <1>7, <1>8, <1>9, BetterChains
<1>. QED BY <1>10

LEMMA SwapKeepsEntries ==
  ASSUME NEW q \in Queues, NEW i \in 1 .. Len(q), NEW j \in 1 .. Len(q)
  PROVE  Entries(Swap(q, i, j)) = Entries(q)
<1> DEFINE r == Swap(q, i, j)
<1>1. /\ r \in Queues /\ Len(r) = Len(q) /\ r[j] = q[i] /\ (i # j => r[i] = q[j])
      /\ \A k \in 1 .. Len(q) : k # i /\ k # j => r[k] = q[k]
  BY SwapIs
<1> HIDE DEF r
<1>2. \A k \in 1 .. Len(q) : \E l \in 1 .. Len(q) : r[k] = q[l] BY <1>1
<1>3. \A k \in 1 .. Len(q) : \E l \in 1 .. Len(q) : q[k] = r[l] BY <1>1
<1>4. ASSUME NEW x \in Entries(r) PROVE x \in Entries(q)
  <2>1. PICK k \in 1 .. Len(r) : x = r[k] BY DEF Entries
  <2>. QED BY <1>1, <1>2, <2>1 DEF Entries
<1>5. ASSUME NEW x \in Entries(q) PROVE x \in Entries(r)
  <2>1. PICK k \in 1 .. Len(q) : x = q[k] BY DEF Entries
  <2>. QED BY <1>1, <1>3, <2>1 DEF Entries
<1>6. Entries(r) = Entries(q) BY <1>4, <1>5
<1>. QED BY <1>6 DEF r

\* What a sweep through the heap returns.
Sorted(q, r) == r \in Queues /\ Len(r) = Len(q) /\ Entries(r) = Entries(q) /\ Heap(r)

\* Ordered but for the entry at i, which may be better than its parent.
NearUp(q, i) ==
  /\ \A k \in 2 .. Len(q) : k # i => ~IsBetter(q[k], q[k \div 2])
  /\ \A k \in 2 .. Len(q) : i > 1 /\ k \div 2 = i => ~IsBetter(q[k], q[i \div 2])

LEMMA NearerUp ==
  ASSUME NEW q \in Queues, NEW i \in 1 .. Len(q), NearUp(q, i), i > 1, IsBetter(q[i], q[i \div 2])
  PROVE  NearUp(Swap(q, i, i \div 2), i \div 2)
<1> DEFINE j == i \div 2  r == Swap(q, i, j)  n == Len(q)
<1>1. n \in Nat /\ (\A k \in 1 .. n : q[k] \in QueueEntry) BY QueueIs
<1>2. j \in 1 .. n /\ j < i BY <1>1, Halves
<1>3. /\ Len(r) = n /\ r[j] = q[i] /\ r[i] = q[j]
      /\ \A k \in 1 .. n : k # i /\ k # j => r[k] = q[k]
  <2>1. i \div 2 \in 1 .. Len(q) /\ i # i \div 2 BY <1>1, <1>2
  <2>. QED BY <2>1, SwapIs
<1>j. i \div 2 = j OBVIOUS
<1>4. IsBetter(q[i], q[j]) /\ ~IsBetter(q[j], q[i]) BY <1>1, <1>2, BetterIs
<1>5. \A k \in 2 .. n : k # i => ~IsBetter(q[k], q[k \div 2]) BY DEF NearUp
<1>6. \A k \in 2 .. n : k \div 2 = i => ~IsBetter(q[k], q[j]) BY DEF NearUp
<1>7. \A k \in 2 .. n : k \in 1 .. n /\ k \div 2 \in 1 .. n /\ k \div 2 < k BY <1>1, Halves
<1> HIDE DEF j, r, n
<1>8. ASSUME NEW k \in 2 .. n, k # j PROVE ~IsBetter(r[k], r[k \div 2])
  <2>1. k \in 1 .. n /\ k \div 2 \in 1 .. n /\ k \div 2 < k BY <1>7
  <2>2. CASE k = i BY <1>3, <1>4, <1>j, <2>2
  <2>3. ASSUME k # i, k \div 2 = i PROVE ~IsBetter(r[k], r[k \div 2])
    BY <1>3, <1>6, <1>8, <2>1, <2>3
  <2>4. ASSUME k # i, k \div 2 = j PROVE ~IsBetter(r[k], r[k \div 2])
    <3>1. ~IsBetter(q[k], q[j]) BY <1>5, <2>4
    <3>2. q[k] \in QueueEntry /\ q[i] \in QueueEntry /\ q[j] \in QueueEntry BY <1>1, <1>2, <2>1 DEF n
    <3>3. ~IsBetter(q[k], q[i]) BY <1>4, <3>1, <3>2, BetterThanWorse
    <3>. QED BY <1>3, <1>8, <2>1, <2>4, <3>3
  <2>5. ASSUME k # i, k \div 2 # i, k \div 2 # j PROVE ~IsBetter(r[k], r[k \div 2])
    BY <1>3, <1>5, <1>8, <2>1, <2>5
  <2>. QED BY <2>2, <2>3, <2>4, <2>5
<1>9. ASSUME NEW k \in 2 .. n, j > 1, k \div 2 = j PROVE ~IsBetter(r[k], r[j \div 2])
  <2>1. k \in 1 .. n /\ k \div 2 < k BY <1>7
  <2>2. j \div 2 \in 1 .. n /\ j \div 2 < j BY <1>1, <1>2, <1>9, Halves
  <2>3. r[j \div 2] = q[j \div 2] BY <1>1, <1>2, <1>3, <2>2
  <2>4. ~IsBetter(q[j], q[j \div 2]) BY <1>1, <1>2, <1>5, <1>9
  <2>5. CASE k = i BY <1>3, <2>3, <2>4, <2>5
  <2>6. CASE k # i
    <3>1. ~IsBetter(q[k], q[j]) BY <1>5, <1>9, <2>6
    <3>2. q[k] \in QueueEntry /\ q[j] \in QueueEntry /\ q[j \div 2] \in QueueEntry BY <1>1, <1>2, <2>1, <2>2
    <3>3. ~IsBetter(q[k], q[j \div 2]) BY <2>4, <3>1, <3>2, BetterChains
    <3>4. k # j BY <1>1, <1>9, <2>1
    <3>. QED BY <1>3, <2>1, <2>3, <2>6, <3>3, <3>4
  <2>. QED BY <2>5, <2>6
<1>10. NearUp(r, j) BY <1>3, <1>8, <1>9 DEF NearUp
<1>. QED BY <1>10 DEF r, j

LEMMA UpSorts ==
  \A p \in Places : NearUp(p[1], p[2]) => Sorted(p[1], BubbleUp[p])
<1> DEFINE Bad == {p \in Places : NearUp(p[1], p[2]) /\ ~Sorted(p[1], BubbleUp[p])}
           S == {p[2] : p \in Bad}
<1>1. SUFFICES ASSUME Bad # {} PROVE FALSE OBVIOUS
<1>2. S # {} /\ S \in SUBSET Nat BY <1>1 DEF Places
<1>3. PICK i \in S : \A j \in S : i <= j BY <1>2, LeastExists
<1>4. PICK p \in Bad : p[2] = i OBVIOUS
<1> DEFINE q == p[1]
<1>5. p \in Places /\ q \in Queues /\ i \in 1 .. Len(q) /\ Len(q) \in Nat BY <1>4, QueueIs DEF Places
<1>6. NearUp(q, i) /\ ~Sorted(q, BubbleUp[p]) BY <1>4
<1>7. CASE i > 1 /\ IsBetter(q[i], q[i \div 2])
  <2> DEFINE r == Swap(q, i, i \div 2)
  <2>1. i \div 2 \in 1 .. Len(q) /\ i \div 2 < i BY <1>5, <1>7, Halves
  <2>2. <<r, i \div 2>> \in Places /\ r \in Queues /\ Len(r) = Len(q) BY <1>5, <2>1, SwapIs
  <2>3. Entries(r) = Entries(q) BY <1>5, <2>1, SwapKeepsEntries
  <2>4. NearUp(r, i \div 2) BY <1>5, <1>6, <1>7, NearerUp
  <2>5. BubbleUp[p] = BubbleUp[<<r, i \div 2>>] BY <1>4, <1>5, <1>7, BubbleUpIs
  <2>6. i \div 2 \notin S
    <3> HIDE DEF S
    <3>. QED BY <1>3, <1>5, <2>1
  <2>7. <<r, i \div 2>> \notin Bad BY <2>6
  <2>8. Sorted(r, BubbleUp[<<r, i \div 2>>]) BY <2>2, <2>4, <2>7
  <2>. QED BY <1>6, <2>2, <2>3, <2>5, <2>8 DEF Sorted
<1>8. CASE ~(i > 1 /\ IsBetter(q[i], q[i \div 2]))
  <2>1. BubbleUp[p] = q BY <1>4, <1>5, <1>8, BubbleUpIs
  <2>2. Heap(q) BY <1>5, <1>6, <1>8 DEF NearUp, Heap
  <2>. QED BY <1>5, <1>6, <2>1, <2>2 DEF Sorted
<1>. QED BY <1>7, <1>8

\* Ordered but for the entry at i, whose children may be better.
NearDown(q, i) ==
  /\ \A k \in 2 .. Len(q) : k \div 2 # i => ~IsBetter(q[k], q[k \div 2])
  /\ \A k \in 2 .. Len(q) : i > 1 /\ k \div 2 = i => ~IsBetter(q[k], q[i \div 2])

LEMMA BestOfIs ==
  ASSUME NEW q \in Queues, NEW i \in 1 .. Len(q)
  PROVE  LET b == BestOf(q, i)
         IN  /\ b \in 1 .. Len(q) /\ b >= i
             /\ b # i => b \div 2 = i /\ b > i /\ IsBetter(q[b], q[i])
             /\ \A k \in 2 .. Len(q) : k \div 2 = i => ~IsBetter(q[k], q[b])
<1> DEFINE j == Best(q, i, 2 * i)  b == BestOf(q, i)  n == Len(q)
<1>1. n \in Nat /\ (\A k \in 1 .. n : q[k] \in QueueEntry) BY QueueIs
<1>2. i \in 1 .. n OBVIOUS
<1>3. /\ 2 * i \in Nat /\ 2 * i > i /\ (2 * i) \div 2 = i /\ 2 * i + 1 \in Nat /\ (2 * i + 1) \div 2 = i
      /\ \A k \in 1 .. n : k > 1 /\ k \div 2 = i <=> k = 2 * i \/ k = 2 * i + 1
  BY <1>1
<1>4. j = IF 2 * i <= n /\ IsBetter(q[2 * i], q[i]) THEN 2 * i ELSE i BY DEF Best
<1>5. b = IF 2 * i + 1 <= n /\ IsBetter(q[2 * i + 1], q[j]) THEN 2 * i + 1 ELSE j BY DEF Best, BestOf
<1> HIDE DEF j, b, n
<1>6. j \in 1 .. n /\ b \in 1 .. n BY <1>1, <1>2, <1>3, <1>4, <1>5
<1>7. q[i] \in QueueEntry /\ q[j] \in QueueEntry /\ q[b] \in QueueEntry BY <1>1, <1>2, <1>6
<1>8. ~IsBetter(q[i], q[i]) /\ ~IsBetter(q[j], q[j]) /\ ~IsBetter(q[b], q[b]) BY <1>7, BetterIs
<1>9. ~IsBetter(q[i], q[j])
  <2>1. IsBetter(q[j], q[i]) => ~IsBetter(q[i], q[j]) BY <1>7, BetterIs
  <2>. QED BY <1>4, <1>8, <2>1
<1>10. ~IsBetter(q[j], q[b])
  <2>1. IsBetter(q[b], q[j]) => ~IsBetter(q[j], q[b]) BY <1>7, BetterIs
  <2>. QED BY <1>5, <1>8, <2>1
<1>11. ~IsBetter(q[i], q[b]) BY <1>7, <1>9, <1>10, BetterChains
<1>12. ASSUME b # i PROVE b \div 2 = i /\ b > i /\ IsBetter(q[b], q[i])
  <2>1. CASE b = j BY <1>3, <1>4, <1>12, <2>1
  <2>2. CASE b # j
    <3>1. b = 2 * i + 1 /\ IsBetter(q[b], q[j]) BY <1>5, <2>2
    <3>2. IsBetter(q[b], q[i])
      <4>1. CASE j = i BY <3>1, <4>1
      <4>2. CASE j # i
        <5>1. IsBetter(q[j], q[i]) BY <1>4, <4>2
        <5>2. ~IsBetter(q[i], q[b]) /\ ~IsBetter(q[j], q[b]) BY <1>10, <1>11
        <5>3. SUFFICES ASSUME ~IsBetter(q[b], q[i]) PROVE FALSE OBVIOUS
        <5>4. ~IsBetter(q[j], q[i]) BY <1>7, <5>2, <5>3, BetterChains
        <5>. QED BY <5>1, <5>4
      <4>. QED BY <4>1, <4>2
    <3>. QED BY <1>3, <3>1, <3>2
  <2>. QED BY <2>1, <2>2
<1>13. ASSUME NEW k \in 2 .. n, k \div 2 = i PROVE ~IsBetter(q[k], q[b])
  <2>1. k \in 1 .. n /\ q[k] \in QueueEntry /\ (k = 2 * i \/ k = 2 * i + 1) BY <1>1, <1>3, <1>13
  <2>2. CASE k = 2 * i
    <3>1. ~IsBetter(q[k], q[j])
      <4>1. CASE j = k BY <1>8, <4>1
      <4>2. CASE j # k BY <1>4, <2>1, <2>2, <4>2
      <4>. QED BY <4>1, <4>2
    <3>. QED BY <1>7, <1>10, <2>1, <3>1, BetterChains
  <2>3. CASE k = 2 * i + 1
    <3>1. CASE b = k
      <4>1. q[k] = q[b] BY <3>1
      <4>. QED BY <1>8, <4>1
    <3>2. CASE b # k
      <4>1. k = 2 * i + 1 /\ 2 * i + 1 <= n BY <1>1, <2>1, <2>3
      <4>3. b = j BY <1>5, <3>2, <4>1
      <4>2. ~IsBetter(q[2 * i + 1], q[j]) BY <1>5, <3>2, <4>1
      <4>. QED BY <4>1, <4>2, <4>3
    <3>. QED BY <3>1, <3>2
  <2>. QED BY <2>1, <2>2, <2>3
<1>14. b >= i BY <1>2, <1>6, <1>12, <1>1
<1>. QED BY <1>6, <1>12, <1>13, <1>14 DEF b, n

LEMMA NearerDown ==
  ASSUME NEW q \in Queues, NEW i \in 1 .. Len(q), NearDown(q, i), BestOf(q, i) # i
  PROVE  NearDown(Swap(q, i, BestOf(q, i)), BestOf(q, i))
<1> DEFINE b == BestOf(q, i)  r == Swap(q, i, b)  n == Len(q)
<1>1. n \in Nat /\ (\A k \in 1 .. n : q[k] \in QueueEntry) BY QueueIs
<1>2. /\ b \in 1 .. n /\ b \div 2 = i /\ b > i /\ IsBetter(q[b], q[i])
      /\ \A k \in 2 .. n : k \div 2 = i => ~IsBetter(q[k], q[b])
  BY BestOfIs
<1>3. /\ Len(r) = n /\ r[b] = q[i] /\ r[i] = q[b]
      /\ \A k \in 1 .. n : k # i /\ k # b => r[k] = q[k]
  <2>1. BestOf(q, i) \in 1 .. Len(q) /\ i # BestOf(q, i) BY <1>2
  <2>. QED BY <2>1, SwapIs
<1>4. ~IsBetter(q[i], q[b]) BY <1>1, <1>2, BetterIs
<1>5. \A k \in 2 .. n : k \div 2 # i => ~IsBetter(q[k], q[k \div 2]) BY DEF NearDown
<1>6. \A k \in 2 .. n : i > 1 /\ k \div 2 = i => ~IsBetter(q[k], q[i \div 2]) BY DEF NearDown
<1>7. \A k \in 2 .. n : k \in 1 .. n /\ k \div 2 \in 1 .. n /\ k \div 2 < k BY <1>1, Halves
<1>i. i \in 1 .. n OBVIOUS
<1> HIDE DEF b, r, n
<1>8. ASSUME NEW k \in 2 .. n, k \div 2 # b PROVE ~IsBetter(r[k], r[k \div 2])
  <2>1. k \in 1 .. n /\ k \div 2 \in 1 .. n /\ k \div 2 < k BY <1>7
  <2>2. CASE k = b BY <1>2, <1>3, <1>4, <2>2
  <2>3. ASSUME k # b, k \div 2 = i PROVE ~IsBetter(r[k], r[k \div 2])
    <3>1. k # i BY <1>1, <2>1, <2>3
    <3>. QED BY <1>2, <1>3, <2>1, <2>3, <3>1
  <2>4. ASSUME k = i PROVE ~IsBetter(r[k], r[k \div 2])
    <3>1. i > 1 /\ b \in 2 .. n /\ i \div 2 # i /\ i \div 2 # b BY <1>1, <1>2, <1>8, <2>1, <2>4
    <3>2. ~IsBetter(q[b], q[i \div 2]) BY <1>2, <1>6, <3>1
    <3>. QED BY <1>3, <2>1, <2>4, <3>1, <3>2
  <2>5. ASSUME k # b, k # i, k \div 2 # i PROVE ~IsBetter(r[k], r[k \div 2])
    BY <1>3, <1>5, <1>8, <2>1, <2>5
  <2>. QED BY <2>2, <2>3, <2>4, <2>5
<1>9. ASSUME NEW k \in 2 .. n, b > 1, k \div 2 = b PROVE ~IsBetter(r[k], r[b \div 2])
  <2>1. k \in 1 .. n /\ k \div 2 < k BY <1>7
  <2>2. k # b /\ k # i /\ b # i BY <1>1, <1>2, <1>9, <1>i, <2>1
  <2>3. ~IsBetter(q[k], q[b]) BY <1>5, <1>9, <2>2
  <2>. QED BY <1>2, <1>3, <2>1, <2>2, <2>3
<1>10. NearDown(r, b) BY <1>3, <1>8, <1>9 DEF NearDown
<1>. QED BY <1>10 DEF r, b

LEMMA DownSorts ==
  \A p \in Places : NearDown(p[1], p[2]) => Sorted(p[1], BubbleDown[p])
<1> DEFINE Bad == {p \in Places : NearDown(p[1], p[2]) /\ ~Sorted(p[1], BubbleDown[p])}
           Below0(p) == Len(p[1]) - p[2]
           S == {Below0(p) : p \in Bad}
<1>1. SUFFICES ASSUME Bad # {} PROVE FALSE OBVIOUS
<1>0. \A p \in Places : p[1] \in Queues /\ p[2] \in 1 .. Len(p[1]) BY DEF Places
<1>2. S # {} /\ S \in SUBSET Nat
  <2>1. ASSUME NEW p \in Bad PROVE Below0(p) \in Nat
    <3>1. p[1] \in Queues /\ p[2] \in 1 .. Len(p[1]) /\ Len(p[1]) \in Nat BY <1>0, QueueIs
    <3>. QED BY <3>1
  <2>. QED BY <1>1, <2>1
<1>3. PICK m \in S : \A j \in S : m <= j BY <1>2, LeastExists
<1>4. PICK p \in Bad : Below0(p) = m OBVIOUS
<1> DEFINE q == p[1]  i == p[2]  b == BestOf(q, i)  r == Swap(q, i, b)
<1>5. p \in Places /\ q \in Queues /\ i \in 1 .. Len(q) /\ Len(q) \in Nat BY <1>0, <1>4, QueueIs
<1>6. NearDown(q, i) /\ ~Sorted(q, BubbleDown[p]) BY <1>4
<1>7. CASE b # i
  <2>1. b \in 1 .. Len(q) /\ b > i BY <1>5, <1>7, BestOfIs
  <2>2. <<r, b>> \in Places /\ r \in Queues /\ Len(r) = Len(q) BY <1>5, <2>1, SwapIs
  <2>3. Entries(r) = Entries(q) BY <1>5, <2>1, SwapKeepsEntries
  <2>4. NearDown(r, b) BY <1>5, <1>6, <1>7, NearerDown
  <2>5. BubbleDown[p] = BubbleDown[<<r, b>>] BY <1>5, <1>7, BubbleDownIs
  <2>6. Below0(<<r, b>>) < m
    <3>1. Below0(<<r, b>>) = Len(q) - b /\ m = Len(q) - i BY <1>4, <2>2
    <3>. QED BY <1>5, <2>1, <3>1
  <2>7. Below0(<<r, b>>) \notin S
    <3>1. m \in Nat /\ Below0(<<r, b>>) \in Int BY <1>2, <1>5, <2>1, <2>2
    <3> HIDE DEF S, Below0
    <3>. QED BY <1>3, <2>6, <3>1
  <2>8. <<r, b>> \notin Bad BY <2>7
  <2>9. Sorted(r, BubbleDown[<<r, b>>]) BY <2>2, <2>4, <2>8
  <2>. QED BY <1>6, <2>2, <2>3, <2>5, <2>9 DEF Sorted
<1>8. CASE b = i
  <2>1. BubbleDown[p] = q BY <1>5, <1>8, BubbleDownIs
  <2>2. \A k \in 2 .. Len(q) : k \div 2 = i => ~IsBetter(q[k], q[i]) BY <1>5, <1>8, BestOfIs
  <2>3. Heap(q) BY <1>6, <2>2 DEF NearDown, Heap
  <2>. QED BY <1>5, <1>6, <2>1, <2>3 DEF Sorted
<1>. QED BY <1>7, <1>8

LEMMA PushIs ==
  ASSUME NEW q \in Queues, NEW e \in QueueEntry, Heap(q)
  PROVE  /\ Push(q, e) \in Queues /\ Heap(Push(q, e)) /\ Len(Push(q, e)) = Len(q) + 1
         /\ Entries(Push(q, e)) = Entries(q) \cup {e}
<1> DEFINE r == Append(q, e)  n == Len(q)
<1>1. n \in Nat /\ q \in Seq(QueueEntry) BY QueueIs
<1>2. /\ r \in Seq(QueueEntry) /\ Len(r) = n + 1 /\ r[n + 1] = e
      /\ \A k \in 1 .. n : r[k] = q[k]
  BY <1>1
<1>3. r \in Queues BY <1>2 DEF Queues, QueueEntry
<1>4. <<r, n + 1>> \in Places
  <2>1. n + 1 \in Nat /\ n + 1 \in 1 .. Len(r) BY <1>1, <1>2
  <2> HIDE DEF r, n
  <2>. QED BY <1>3, <2>1 DEF Places
<1>5. NearUp(r, n + 1)
  <2>1. ASSUME NEW k \in 2 .. Len(r), k # n + 1 PROVE ~IsBetter(r[k], r[k \div 2])
    <3>1. k \in 2 .. n /\ k \in 1 .. n /\ k \div 2 \in 1 .. n BY <1>1, <1>2, <2>1, Halves
    <3>2. r[k] = q[k] /\ r[k \div 2] = q[k \div 2] BY <1>2, <3>1
    <3>. QED BY <3>1, <3>2 DEF Heap
  <2>2. ASSUME NEW k \in 2 .. Len(r), k \div 2 = n + 1 PROVE FALSE
    <3>1. k \in Nat /\ k <= n + 1 /\ k > 1 BY <1>1, <1>2, <2>2
    <3>2. k \div 2 < k BY <3>1
    <3>. QED BY <1>1, <2>2, <3>1, <3>2
  <2>. QED BY <2>1, <2>2 DEF NearUp
<1>6. Entries(r) = Entries(q) \cup {e}
  <2>1. ASSUME NEW x \in Entries(r) PROVE x \in Entries(q) \cup {e}
    <3>1. PICK k \in 1 .. Len(r) : x = r[k] BY DEF Entries
    <3>2. CASE k = n + 1 BY <1>2, <3>1, <3>2
    <3>3. CASE k # n + 1
      <4>1. k \in 1 .. n BY <1>1, <1>2, <3>3
      <4>. QED BY <1>2, <3>1, <4>1 DEF Entries
    <3>. QED BY <3>2, <3>3
  <2>2. ASSUME NEW x \in Entries(q) PROVE x \in Entries(r)
    <3>1. PICK k \in 1 .. Len(q) : x = q[k] BY DEF Entries
    <3>2. k \in 1 .. Len(r) /\ x = r[k] BY <1>1, <1>2, <3>1
    <3>. QED BY <3>2 DEF Entries
  <2>3. e \in Entries(r)
    <3>1. n + 1 \in 1 .. Len(r) BY <1>1, <1>2
    <3>. QED BY <1>2, <3>1 DEF Entries
  <2>. QED BY <2>1, <2>2, <2>3
<1>7. Push(q, e) = BubbleUp[<<r, n + 1>>] BY DEF Push
<1>8. Sorted(r, BubbleUp[<<r, n + 1>>])
  <2> HIDE DEF r, n
  <2>. QED BY <1>4, <1>5, UpSorts
<1>. QED BY <1>2, <1>6, <1>7, <1>8 DEF Sorted

LEMMA RestIs ==
  ASSUME NEW q \in Queues, q # <<>>, Heap(q)
  PROVE  /\ Rest(q) \in Queues /\ Heap(Rest(q)) /\ Len(Rest(q)) = Len(q) - 1
         /\ Entries(Rest(q)) = {q[k] : k \in 2 .. Len(q)}
<1> DEFINE n == Len(q)  r == LastFirst(q)
<1>1. n \in Nat /\ q \in Seq(QueueEntry) /\ n >= 1 BY QueueIs
<1>2. CASE n = 1
  <2>1. Rest(q) = <<>> BY <1>2 DEF Rest
  <2>2. <<>> \in Queues /\ Heap(<<>>) /\ Entries(<<>>) = {} BY DEF Queues, Heap, Entries
  <2>3. {q[k] : k \in 2 .. n} = {} BY <1>2
  <2>. QED BY <1>2, <2>1, <2>2, <2>3
<1>3. CASE n > 1
  <2>1. /\ SubSeq(q, 1, n - 1) \in Seq(QueueEntry) /\ Len(SubSeq(q, 1, n - 1)) = n - 1
        /\ \A k \in 1 .. n - 1 : SubSeq(q, 1, n - 1)[k] = q[k]
    BY <1>1, <1>3
  <2>2. q[n] \in QueueEntry /\ 1 \in 1 .. n - 1 BY <1>1, <1>3
  <2>3. /\ r \in Seq(QueueEntry) /\ Len(r) = n - 1 /\ r[1] = q[n]
        /\ \A k \in 2 .. n - 1 : r[k] = q[k]
    <3> DEFINE f == SubSeq(q, 1, n - 1)
    <3>1. r = [f EXCEPT ![1] = q[n]] BY DEF LastFirst
    <3>2. f \in Seq(QueueEntry) /\ Len(f) = n - 1 /\ (\A k \in 1 .. n - 1 : f[k] = q[k]) /\ n - 1 \in Nat
      BY <1>1, <1>3, <2>1
    <3> HIDE DEF f, r, n
    <3>3. r \in Seq(QueueEntry) /\ Len(r) = n - 1 BY <2>2, <3>1, <3>2
    <3>4. DOMAIN f = 1 .. n - 1 BY <3>2
    <3>5. r[1] = q[n] /\ \A k \in 1 .. n - 1 : k # 1 => r[k] = f[k] BY <2>2, <3>1, <3>4
    <3>. QED BY <1>1, <3>2, <3>3, <3>5
  <2>4. r \in Queues BY <2>3 DEF Queues, QueueEntry
  <2>5. <<r, 1>> \in Places BY <1>1, <1>3, <2>3, <2>4 DEF Places
  <2>6. NearDown(r, 1)
    <3>1. ASSUME NEW k \in 2 .. Len(r), k \div 2 # 1 PROVE ~IsBetter(r[k], r[k \div 2])
      <4>1. k \in 2 .. n - 1 /\ k \in 2 .. n /\ k \div 2 \in 2 .. n - 1 BY <1>1, <1>3, <2>3, <3>1
      <4>2. r[k] = q[k] /\ r[k \div 2] = q[k \div 2] BY <2>3, <4>1
      <4>. QED BY <4>1, <4>2 DEF Heap
    <3>. QED BY <3>1 DEF NearDown
  <2>7. Entries(r) = {q[k] : k \in 2 .. n}
    <3>1. ASSUME NEW x \in Entries(r) PROVE x \in {q[k] : k \in 2 .. n}
      <4>1. PICK k \in 1 .. Len(r) : x = r[k] BY DEF Entries
      <4>2. CASE k = 1
        <5>1. n \in 2 .. n /\ x = q[n] BY <1>1, <1>3, <2>3, <4>1, <4>2
        <5>. QED BY <5>1
      <4>3. CASE k # 1
        <5>1. k \in 2 .. n - 1 /\ k \in 2 .. n BY <1>1, <2>3, <4>3
        <5>2. x = q[k] BY <2>3, <4>1, <5>1
        <5>. QED BY <5>1, <5>2
      <4>. QED BY <4>2, <4>3
    <3>2. ASSUME NEW k \in 2 .. n PROVE q[k] \in Entries(r)
      <4>1. CASE k = n BY <1>3, <2>2, <2>3, <4>1 DEF Entries
      <4>2. CASE k # n
        <5>1. k \in 2 .. n - 1 /\ k \in 1 .. Len(r) BY <1>1, <2>3, <4>2
        <5>2. q[k] = r[k] BY <2>3, <5>1
        <5>. QED BY <5>1, <5>2 DEF Entries
      <4>. QED BY <4>1, <4>2
    <3>. QED BY <3>1, <3>2
  <2>8. Rest(q) = BubbleDown[<<r, 1>>] BY <1>3 DEF Rest
  <2>9. Sorted(r, BubbleDown[<<r, 1>>])
    <3> HIDE DEF r
    <3>. QED BY <2>5, <2>6, DownSorts
  <2>. QED BY <2>3, <2>7, <2>8, <2>9 DEF Sorted
<1>4. n = 1 \/ n > 1
  <2> HIDE DEF n, r
  <2>. QED BY <1>1
<1>. QED BY <1>2, <1>3, <1>4

---------------------------------------------------------------------------
(* Steps and distances.                                                    *)

LEMMA TileIs ==
  ASSUME NEW t \in AllTiles
  PROVE  t[1] \in Int /\ t[2] \in Int /\ t = <<t[1], t[2]>> /\ t \in Pairs
BY DEF AllTiles, Pairs

LEMMA DirectionIs ==
  /\ DOMAIN Directions = 1 .. 8
  /\ \A k \in 1 .. 8 : LET d == Directions[k]
       IN  d \in AllTiles /\ d[1] \in {-1, 0, 1} /\ d[2] \in {-1, 0, 1} /\ (d[1] # 0 \/ d[2] # 0)
  /\ \A x, y \in {-1, 0, 1} : x # 0 \/ y # 0 => \E k \in 1 .. 8 : Directions[k] = <<x, y>>
<1>1. /\ Directions[1] = <<1, 0>> /\ Directions[2] = <<-1, 0>> /\ Directions[3] = <<0, 1>> /\ Directions[4] = <<0, -1>>
      /\ Directions[5] = <<1, 1>> /\ Directions[6] = <<1, -1>> /\ Directions[7] = <<-1, 1>> /\ Directions[8] = <<-1, -1>>
      /\ DOMAIN Directions = 1 .. 8
  BY DEF Directions
<1>2. ASSUME NEW k \in 1 .. 8
      PROVE  LET d == Directions[k]
             IN  d \in AllTiles /\ d[1] \in {-1, 0, 1} /\ d[2] \in {-1, 0, 1} /\ (d[1] # 0 \/ d[2] # 0)
  <2>1. k = 1 \/ k = 2 \/ k = 3 \/ k = 4 \/ k = 5 \/ k = 6 \/ k = 7 \/ k = 8 OBVIOUS
  <2>. QED BY <1>1, <2>1 DEF AllTiles
<1>3. ASSUME NEW x \in {-1, 0, 1}, NEW y \in {-1, 0, 1}, x # 0 \/ y # 0
      PROVE  \E k \in 1 .. 8 : Directions[k] = <<x, y>>
  <2>1. 1 \in 1 .. 8 /\ 2 \in 1 .. 8 /\ 3 \in 1 .. 8 /\ 4 \in 1 .. 8 /\ 5 \in 1 .. 8 /\ 6 \in 1 .. 8 /\ 7 \in 1 .. 8 /\ 8 \in 1 .. 8
    OBVIOUS
  <2>2. /\ \E k \in 1 .. 8 : Directions[k] = <<1, 0>>
        /\ \E k \in 1 .. 8 : Directions[k] = <<-1, 0>>
        /\ \E k \in 1 .. 8 : Directions[k] = <<0, 1>>
        /\ \E k \in 1 .. 8 : Directions[k] = <<0, -1>>
        /\ \E k \in 1 .. 8 : Directions[k] = <<1, 1>>
        /\ \E k \in 1 .. 8 : Directions[k] = <<1, -1>>
        /\ \E k \in 1 .. 8 : Directions[k] = <<-1, 1>>
        /\ \E k \in 1 .. 8 : Directions[k] = <<-1, -1>>
    BY <1>1, <2>1
  <2>. QED BY <1>3, <2>2
<1>. QED BY <1>1, <1>2, <1>3

LEMMA CostIs ==
  ASSUME NEW s, NEW t
  PROVE  /\ StepCost(s, t) \in {<<0, 1>>, <<1, 0>>} /\ StepCost(s, t) \in Costs /\ StepCost(s, t) \in Pairs
         /\ MovementCost(s) \in {<<0, 1>>, <<1, 0>>} /\ MovementCost(s) \in Costs /\ MovementCost(s) \in Pairs
         /\ Positive(StepCost(s, t)[1], StepCost(s, t)[2])
<1>1. <<0, 1>> \in Costs /\ <<1, 0>> \in Costs /\ <<0, 1>> \in Pairs /\ <<1, 0>> \in Pairs BY DEF Costs, Pairs
<1>2. StepCost(s, t) = <<0, 1>> \/ StepCost(s, t) = <<1, 0>> BY DEF StepCost
<1>3. MovementCost(s) = <<0, 1>> \/ MovementCost(s) = <<1, 0>> BY DEF MovementCost
<1>4. Positive(<<0, 1>>[1], <<0, 1>>[2]) /\ Positive(<<1, 0>>[1], <<1, 0>>[2]) BY DEF Positive
<1>. QED BY <1>1, <1>2, <1>3, <1>4

\* What getNeighbors finds is a step, of the cost findPath adds.
LEMMA NeighborIsStep ==
  ASSUME input.walkable \subseteq AllTiles, NEW s \in input.walkable, NEW k \in Neighbors(s)
  PROVE  LET t == Plus(s, Directions[k])
         IN  /\ t \in input.walkable /\ IsStep(input.walkable, s, t)
             /\ StepCost(s, t) = MovementCost(Directions[k])
<1> DEFINE d == Directions[k]  t == Plus(s, d)
<1>1. k \in 1 .. 8 /\ IsReachableNeighbor(s, d) BY DirectionIs DEF Neighbors
<1>2. d \in AllTiles /\ d[1] \in {-1, 0, 1} /\ d[2] \in {-1, 0, 1} /\ (d[1] # 0 \/ d[2] # 0) BY <1>1, DirectionIs
<1>3. s[1] \in Int /\ s[2] \in Int /\ s = <<s[1], s[2]>> BY TileIs
<1>4. t = <<s[1] + d[1], s[2] + d[2]>> /\ t[1] = s[1] + d[1] /\ t[2] = s[2] + d[2] BY DEF Plus
<1>5. t \in input.walkable BY <1>1 DEF IsReachableNeighbor, IsWalkable
<1>6. Plus(s, <<d[1], 0>>) = <<s[1] + d[1], s[2]>> /\ Plus(s, <<0, d[2]>>) = <<s[1], s[2] + d[2]>> BY <1>2, <1>3 DEF Plus
<1>7. d[1] # 0 /\ d[2] # 0 => <<t[1], s[2]>> \in input.walkable /\ <<s[1], t[2]>> \in input.walkable
  BY <1>1, <1>4, <1>6 DEF IsReachableNeighbor, IsWalkable
<1> HIDE DEF d, t
<1>8. d[1] = 0 => t[1] = s[1] BY <1>2, <1>3, <1>4
<1>9. d[2] = 0 => t[2] = s[2] BY <1>2, <1>3, <1>4
<1>10. t = <<t[1], t[2]>> BY <1>4
<1>11. <<s[1], s[2]>> \in input.walkable /\ <<t[1], t[2]>> \in input.walkable BY <1>3, <1>5, <1>10
<1>12. <<t[1], s[2]>> \in input.walkable /\ <<s[1], t[2]>> \in input.walkable
  BY <1>7, <1>8, <1>9, <1>11
<1>13. {s[1], t[1]} \X {s[2], t[2]} \subseteq input.walkable BY <1>11, <1>12
<1>14. /\ s[1] - t[1] = -d[1] /\ s[2] - t[2] = -d[2] /\ (s[1] # t[1] <=> d[1] # 0) /\ (s[2] # t[2] <=> d[2] # 0)
  BY <1>2, <1>3, <1>4
<1>15. Abs(s[1] - t[1]) <= 1 /\ Abs(s[2] - t[2]) <= 1 BY <1>2, <1>14 DEF Abs
<1>16. s # t BY <1>2, <1>14
<1>17. StepCost(s, t) = MovementCost(d) BY <1>14 DEF StepCost, MovementCost
<1>. QED BY <1>5, <1>13, <1>15, <1>16, <1>17 DEF IsStep, d, t

\* And every step is found.
LEMMA StepIsNeighbor ==
  ASSUME input.walkable \subseteq AllTiles, NEW s \in AllTiles, NEW t \in AllTiles, IsStep(input.walkable, s, t)
  PROVE  /\ s \in input.walkable /\ t \in input.walkable
         /\ \E k \in Neighbors(s) : t = Plus(s, Directions[k]) /\ StepCost(s, t) = MovementCost(Directions[k])
<1>1. /\ s[1] \in Int /\ s[2] \in Int /\ s = <<s[1], s[2]>>
      /\ t[1] \in Int /\ t[2] \in Int /\ t = <<t[1], t[2]>>
  BY TileIs
<1>2. /\ <<s[1], s[2]>> \in input.walkable /\ <<t[1], t[2]>> \in input.walkable
      /\ <<t[1], s[2]>> \in input.walkable /\ <<s[1], t[2]>> \in input.walkable
  BY DEF IsStep
<1> DEFINE x == t[1] - s[1]  y == t[2] - s[2]
<1>3. x \in {-1, 0, 1} /\ y \in {-1, 0, 1}
  <2>1. Abs(s[1] - t[1]) <= 1 /\ Abs(s[2] - t[2]) <= 1 BY DEF IsStep
  <2>. QED BY <1>1, <2>1 DEF Abs
<1>4. x # 0 \/ y # 0
  <2>1. s # t BY DEF IsStep
  <2>. QED BY <1>1, <2>1
<1>5. x \in Int /\ y \in Int /\ s[1] + x = t[1] /\ s[2] + y = t[2] /\ (x # 0 <=> s[1] # t[1]) /\ (y # 0 <=> s[2] # t[2])
  BY <1>1
<1> HIDE DEF x, y
<1>6. PICK k \in 1 .. 8 : Directions[k] = <<x, y>> BY <1>3, <1>4, DirectionIs
<1>7. Plus(s, Directions[k]) = t BY <1>1, <1>5, <1>6 DEF Plus
<1>8. Plus(s, <<x, 0>>) = <<t[1], s[2]>> /\ Plus(s, <<0, y>>) = <<s[1], t[2]>> BY <1>1, <1>5 DEF Plus
<1>9. IsReachableNeighbor(s, Directions[k]) BY <1>1, <1>2, <1>6, <1>7, <1>8 DEF IsReachableNeighbor, IsWalkable
<1>10. StepCost(s, t) = MovementCost(Directions[k]) BY <1>5, <1>6 DEF StepCost, MovementCost
<1>11. k \in Neighbors(s) BY <1>9, DirectionIs DEF Neighbors
<1>. QED BY <1>1, <1>2, <1>7, <1>10, <1>11

LEMMA DistanceIs ==
  ASSUME NEW s \in AllTiles, NEW g \in AllTiles
  PROVE  /\ OctileDistance(s, g) \in Costs /\ OctileDistance(s, g) \in Pairs
         /\ OctileDistance(g, g) = <<0, 0>>
<1>1. s[1] \in Int /\ s[2] \in Int /\ g[1] \in Int /\ g[2] \in Int BY TileIs
<1>2. Abs(s[1] - g[1]) \in Nat /\ Abs(s[2] - g[2]) \in Nat BY <1>1 DEF Abs
<1>3. Abs(g[1] - g[1]) = 0 /\ Abs(g[2] - g[2]) = 0 BY <1>1 DEF Abs
<1>4. OctileDistance(g, g) = <<0, 0>> BY <1>3 DEF OctileDistance
<1>5. OctileDistance(s, g) \in Costs BY <1>2 DEF OctileDistance, Costs
<1>. QED BY <1>4, <1>5 DEF Costs, Pairs

\* A step brings the target no nearer than it costs.
LEMMA Consistent ==
  ASSUME NEW s \in AllTiles, NEW t \in AllTiles, NEW g \in AllTiles, NEW floor, IsStep(floor, s, t)
  PROVE  AtMost(OctileDistance(s, g), Plus(StepCost(s, t), OctileDistance(t, g)))
<1>1. s[1] \in Int /\ s[2] \in Int /\ g[1] \in Int /\ g[2] \in Int /\ t[1] \in Int /\ t[2] \in Int /\ (s[1] # t[1] \/ s[2] # t[2])
  <2>1. s # t BY DEF IsStep
  <2>. QED BY <2>1, TileIs
<1>2. Abs(s[1] - t[1]) <= 1 /\ Abs(s[2] - t[2]) <= 1 BY DEF IsStep
<1> DEFINE a == Abs(s[1] - g[1])  b == Abs(s[2] - g[2])  c == Abs(t[1] - g[1])  d == Abs(t[2] - g[2])
<1>3. a \in Nat /\ b \in Nat /\ c \in Nat /\ d \in Nat BY <1>1 DEF Abs
<1>4. IF s[1] = t[1] THEN c = a ELSE c = a + 1 \/ c = a - 1 BY <1>1, <1>2 DEF Abs
<1>5. IF s[2] = t[2] THEN d = b ELSE d = b + 1 \/ d = b - 1 BY <1>1, <1>2 DEF Abs
<1> DEFINE m == IF a < b THEN a ELSE b  n == IF c < d THEN c ELSE d
<1>6. OctileDistance(s, g) = <<a + b - 2 * m, m>> /\ OctileDistance(t, g) = <<c + d - 2 * n, n>> BY DEF OctileDistance
<1>7. m \in Nat /\ n \in Nat BY <1>3
<1>8. /\ m = IF a < b THEN a ELSE b
      /\ n = IF c < d THEN c ELSE d
  OBVIOUS
<1> HIDE DEF a, b, c, d, m, n
<1> DEFINE p == StepCost(s, t)
           x == a + b - 2 * m - (p[1] + (c + d - 2 * n))
           y == m - (p[2] + n)
<1>9. \/ x = 0 /\ y = 0
      \/ x = 0 /\ y = -2
      \/ x = 2 /\ y = -2
      \/ x = 0 /\ y = -1
      \/ x = -2 /\ y = 0
      \/ x = -2 /\ y = 1
  <2>1. CASE s[1] # t[1] /\ s[2] # t[2]
    <3>1. p[1] = 0 /\ p[2] = 1 BY <2>1 DEF StepCost
    <3> HIDE DEF p
    <3>2. (c = a + 1 \/ c = a - 1) /\ (d = b + 1 \/ d = b - 1) BY <1>4, <1>5, <2>1
    <3>. QED BY <1>3, <1>7, <1>8, <3>1, <3>2
  <2>2. CASE s[1] # t[1] /\ s[2] = t[2]
    <3>1. p[1] = 1 /\ p[2] = 0 BY <2>2 DEF StepCost
    <3> HIDE DEF p
    <3>2. (c = a + 1 \/ c = a - 1) /\ d = b BY <1>4, <1>5, <2>2
    <3>. QED BY <1>3, <1>7, <1>8, <3>1, <3>2
  <2>3. CASE s[1] = t[1] /\ s[2] # t[2]
    <3>1. p[1] = 1 /\ p[2] = 0 BY <2>3 DEF StepCost
    <3> HIDE DEF p
    <3>2. c = a /\ (d = b + 1 \/ d = b - 1) BY <1>4, <1>5, <2>3
    <3>. QED BY <1>3, <1>7, <1>8, <3>1, <3>2
  <2>. QED BY <1>1, <2>1, <2>2, <2>3
<1>10. ~Positive(x, y)
  <2> HIDE DEF x, y
  <2>1. CASE x = 0 /\ y = 0 BY <2>1 DEF Positive
  <2>2. CASE x = 0 /\ y = -2 BY <2>2 DEF Positive
  <2>3. CASE x = 2 /\ y = -2 BY <2>3 DEF Positive
  <2>4. CASE x = 0 /\ y = -1 BY <2>4 DEF Positive
  <2>5. CASE x = -2 /\ y = 0 BY <2>5 DEF Positive
  <2>6. CASE x = -2 /\ y = 1 BY <2>6 DEF Positive
  <2>. QED BY <1>9, <2>1, <2>2, <2>3, <2>4, <2>5, <2>6
<1>11. /\ OctileDistance(s, g)[1] = a + b - 2 * m /\ OctileDistance(s, g)[2] = m
       /\ Plus(p, OctileDistance(t, g))[1] = p[1] + (c + d - 2 * n)
       /\ Plus(p, OctileDistance(t, g))[2] = p[2] + n
  <2> HIDE DEF p
  <2>. QED BY <1>6 DEF Plus
<1>12. Less(Plus(p, OctileDistance(t, g)), OctileDistance(s, g)) => Positive(x, y)
  <2>1. /\ x = OctileDistance(s, g)[1] - Plus(p, OctileDistance(t, g))[1]
        /\ y = OctileDistance(s, g)[2] - Plus(p, OctileDistance(t, g))[2]
    <3> DEFINE u == OctileDistance(s, g)  v == Plus(p, OctileDistance(t, g))
    <3>1. /\ u[1] = a + b - 2 * m /\ u[2] = m /\ v[1] = p[1] + (c + d - 2 * n) /\ v[2] = p[2] + n
      BY <1>11
    <3>0. p[1] \in Int /\ p[2] \in Int BY CostIs DEF Pairs
    <3> HIDE DEF u, v, p
    <3>2. x = u[1] - v[1] /\ y = u[2] - v[2] BY <1>3, <1>7, <3>0, <3>1
    <3>. QED BY <3>2 DEF u, v
  <2> HIDE DEF x, y, p
  <2>. QED BY <2>1 DEF Less
<1> HIDE DEF x, y
<1>. QED BY <1>10, <1>12 DEF AtMost, p

---------------------------------------------------------------------------
(* Walks.                                                                  *)

\* A first value and what follows each value define a sequence of values.
LEMMA Iteration ==
  ASSUME NEW V, NEW first \in V, NEW next \in [V -> V]
  PROVE  \E f \in [Nat -> V] : f[0] = first /\ \A n \in Nat : f[n + 1] = next[f[n]]
<1> DEFINE Good(C) == <<0, first>> \in C /\ \A n \in Nat, v \in V : <<n, v>> \in C => <<n + 1, next[v]>> \in C
           R == {x \in Nat \X V : \A C \in SUBSET (Nat \X V) : Good(C) => x \in C}
<1>1. Good(R) /\ R \subseteq Nat \X V
  <2>1. <<0, first>> \in R OBVIOUS
  <2>2. ASSUME NEW n \in Nat, NEW v \in V, <<n, v>> \in R PROVE <<n + 1, next[v]>> \in R
    <3>1. <<n + 1, next[v]>> \in Nat \X V OBVIOUS
    <3>2. ASSUME NEW C \in SUBSET (Nat \X V), Good(C) PROVE <<n + 1, next[v]>> \in C
      <4>1. <<n, v>> \in C BY <2>2, <3>2
      <4>. QED BY <3>2, <4>1
    <3> HIDE DEF Good
    <3>. QED BY <3>1, <3>2
  <2>. QED BY <2>1, <2>2
<1>2. ASSUME NEW C \in SUBSET (Nat \X V), Good(C) PROVE R \subseteq C BY <1>2
<1> HIDE DEF R
<1>3. \A n \in Nat : \E v \in V : <<n, v>> \in R
  <2> DEFINE S == {n \in Nat : \A v \in V : <<n, v>> \notin R}
  <2>1. SUFFICES ASSUME S # {} PROVE FALSE OBVIOUS
  <2>2. PICK n \in S : \A j \in S : n <= j BY <2>1, LeastExists
  <2>3. n # 0 BY <1>1
  <2>4. n \in Nat /\ n - 1 \in Nat /\ n - 1 < n /\ (n - 1) + 1 = n BY <2>2, <2>3
  <2>5. n - 1 \notin S
    <3> HIDE DEF S
    <3>. QED BY <2>2, <2>4
  <2>6. PICK v \in V : <<n - 1, v>> \in R BY <2>4, <2>5
  <2>7. <<n, next[v]>> \in R /\ next[v] \in V BY <1>1, <2>4, <2>6
  <2>. QED BY <2>2, <2>7
<1>4. ASSUME NEW v \in V, v # first PROVE <<0, v>> \notin R
  <2> DEFINE C == R \ {<<0, v>>}
  <2>1. C \in SUBSET (Nat \X V) BY <1>1
  <2>2. <<0, first>> \in C BY <1>1, <1>4
  <2>3. ASSUME NEW n \in Nat, NEW w \in V, <<n, w>> \in C PROVE <<n + 1, next[w]>> \in C
    <3>1. <<n + 1, next[w]>> \in R BY <1>1, <2>3
    <3>2. n + 1 # 0 OBVIOUS
    <3>. QED BY <3>1, <3>2
  <2>4. R \subseteq C
    <3>1. Good(C) BY <2>2, <2>3
    <3> HIDE DEF C, Good
    <3>. QED BY <1>2, <2>1, <3>1
  <2>. QED BY <2>4
<1>5. ASSUME NEW n \in Nat, NEW v \in V, NEW w \in V, w # next[v], \A u \in V : <<n, u>> \in R => u = v
      PROVE  <<n + 1, w>> \notin R
  <2> DEFINE C == R \ {<<n + 1, w>>}
  <2>1. C \in SUBSET (Nat \X V) BY <1>1
  <2>2. <<0, first>> \in C
    <3>1. n + 1 # 0 OBVIOUS
    <3>. QED BY <1>1, <3>1
  <2>3. ASSUME NEW k \in Nat, NEW u \in V, <<k, u>> \in C PROVE <<k + 1, next[u]>> \in C
    <3>1. <<k + 1, next[u]>> \in R BY <1>1, <2>3
    <3>2. k + 1 = n + 1 => k = n OBVIOUS
    <3>3. k = n => u = v BY <1>5, <2>3
    <3>4. <<k + 1, next[u]>> # <<n + 1, w>> BY <1>5, <3>2, <3>3
    <3>. QED BY <3>1, <3>4
  <2>4. R \subseteq C
    <3>1. Good(C) BY <2>2, <2>3
    <3> HIDE DEF C, Good
    <3>. QED BY <1>2, <2>1, <3>1
  <2>. QED BY <2>4
<1>6. \A n \in Nat : \A v, w \in V : <<n, v>> \in R /\ <<n, w>> \in R => v = w
  <2> DEFINE S == {n \in Nat : \E v, w \in V : <<n, v>> \in R /\ <<n, w>> \in R /\ v # w}
  <2>1. SUFFICES ASSUME S # {} PROVE FALSE OBVIOUS
  <2>2. PICK n \in S : \A j \in S : n <= j BY <2>1, LeastExists
  <2>3. PICK v \in V, w \in V : <<n, v>> \in R /\ <<n, w>> \in R /\ v # w BY <2>2
  <2>4. n # 0 BY <1>4, <2>3
  <2>5. n \in Nat /\ n - 1 \in Nat /\ n - 1 < n /\ (n - 1) + 1 = n BY <2>2, <2>4
  <2>6. n - 1 \notin S
    <3> HIDE DEF S
    <3>. QED BY <2>2, <2>5
  <2>7. PICK u \in V : <<n - 1, u>> \in R BY <1>3, <2>5
  <2>8. \A x \in V : <<n - 1, x>> \in R => x = u BY <2>5, <2>6, <2>7
  <2>9. v = next[u] BY <1>5, <2>3, <2>5, <2>8
  <2>10. w = next[u] BY <1>5, <2>3, <2>5, <2>8
  <2>. QED BY <2>3, <2>9, <2>10
<1> DEFINE f == [n \in Nat |-> CHOOSE v \in V : <<n, v>> \in R]
<1>7. \A n \in Nat : f[n] \in V /\ <<n, f[n]>> \in R BY <1>3
<1> HIDE DEF f
<1>8. f \in [Nat -> V]
  <2>1. \A n \in Nat : (CHOOSE v \in V : <<n, v>> \in R) \in V BY <1>3
  <2>. QED BY <2>1 DEF f
<1>9. f[0] = first BY <1>1, <1>6, <1>7
<1>10. ASSUME NEW n \in Nat PROVE f[n + 1] = next[f[n]]
  <2>1. f[n] \in V /\ <<n, f[n]>> \in R /\ f[n + 1] \in V /\ <<n + 1, f[n + 1]>> \in R /\ n + 1 \in Nat BY <1>7
  <2>2. <<n + 1, next[f[n]]>> \in R /\ next[f[n]] \in V BY <1>1, <2>1
  <2>. QED BY <1>6, <2>1, <2>2
<1>. QED BY <1>8, <1>9, <1>10

Ways == SUBSET (AllTiles \X Costs)

\* The walks one step longer than given ones, and those together.
IsLonger(next, steps, last, all) ==
  /\ next \in [last : Ways, all : Ways] /\ next.all = all \cup next.last
  /\ \A p \in next.last : \E q \in last, e \in steps : q[1] = e[1] /\ p = <<e[2], Plus(q[2], StepCost(e[1], e[2]))>>

LEMMA LongerIs ==
  ASSUME NEW steps \in SUBSET (AllTiles \X AllTiles), NEW last \in Ways, NEW all \in Ways
  PROVE  IsLonger(Longer(steps, [last |-> last, all |-> all]), steps, last, all)
<1> DEFINE w == [last |-> last, all |-> all]
           extended(e) == {<<e[2], Plus(p[2], StepCost(e[1], e[2]))>> : p \in {p \in w.last : p[1] = e[1]}}
           new == UNION {extended(e) : e \in steps}
<1>1. Longer(steps, w) = [last |-> new, all |-> w.all \cup new] BY DEF Longer
<1>2. w.last = last /\ w.all = all OBVIOUS
<1>3. ASSUME NEW p \in new
      PROVE  \E q \in last, e \in steps : q[1] = e[1] /\ p = <<e[2], Plus(q[2], StepCost(e[1], e[2]))>>
  <2>1. PICK e \in steps : p \in extended(e) OBVIOUS
  <2>2. PICK q \in last : q[1] = e[1] /\ p = <<e[2], Plus(q[2], StepCost(e[1], e[2]))>> BY <2>1
  <2>. QED BY <2>2
<1>4. new \in Ways
  <2>1. ASSUME NEW p \in new PROVE p \in AllTiles \X Costs
    <3>1. PICK q \in last, e \in steps : q[1] = e[1] /\ p = <<e[2], Plus(q[2], StepCost(e[1], e[2]))>> BY <1>3
    <3>2. q[2] \in Costs /\ q[2] \in Pairs /\ e[2] \in AllTiles BY DEF Ways, Costs, Pairs
    <3>3. StepCost(e[1], e[2]) \in Costs /\ StepCost(e[1], e[2]) \in Pairs BY CostIs
    <3>4. Plus(q[2], StepCost(e[1], e[2])) \in Costs BY <3>2, <3>3, PlusIs
    <3>. QED BY <3>1, <3>2, <3>4
  <2> HIDE DEF new
  <2>. QED BY <2>1 DEF Ways
<1> DEFINE next == Longer(steps, w)
<1> HIDE DEF new, w, next
<1>5. all \cup new \in Ways BY <1>4 DEF Ways
<1>6. next = [last |-> new, all |-> all \cup new] BY <1>1, <1>2 DEF next
<1>7. next \in [last : Ways, all : Ways] /\ next.last = new /\ next.all = all \cup new BY <1>4, <1>5, <1>6
<1>8. \A p \in next.last : \E q \in last, e \in steps : q[1] = e[1] /\ p = <<e[2], Plus(q[2], StepCost(e[1], e[2]))>>
  BY <1>3, <1>7
<1>9. next.all = all \cup next.last BY <1>7
<1>10. IsLonger(next, steps, last, all) BY <1>7, <1>8, <1>9 DEF IsLonger
<1>. QED BY <1>10 DEF next, w

LEMMA WalksAre ==
  ASSUME NEW in, in.walkable \subseteq AllTiles, in.start \in AllTiles
  PROVE  LET W == WalksOf(in)
             none == {<<in.start, <<0, 0>>>>}
         IN  /\ W \in [Nat -> [last : Ways, all : Ways]]
             /\ W[0] = [last |-> none, all |-> none]
             /\ \A n \in Nat : W[n + 1] = Longer(StepsOn(in.walkable), W[n])
<1> DEFINE steps == StepsOn(in.walkable)
           none == {<<in.start, <<0, 0>>>>}
           first == [last |-> none, all |-> none]
           V == [last : Ways, all : Ways]
           next == [v \in V |-> Longer(steps, v)]
           W == WalksOf(in)
<1>1. steps \in SUBSET (AllTiles \X AllTiles) BY DEF StepsOn
<1>2. first \in V
  <2>1. none \in Ways BY DEF Ways, Costs
  <2>. QED BY <2>1
<1>3. next \in [V -> V]
  <2>1. ASSUME NEW v \in V PROVE Longer(steps, v) \in V
    <3>1. v.last \in Ways /\ v.all \in Ways /\ v = [last |-> v.last, all |-> v.all] OBVIOUS
    <3> HIDE DEF steps, V
    <3>2. Longer(steps, [last |-> v.last, all |-> v.all]) \in [last : Ways, all : Ways] BY <1>1, <3>1, LongerIs DEF IsLonger
    <3>. QED BY <3>1, <3>2 DEF V
  <2> HIDE DEF V
  <2>. QED BY <2>1
<1>4. \E f \in [Nat -> V] : f[0] = first /\ \A n \in Nat : f[n + 1] = next[f[n]]
  <2> HIDE DEF V, first, next
  <2>. QED BY <1>2, <1>3, Iteration
<1>5. PICK f \in [Nat -> V] : f[0] = first /\ \A n \in Nat : f[n + 1] = next[f[n]] BY <1>4
<1>6. ASSUME NEW n \in Nat PROVE f[n] = IF n = 0 THEN first ELSE Longer(steps, f[n - 1])
  <2>1. CASE n = 0 BY <1>5, <2>1
  <2>2. CASE n # 0
    <3>1. n - 1 \in Nat /\ (n - 1) + 1 = n BY <2>2
    <3>2. f[n] = next[f[n - 1]] /\ f[n - 1] \in V BY <1>5, <3>1
    <3> HIDE DEF V, first
    <3>. QED BY <2>2, <3>2
  <2>. QED BY <2>1, <2>2
<1> HIDE DEF V, next, W
<1>7. f = [n \in Nat |-> IF n = 0 THEN first ELSE Longer(steps, f[n - 1])] BY <1>6
<1>8. W = [n \in Nat |-> IF n = 0 THEN first ELSE Longer(steps, W[n - 1])]
  <2>1. W = CHOOSE g : g = [n \in Nat |-> IF n = 0 THEN first ELSE Longer(steps, g[n - 1])] BY DEF W, WalksOf
  <2>. QED BY <1>7, <2>1
<1> HIDE DEF first, steps
<1>9. W[0] = first BY <1>8
<1>10. ASSUME NEW n \in Nat PROVE W[n + 1] = Longer(steps, W[n])
  <2>1. n + 1 \in Nat /\ n + 1 # 0 /\ (n + 1) - 1 = n OBVIOUS
  <2>. QED BY <1>8, <2>1
<1>11. \A n \in Nat : W[n] = f[n]
  <2> DEFINE S == {n \in Nat : W[n] # f[n]}
  <2>1. SUFFICES ASSUME S # {} PROVE FALSE OBVIOUS
  <2>2. PICK n \in S : \A j \in S : n <= j BY <2>1, LeastExists
  <2>3. n # 0 BY <1>5, <1>9, <2>2
  <2>4. n \in Nat /\ n - 1 \in Nat /\ n - 1 < n /\ (n - 1) + 1 = n BY <2>2, <2>3
  <2>5. n - 1 \notin S
    <3> HIDE DEF S
    <3>. QED BY <2>2, <2>4
  <2>6. W[n - 1] = f[n - 1] BY <2>4, <2>5
  <2>7. W[n] = Longer(steps, W[n - 1]) /\ f[n] = Longer(steps, f[n - 1]) BY <1>6, <1>8, <2>3, <2>4
  <2>. QED BY <2>2, <2>6, <2>7
<1>12. W \in [Nat -> V]
  <2>1. DOMAIN W = Nat BY <1>8
  <2>2. W = [n \in Nat |-> W[n]] BY <1>8
  <2>3. \A n \in Nat : W[n] \in V BY <1>11
  <2>. QED BY <2>2, <2>3
<1>. QED BY <1>9, <1>10, <1>12 DEF W, V, first, steps

LEMMA LeastOf ==
  ASSUME NEW S \in SUBSET Nat, S # {}
  PROVE  Min(S) \in S /\ \A k \in S : Min(S) <= k
BY LeastExists DEF Min

\* With a walk, the set has those one step longer.
Extends(C, in) ==
  \A p \in C : \A s, t \in in.walkable :
    p[1] = s /\ IsStep(in.walkable, s, t) => <<t, Plus(p[2], StepCost(s, t))>> \in C

\* What holds of the empty walk and of a walk one step longer holds of all walks.
LEMMA WalksStayIn ==
  ASSUME NEW in, in.walkable \subseteq AllTiles, in.start \in AllTiles, NEW C,
         <<in.start, <<0, 0>>>> \in C, Extends(C, in)
  PROVE  \A n \in Nat : WalksOf(in)[n].all \subseteq C
<1> DEFINE W == WalksOf(in)  none == {<<in.start, <<0, 0>>>>}  steps == StepsOn(in.walkable)
<1>1. /\ W \in [Nat -> [last : Ways, all : Ways]] /\ W[0] = [last |-> none, all |-> none]
      /\ \A n \in Nat : W[n + 1] = Longer(steps, W[n])
  BY WalksAre
<1>2. steps \in SUBSET (AllTiles \X AllTiles) BY DEF StepsOn
<1>s. ASSUME NEW e \in steps PROVE e[1] \in in.walkable /\ e[2] \in in.walkable /\ IsStep(in.walkable, e[1], e[2])
  BY DEF StepsOn
<1>t. none \subseteq C OBVIOUS
<1> HIDE DEF W, steps, none
<1> DEFINE Within(n) == W[n].last \subseteq C /\ W[n].all \subseteq C
           S == {n \in Nat : ~Within(n)}
<1>0. Within(0)
  <2>0. W[0] = [last |-> none, all |-> none] BY <1>1
  <2>1. W[0].last = none /\ W[0].all = none BY <2>0
  <2>. QED BY <1>t, <2>1
<1>3. ASSUME S # {} PROVE FALSE
  <2>0. S \in SUBSET Nat OBVIOUS
  <2>1. PICK n \in S : \A j \in S : n <= j BY <1>3, <2>0, LeastExists
  <2>2. n \in Nat /\ n # 0 /\ \A j \in S : n <= j
    <3> HIDE DEF Within
    <3>. QED BY <1>0, <2>1
  <2>3. n - 1 \in Nat /\ n - 1 < n /\ (n - 1) + 1 = n BY <2>2
  <2>4. n - 1 \notin S
    <3> HIDE DEF S
    <3>. QED BY <2>2, <2>3
  <2> DEFINE last == W[n - 1].last  all == W[n - 1].all
  <2>5. last \subseteq C /\ all \subseteq C
    <3>1. Within(n - 1) BY <2>3, <2>4
    <3>. QED BY <3>1
  <2>6. last \in Ways /\ all \in Ways /\ W[n - 1] = [last |-> last, all |-> all] BY <1>1, <2>3
  <2>7. W[n] = Longer(steps, [last |-> last, all |-> all]) BY <1>1, <2>3, <2>6
  <2> HIDE DEF last, all
  <2>8. /\ W[n].all = all \cup W[n].last
        /\ \A p \in W[n].last : \E q \in last, e \in steps : q[1] = e[1] /\ p = <<e[2], Plus(q[2], StepCost(e[1], e[2]))>>
    <3>1. IsLonger(Longer(steps, [last |-> last, all |-> all]), steps, last, all) BY <1>2, <2>6, LongerIs
    <3>2. IsLonger(W[n], steps, last, all) BY <2>7, <3>1
    <3>. QED BY <3>2 DEF IsLonger
  <2>9. ASSUME NEW p \in W[n].last PROVE p \in C
    <3>1. PICK q \in last, e \in steps : q[1] = e[1] /\ p = <<e[2], Plus(q[2], StepCost(e[1], e[2]))>> BY <2>8
    <3>2. q \in C BY <2>5
    <3>. QED BY <1>s, <3>1, <3>2 DEF Extends
  <2>10. Within(n) BY <2>5, <2>8, <2>9
  <2> HIDE DEF Within
  <2>. QED BY <2>1, <2>10
<1>4. \A n \in Nat : W[n].all \subseteq C BY <1>3
<1>. QED BY <1>4 DEF W

\* Numbers moved up by one are as many.
LEMMA ShiftedAre ==
  ASSUME NEW n \in Nat, NEW S \in SUBSET (1 .. n)
  PROVE  LET T == {k + 1 : k \in S}
         IN  /\ IsFiniteSet(S) /\ IsFiniteSet(T) /\ 1 \notin T /\ T \in SUBSET (2 .. n + 1)
             /\ Cardinality(T) = Cardinality(S) /\ Cardinality(S) \in Nat
<1> DEFINE T == {k + 1 : k \in S}
           f == [k \in S |-> k + 1]
<1>1. IsFiniteSet(S) /\ Cardinality(S) \in Nat
  <2>1. IsFiniteSet(1 .. n) BY FS_Interval
  <2>. QED BY <2>1, FS_Subset, FS_CardinalityType
<1>2. f \in Bijection(S, T)
  <2>1. f \in [S -> T] OBVIOUS
  <2>2. \A a, b \in S : f[a] = f[b] => a = b OBVIOUS
  <2>3. \A t \in T : \E s \in S : f[s] = t OBVIOUS
  <2> HIDE DEF f, T
  <2>. QED BY <2>1, <2>2, <2>3 DEF Bijection, Injection, Surjection, IsInjective
<1>3. IsFiniteSet(T) /\ Cardinality(T) = Cardinality(S)
  <2> HIDE DEF f, T
  <2>. QED BY <1>1, <1>2, FS_Bijection DEF ExistsBijection
<1>4. 1 \notin T /\ T \in SUBSET (2 .. n + 1) OBVIOUS
<1>. QED BY <1>1, <1>3, <1>4

Diagonals(path) == {k \in 1 .. Len(path) - 1 : StepCost(path[k], path[k + 1]) = <<0, 1>>}

LEMMA CostOfIs ==
  ASSUME NEW path \in Seq(AllTiles), Len(path) > 0
  PROVE  /\ CostOf(path) = <<Len(path) - 1 - Cardinality(Diagonals(path)), Cardinality(Diagonals(path))>>
         /\ CostOf(path) \in Costs /\ CostOf(path) \in Pairs
         /\ IsFiniteSet(Diagonals(path)) /\ Cardinality(Diagonals(path)) \in Nat
         /\ Len(path) = 1 => CostOf(path) = <<0, 0>>
<1> DEFINE m == Len(path) - 1  D == Diagonals(path)  E == (1 .. m) \ D
<1>1. m \in Nat OBVIOUS
<1>2. D \in SUBSET (1 .. m) BY DEF Diagonals
<1> HIDE DEF D
<1>3. IsFiniteSet(1 .. m) /\ Cardinality(1 .. m) = m BY <1>1, FS_Interval
<1>4. IsFiniteSet(D) /\ Cardinality(D) \in Nat /\ Cardinality(D) <= m
  BY <1>2, <1>3, FS_Subset, FS_CardinalityType
<1>5. Cardinality(E) = m - Cardinality(D)
  <2>1. E \cap D = {} /\ E \cup D = 1 .. m /\ E \in SUBSET (1 .. m) BY <1>2
  <2> HIDE DEF E, m
  <2>2. IsFiniteSet(E) /\ Cardinality(E) \in Nat BY <1>3, <2>1, FS_Subset, FS_CardinalityType
  <2>3. Cardinality(E \cup D) = Cardinality(E) + Cardinality(D) - Cardinality(E \cap D) BY <1>4, <2>2, FS_Union
  <2>4. Cardinality(E \cap D) = 0 BY <2>1, FS_EmptySet
  <2>5. m = Cardinality(E) + Cardinality(D) - 0 BY <1>3, <2>1, <2>3, <2>4
  <2> DEFINE e == Cardinality(E)  d == Cardinality(D)
  <2>6. e \in Nat /\ d \in Nat /\ m = e + d - 0 BY <1>4, <2>2, <2>5
  <2> HIDE DEF e, d
  <2>7. e = m - d BY <2>6
  <2>. QED BY <2>7 DEF e, d
<1>6. CostOf(path) = <<Cardinality(E), Cardinality(D)>> BY DEF CostOf, D, Diagonals
<1>7. CostOf(path) = <<m - Cardinality(D), Cardinality(D)>> BY <1>5, <1>6
<1>8. m - Cardinality(D) \in Nat BY <1>1, <1>4
<1>9. CostOf(path) \in Costs /\ CostOf(path) \in Pairs BY <1>4, <1>7, <1>8 DEF Costs, Pairs
<1>10. Len(path) = 1 => CostOf(path) = <<0, 0>>
  <2>1. ASSUME Len(path) = 1 PROVE CostOf(path) = <<0, 0>>
    <3>1. m = 0 BY <2>1
    <3>2. Cardinality(D) = 0
      <4> DEFINE d == Cardinality(D)
      <4>1. d \in Nat /\ d <= 0 BY <1>4, <3>1
      <4> HIDE DEF d
      <4>2. d = 0 BY <4>1
      <4>. QED BY <4>2 DEF d
    <3>. QED BY <1>7, <3>1, <3>2
  <2>. QED BY <2>1
<1>. QED BY <1>4, <1>7, <1>9, <1>10 DEF D

LEMMA CostOfLonger ==
  ASSUME NEW path \in Seq(AllTiles), Len(path) > 0, NEW s \in AllTiles
  PROVE  CostOf(<<s>> \o path) = Plus(StepCost(s, path[1]), CostOf(path))
<1> DEFINE n == Len(path)  q == <<s>> \o path
           D == Diagonals(path)  T == {k + 1 : k \in D}  E == Diagonals(q)
<1>1. n \in Nat /\ n >= 1 OBVIOUS
<1>2. q \in Seq(AllTiles) /\ Len(q) = n + 1 /\ q[1] = s /\ \A k \in 1 .. n : q[k + 1] = path[k]
  BY <1>1
<1>3. D \in SUBSET (1 .. n) BY <1>1 DEF Diagonals
<1>4. IsFiniteSet(D) /\ IsFiniteSet(T) /\ 1 \notin T /\ Cardinality(T) = Cardinality(D) /\ Cardinality(D) \in Nat
      /\ T \in SUBSET (2 .. n + 1)
  <2> HIDE DEF D, n
  <2>. QED BY <1>1, <1>3, ShiftedAre
<1>5. \A k \in 2 .. n : k \in E <=> k - 1 \in D
  <2>1. ASSUME NEW k \in 2 .. n PROVE k \in E <=> k - 1 \in D
    <3>1. k - 1 \in 1 .. n - 1 /\ k - 1 \in 1 .. n /\ k \in 1 .. n /\ (k - 1) + 1 = k /\ k \in 1 .. (n + 1) - 1 BY <1>1
    <3>2. q[k] = path[k - 1] /\ q[k + 1] = path[k] BY <1>2, <3>1
    <3>3. k \in E <=> StepCost(q[k], q[k + 1]) = <<0, 1>> BY <1>2, <3>1 DEF Diagonals
    <3>4. k - 1 \in D <=> StepCost(path[k - 1], path[k]) = <<0, 1>> BY <3>1 DEF Diagonals
    <3>. QED BY <3>2, <3>3, <3>4
  <2>. QED BY <2>1
<1>6. 1 \in E <=> StepCost(s, path[1]) = <<0, 1>>
  <2>1. 1 \in 1 .. (n + 1) - 1 /\ 1 \in 1 .. n BY <1>1
  <2>2. q[1 + 1] = path[1] BY <1>2, <2>1
  <2>. QED BY <1>2, <2>1, <2>2 DEF Diagonals
<1>7. E \subseteq 1 .. n BY <1>1, <1>2 DEF Diagonals
<1>d. D \subseteq 1 .. n - 1 BY DEF Diagonals
<1>8. E \ {1} = T
  <2>1. ASSUME NEW k \in E, k # 1 PROVE k \in T
    <3>1. k \in 2 .. n /\ k - 1 \in 1 .. n /\ (k - 1) + 1 = k BY <1>1, <1>7, <2>1
    <3>2. k - 1 \in D BY <1>5, <2>1, <3>1
    <3>. QED BY <3>1, <3>2
  <2>2. ASSUME NEW j \in D PROVE j + 1 \in E /\ j + 1 # 1
    <3>1. j + 1 \in 2 .. n /\ (j + 1) - 1 = j BY <1>1, <1>d
    <3>. QED BY <1>5, <2>2, <3>1
  <2> HIDE DEF D, E
  <2>. QED BY <2>1, <2>2
<1>9. CostOf(path) = <<n - 1 - Cardinality(D), Cardinality(D)>> BY CostOfIs
<1>10. CostOf(q) = <<n - Cardinality(E), Cardinality(E)>> /\ IsFiniteSet(E) /\ Cardinality(E) \in Nat
  <2>1. Len(q) > 0 /\ Len(q) - 1 = n BY <1>1, <1>2
  <2> HIDE DEF q, n
  <2>. QED BY <1>2, <2>1, CostOfIs DEF E
<1> HIDE DEF n, q, D, T, E
<1>11. Cardinality(E) = Cardinality(D) + (IF 1 \in E THEN 1 ELSE 0)
  <2>1. Cardinality(E \ {1}) = IF 1 \in E THEN Cardinality(E) - 1 ELSE Cardinality(E) BY <1>10, FS_RemoveElement
  <2> DEFINE e == Cardinality(E)  d == Cardinality(D)
  <2>2. Cardinality(E \ {1}) = d BY <1>4, <1>8
  <2>3. e \in Nat /\ d \in Nat /\ d = (IF 1 \in E THEN e - 1 ELSE e) BY <1>4, <1>10, <2>1, <2>2
  <2> HIDE DEF e, d
  <2>4. e = d + (IF 1 \in E THEN 1 ELSE 0) BY <2>3
  <2>. QED BY <2>4 DEF e, d
<1>12. CASE 1 \in E
  <2>1. StepCost(s, path[1]) = <<0, 1>> BY <1>6, <1>12
  <2>2. n - Cardinality(E) = 0 + (n - 1 - Cardinality(D)) /\ Cardinality(E) = 1 + Cardinality(D) BY <1>1, <1>4, <1>11, <1>12
  <2>. QED BY <1>9, <1>10, <2>1, <2>2 DEF Plus, q
<1>13. CASE 1 \notin E
  <2>1. StepCost(s, path[1]) = <<1, 0>> BY <1>6, <1>13, CostIs
  <2>2. n - Cardinality(E) = 1 + (n - 1 - Cardinality(D)) /\ Cardinality(E) = 0 + Cardinality(D) BY <1>1, <1>4, <1>11, <1>13
  <2>. QED BY <1>9, <1>10, <2>1, <2>2 DEF Plus, q
<1>. QED BY <1>12, <1>13

---------------------------------------------------------------------------
(* The search.  F(t) is the score a tile enters the open set with.         *)

Heuristic(t) == OctileDistance(t, input.target)
F(t) == Plus(gScore[t], Heuristic(t))
Ahead(t, k) == Plus(t, Directions[k])

SearchKinds ==
  /\ input \in Inputs /\ phase \in {"called", "searching", "rebuilding", "returned"}
  /\ openSet \in Queues /\ Heap(openSet)
  /\ gScore \in [DOMAIN gScore -> Costs] /\ DOMAIN gScore \subseteq input.walkable
  /\ gRounding \in [DOMAIN gScore -> Int]
  /\ DOMAIN cameFrom = DOMAIN gScore \ {input.start} /\ closed \subseteq DOMAIN gScore
  /\ closed # {} => current \in closed
  /\ IF closed = {} THEN ahead = {} ELSE ahead \subseteq Neighbors(current)

\* Nothing has been done in a call that was not begun.
Untouched == phase = "called" => DOMAIN gScore = {} /\ openSet = <<>>

\* The open set holds each tile seen that is not closed with its score; an
\* entry that was overtaken by a better one has a worse score than its tile.
SeenIsOpen ==
  /\ \A e \in Entries(openSet) : e.position \in DOMAIN gScore /\ AtMost(F(e.position), e.score)
  /\ \A t \in DOMAIN gScore \ closed : \E e \in Entries(openSet) : e.position = t /\ e.score = F(t)

\* The tile taken last divides the scores: nothing taken before scores more,
\* nothing open less.
Frontier ==
  closed # {} =>
    /\ \A e \in Entries(openSet) : AtMost(F(current), e.score)
    /\ \A t \in closed : AtMost(F(t), F(current))

\* The neighbours of the closed tiles were reached from them.
Relaxed ==
  phase = "searching" =>
    \A t \in closed : \A k \in Neighbors(t) :
      (t = current /\ k \in ahead) \/
        (Ahead(t, k) \in DOMAIN gScore /\ AtMost(gScore[Ahead(t, k)], Plus(gScore[t], MovementCost(Directions[k]))))

\* A score is what the steps from the start cost, along the parents.
Parents ==
  /\ phase \in {"searching", "rebuilding"} =>
       input.start \in DOMAIN gScore /\ gScore[input.start] = <<0, 0>>
  /\ \A t \in DOMAIN cameFrom :
       LET s == cameFrom[t]
       IN  s \in closed /\ IsStep(input.walkable, s, t) /\ gScore[t] = Plus(gScore[s], StepCost(s, t))

Ongoing ==
  /\ phase \in {"searching", "rebuilding"} =>
       {input.start, input.target} \subseteq input.walkable /\ input.start # input.target
  /\ phase = "searching" => input.target \notin closed

\* What is rebuilt leads to the target, and to its score.
Rebuilt ==
  phase = "rebuilding" =>
    /\ result \in Seq(input.walkable) /\ Len(result) > 0 /\ result[Len(result)] = input.target
    /\ \A i \in 1 .. Len(result) : result[i] \in DOMAIN gScore
    /\ \A i \in 1 .. Len(result) - 1 : IsStep(input.walkable, result[i], result[i + 1])
    /\ \A i, j \in 1 .. Len(result) : i < j => Less(gScore[result[i]], gScore[result[j]])
    /\ Plus(gScore[result[1]], CostOf(result)) = gScore[input.target]

NoCheaper ==
  phase = "rebuilding" =>
    \A n \in Nat : \A w \in WalksOf(input)[n].all : w[1] = input.target => AtMost(gScore[input.target], w[2])

SearchInv ==
  /\ SearchKinds /\ Untouched /\ SeenIsOpen /\ Frontier /\ Relaxed /\ Parents /\ Ongoing /\ Rebuilt /\ NoCheaper
  /\ PathIsWalk /\ PathIsShortest

LEMMA InputIs ==
  ASSUME input \in Inputs
  PROVE  input.walkable \subseteq AllTiles /\ input.start \in AllTiles /\ input.target \in AllTiles
BY PathfindingAssumption

LEMMA ScoresAre ==
  ASSUME SearchKinds
  PROVE  /\ \A t \in AllTiles : Heuristic(t) \in Costs /\ Heuristic(t) \in Pairs
         /\ Heuristic(input.target) = <<0, 0>>
         /\ \A t \in DOMAIN gScore : t \in input.walkable /\ t \in AllTiles /\ gScore[t] \in Costs /\ gScore[t] \in Pairs
                                     /\ F(t) \in Costs /\ F(t) \in Pairs
         /\ \A e \in Entries(openSet) : e \in QueueEntry /\ e.score \in Pairs
<1>1. input.walkable \subseteq AllTiles /\ input.target \in AllTiles BY InputIs DEF SearchKinds
<1>2. \A t \in AllTiles : Heuristic(t) \in Costs /\ Heuristic(t) \in Pairs BY <1>1, DistanceIs DEF Heuristic
<1>3. Heuristic(input.target) = <<0, 0>> BY <1>1, DistanceIs DEF Heuristic
<1>4. ASSUME NEW t \in DOMAIN gScore
      PROVE  t \in input.walkable /\ t \in AllTiles /\ gScore[t] \in Costs /\ gScore[t] \in Pairs /\ F(t) \in Costs /\ F(t) \in Pairs
  <2>1. t \in input.walkable /\ gScore[t] \in Costs BY DEF SearchKinds
  <2>2. gScore[t] \in Pairs BY <2>1 DEF Costs, Pairs
  <2>3. F(t) \in Costs /\ F(t) \in Pairs BY <1>1, <1>2, <2>1, <2>2, PlusIs DEF F
  <2>. QED BY <1>1, <2>1, <2>2, <2>3
<1>5. ASSUME NEW e \in Entries(openSet) PROVE e \in QueueEntry /\ e.score \in Pairs
  <2>1. openSet \in Queues BY DEF SearchKinds
  <2>2. e \in QueueEntry BY <2>1, QueueIs DEF Entries
  <2>. QED BY <2>2, EntryCosts
<1>. QED BY <1>2, <1>3, <1>4, <1>5

\* A cost is not less than nothing, and a sum not less than its parts.
LEMMA CostsGrow ==
  ASSUME NEW c \in Costs, NEW d \in Costs
  PROVE  /\ c \in Pairs /\ AtMost(<<0, 0>>, c) /\ AtMost(c, Plus(c, d)) /\ AtMost(c, c) /\ <<0, 0>> \in Pairs
<1>1. c \in Pairs /\ d \in Pairs /\ <<0, 0>> \in Pairs BY DEF Costs, Pairs
<1>2. c[1] \in Nat /\ c[2] \in Nat /\ d[1] \in Nat /\ d[2] \in Nat BY DEF Costs
<1>3. ASSUME NEW x \in Nat, NEW y \in Nat PROVE ~Positive(-x, -y)
  BY DEF Positive
<1>4. ~Less(c, <<0, 0>>)
  <2>1. 0 - c[1] = -c[1] /\ 0 - c[2] = -c[2] BY <1>2
  <2>. QED BY <1>2, <1>3, <2>1 DEF Less
<1>5. ~Less(Plus(c, d), c)
  <2>1. c[1] - (c[1] + d[1]) = -d[1] /\ c[2] - (c[2] + d[2]) = -d[2] BY <1>2
  <2>. QED BY <1>2, <1>3, <2>1 DEF Less, Plus
<1>6. ~Less(c, c) BY <1>1, LessTotal
<1>. QED BY <1>1, <1>4, <1>5, <1>6 DEF AtMost

\* A step costs more than nothing.
LEMMA StepsCost ==
  ASSUME NEW c \in Pairs, NEW s, NEW t
  PROVE  Less(c, Plus(c, StepCost(s, t)))
<1> DEFINE d == StepCost(s, t)
<1>1. d \in Pairs /\ Positive(d[1], d[2]) BY CostIs
<1> HIDE DEF d
<1>2. c[1] \in Int /\ c[2] \in Int /\ d[1] \in Int /\ d[2] \in Int BY <1>1 DEF Pairs
<1>3. (c[1] + d[1]) - c[1] = d[1] /\ (c[2] + d[2]) - c[2] = d[2] BY <1>2
<1>4. Less(c, Plus(c, d)) BY <1>1, <1>3 DEF Less, Plus
<1>. QED BY <1>4 DEF d

\* Between two turns of the inner loop, whoever walks on from a closed tile
\* comes to a closed tile or to an open one, at no lower cost.
Bounded ==
  {p \in input.walkable \X Costs :
     (p[1] \in closed /\ AtMost(gScore[p[1]], p[2]))
       \/ \E e \in Entries(openSet) : AtMost(e.score, Plus(p[2], Heuristic(p[1])))}

LEMMA WalksAreBounded ==
  ASSUME SearchKinds, SeenIsOpen, Relaxed, Parents, Ongoing, phase = "searching", ahead = {}
  PROVE  \A n \in Nat : WalksOf(input)[n].all \subseteq Bounded
<1>1. input.walkable \subseteq AllTiles /\ input.start \in AllTiles BY InputIs DEF SearchKinds
<1>2. /\ input.start \in input.walkable /\ input.start \in DOMAIN gScore /\ gScore[input.start] = <<0, 0>>
  BY DEF Ongoing, Parents
<1>3. ASSUME NEW t \in DOMAIN gScore, NEW c \in Costs, AtMost(gScore[t], c) PROVE <<t, c>> \in Bounded
  <2>1. t \in input.walkable /\ t \in AllTiles /\ gScore[t] \in Pairs /\ c \in Pairs /\ F(t) \in Pairs /\ Heuristic(t) \in Pairs
    BY ScoresAre DEF Costs, Pairs
  <2>2. CASE t \in closed BY <1>3, <2>1, <2>2 DEF Bounded
  <2>3. CASE t \notin closed
    <3>1. PICK e \in Entries(openSet) : e.score = F(t) BY <2>3 DEF SeenIsOpen
    <3>2. AtMost(F(t), Plus(c, Heuristic(t))) BY <1>3, <2>1, LessSums DEF F
    <3>. QED BY <2>1, <3>1, <3>2 DEF Bounded
  <2>. QED BY <2>2, <2>3
<1>4. <<input.start, <<0, 0>>>> \in Bounded
  <2>1. <<0, 0>> \in Costs BY DEF Costs
  <2>. QED BY <1>2, <1>3, <2>1, CostsGrow
<1>5. ASSUME NEW p \in Bounded, NEW s \in input.walkable, NEW t \in input.walkable, p[1] = s, IsStep(input.walkable, s, t)
      PROVE  <<t, Plus(p[2], StepCost(s, t))>> \in Bounded
  <2> DEFINE c == p[2]  d == StepCost(s, t)
  <2>1. c \in Costs /\ d \in Costs BY CostIs DEF Bounded
  <2>2. c \in Pairs /\ d \in Pairs /\ Plus(c, d) \in Costs BY <2>1, PlusIs DEF Costs, Pairs
  <2>3. s \in AllTiles /\ t \in AllTiles /\ Heuristic(s) \in Pairs /\ Heuristic(t) \in Pairs BY <1>1, ScoresAre
  <2>4. ASSUME s \in closed, AtMost(gScore[s], c) PROVE <<t, Plus(c, d)>> \in Bounded
    <3>1. PICK k \in Neighbors(s) : t = Plus(s, Directions[k]) /\ d = MovementCost(Directions[k])
      BY <1>1, <1>5, <2>3, StepIsNeighbor
    <3>2. t \in DOMAIN gScore /\ AtMost(gScore[t], Plus(gScore[s], d)) BY <2>4, <3>1 DEF Relaxed, Ahead
    <3>3. s \in DOMAIN gScore /\ gScore[s] \in Pairs /\ gScore[t] \in Pairs BY <2>4, <3>2, ScoresAre DEF SearchKinds
    <3>4. AtMost(Plus(gScore[s], d), Plus(c, d)) BY <2>2, <2>4, <3>3, LessSums
    <3>5. AtMost(gScore[t], Plus(c, d))
      <4>1. Plus(gScore[s], d) \in Pairs /\ Plus(c, d) \in Pairs BY <2>2, <3>3, PlusIs
      <4> HIDE DEF c, d
      <4>. QED BY <3>2, <3>3, <3>4, <4>1, LessChains
    <3>. QED BY <1>3, <2>2, <3>2, <3>5
  <2>5. ASSUME NEW e \in Entries(openSet), AtMost(e.score, Plus(c, Heuristic(s))) PROVE <<t, Plus(c, d)>> \in Bounded
    <3>1. AtMost(Heuristic(s), Plus(d, Heuristic(t)))
      <4>1. input.target \in AllTiles BY InputIs DEF SearchKinds
      <4>. QED BY <1>5, <2>3, <4>1, Consistent DEF Heuristic
    <3> DEFINE h == Heuristic(s)  i == Heuristic(t)
    <3>2. h \in Pairs /\ i \in Pairs /\ e.score \in Pairs BY <2>3, ScoresAre
    <3>3. AtMost(h, Plus(d, i)) /\ AtMost(e.score, Plus(c, h)) BY <2>5, <3>1
    <3> HIDE DEF h, i, c, d
    <3>4. Plus(d, i) \in Pairs /\ Plus(c, h) \in Pairs /\ Plus(c, Plus(d, i)) \in Pairs BY <2>2, <3>2, PlusIs
    <3>5. AtMost(Plus(c, h), Plus(c, Plus(d, i)))
      <4>1. AtMost(Plus(h, c), Plus(Plus(d, i), c)) BY <2>2, <3>2, <3>3, <3>4, LessSums
      <4>2. Plus(h, c) = Plus(c, h) /\ Plus(Plus(d, i), c) = Plus(c, Plus(d, i)) BY <2>2, <3>2, <3>4, PlusIs
      <4>. QED BY <4>1, <4>2
    <3>6. AtMost(e.score, Plus(c, Plus(d, i))) BY <3>2, <3>3, <3>4, <3>5, LessChains
    <3>7. Plus(c, Plus(d, i)) = Plus(Plus(c, d), i) BY <2>2, <3>2, PlusThree
    <3>8. AtMost(e.score, Plus(Plus(c, d), Heuristic(t))) BY <3>6, <3>7 DEF i
    <3>. QED BY <2>2, <3>8 DEF Bounded
  <2>6. (s \in closed /\ AtMost(gScore[s], c)) \/ \E e \in Entries(openSet) : AtMost(e.score, Plus(c, Heuristic(s)))
    BY <1>5 DEF Bounded
  <2> HIDE DEF c, d
  <2>7. <<t, Plus(c, d)>> \in Bounded BY <2>4, <2>5, <2>6
  <2>. QED BY <2>7 DEF c, d
<1>6. Extends(Bounded, input) BY <1>5 DEF Extends
<1>. QED BY <1>1, <1>4, <1>6, WalksStayIn

LEMMA EntryIs ==
  ASSUME SearchKinds, NEW t \in AllTiles, NEW c \in Costs, NEW q \in Int
  PROVE  /\ Entry(t, c, q) \in QueueEntry /\ Entry(t, c, q).position = t
         /\ Entry(t, c, q).score = Plus(c, Heuristic(t))
<1>1. Heuristic(t) \in Costs /\ Heuristic(t) \in Pairs /\ c \in Pairs BY ScoresAre DEF Costs, Pairs
<1>2. Plus(c, Heuristic(t)) \in Costs BY <1>1, PlusIs
<1>3. Entry(t, c, q) = [position |-> t, score |-> Plus(c, Heuristic(t)), rounding |-> q, heuristic |-> Heuristic(t)]
  BY DEF Entry, Heuristic
<1>. QED BY <1>1, <1>2, <1>3 DEF QueueEntry, AllTiles

LEMMA SearchStarts == SearchInit => SearchInv
<1> SUFFICES ASSUME SearchInit PROVE SearchInv OBVIOUS
<1> USE DEF SearchInit
<1>1. /\ DOMAIN gScore = {} /\ DOMAIN cameFrom = {} /\ gScore \in [DOMAIN gScore -> Costs]
      /\ gRounding \in [DOMAIN gScore -> Int]
  BY DEF Nothing
<1>2. openSet \in Queues /\ Heap(openSet) /\ Entries(openSet) = {} BY DEF Queues, Heap, Entries
<1>3. SearchKinds BY <1>1, <1>2 DEF SearchKinds
<1>4. Untouched BY <1>1 DEF Untouched
<1>5. SeenIsOpen BY <1>1, <1>2 DEF SeenIsOpen
<1>6. Frontier /\ Relaxed BY DEF Frontier, Relaxed
<1>7. Parents BY <1>1 DEF Parents
<1>8. Ongoing /\ Rebuilt /\ NoCheaper BY DEF Ongoing, Rebuilt, NoCheaper
<1>9. PathIsWalk /\ PathIsShortest BY DEF PathIsWalk, PathIsShortest
<1>. QED BY <1>3, <1>4, <1>5, <1>6, <1>7, <1>8, <1>9 DEF SearchInv

\* The state of the search, which only its own steps change.
Inside == SearchKinds /\ SeenIsOpen /\ Frontier

LEMMA InsideStays ==
  ASSUME Inside, UNCHANGED <<input, openSet, current, ahead, gScore, gRounding, cameFrom, closed>>,
         phase' \in {"called", "searching", "rebuilding", "returned"}
  PROVE  Inside'
<1>1. SearchKinds' BY DEF Inside, SearchKinds, Neighbors, IsReachableNeighbor, IsWalkable
<1>2. SeenIsOpen' BY DEF Inside, SeenIsOpen, F, Heuristic
<1>3. Frontier' BY DEF Inside, Frontier, F, Heuristic
<1>. QED BY <1>1, <1>2, <1>3 DEF Inside

LEMMA ParentsStay ==
  ASSUME Parents, UNCHANGED <<input, gScore, cameFrom, closed>>,
         phase' \in {"searching", "rebuilding"} => phase \in {"searching", "rebuilding"}
  PROVE  Parents'
BY DEF Parents

\* What is returned is right when its own properties hold.
LEMMA ReturnKeeps ==
  ASSUME SearchInv, NEW r, Return(r), UNCHANGED closed, PathIsWalk', PathIsShortest'
  PROVE  SearchInv'
<1>1. phase' = "returned" /\ UNCHANGED <<input, openSet, current, ahead, gScore, gRounding, cameFrom, closed>> BY DEF Return
<1>2. Inside' BY <1>1, InsideStays DEF SearchInv, Inside
<1>3. Parents' BY <1>1, ParentsStay DEF SearchInv
<1>4. Untouched' /\ Relaxed' /\ Ongoing' /\ Rebuilt' /\ NoCheaper'
  BY <1>1 DEF Untouched, Relaxed, Ongoing, Rebuilt, NoCheaper
<1>. QED BY <1>2, <1>3, <1>4 DEF SearchInv, Inside

\* An empty path costs nothing.
LEMMA CostOfNone == CostOf(<<>>) = <<0, 0>>
<1>1. 1 .. Len(<<>>) - 1 = {} OBVIOUS
<1>2. Cardinality({}) = 0 BY FS_EmptySet
<1>. QED BY <1>1, <1>2 DEF CostOf

LEMMA WalksCost ==
  ASSUME SearchKinds
  PROVE  /\ Cardinality(input.walkable) \in Nat
         /\ \A n \in Nat : \A w \in WalksOf(input)[n].all : w[2] \in Costs
<1>1. input.walkable \subseteq AllTiles /\ input.start \in AllTiles BY InputIs DEF SearchKinds
<1>2. IsFiniteSet(input.walkable) BY PathfindingAssumption DEF SearchKinds
<1>3. \A n \in Nat : WalksOf(input)[n].all \in Ways
  <2>1. WalksOf(input) \in [Nat -> [last : Ways, all : Ways]] BY <1>1, WalksAre
  <2>. QED BY <2>1
<1>4. ASSUME NEW n \in Nat, NEW w \in WalksOf(input)[n].all PROVE w[2] \in Costs
  BY <1>3 DEF Ways
<1>. QED BY <1>2, <1>4, FS_CardinalityType

LEMMA BeginKeeps == ASSUME SearchInv, Begin PROVE SearchInv'
<1> USE DEF Begin
<1>0. SearchKinds /\ phase = "called" BY DEF SearchInv
<1>1. CASE ~IsWalkable(input.start) \/ ~IsWalkable(input.target)
  <2>1. Return(NoPath) /\ UNCHANGED closed BY <1>1
  <2>2. PathIsWalk' BY <2>1 DEF Return, PathIsWalk
  <2>3. PathIsShortest' BY <1>1, <2>1 DEF Return, PathIsShortest, IsWalkable
  <2>. QED BY <2>1, <2>2, <2>3, ReturnKeeps
<1>2. CASE IsWalkable(input.start) /\ IsWalkable(input.target) /\ input.start = input.target
  <2>1. Return(<<>>) /\ UNCHANGED closed BY <1>2
  <2>2. result' = <<>> /\ UNCHANGED input BY <2>1 DEF Return
  <2>3. IsPath(input, <<>>) BY <1>2 DEF IsPath, IsWalkable
  <2>4. PathIsWalk'
    <3>1. IsPath(input', result') BY <2>2, <2>3
    <3>. QED BY <3>1 DEF PathIsWalk
  <2>5. <<>> # NoPath
    <3>1. <<>> \in Seq(AllTiles) /\ NoPath \notin Seq(AllTiles) BY PathfindingAssumption
    <3>. QED BY <3>1
  <2>6. ASSUME NEW w \in WalksOf(input)[Cardinality(input.walkable)].all PROVE ~Less(w[2], CostOf(<<>>))
    <3>1. w[2] \in Costs BY <1>0, WalksCost
    <3>. QED BY <3>1, CostOfNone, CostsGrow DEF AtMost
  <2>7. PathIsShortest' BY <2>2, <2>5, <2>6 DEF PathIsShortest
  <2>. QED BY <2>1, <2>4, <2>7, ReturnKeeps
<1>3. CASE IsWalkable(input.start) /\ IsWalkable(input.target) /\ input.start # input.target
  <2>s. PICK s : s = input.start OBVIOUS
  <2> DEFINE e == Entry(s, <<0, 0>>, 0)
  <2>1. /\ phase' = "searching" /\ openSet' = Push(<<>>, e) /\ gScore' = Put(Nothing, s, <<0, 0>>)
        /\ gRounding' = Put(Nothing, s, 0)
        /\ UNCHANGED <<input, current, ahead, cameFrom, closed, result>>
    BY <1>3, <2>s
  <2>2. DOMAIN gScore = {} /\ closed = {} /\ ahead = {} /\ DOMAIN cameFrom = {}
    BY <1>0 DEF SearchInv, Untouched, SearchKinds
  <2>3. s \in AllTiles /\ s \in input.walkable /\ <<0, 0>> \in Costs BY <1>0, <1>3, <2>s, InputIs DEF SearchKinds, IsWalkable, Costs
  <2>4. e \in QueueEntry /\ e.position = s /\ e.score = Plus(<<0, 0>>, Heuristic(s)) BY <1>0, <2>3, EntryIs
  <2>5. <<>> \in Queues /\ Heap(<<>>) /\ Entries(<<>>) = {} BY DEF Queues, Heap, Entries
  <2>6. openSet' \in Queues /\ Heap(openSet') /\ Entries(openSet') = {e} BY <2>1, <2>4, <2>5, PushIs
  <2>7. /\ DOMAIN gScore' = {s} /\ gScore'[s] = <<0, 0>> /\ gScore' \in [DOMAIN gScore' -> Costs]
        /\ gRounding' \in [DOMAIN gScore' -> Int]
    BY <2>1, <2>3 DEF Put, Nothing
  <2>e. PICK f : f = e OBVIOUS
  <2> HIDE DEF e
  <2>8. SearchKinds' BY <1>0, <2>s, <2>1, <2>2, <2>3, <2>6, <2>7 DEF SearchKinds
  <2>9. SeenIsOpen'
    <3>1. F(s)' = f.score
      BY <2>1, <2>e, <2>4, <2>7 DEF F, Heuristic
    <3>2. AtMost(f.score, f.score) BY <2>4, <2>e, EntryCosts, CostsGrow
    <3>3. Entries(openSet') = {f} /\ DOMAIN gScore' = {s} /\ f.position = s BY <2>4, <2>6, <2>7, <2>e
    <3>4. \A d \in Entries(openSet') : d.position \in DOMAIN gScore' /\ AtMost(F(d.position)', d.score) BY <3>1, <3>2, <3>3
    <3>5. \A t \in DOMAIN gScore' : \E d \in Entries(openSet') : d.position = t /\ d.score = F(t)' BY <3>1, <3>3
    <3>. QED BY <3>4, <3>5 DEF SeenIsOpen
  <2>10. Frontier' /\ Relaxed' BY <2>1, <2>2 DEF Frontier, Relaxed
  <2>11. Parents' BY <2>s, <2>1, <2>2, <2>7 DEF Parents
  <2>12. Ongoing' BY <1>3, <2>1, <2>2 DEF Ongoing, IsWalkable
  <2>13. Untouched' /\ Rebuilt' /\ NoCheaper' /\ PathIsWalk' /\ PathIsShortest'
    BY <2>1 DEF Untouched, Rebuilt, NoCheaper, PathIsWalk, PathIsShortest
  <2>. QED BY <2>8, <2>9, <2>10, <2>11, <2>12, <2>13 DEF SearchInv
<1>. QED BY <1>1, <1>2, <1>3

LEMMA GiveUpKeeps == ASSUME SearchInv, GiveUp PROVE SearchInv'
<1> USE DEF GiveUp
<1>0. SearchKinds /\ SeenIsOpen /\ Relaxed /\ Parents /\ Ongoing BY DEF SearchInv
<1>1. Return(NoPath) /\ UNCHANGED closed OBVIOUS
<1>2. result' = NoPath /\ UNCHANGED input BY <1>1 DEF Return
<1>3. PathIsWalk' BY <1>2 DEF PathIsWalk
<1>4. Entries(openSet) = {} BY DEF Entries
<1>5. ASSUME NEW w \in WalksOf(input)[Cardinality(input.walkable)].all, w[1] = input.target PROVE FALSE
  <2>1. w \in Bounded BY <1>0, WalksCost, WalksAreBounded
  <2>2. input.target \notin closed BY <1>0 DEF Ongoing
  <2>. QED BY <1>4, <1>5, <2>1, <2>2 DEF Bounded
<1>6. PathIsShortest' BY <1>2, <1>5 DEF PathIsShortest
<1>. QED BY <1>1, <1>3, <1>6, ReturnKeeps

\* The first entry of the heap, and what is left without it.
LEMMA FirstIs ==
  ASSUME SearchKinds, openSet # <<>>
  PROVE  /\ openSet[1] \in Entries(openSet) /\ openSet[1] \in QueueEntry
         /\ \A e \in Entries(openSet) : AtMost(openSet[1].score, e.score)
         /\ Rest(openSet) \in Queues /\ Heap(Rest(openSet))
         /\ Entries(Rest(openSet)) \subseteq Entries(openSet)
         /\ \A e \in Entries(openSet) : e = openSet[1] \/ e \in Entries(Rest(openSet))
<1>1. openSet \in Queues /\ Heap(openSet) BY DEF SearchKinds
<1>2. Len(openSet) \in Nat /\ openSet \in Seq(QueueEntry) /\ \A k \in 1 .. Len(openSet) : openSet[k] \in QueueEntry BY <1>1, QueueIs
<1>3. 1 \in 1 .. Len(openSet) BY <1>2
<1>4. openSet[1] \in Entries(openSet) /\ openSet[1] \in QueueEntry BY <1>2, <1>3 DEF Entries
<1>5. ASSUME NEW e \in Entries(openSet) PROVE AtMost(openSet[1].score, e.score)
  <2>1. PICK k \in 1 .. Len(openSet) : e = openSet[k] BY DEF Entries
  <2>2. ~IsBetter(openSet[k], openSet[1]) BY <1>1, RootIsBest
  <2>. QED BY <1>2, <1>4, <2>1, <2>2, BetterIs
<1>6. /\ Rest(openSet) \in Queues /\ Heap(Rest(openSet)) /\ Entries(Rest(openSet)) = {openSet[k] : k \in 2 .. Len(openSet)}
  BY <1>1, RestIs
<1>7. ASSUME NEW e \in Entries(Rest(openSet)) PROVE e \in Entries(openSet)
  <2>1. PICK k \in 2 .. Len(openSet) : e = openSet[k] BY <1>6
  <2>2. k \in 1 .. Len(openSet) BY <1>2
  <2>. QED BY <2>1, <2>2 DEF Entries
<1>8. ASSUME NEW e \in Entries(openSet), e # openSet[1] PROVE e \in Entries(Rest(openSet))
  <2>1. PICK k \in 1 .. Len(openSet) : e = openSet[k] BY DEF Entries
  <2>2. k # 1 BY <1>8, <2>1
  <2>3. k \in 2 .. Len(openSet) BY <1>2, <2>2
  <2>. QED BY <1>6, <2>1, <2>3
<1>. QED BY <1>4, <1>5, <1>6, <1>7, <1>8

\* A tile taken twice is passed over.
LEMMA SkipKeeps == ASSUME SearchInv, TakeBest, openSet[1].position \in closed PROVE SearchInv'
<1> USE DEF TakeBest
<1>0. SearchKinds /\ SeenIsOpen /\ Frontier /\ Relaxed /\ Parents /\ Ongoing BY DEF SearchInv
<1>1. PICK b : b = openSet[1] OBVIOUS
<1>2. /\ phase = "searching" /\ ahead = {} /\ openSet # <<>> /\ openSet' = Rest(openSet) /\ b.position \in closed
      /\ UNCHANGED <<input, phase, current, ahead, gScore, gRounding, cameFrom, closed, result>>
  BY <1>1
<1>3. /\ openSet' \in Queues /\ Heap(openSet') /\ Entries(openSet') \subseteq Entries(openSet)
      /\ \A e \in Entries(openSet) : e = b \/ e \in Entries(openSet')
  BY <1>0, <1>1, <1>2, FirstIs
<1> HIDE DEF TakeBest
<1>4. SearchKinds' BY <1>0, <1>2, <1>3 DEF SearchKinds
<1>5. \A t : F(t)' = F(t) BY <1>2 DEF F, Heuristic
<1>6. SeenIsOpen'
  <2>1. \A e \in Entries(openSet') : e.position \in DOMAIN gScore' /\ AtMost(F(e.position)', e.score)
    BY <1>0, <1>2, <1>3, <1>5 DEF SeenIsOpen
  <2>2. ASSUME NEW t \in DOMAIN gScore' \ closed' PROVE \E e \in Entries(openSet') : e.position = t /\ e.score = F(t)'
    <3>1. t \in DOMAIN gScore \ closed BY <1>2
    <3>2. PICK e \in Entries(openSet) : e.position = t /\ e.score = F(t) BY <1>0, <3>1 DEF SeenIsOpen
    <3>3. e # b BY <1>2, <3>1, <3>2
    <3>. QED BY <1>3, <1>5, <3>2, <3>3
  <2>. QED BY <2>1, <2>2 DEF SeenIsOpen
<1>7. Frontier' BY <1>0, <1>2, <1>3 DEF Frontier, F, Heuristic
<1>8. Relaxed' BY <1>0, <1>2 DEF Relaxed, Neighbors, IsReachableNeighbor, IsWalkable
<1>9. Parents' /\ Ongoing' BY <1>0, <1>2 DEF Parents, Ongoing
<1>10. Untouched' /\ Rebuilt' /\ NoCheaper' /\ PathIsWalk' /\ PathIsShortest'
  BY <1>2 DEF Untouched, Rebuilt, NoCheaper, PathIsWalk, PathIsShortest
<1>. QED BY <1>4, <1>6, <1>7, <1>8, <1>9, <1>10 DEF SearchInv

LEMMA OneTile == ASSUME NEW S, NEW x \in S PROVE <<x>> \in Seq(S) /\ Len(<<x>>) = 1 /\ <<x>>[1] = x
OBVIOUS

LEMMA CloseKeeps == ASSUME SearchInv, TakeBest, openSet[1].position \notin closed PROVE SearchInv'
<1>0. SearchKinds /\ SeenIsOpen /\ Frontier /\ Relaxed /\ Parents /\ Ongoing BY DEF SearchInv
<1>1. PICK b : b = openSet[1] OBVIOUS
<1>t. PICK t : t = b.position OBVIOUS
<1>2. /\ phase = "searching" /\ ahead = {} /\ openSet # <<>> /\ openSet' = Rest(openSet) /\ t \notin closed
      /\ closed' = closed \cup {t} /\ current' = t
      /\ IF t = input.target THEN phase' = "rebuilding" /\ result' = <<t>> /\ UNCHANGED ahead
         ELSE ahead' = Neighbors(t) /\ UNCHANGED <<phase, result>>
      /\ UNCHANGED <<input, gScore, gRounding, cameFrom>>
  BY <1>1, <1>t DEF TakeBest
<1>3. /\ openSet' \in Queues /\ Heap(openSet') /\ Entries(openSet') \subseteq Entries(openSet)
      /\ \A e \in Entries(openSet) : (e = b \/ e \in Entries(openSet')) /\ AtMost(b.score, e.score)
      /\ b \in Entries(openSet) /\ b \in QueueEntry
  BY <1>0, <1>1, <1>2, FirstIs
<1>4. t \in DOMAIN gScore /\ AtMost(F(t), b.score) BY <1>0, <1>3, <1>t DEF SeenIsOpen
<1>5. AtMost(b.score, F(t))
  <2>1. PICK e \in Entries(openSet) : e.score = F(t) BY <1>0, <1>2, <1>4 DEF SeenIsOpen
  <2>. QED BY <1>3, <2>1
<1>6. \A x : F(x)' = F(x) BY <1>2 DEF F, Heuristic
<1>7. b.score \in Pairs /\ \A e \in Entries(openSet) : e.score \in Pairs BY <1>0, <1>3, ScoresAre
<1>8. \A x \in DOMAIN gScore : x \in AllTiles /\ x \in input.walkable /\ gScore[x] \in Pairs /\ F(x) \in Pairs BY <1>0, ScoresAre
<1>9. \A e \in Entries(openSet) : AtMost(F(t), e.score) BY <1>3, <1>4, <1>7, <1>8, LessChains
<1>10. ahead' \subseteq Neighbors(t)' /\ Neighbors(t)' = Neighbors(t)
  BY <1>2 DEF Neighbors, IsReachableNeighbor, IsWalkable
<1>11. SearchKinds' BY <1>0, <1>2, <1>3, <1>4, <1>10 DEF SearchKinds
<1>12. SeenIsOpen'
  <2>1. \A e \in Entries(openSet') : e.position \in DOMAIN gScore' /\ AtMost(F(e.position)', e.score)
    BY <1>0, <1>2, <1>3, <1>6 DEF SeenIsOpen
  <2>2. ASSUME NEW x \in DOMAIN gScore' \ closed' PROVE \E e \in Entries(openSet') : e.position = x /\ e.score = F(x)'
    <3>1. x \in DOMAIN gScore \ closed /\ x # t BY <1>2
    <3>2. PICK e \in Entries(openSet) : e.position = x /\ e.score = F(x) BY <1>0, <3>1 DEF SeenIsOpen
    <3>3. e # b BY <1>t, <3>1, <3>2
    <3>. QED BY <1>3, <1>6, <3>2, <3>3
  <2>. QED BY <2>1, <2>2 DEF SeenIsOpen
<1>13. Frontier'
  <2>1. \A e \in Entries(openSet') : AtMost(F(t), e.score) BY <1>3, <1>9
  <2>2. ASSUME NEW c \in closed PROVE AtMost(F(c), F(t))
    <3>1. current \in closed /\ AtMost(F(c), F(current)) /\ AtMost(F(current), b.score) BY <1>0, <1>3, <2>2 DEF Frontier, SearchKinds
    <3>2. c \in DOMAIN gScore /\ current \in DOMAIN gScore BY <1>0, <3>1, <2>2 DEF SearchKinds
    <3>3. F(c) \in Pairs /\ F(current) \in Pairs /\ F(t) \in Pairs BY <1>4, <1>8, <3>2
    <3>4. AtMost(F(c), b.score) BY <1>7, <3>1, <3>3, LessChains
    <3>. QED BY <1>5, <1>7, <3>3, <3>4, LessChains
  <2>3. AtMost(F(t), F(t)) BY <1>4, <1>8, LessTotal DEF AtMost
  <2>4. \A c \in closed' : AtMost(F(c)', F(t)') BY <1>2, <1>6, <2>2, <2>3
  <2>5. \A e \in Entries(openSet') : AtMost(F(t)', e.score) BY <1>6, <2>1
  <2>6. F(current)' = F(t)' BY <1>2 DEF F, Heuristic
  <2>. QED BY <2>4, <2>5, <2>6 DEF Frontier
<1>14. Parents' BY <1>0, <1>2 DEF Parents
<1>15. Ongoing' BY <1>0, <1>2 DEF Ongoing
<1>16. Untouched' /\ PathIsWalk' /\ PathIsShortest' BY <1>2 DEF Untouched, PathIsWalk, PathIsShortest
<1>17. CASE t # input.target
  <2>1. phase' = "searching" /\ ahead' = Neighbors(t) BY <1>2, <1>17
  <2>2. ASSUME NEW c \in closed', NEW k \in Neighbors(c)', ~(c = current' /\ k \in ahead')
        PROVE  Ahead(c, k) \in DOMAIN gScore' /\ AtMost(gScore'[Ahead(c, k)], Plus(gScore'[c], MovementCost(Directions[k])))
    <3>1. k \in Neighbors(c) BY <1>2, <2>2 DEF Neighbors, IsReachableNeighbor, IsWalkable
    <3>2. c \in closed BY <1>2, <2>1, <2>2, <3>1
    <3>. QED BY <1>0, <1>2, <3>1, <3>2 DEF Relaxed
  <2>3. Relaxed' BY <2>2 DEF Relaxed, Ahead
  <2>4. Rebuilt' /\ NoCheaper' BY <2>1 DEF Rebuilt, NoCheaper
  <2>. QED BY <1>11, <1>12, <1>13, <1>14, <1>15, <1>16, <2>3, <2>4 DEF SearchInv
<1>18. CASE t = input.target
  <2>1. phase' = "rebuilding" /\ result' = <<t>> BY <1>2, <1>18
  <2>2. Relaxed' BY <2>1 DEF Relaxed
  <2>3. t \in input.walkable /\ t \in AllTiles /\ gScore[t] \in Pairs BY <1>4, <1>8
  <2>4. Rebuilt'
    <3>1. <<t>> \in Seq(input.walkable) /\ <<t>> \in Seq(AllTiles) /\ Len(<<t>>) = 1 /\ <<t>>[1] = t BY <2>3, OneTile
    <3>2. CostOf(<<t>>) = <<0, 0>>
      <4> DEFINE r == <<t>>
      <4>1. r \in Seq(AllTiles) /\ Len(r) = 1 /\ Len(r) > 0 BY <3>1
      <4> HIDE DEF r
      <4>2. CostOf(r) = <<0, 0>> BY <4>1, CostOfIs
      <4>. QED BY <4>2 DEF r
    <3>3. Plus(gScore[t], CostOf(<<t>>)) = gScore[t]
      <4>1. <<0, 0>> \in Pairs BY DEF Pairs
      <4>. QED BY <2>3, <3>2, <4>1, PlusIs
    <3>4. \A i : i \in 1 .. Len(<<t>>) => i = 1 BY <3>1
    <3>5. \A i : i \notin 1 .. Len(<<t>>) - 1 BY <3>1
    <3> DEFINE r == <<t>>
    <3>6. /\ r \in Seq(input.walkable) /\ Len(r) = 1 /\ r[1] = t
          /\ (\A i : i \in 1 .. Len(r) => i = 1) /\ (\A i : i \notin 1 .. Len(r) - 1)
          /\ Plus(gScore[t], CostOf(r)) = gScore[t] /\ result' = r
      BY <2>1, <3>1, <3>3, <3>4, <3>5
    <3> HIDE DEF r
    <3>7. /\ Len(r) > 0 /\ r[Len(r)] = input.target
          /\ (\A i \in 1 .. Len(r) : r[i] \in DOMAIN gScore)
          /\ (\A i \in 1 .. Len(r) - 1 : IsStep(input.walkable, r[i], r[i + 1]))
          /\ (\A i, j \in 1 .. Len(r) : i < j => Less(gScore[r[i]], gScore[r[j]]))
          /\ Plus(gScore[r[1]], CostOf(r)) = gScore[input.target]
      BY <1>4, <1>18, <3>6
    <3>. QED BY <1>2, <3>6, <3>7 DEF Rebuilt
  <2>5. ASSUME NEW n \in Nat, NEW w \in WalksOf(input)[n].all, w[1] = input.target PROVE AtMost(gScore[input.target], w[2])
    <3>1. w \in Bounded BY <1>0, <1>2, WalksAreBounded
    <3>2. w[2] \in Costs /\ w[2] \in Pairs /\ <<0, 0>> \in Pairs BY <3>1 DEF Bounded, Costs, Pairs
    <3>3. Heuristic(t) = <<0, 0>> BY <1>0, <1>18, ScoresAre
    <3>4. PICK e \in Entries(openSet) : AtMost(e.score, Plus(w[2], Heuristic(w[1]))) BY <1>2, <1>18, <2>5, <3>1 DEF Bounded
    <3>5. Plus(w[2], Heuristic(w[1])) = w[2] BY <1>18, <2>5, <3>2, <3>3, PlusIs
    <3>6. F(t) = gScore[t] BY <2>3, <3>2, <3>3, PlusIs DEF F
    <3>7. AtMost(gScore[t], e.score) /\ AtMost(e.score, w[2]) /\ e.score \in Pairs BY <1>7, <1>9, <3>4, <3>5, <3>6
    <3>. QED BY <1>18, <2>3, <3>2, <3>7, LessChains
  <2>6. NoCheaper'
    <3>1. input' = input /\ gScore' = gScore BY <1>2
    <3>. QED BY <2>5, <3>1 DEF NoCheaper
  <2>. QED BY <1>11, <1>12, <1>13, <1>14, <1>15, <1>16, <2>2, <2>4, <2>6 DEF SearchInv
<1>. QED BY <1>17, <1>18

\* The direction the inner loop looks in, the tile there and what it costs.
LEMMA LookAtIs ==
  ASSUME SearchInv, LookAt, NEW k, k = Min(ahead), NEW next, next = Ahead(current, k),
         NEW cost, cost = Plus(gScore[current], MovementCost(Directions[k]))
  PROVE  /\ k \in ahead /\ k \in Neighbors(current) /\ ahead' = ahead \ {k}
         /\ current \in closed /\ current \in DOMAIN gScore
         /\ next \in input.walkable /\ next \in AllTiles /\ IsStep(input.walkable, current, next)
         /\ cost = Plus(gScore[current], StepCost(current, next)) /\ cost \in Costs /\ cost \in Pairs
         /\ AtMost(F(current), Plus(cost, Heuristic(next)))
<1>0. SearchKinds /\ Frontier BY DEF SearchInv
<1>1. ahead # {} /\ ahead' = ahead \ {k} BY DEF LookAt
<1>2. closed # {} /\ ahead \subseteq Neighbors(current) /\ current \in closed /\ current \in DOMAIN gScore
  BY <1>0, <1>1 DEF SearchKinds
<1>3. ahead \in SUBSET Nat
  <2>1. ahead \subseteq 1 .. 8 BY <1>2, DirectionIs DEF Neighbors
  <2>. QED BY <2>1
<1>4. k \in ahead BY <1>1, <1>3, LeastOf
<1>5. input.walkable \subseteq AllTiles /\ input.target \in AllTiles BY <1>0, InputIs DEF SearchKinds
<1>6. current \in input.walkable /\ current \in AllTiles /\ gScore[current] \in Costs /\ gScore[current] \in Pairs
  BY <1>0, <1>2, ScoresAre
<1>7. /\ next \in input.walkable /\ IsStep(input.walkable, current, next)
      /\ StepCost(current, next) = MovementCost(Directions[k])
  <2>1. k \in Neighbors(current) BY <1>2, <1>4
  <2>. QED BY <1>5, <1>6, <2>1, NeighborIsStep DEF Ahead
<1>8. next \in AllTiles BY <1>5, <1>7
<1> DEFINE d == StepCost(current, next)
<1>9. d \in Costs /\ d \in Pairs BY CostIs
<1>10. cost = Plus(gScore[current], d) BY <1>7
<1>11. Heuristic(current) \in Pairs /\ Heuristic(next) \in Pairs BY <1>0, <1>6, <1>8, ScoresAre
<1>12. AtMost(Heuristic(current), Plus(d, Heuristic(next))) BY <1>5, <1>6, <1>7, <1>8, Consistent DEF Heuristic
<1> DEFINE h == Heuristic(current)  i == Heuristic(next)  g == gScore[current]
<1>13. AtMost(F(current), Plus(cost, i))
  <2>1. /\ h \in Pairs /\ i \in Pairs /\ g \in Pairs /\ d \in Pairs
        /\ AtMost(h, Plus(d, i)) /\ cost = Plus(g, d) /\ F(current) = Plus(g, h)
    BY <1>6, <1>9, <1>10, <1>11, <1>12 DEF F
  <2> HIDE DEF h, i, g, d
  <2>2. Plus(d, i) \in Pairs BY <2>1, PlusIs
  <2>3. AtMost(Plus(h, g), Plus(Plus(d, i), g)) BY <2>1, <2>2, LessSums
  <2>4. Plus(h, g) = Plus(g, h) /\ Plus(Plus(d, i), g) = Plus(g, Plus(d, i)) BY <2>1, <2>2, PlusIs
  <2>5. Plus(g, Plus(d, i)) = Plus(cost, i) BY <2>1, PlusThree
  <2>. QED BY <2>1, <2>3, <2>4, <2>5
<1>14. cost \in Costs /\ cost \in Pairs
  <2> HIDE DEF d
  <2>1. cost \in Costs BY <1>6, <1>9, <1>10, PlusIs
  <2>. QED BY <2>1 DEF Costs, Pairs
<1>. QED BY <1>1, <1>2, <1>4, <1>7, <1>8, <1>10, <1>13, <1>14

\* A tile that looks cheaper is not the start and does not cost more than before;
\* if it is closed it costs the same, and only the roundings differ.
LEMMA ImprovedIs ==
  ASSUME SearchInv, LookAt, NEW k, k = Min(ahead), NEW next, next = Ahead(current, k),
         NEW cost, cost = Plus(gScore[current], MovementCost(Directions[k])), NEW r, Improves(next, cost, r)
  PROVE  /\ next # input.start
         /\ next \in DOMAIN gScore => AtMost(cost, gScore[next])
         /\ next \in closed => gScore[next] = cost
<1>0. SearchKinds /\ Frontier /\ Parents /\ phase = "searching" BY DEF SearchInv, LookAt
<1>1. /\ current \in closed /\ current \in DOMAIN gScore /\ next \in AllTiles
      /\ cost \in Costs /\ cost \in Pairs /\ AtMost(F(current), Plus(cost, Heuristic(next)))
      /\ cost = Plus(gScore[current], StepCost(current, next))
  BY LookAtIs
<1>2. ASSUME next \in DOMAIN gScore PROVE gScore[next] \in Pairs /\ AtMost(cost, gScore[next])
  <2>1. gScore[next] \in Pairs BY <1>0, <1>2, ScoresAre
  <2>2. Less(cost, gScore[next]) \/ cost = gScore[next] BY <1>2 DEF Improves, LessAsDoubles
  <2>. QED BY <1>1, <2>1, <2>2, LessTotal DEF AtMost
<1>3. ASSUME next \in closed PROVE gScore[next] = cost
  <2>1. next \in DOMAIN gScore /\ AtMost(F(next), F(current)) BY <1>0, <1>1, <1>3 DEF Frontier, SearchKinds
  <2>2. F(next) \in Pairs /\ F(current) \in Pairs /\ gScore[next] \in Pairs /\ Heuristic(next) \in Pairs
    BY <1>0, <1>1, <2>1, ScoresAre
  <2>3. AtMost(F(next), Plus(cost, Heuristic(next)))
    <3>1. Plus(cost, Heuristic(next)) \in Pairs BY <1>1, <2>2, PlusIs
    <3>. QED BY <1>1, <2>1, <2>2, <3>1, LessChains
  <2>4. AtMost(gScore[next], cost) BY <1>1, <2>2, <2>3, LessSums DEF F
  <2>. QED BY <1>1, <1>2, <2>1, <2>2, <2>4, AtMostSame
<1>4. ASSUME next = input.start PROVE FALSE
  <2>1. next \in DOMAIN gScore /\ gScore[next] = <<0, 0>> BY <1>0, <1>4 DEF Parents
  <2>2. gScore[current] \in Costs /\ gScore[current] \in Pairs BY <1>0, <1>1, ScoresAre
  <2>3. AtMost(<<0, 0>>, gScore[current]) /\ <<0, 0>> \in Pairs BY <2>2, CostsGrow
  <2>4. Less(gScore[current], cost) BY <1>1, <2>2, StepsCost
  <2>5. Less(<<0, 0>>, cost) BY <1>1, <2>2, <2>3, <2>4, LessChains
  <2>. QED BY <1>2, <2>1, <2>5 DEF AtMost
<1>. QED BY <1>2, <1>3, <1>4

\* The step itself, for the tile k leads to and the roundings that were met.
LookedAt(k, next, cost, r) ==
  IF Improves(next, cost, r)
  THEN /\ gScore' = Put(gScore, next, cost) /\ gRounding' = Put(gRounding, next, r)
       /\ cameFrom' = Put(cameFrom, next, current)
       /\ \E q \in Int : openSet' = Push(openSet, Entry(next, cost, q))
  ELSE UNCHANGED <<gScore, gRounding, cameFrom, openSet>>

LEMMA LookAtDoes ==
  ASSUME LookAt, NEW k, k = Min(ahead), NEW next, next = Ahead(current, k),
         NEW cost, cost = Plus(gScore[current], MovementCost(Directions[k]))
  PROVE  \E r \in Int : LookedAt(k, next, cost, r)
<1>1. PICK r \in SumRoundings(gScore[current], gRounding[current], MovementCost(Directions[k])) :
        IF Improves(next, cost, r)
        THEN /\ gScore' = Put(gScore, next, cost) /\ gRounding' = Put(gRounding, next, r)
             /\ cameFrom' = Put(cameFrom, next, current)
             /\ \E q \in SumRoundings(cost, r, OctileDistance(next, input.target)) :
                  openSet' = Push(openSet, Entry(next, cost, q))
        ELSE UNCHANGED <<gScore, gRounding, cameFrom, openSet>>
  BY DEF LookAt, Ahead
<1>2. \A c, e, d : SumRoundings(c, e, d) \subseteq Int BY PathfindingAssumption DEF SumRoundings
<1>3. r \in Int BY <1>1, <1>2
<1>4. ASSUME Improves(next, cost, r) PROVE \E q \in Int : openSet' = Push(openSet, Entry(next, cost, q))
  BY <1>1, <1>2, <1>4
<1>. QED BY <1>1, <1>3, <1>4 DEF LookedAt

LEMMA LookAtKeeps == ASSUME SearchInv, LookAt PROVE SearchInv'
<1>0. SearchKinds /\ SeenIsOpen /\ Frontier /\ Relaxed /\ Parents /\ Ongoing BY DEF SearchInv
<1>k. PICK k : k = Min(ahead) OBVIOUS
<1>n. PICK next : next = Ahead(current, k) OBVIOUS
<1>c. PICK cost : cost = Plus(gScore[current], MovementCost(Directions[k])) OBVIOUS
<1>1. phase = "searching" /\ UNCHANGED <<input, phase, current, closed, result>> BY DEF LookAt
<1>r. PICK r \in Int : LookedAt(k, next, cost, r) BY <1>k, <1>n, <1>c, LookAtDoes
<1>2. /\ k \in ahead /\ k \in Neighbors(current) /\ ahead' = ahead \ {k}
      /\ current \in closed /\ current \in DOMAIN gScore
      /\ next \in input.walkable /\ next \in AllTiles /\ IsStep(input.walkable, current, next)
      /\ cost = Plus(gScore[current], StepCost(current, next)) /\ cost \in Costs /\ cost \in Pairs
      /\ AtMost(F(current), Plus(cost, Heuristic(next)))
  BY <1>k, <1>n, <1>c, LookAtIs
<1>3. \A x : Heuristic(x)' = Heuristic(x) BY <1>1 DEF Heuristic
<1>4. \A x : Neighbors(x)' = Neighbors(x) BY <1>1 DEF Neighbors, IsReachableNeighbor, IsWalkable
<1>5. Ongoing' BY <1>0, <1>1 DEF Ongoing
<1>6. Untouched' /\ Rebuilt' /\ NoCheaper' /\ PathIsWalk' /\ PathIsShortest'
  BY <1>1 DEF Untouched, Rebuilt, NoCheaper, PathIsWalk, PathIsShortest
<1>7. ahead' \subseteq Neighbors(current)' /\ closed' # {} /\ current' \in closed'
  <2>1. ahead \subseteq Neighbors(current) /\ closed # {} BY <1>0, <1>2 DEF SearchKinds
  <2>2. Neighbors(current)' = Neighbors(current) BY <1>1 DEF Neighbors, IsReachableNeighbor, IsWalkable
  <2>. QED BY <1>1, <1>2, <2>1, <2>2
<1>8. ASSUME ~Improves(next, cost, r) PROVE SearchInv'
  <2>1. UNCHANGED <<gScore, gRounding, cameFrom, openSet>> BY <1>r, <1>8 DEF LookedAt
  <2>2. SearchKinds' BY <1>0, <1>1, <1>7, <2>1 DEF SearchKinds
  <2>3. SeenIsOpen' BY <1>0, <1>1, <2>1 DEF SeenIsOpen, F, Heuristic
  <2>4. Frontier' BY <1>0, <1>1, <2>1 DEF Frontier, F, Heuristic
  <2>5. Parents' BY <1>0, <1>1, <2>1 DEF Parents
  <2>6. next \in DOMAIN gScore /\ AtMost(gScore[next], cost) BY <1>8 DEF Improves, LessAsDoubles, AtMost
  <2>7. ASSUME NEW c \in closed, NEW i \in Neighbors(c), ~(c = current /\ i \in ahead')
        PROVE  Ahead(c, i) \in DOMAIN gScore /\ AtMost(gScore[Ahead(c, i)], Plus(gScore[c], MovementCost(Directions[i])))
    <3>1. CASE c = current /\ i = k BY <1>n, <1>c, <2>6, <3>1
    <3>2. CASE ~(c = current /\ i = k) BY <1>0, <1>1, <1>2, <2>7, <3>2 DEF Relaxed
    <3>. QED BY <3>1, <3>2
  <2>8. Relaxed' BY <1>1, <1>4, <2>1, <2>7 DEF Relaxed, Ahead
  <2>. QED BY <1>5, <1>6, <2>2, <2>3, <2>4, <2>5, <2>8 DEF SearchInv
<1>9. ASSUME Improves(next, cost, r) PROVE SearchInv'
  <2>q. PICK q \in Int : openSet' = Push(openSet, Entry(next, cost, q)) BY <1>r, <1>9 DEF LookedAt
  <2>e. PICK e : e = Entry(next, cost, q) OBVIOUS
  <2>1. /\ gScore' = Put(gScore, next, cost) /\ gRounding' = Put(gRounding, next, r)
        /\ cameFrom' = Put(cameFrom, next, current) /\ openSet' = Push(openSet, e)
    BY <1>r, <1>9, <2>q, <2>e DEF LookedAt
  <2>2. /\ next # input.start /\ next # current
        /\ next \in DOMAIN gScore => AtMost(cost, gScore[next])
        /\ next \in closed => gScore[next] = cost
    <3>1. next # current BY <1>2 DEF IsStep
    <3>. QED BY <1>k, <1>n, <1>c, <1>9, <3>1, ImprovedIs
  <2>3. e \in QueueEntry /\ e.position = next /\ e.score = Plus(cost, Heuristic(next)) BY <1>0, <1>2, <2>e, EntryIs
  <2>4. openSet' \in Queues /\ Heap(openSet') /\ Entries(openSet') = Entries(openSet) \cup {e}
    <3>1. openSet \in Queues /\ Heap(openSet) BY <1>0 DEF SearchKinds
    <3>. QED BY <2>1, <2>3, <3>1, PushIs
  <2>5. /\ DOMAIN gScore' = DOMAIN gScore \cup {next} /\ gScore'[next] = cost
        /\ \A x \in DOMAIN gScore : x # next => gScore'[x] = gScore[x]
    <3>1. /\ DOMAIN Put(gScore, next, cost) = DOMAIN gScore \cup {next} /\ Put(gScore, next, cost)[next] = cost
          /\ \A x \in DOMAIN gScore : x # next => Put(gScore, next, cost)[x] = gScore[x]
      BY DEF Put
    <3>. QED BY <2>1, <3>1
  <2>s. \A x \in closed : x \in DOMAIN gScore /\ gScore'[x] = gScore[x]
    BY <1>0, <2>2, <2>5 DEF SearchKinds
  <2>6. /\ DOMAIN cameFrom' = DOMAIN cameFrom \cup {next} /\ cameFrom'[next] = current
        /\ \A x \in DOMAIN cameFrom : x # next => cameFrom'[x] = cameFrom[x]
    <3>1. /\ DOMAIN Put(cameFrom, next, current) = DOMAIN cameFrom \cup {next} /\ Put(cameFrom, next, current)[next] = current
          /\ \A x \in DOMAIN cameFrom : x # next => Put(cameFrom, next, current)[x] = cameFrom[x]
      BY DEF Put
    <3>. QED BY <2>1, <3>1
  <2>t. gRounding' \in [DOMAIN gScore' -> Int]
    <3>1. gRounding \in [DOMAIN gScore -> Int] BY <1>0 DEF SearchKinds
    <3>2. gRounding' = [x \in DOMAIN gScore \cup {next} |-> IF x = next THEN r ELSE gRounding[x]]
      BY <2>1, <3>1 DEF Put
    <3>. QED BY <2>5, <3>1, <3>2
  <2>7. gScore' \in [DOMAIN gScore' -> Costs]
    <3>1. gScore \in [DOMAIN gScore -> Costs] BY <1>0 DEF SearchKinds
    <3>2. gScore' = [x \in DOMAIN gScore \cup {next} |-> IF x = next THEN cost ELSE gScore[x]] BY <2>1 DEF Put
    <3>. QED BY <1>2, <3>1, <3>2
  <2>8. SearchKinds'
    <3>1. DOMAIN cameFrom' = DOMAIN gScore' \ {input'.start}
      BY <1>0, <1>1, <2>2, <2>5, <2>6 DEF SearchKinds
    <3>2. DOMAIN gScore' \subseteq input'.walkable /\ closed' \subseteq DOMAIN gScore'
      BY <1>0, <1>1, <1>2, <2>5 DEF SearchKinds
    <3>3. input' \in Inputs /\ phase' \in {"called", "searching", "rebuilding", "returned"} BY <1>0, <1>1 DEF SearchKinds
    <3>. QED BY <1>7, <2>4, <2>7, <2>t, <3>1, <3>2, <3>3 DEF SearchKinds
  <2>9. F(next)' = e.score /\ \A x \in DOMAIN gScore : x # next => F(x)' = F(x)
    BY <1>3, <2>3, <2>5 DEF F
  <2>10. \A x \in DOMAIN gScore : gScore[x] \in Pairs /\ F(x) \in Pairs BY <1>0, ScoresAre
  <2>11. e.score \in Pairs /\ Heuristic(next) \in Pairs /\ \A f \in Entries(openSet) : f.score \in Pairs
    BY <1>0, <1>2, <2>3, EntryCosts, ScoresAre
  <2>12. \A x \in closed : F(x)' = F(x) BY <1>3, <2>s DEF F
  <2>13. SeenIsOpen'
    <3>1. AtMost(e.score, e.score) BY <2>11, LessTotal DEF AtMost
    <3>2. ASSUME NEW f \in Entries(openSet), f.position = next PROVE AtMost(e.score, f.score)
      <4>1. next \in DOMAIN gScore /\ AtMost(F(next), f.score) BY <1>0, <3>2 DEF SeenIsOpen
      <4>2. AtMost(e.score, F(next)) BY <1>2, <2>2, <2>3, <2>10, <2>11, <4>1, LessSums DEF F
      <4>. QED BY <2>10, <2>11, <4>1, <4>2, LessChains
    <3>3. ASSUME NEW f \in Entries(openSet') PROVE f.position \in DOMAIN gScore' /\ AtMost(F(f.position)', f.score)
      <4>1. CASE f = e BY <2>3, <2>5, <2>9, <3>1, <4>1
      <4>2. ASSUME f # e PROVE f.position \in DOMAIN gScore' /\ AtMost(F(f.position)', f.score)
        <5>1. f \in Entries(openSet) BY <2>4, <4>2
        <5>2. f.position \in DOMAIN gScore /\ AtMost(F(f.position), f.score) BY <1>0, <5>1 DEF SeenIsOpen
        <5>3. CASE f.position = next BY <2>5, <2>9, <3>2, <5>1, <5>3
        <5>4. CASE f.position # next BY <2>5, <2>9, <5>2, <5>4
        <5>. QED BY <5>3, <5>4
      <4>. QED BY <4>1, <4>2
    <3>4. ASSUME NEW t \in DOMAIN gScore' \ closed' PROVE \E f \in Entries(openSet') : f.position = t /\ f.score = F(t)'
      <4>1. CASE t = next BY <2>3, <2>4, <2>9, <4>1
      <4>2. ASSUME t # next PROVE \E f \in Entries(openSet') : f.position = t /\ f.score = F(t)'
        <5>1. t \in DOMAIN gScore \ closed BY <1>1, <2>5, <4>2
        <5>2. PICK f \in Entries(openSet) : f.position = t /\ f.score = F(t) BY <1>0, <5>1 DEF SeenIsOpen
        <5>. QED BY <2>4, <2>9, <4>2, <5>1, <5>2
      <4>. QED BY <4>1, <4>2
    <3>. QED BY <3>3, <3>4 DEF SeenIsOpen
  <2>14. Frontier'
    <3>1. F(current)' = F(current) BY <1>1, <1>2, <2>s DEF F, Heuristic
    <3>2. \A f \in Entries(openSet') : AtMost(F(current), f.score) BY <1>0, <1>2, <2>3, <2>4 DEF Frontier
    <3>3. ASSUME NEW c \in closed' PROVE AtMost(F(c)', F(current))
      <4>1. c \in closed BY <1>1
      <4>2. F(c)' = F(c) BY <2>12, <4>1
      <4>. QED BY <1>0, <4>1, <4>2 DEF Frontier
    <3>. QED BY <3>1, <3>2, <3>3 DEF Frontier
  <2>15. Parents'
    <3>1. input.start \in DOMAIN gScore' /\ gScore'[input.start] = <<0, 0>>
      BY <1>0, <1>1, <2>2, <2>5 DEF Parents
    <3>2. ASSUME NEW t \in DOMAIN cameFrom'
          PROVE  /\ cameFrom'[t] \in closed /\ IsStep(input.walkable, cameFrom'[t], t)
                 /\ gScore'[t] = Plus(gScore'[cameFrom'[t]], StepCost(cameFrom'[t], t))
      <4>1. CASE t = next BY <1>2, <2>5, <2>6, <2>s, <4>1
      <4>2. CASE t # next
        <5>1. t \in DOMAIN cameFrom /\ cameFrom'[t] = cameFrom[t] BY <2>6, <4>2
        <5>2. PICK s : s = cameFrom[t] OBVIOUS
        <5>3. s \in closed /\ IsStep(input.walkable, s, t) /\ gScore[t] = Plus(gScore[s], StepCost(s, t))
          BY <1>0, <5>1, <5>2 DEF Parents
        <5>4. t \in DOMAIN gScore BY <1>0, <5>1 DEF SearchKinds
        <5>5. gScore'[s] = gScore[s] /\ gScore'[t] = gScore[t] BY <2>5, <2>s, <4>2, <5>3, <5>4
        <5>. QED BY <5>1, <5>2, <5>3, <5>5
      <4>. QED BY <4>1, <4>2
    <3>. QED BY <1>1, <3>1, <3>2 DEF Parents
  <2>16. ASSUME NEW c \in closed, NEW i \in Neighbors(c), ~(c = current /\ i \in ahead')
         PROVE  Ahead(c, i) \in DOMAIN gScore' /\ AtMost(gScore'[Ahead(c, i)], Plus(gScore'[c], MovementCost(Directions[i])))
    <3>1. c \in DOMAIN gScore /\ gScore'[c] = gScore[c] BY <2>s
    <3>2. CASE c = current /\ i = k
      <4>1. Ahead(c, i) = next /\ Plus(gScore'[c], MovementCost(Directions[i])) = cost BY <1>n, <1>c, <3>1, <3>2
      <4>2. AtMost(cost, cost) BY <1>2, CostsGrow
      <4>. QED BY <2>5, <4>1, <4>2
    <3>3. ASSUME ~(c = current /\ i = k)
          PROVE  Ahead(c, i) \in DOMAIN gScore' /\ AtMost(gScore'[Ahead(c, i)], Plus(gScore'[c], MovementCost(Directions[i])))
      <4>p. PICK x, m : x = Ahead(c, i) /\ m = Plus(gScore[c], MovementCost(Directions[i])) OBVIOUS
      <4>1. x \in DOMAIN gScore /\ AtMost(gScore[x], m) BY <1>0, <1>1, <1>2, <2>16, <3>3, <4>p DEF Relaxed
      <4>2. m \in Pairs
        <5>1. gScore[c] \in Pairs /\ MovementCost(Directions[i]) \in Pairs BY <2>10, <3>1, CostIs
        <5>. QED BY <4>p, <5>1, PlusIs
      <4>3. x \in DOMAIN gScore' /\ AtMost(gScore'[x], m)
        <5>1. CASE x = next
          <6>1. AtMost(cost, gScore[next]) /\ AtMost(gScore[next], m) /\ gScore[next] \in Pairs BY <2>2, <2>10, <4>1, <5>1
          <6>2. AtMost(cost, m) BY <1>2, <4>2, <6>1, LessChains
          <6>. QED BY <2>5, <5>1, <6>2
        <5>2. CASE x # next BY <2>5, <4>1, <5>2
        <5>. QED BY <5>1, <5>2
      <4>. QED BY <3>1, <4>p, <4>3
    <3>. QED BY <3>2, <3>3
  <2>17. Relaxed' BY <1>1, <1>4, <2>16 DEF Relaxed, Ahead
  <2>. QED BY <1>5, <1>6, <2>8, <2>13, <2>14, <2>15, <2>17 DEF SearchInv
<1>. QED BY <1>8, <1>9

\* A path with a tile before it.
Before(q, s, path) ==
  /\ Len(q) = Len(path) + 1 /\ q[1] = s
  /\ \A k \in 1 .. Len(path) : q[k + 1] = path[k]
  /\ \A k \in 2 .. Len(path) + 1 : k - 1 \in 1 .. Len(path) /\ q[k] = path[k - 1]

LEMMA Prepend ==
  ASSUME NEW S, NEW path \in Seq(S), NEW s \in S
  PROVE  <<s>> \o path \in Seq(S) /\ Before(<<s>> \o path, s, path)
BY DEF Before

LEMMA ExtendKeeps ==
  ASSUME SearchInv, Rebuild, result[1] # input.start
  PROVE  SearchInv'
<1>0. SearchKinds /\ Parents /\ Ongoing /\ Rebuilt /\ phase = "rebuilding" BY DEF SearchInv, Rebuild
<1>r. PICK path : path = result OBVIOUS
<1>t. PICK t : t = path[1] OBVIOUS
<1>1. /\ path \in Seq(input.walkable) /\ Len(path) > 0 /\ path[Len(path)] = input.target
      /\ \A i \in 1 .. Len(path) : path[i] \in DOMAIN gScore
      /\ \A i \in 1 .. Len(path) - 1 : IsStep(input.walkable, path[i], path[i + 1])
      /\ \A i, j \in 1 .. Len(path) : i < j => Less(gScore[path[i]], gScore[path[j]])
      /\ Plus(gScore[t], CostOf(path)) = gScore[input.target]
  BY <1>0, <1>r, <1>t DEF Rebuilt
<1>2. Len(path) \in Nat /\ 1 \in 1 .. Len(path) /\ Len(path) \in 1 .. Len(path) BY <1>1
<1>3. t \in DOMAIN gScore /\ t # input.start BY <1>1, <1>2, <1>r, <1>t
<1>4. t \in DOMAIN cameFrom BY <1>0, <1>3 DEF SearchKinds
<1>5. PICK s : s = cameFrom[t] OBVIOUS
<1>6. s \in closed /\ IsStep(input.walkable, s, t) /\ gScore[t] = Plus(gScore[s], StepCost(s, t))
  BY <1>0, <1>4, <1>5 DEF Parents
<1>7. s \in DOMAIN gScore BY <1>0, <1>6 DEF SearchKinds
<1>8. \A x \in DOMAIN gScore : x \in input.walkable /\ x \in AllTiles /\ gScore[x] \in Pairs BY <1>0, ScoresAre
<1>9. result' = <<s>> \o path /\ UNCHANGED <<input, phase, openSet, current, ahead, gScore, gRounding, cameFrom, closed>>
  BY <1>r, <1>t, <1>4, <1>5, <1>3 DEF Rebuild
<1>10. input.walkable \subseteq AllTiles /\ path \in Seq(AllTiles) /\ s \in AllTiles /\ s \in input.walkable
  <2>1. input.walkable \subseteq AllTiles BY <1>0, InputIs DEF SearchKinds
  <2>2. path \in Seq(AllTiles) BY <1>1, <2>1
  <2>. QED BY <1>7, <1>8, <2>1, <2>2
<1> DEFINE n == Len(path)  q == <<s>> \o path
<1>11. /\ q \in Seq(input.walkable) /\ Len(q) = n + 1 /\ q[1] = s /\ n \in Nat /\ n > 0
       /\ \A i \in 1 .. n : q[i + 1] = path[i]
       /\ \A i \in 2 .. n + 1 : i - 1 \in 1 .. n /\ q[i] = path[i - 1]
  <2>1. <<s>> \o path \in Seq(input.walkable) /\ Before(<<s>> \o path, s, path) BY <1>1, <1>10, Prepend
  <2>2. q \in Seq(input.walkable) /\ Before(q, s, path) BY <2>1
  <2>3. n \in Nat /\ n > 0 BY <1>1
  <2> HIDE DEF q
  <2>. QED BY <2>2, <2>3 DEF Before
<1>12. CostOf(q) = Plus(StepCost(s, t), CostOf(path)) BY <1>1, <1>10, <1>t, CostOfLonger
<1>13. result' = q BY <1>9
<1> HIDE DEF n, q
<1>14. q[Len(q)] = input.target
  <2>1. n \in 1 .. n /\ Len(q) = n + 1 BY <1>11
  <2>2. q[n + 1] = path[n] BY <1>11, <2>1
  <2>. QED BY <1>1, <2>1, <2>2 DEF n
<1>15. ASSUME NEW i \in 1 .. Len(q) PROVE q[i] \in DOMAIN gScore
  <2>1. CASE i = 1 BY <1>7, <1>11, <2>1
  <2>2. CASE i # 1
    <3>1. i \in 2 .. n + 1 BY <1>11, <2>2
    <3>2. i - 1 \in 1 .. n /\ q[i] = path[i - 1] BY <1>11, <3>1
    <3>. QED BY <1>1, <3>2 DEF n
  <2>. QED BY <2>1, <2>2
<1>16. ASSUME NEW i \in 1 .. Len(q) - 1 PROVE IsStep(input.walkable, q[i], q[i + 1])
  <2>0. i \in 1 .. n /\ q[i + 1] = path[i] BY <1>11
  <2>1. CASE i = 1 BY <1>6, <1>11, <1>t, <2>0, <2>1
  <2>2. CASE i # 1
    <3>1. i \in 2 .. n + 1 /\ i - 1 \in 1 .. n - 1 /\ (i - 1) + 1 = i BY <1>11, <2>0, <2>2
    <3>2. q[i] = path[i - 1] BY <1>11, <3>1
    <3>3. IsStep(input.walkable, path[i - 1], path[i])
      <4>1. \A m \in 1 .. n - 1 : IsStep(input.walkable, path[m], path[m + 1]) BY <1>1 DEF n
      <4>. QED BY <3>1, <4>1
    <3>. QED BY <2>0, <3>2, <3>3
  <2>. QED BY <2>1, <2>2
<1>17. Less(gScore[s], gScore[t]) BY <1>6, <1>7, <1>8, StepsCost
<1>18. ASSUME NEW i \in 1 .. Len(q), NEW j \in 1 .. Len(q), i < j PROVE Less(gScore[q[i]], gScore[q[j]])
  <2>1. j \in 2 .. n + 1 /\ j - 1 \in 1 .. n /\ q[j] = path[j - 1]
    <3>1. j \in 2 .. n + 1 BY <1>11, <1>18
    <3>. QED BY <1>11, <3>1
  <2>2. CASE i = 1
    <3>1. q[i] = s BY <1>11, <2>2
    <3>2. CASE j - 1 = 1 BY <1>17, <1>t, <2>1, <3>1, <3>2
    <3>3. CASE j - 1 # 1
      <4>1. 1 < j - 1 /\ 1 \in 1 .. n BY <2>1, <3>3, <1>11
      <4>2. Less(gScore[t], gScore[path[j - 1]])
        <5>1. \A a, b \in 1 .. n : a < b => Less(gScore[path[a]], gScore[path[b]]) BY <1>1 DEF n
        <5>. QED BY <1>t, <2>1, <4>1, <5>1
      <4>3. path[j - 1] \in DOMAIN gScore
        <5>1. \A a \in 1 .. n : path[a] \in DOMAIN gScore BY <1>1 DEF n
        <5>. QED BY <2>1, <5>1
      <4>4. gScore[s] \in Pairs /\ gScore[t] \in Pairs /\ gScore[path[j - 1]] \in Pairs BY <1>3, <1>7, <1>8, <4>3
      <4>5. Less(gScore[s], gScore[path[j - 1]]) BY <1>17, <4>2, <4>4, LessChains
      <4>. QED BY <2>1, <3>1, <4>5
    <3>. QED BY <3>2, <3>3
  <2>3. CASE i # 1
    <3>1. i \in 2 .. n + 1 BY <1>11, <2>3
    <3>2. i - 1 \in 1 .. n /\ q[i] = path[i - 1] /\ i - 1 < j - 1
      <4>1. i - 1 \in 1 .. n /\ q[i] = path[i - 1] BY <1>11, <3>1
      <4>2. i \in Int /\ j \in Int BY <1>11, <3>1, <2>1
      <4>. QED BY <1>18, <4>1, <4>2
    <3>3. Less(gScore[path[i - 1]], gScore[path[j - 1]])
      <4>1. \A a, b \in 1 .. n : a < b => Less(gScore[path[a]], gScore[path[b]]) BY <1>1 DEF n
      <4>. QED BY <2>1, <3>2, <4>1
    <3>. QED BY <2>1, <3>2, <3>3
  <2>. QED BY <2>2, <2>3
<1>19. Plus(gScore[s], CostOf(q)) = gScore[input.target]
  <2> DEFINE g == gScore[s]  d == StepCost(s, t)  c == CostOf(path)
  <2>1. g \in Pairs /\ d \in Pairs /\ c \in Pairs BY <1>1, <1>7, <1>8, <1>10, CostIs, CostOfIs
  <2>2. gScore[t] = Plus(g, d) /\ CostOf(q) = Plus(d, c) /\ Plus(gScore[t], c) = gScore[input.target] BY <1>1, <1>6, <1>12
  <2> HIDE DEF g, d, c
  <2>3. Plus(Plus(g, d), c) = Plus(g, Plus(d, c)) BY <2>1, PlusThree
  <2>4. Plus(g, CostOf(q)) = gScore[input.target] BY <2>2, <2>3
  <2>. QED BY <2>4 DEF g
<1>20. Rebuilt'
  <2>1. q[1] = s /\ Len(q) > 0 BY <1>11
  <2>2. input' = input /\ gScore' = gScore /\ result' = q BY <1>9, <1>13
  <2>. QED BY <1>11, <1>14, <1>15, <1>16, <1>18, <1>19, <2>1, <2>2 DEF Rebuilt
<1>21. Inside' BY <1>9, <1>0, InsideStays DEF SearchInv, Inside
<1>22. Parents' BY <1>0, <1>9, ParentsStay
<1>23. Untouched' /\ Relaxed' /\ Ongoing' /\ PathIsWalk' /\ PathIsShortest'
  BY <1>0, <1>9 DEF Untouched, Relaxed, Ongoing, PathIsWalk, PathIsShortest
<1>24. NoCheaper'
  <2>1. input' = input /\ gScore' = gScore /\ phase' = phase BY <1>9
  <2>. QED BY <2>1 DEF SearchInv, NoCheaper
<1>. QED BY <1>20, <1>21, <1>22, <1>23, <1>24 DEF SearchInv, Inside

LEMMA FinishKeeps ==
  ASSUME SearchInv, Rebuild, result[1] = input.start
  PROVE  SearchInv'
<1>0. SearchKinds /\ Parents /\ Ongoing /\ Rebuilt /\ NoCheaper /\ phase = "rebuilding" BY DEF SearchInv, Rebuild
<1>r. PICK path : path = result OBVIOUS
<1>1. /\ path \in Seq(input.walkable) /\ Len(path) > 0 /\ path[Len(path)] = input.target /\ path[1] = input.start
      /\ \A i \in 1 .. Len(path) : path[i] \in DOMAIN gScore
      /\ \A i \in 1 .. Len(path) - 1 : IsStep(input.walkable, path[i], path[i + 1])
      /\ \A i, j \in 1 .. Len(path) : i < j => Less(gScore[path[i]], gScore[path[j]])
      /\ Plus(gScore[input.start], CostOf(path)) = gScore[input.target]
  BY <1>0, <1>r DEF Rebuilt
<1>2. Return(path) /\ UNCHANGED closed /\ result' = path /\ input' = input BY <1>r DEF Rebuild, Return
<1>3. {input.start, input.target} \subseteq input.walkable /\ input.start # input.target BY <1>0 DEF Ongoing
<1>4. Len(path) \in Nat /\ Len(path) # 1
  <2>1. Len(path) \in Nat BY <1>1
  <2>2. ASSUME Len(path) = 1 PROVE FALSE
    <3>1. path[Len(path)] = path[1] BY <2>2
    <3>. QED BY <1>1, <1>3, <3>1
  <2>. QED BY <2>1, <2>2
<1>5. Len(path) > 1
  <2>1. Len(path) > 0 BY <1>1
  <2>. QED BY <1>4, <2>1
<1>6. \A x \in DOMAIN gScore : gScore[x] \in Pairs BY <1>0, ScoresAre
<1>7. ASSUME NEW k \in 1 .. Len(path), NEW l \in 1 .. Len(path), path[k] = path[l] PROVE k = l
  <2>1. path[k] \in DOMAIN gScore BY <1>1
  <2>2. ~Less(gScore[path[k]], gScore[path[l]]) BY <1>6, <1>7, <2>1, LessTotal
  <2>3. ~(k < l) BY <1>1, <2>2
  <2>4. ~Less(gScore[path[l]], gScore[path[k]]) BY <1>6, <1>7, <2>1, LessTotal
  <2>5. ~(l < k) BY <1>1, <2>4
  <2>. QED BY <1>4, <2>3, <2>5
<1>8. IsPath(input, path) BY <1>1, <1>3, <1>5, <1>7 DEF IsPath
<1>9. PathIsWalk'
  <2>1. IsPath(input', result') BY <1>2, <1>8
  <2>. QED BY <2>1 DEF PathIsWalk
<1>10. input.walkable \subseteq AllTiles /\ path \in Seq(AllTiles)
  <2>1. input.walkable \subseteq AllTiles BY <1>0, InputIs DEF SearchKinds
  <2>. QED BY <1>1, <2>1
<1>11. path # NoPath BY <1>10, PathfindingAssumption
<1>12. CostOf(path) = gScore[input.target]
  <2>1. gScore[input.start] = <<0, 0>> BY <1>0 DEF Parents
  <2>2. CostOf(path) \in Pairs /\ <<0, 0>> \in Pairs BY <1>1, <1>10, CostOfIs DEF Pairs
  <2>3. Plus(<<0, 0>>, CostOf(path)) = CostOf(path) BY <2>2, PlusIs
  <2>. QED BY <1>1, <2>1, <2>3
<1>13. ASSUME NEW w \in WalksOf(input)[Cardinality(input.walkable)].all, w[1] = input.target PROVE ~Less(w[2], CostOf(path))
  <2>1. Cardinality(input.walkable) \in Nat BY <1>0, WalksCost
  <2>2. AtMost(gScore[input.target], w[2]) BY <1>0, <1>13, <2>1 DEF NoCheaper
  <2>. QED BY <1>12, <2>2 DEF AtMost
<1>14. PathIsShortest' BY <1>2, <1>11, <1>13 DEF PathIsShortest
<1>. QED BY <1>2, <1>9, <1>14, ReturnKeeps

LEMMA SearchStutters == ASSUME SearchInv, UNCHANGED searchVars PROVE SearchInv'
<1>1. UNCHANGED <<input, phase, openSet, current, ahead, gScore, gRounding, cameFrom, closed, result>> BY DEF searchVars, search
<1>2. Inside' BY <1>1, InsideStays DEF SearchInv, Inside, SearchKinds
<1>3. Parents' BY <1>1, ParentsStay DEF SearchInv
<1>4. Relaxed' BY <1>1 DEF SearchInv, Relaxed, Neighbors, IsReachableNeighbor, IsWalkable
<1>5. Untouched' /\ Ongoing' /\ Rebuilt' /\ PathIsWalk' BY <1>1 DEF SearchInv, Untouched, Ongoing, Rebuilt, PathIsWalk
<1>6. NoCheaper' BY <1>1 DEF SearchInv, NoCheaper
<1>7. PathIsShortest' BY <1>1 DEF SearchInv, PathIsShortest, IsWalkable
<1>. QED BY <1>2, <1>3, <1>4, <1>5, <1>6, <1>7 DEF SearchInv, Inside

LEMMA SearchGoesOn == SearchInv /\ [SearchNext]_searchVars => SearchInv'
<1> SUFFICES ASSUME SearchInv, [SearchNext]_searchVars PROVE SearchInv' OBVIOUS
<1>1. ASSUME Begin PROVE SearchInv' BY <1>1, BeginKeeps
<1>2. ASSUME TakeBest PROVE SearchInv' BY <1>2, SkipKeeps, CloseKeeps
<1>3. ASSUME LookAt PROVE SearchInv' BY <1>3, LookAtKeeps
<1>4. ASSUME Rebuild PROVE SearchInv' BY <1>4, ExtendKeeps, FinishKeeps
<1>5. ASSUME GiveUp PROVE SearchInv' BY <1>5, GiveUpKeeps
<1>6. ASSUME UNCHANGED searchVars PROVE SearchInv' BY <1>6, SearchStutters
<1>. QED BY <1>1, <1>2, <1>3, <1>4, <1>5, <1>6 DEF SearchNext

LEMMA SearchIsRight == SearchSpec => []SearchInv
BY SearchStarts, SearchGoesOn, PTL DEF SearchSpec

LEMMA FoundIsShortest == SearchInv => FindsShortest
<1> SUFFICES ASSUME SearchInv PROVE FindsShortest OBVIOUS
<1>1. SearchKinds /\ SeenIsOpen BY DEF SearchInv
<1>2. DOMAIN openSet = 1 .. Len(openSet) BY <1>1, QueueIs DEF SearchKinds
<1>3. \A i \in DOMAIN openSet : openSet[i].position \in DOMAIN gScore BY <1>1, <1>2 DEF SeenIsOpen, Entries
<1>4. OpenSetOK BY <1>1, <1>3 DEF OpenSetOK, SearchKinds, Heap
<1>. QED BY <1>4 DEF FindsShortest, SearchInv

\* What findPath returns is a walk from the start to the target, to no tile
\* twice, and none costs less; its heap stays ordered: in any room, of any size.
THEOREM SearchFindsShortest == SearchSpec => []FindsShortest
BY SearchIsRight, FoundIsShortest, PTL

\* A tile that was taken from the open set keeps its cost, however sums round: a
\* parent it is given later is closed, and the way through it costs the same.
THEOREM SearchClosesForGood == SearchSpec => ClosedIsFinal
<1> DEFINE Final == \A t \in closed : gScore'[t] = gScore[t]
              /\ t # input.start =>
                   LET parent == cameFrom'[t]
                   IN  parent \in closed /\ Plus(gScore[parent], StepCost(parent, t)) = gScore[t]
<1>1. SearchInv /\ [SearchNext]_searchVars => [Final]_searchVars
  <2> SUFFICES ASSUME SearchInv, SearchNext PROVE Final BY DEF searchVars
  <2>0. SearchKinds /\ Parents BY DEF SearchInv
  <2>1. \A t \in closed : t \in DOMAIN gScore /\ (t # input.start => t \in DOMAIN cameFrom) BY <2>0 DEF SearchKinds
  <2>2. \A t \in DOMAIN cameFrom :
          cameFrom[t] \in closed /\ Plus(gScore[cameFrom[t]], StepCost(cameFrom[t], t)) = gScore[t]
    BY <2>0 DEF Parents
  <2>3. ASSUME Begin PROVE Final
    <3>1. closed = {} BY <2>3 DEF SearchInv, Begin, Untouched, SearchKinds
    <3>. QED BY <3>1
  <2>4. ASSUME LookAt PROVE Final
    <3>k. PICK k : k = Min(ahead) OBVIOUS
    <3>n. PICK next : next = Ahead(current, k) OBVIOUS
    <3>c. PICK cost : cost = Plus(gScore[current], MovementCost(Directions[k])) OBVIOUS
    <3>r. PICK r \in Int : LookedAt(k, next, cost, r) BY <2>4, <3>k, <3>n, <3>c, LookAtDoes
    <3>1. CASE ~Improves(next, cost, r) BY <2>1, <2>2, <3>r, <3>1 DEF LookedAt
    <3>2. CASE Improves(next, cost, r)
      <4>1. gScore' = Put(gScore, next, cost) /\ cameFrom' = Put(cameFrom, next, current)
        BY <3>r, <3>2 DEF LookedAt
      <4>2. next \in closed => gScore[next] = cost BY <2>4, <3>2, <3>k, <3>n, <3>c, ImprovedIs
      <4>3. current \in closed /\ cost = Plus(gScore[current], StepCost(current, next))
        BY <2>4, <3>k, <3>n, <3>c, LookAtIs
      <4>4. /\ \A t \in DOMAIN gScore : Put(gScore, next, cost)[t] = IF t = next THEN cost ELSE gScore[t]
            /\ \A t \in DOMAIN cameFrom : Put(cameFrom, next, current)[t] = IF t = next THEN current ELSE cameFrom[t]
        BY DEF Put
      <4>. QED BY <2>1, <2>2, <4>1, <4>2, <4>3, <4>4
    <3>. QED BY <3>1, <3>2
  <2>5. ASSUME TakeBest \/ Rebuild \/ GiveUp PROVE Final
    <3>1. UNCHANGED <<gScore, cameFrom>> BY <2>5 DEF TakeBest, Rebuild, GiveUp, Return
    <3>. QED BY <2>1, <2>2, <3>1
  <2>. QED BY <2>3, <2>4, <2>5 DEF SearchNext
<1>2. SearchSpec => [][Final]_searchVars BY <1>1, SearchIsRight, PTL DEF SearchSpec
<1>. QED BY <1>2 DEF ClosedIsFinal
=============================================================================
