---------------------------- MODULE RoomMovement ----------------------------
(***************************************************************************)
(* Where the avatars of one Room are, while they walk and while blocking   *)
(* furniture comes and goes.                                               *)
(*                                                                         *)
(* The Room stores a position per user and, while the user walks, a path   *)
(* and its starting time.  Where a walker is follows from the clock.  The  *)
(* stored position is brought up to date lazily: to the end of the path by *)
(* whatever method runs after the walk is over (the sweep), and to the     *)
(* tile reached so far only by the user's own next move and by snapshots.  *)
(* Occupancy is decided by stored positions and destinations.              *)
(*                                                                         *)
(* Every action is one synchronous method, called by a message handler or  *)
(* by the bots' timer; a bot moves as a user does, to walkable tiles.      *)
(* Walkable furniture does not matter here, and blocking furniture covers  *)
(* one tile.                                                               *)
(***************************************************************************)
EXTENDS Integers, Sequences, FiniteSets

CONSTANTS
  Users,
  Floor,            \* walkable tiles of the layout
  Elsewhere,        \* tiles that are not, and may be asked for
  TileOrder,        \* Floor in the order of layout.tiles
  Spawn,
  TicksPerTile,     \* clock ticks in MOVEMENT_MILLISECONDS_PER_TILE
  MaxItems,         \* bound: blocking items in the room
  FindPaths(_, _, _),  \* the paths findPath may return: blocked tiles, start, target
  NoWalk

Tiles == Floor \cup Elsewhere

Walks == [path : Seq(Floor), ticks : Nat]

\* What moveUser relies on: a path leads from the start to the target over
\* walkable tiles, and it is empty when they are one tile.
ASSUME MovementAssumption ==
  /\ Spawn \in Floor /\ <<0, 0>> \in Tiles
  /\ TicksPerTile \in Nat \ {0} /\ MaxItems \in Nat
  /\ TileOrder \in Seq(Floor) /\ NoWalk \notin Walks
  /\ \A b \in SUBSET Floor, from, to \in Tiles :
       Cardinality(b) <= MaxItems =>
         \A p \in FindPaths(b, from, to) :
           /\ p \in Seq(Floor) /\ {from, to} \subseteq Floor \ b
           /\ from # to => Len(p) > 1 /\ p[1] = from /\ p[Len(p)] = to
           /\ from = to => p = <<>>

VARIABLES
  present,  \* users in the Room
  pos,      \* [Users -> Tiles]: user.position
  walk,     \* [Users -> [path, ticks since startedAt] or NoWalk]
  items,    \* tiles covered by blocking furniture
  shown     \* [Users -> Tiles]: where the clients last were told an avatar goes

vars == <<present, pos, walk, items, shown>>

Walking(u) == walk[u] # NoWalk
LastOf(p) == p[Len(p)]
Smaller(a, b) == IF a < b THEN a ELSE b

\* reachedIndex, counted from one.
Reached(u) ==
  Smaller(Len(walk[u].path), walk[u].ticks \div TicksPerTile + 1)
Arrived(u) == Walking(u) /\ Reached(u) = Len(walk[u].path)

\* The tile an avatar is on, and the one where it will stop.
Tile(u) == IF Walking(u) THEN walk[u].path[Reached(u)] ELSE pos[u]
Goal(u) == IF Walking(u) THEN LastOf(walk[u].path) ELSE pos[u]

---------------------------------------------------------------------------
(* sweepCompletedMovements, which most methods call first.                 *)

SweptPos == [u \in Users |-> IF Arrived(u) THEN Tile(u) ELSE pos[u]]
SweptWalk == [u \in Users |-> IF Arrived(u) THEN NoWalk ELSE walk[u]]
Sweep == pos' = SweptPos /\ walk' = SweptWalk

\* resolveUserPosition of the users in R, after the sweep.
KeepStored(R) == SweptPos                                        \* (mutant)
Resolved(R) == [u \in Users |-> IF u \in R THEN Tile(u) ELSE SweptPos[u]]

StoredAt(t) == \E u \in present : pos[u] = t                      \* (mutant)
HasUserAt(t) == \E u \in present : SweptPos[u] = t

StandsThere(t, u) == \E v \in present \ {u} : SweptPos[v] = t     \* (mutant)
IsOccupiedByOtherUser(t, u) ==
  \E v \in present \ {u} : SweptPos[v] = t \/ (Walking(v) /\ Goal(v) = t)

Unoccupied(t) == t \notin items /\ ~HasUserAt(t)

SpawnPosition ==
  LET free == {k \in DOMAIN TileOrder : Unoccupied(TileOrder[k])}
  IN  IF Unoccupied(Spawn) THEN Spawn
      ELSE IF free = {} THEN <<0, 0>>
      ELSE TileOrder[CHOOSE k \in free : \A j \in free : k <= j]

---------------------------------------------------------------------------
\* join, and the snapshot that the joining socket is sent.
Join(u) ==
  /\ u \notin present
  /\ present' = present \cup {u}
  /\ pos' = [Resolved(present) EXCEPT ![u] = SpawnPosition]
  /\ walk' = SweptWalk
  /\ shown' = [shown EXCEPT ![u] = SpawnPosition]
  /\ UNCHANGED items

\* A snapshot for a socket that is already joined.
GetSnapshot ==
  /\ pos' = Resolved(present)
  /\ walk' = SweptWalk
  /\ UNCHANGED <<present, items, shown>>

\* leave or removeUser; the clients remove the avatar.
Leave(u) ==
  /\ u \in present
  /\ present' = present \ {u}
  /\ pos' = [pos EXCEPT ![u] = Spawn]
  /\ walk' = [walk EXCEPT ![u] = NoWalk]
  /\ shown' = [shown EXCEPT ![u] = Spawn]
  /\ UNCHANGED items

\* avatar.moved is broadcast.
StartWalk(u, p) ==
  /\ walk' = [SweptWalk EXCEPT ![u] = [path |-> p, ticks |-> 0]]
  /\ shown' = [shown EXCEPT ![u] = LastOf(p)]

WalkNowhere(u) ==                                                \* (mutant)
  /\ walk' = [SweptWalk EXCEPT ![u] = [path |-> <<>>, ticks |-> 0]]
  /\ UNCHANGED shown
\* The path is empty: the walk ends here, and nothing is broadcast.
StopWalk(u) ==
  /\ walk' = [SweptWalk EXCEPT ![u] = NoWalk]
  /\ UNCHANGED shown

FromStored(u) == pos[u]                                          \* (mutant)
\* resolveUserPosition in moveUser: where the new path starts.
StartOf(u) == Tile(u)

\* A move to the goal of the walk under way is answered with what is left of it.
MoveUser(u, target) ==
  LET sameTarget == SweptWalk[u] # NoWalk /\ Goal(u) = target
      refused == IsOccupiedByOtherUser(target, u)
      paths == FindPaths(items, StartOf(u), target)
  IN
  /\ u \in present
  /\ pos' = Resolved({u})
  /\ IF sameTarget \/ refused \/ paths = {}
     THEN walk' = SweptWalk /\ UNCHANGED shown
     ELSE \E p \in paths : IF Len(p) > 1 THEN StartWalk(u, p) ELSE StopWalk(u)
  /\ UNCHANGED <<present, items>>

---------------------------------------------------------------------------
(* Blocking furniture.                                                     *)

ValidPlacement(t, others) == t \in Floor \ others /\ t # Spawn /\ ~HasUserAt(t)

PlaceItem(t) ==
  /\ Cardinality(items) < MaxItems
  /\ ValidPlacement(t, items)
  /\ items' = items \cup {t}
  /\ Sweep
  /\ UNCHANGED <<present, shown>>

MoveItem(t, next) ==
  /\ t \in items
  /\ ValidPlacement(next, items \ {t})
  /\ items' = (items \ {t}) \cup {next}
  /\ Sweep
  /\ UNCHANGED <<present, shown>>

PickupItem(t) ==
  /\ t \in items
  /\ items' = items \ {t}
  /\ UNCHANGED <<present, pos, walk, shown>>

---------------------------------------------------------------------------
\* The clock advances; a walk that is over does not get older.
Tick ==
  /\ \E u \in Users : Walking(u) /\ ~Arrived(u)
  /\ walk' = [u \in Users |-> IF Walking(u) /\ ~Arrived(u)
                              THEN [walk[u] EXCEPT !.ticks = @ + 1] ELSE walk[u]]
  /\ UNCHANGED <<present, pos, items, shown>>

Init ==
  /\ present = {} /\ items = {}
  /\ pos = [u \in Users |-> Spawn] /\ shown = pos
  /\ walk = [u \in Users |-> NoWalk]

Next ==
  \/ \E u \in Users : Join(u) \/ Leave(u)
  \/ \E u \in Users, target \in Tiles : MoveUser(u, target)
  \/ GetSnapshot
  \/ \E t \in Floor : PlaceItem(t) \/ PickupItem(t)
  \/ \E t, next \in Floor : MoveItem(t, next)
  \/ Tick

Spec == Init /\ [][Next]_vars

---------------------------------------------------------------------------
TypeOK ==
  /\ present \subseteq Users
  /\ pos \in [Users -> Tiles] /\ shown \in [Users -> Tiles]
  /\ walk \in [Users -> Walks \cup {NoWalk}]
  /\ \A u \in Users : Walking(u) => Len(walk[u].path) > 1
  /\ items \subseteq Floor

\* What the Room stores about a walker is a tile it has already been on.
StoredBehind ==
  \A u \in Users : Walking(u) =>
    \E k \in 1 .. Reached(u) : walk[u].path[k] = pos[u]

\* Destinations are reserved: no move, however walks, arrivals, stops and
\* furniture interleave, sends two avatars to one tile.  Only a join may put
\* an avatar where another will stop.
GoalsStayApart ==
  [][\A u, v \in present \cap present' :
       u # v /\ Goal(u) # Goal(v) => (Goal(u))' # (Goal(v))']_vars

\* Furniture is never put on a standing avatar; one that ends up inside
\* furniture was walking when the piece was placed.
NobodyIsBuried ==
  [][\A u \in present \cap present' :
       (Walking(u) /\ ~Arrived(u)) \/ Tile(u) \in items
         \/ (Tile(u))' \notin items']_vars

\* Only the clock moves avatars: no request, snapshot, reroute or late update
\* of the stored position makes one jump.
NoJumps ==
  [][Tick \/ \A u \in present \cap present' : (Tile(u))' = Tile(u)]_vars

\* The variables keep their types, and what the Room stores is behind the walk.
WalksKept == TypeOK /\ StoredBehind

\* Requests and furniture respect the tiles others stand on or head for, and
\* move nobody.
TilesRespected == GoalsStayApart /\ NobodyIsBuried /\ NoJumps
=============================================================================
