----------------------------- MODULE AvatarView -----------------------------
(***************************************************************************)
(* What another player's page shows of one avatar of a Room.               *)
(*                                                                         *)
(* The page is told of paths, not of positions.  It animates the path it   *)
(* heard of last at the pace at which the Room computes positions, from    *)
(* wherever the avatar is when the path arrives.  Messages arrive in order *)
(* and at any later time; a page in the background misses frames, and      *)
(* never makes up for them.                                                *)
(***************************************************************************)
EXTENDS RoomMovement

CONSTANTS
  Watched,    \* the user whose avatar is looked at
  MaxLink,    \* bound: messages on their way to the page
  NoAvatar, NoTile

\* An avatar on a page: its tile, the tile it walks to, the path after that and
\* the progress in ticks.
Avatars == [at : Tiles, to : Tiles \cup {NoTile}, path : Seq(Floor), ticks : Nat]

\* The search never enters a tile twice.
ASSUME ViewAssumption ==
  /\ Watched \in Users /\ MaxLink \in Nat
  /\ NoTile \notin Tiles /\ NoAvatar \notin Avatars
  /\ \A b \in SUBSET Floor, from, to \in Tiles :
       Cardinality(b) <= MaxItems =>
         \A p \in FindPaths(b, from, to) :
           \A j, k \in DOMAIN p : p[j] = p[k] => j = k

VARIABLES
  watching, \* the page is in the Room, and its socket subscribed
  link,     \* messages on their way
  avatar,   \* NoAvatar, or one of Avatars
  missed,   \* history: the page ignored the last path it was sent
  direct    \* history: the walk under way started at rest, as the page saw it

view == <<watching, link, avatar, missed, direct>>
allVars == <<vars, view>>

Idle(a) == a.to = NoTile /\ a.path = <<>>
Destination(a) ==
  IF a.path # <<>> THEN LastOf(a.path) ELSE IF a.to # NoTile THEN a.to ELSE a.at

At(t) == [at |-> t, to |-> NoTile, path |-> <<>>, ticks |-> 0]
Visited(p) == {p[k] : k \in DOMAIN p}
Index(p, t) == CHOOSE k \in DOMAIN p : p[k] = t /\ \A j \in 1 .. k - 1 : p[j] # t
From(p, k) == SubSeq(p, k, Len(p))

\* getUnreachedPath: the path after the avatar's tile, or from the tile it
\* walks to, or all of it.
UnreachedPath(a, p) ==
  IF a.at \in Visited(p) THEN From(p, Index(p, a.at) + 1)
  ELSE IF a.to \in Visited(p) THEN From(p, Index(p, a.to))
  ELSE p

OnlyNewTile(a, p) ==                                              \* (mutant)
  LET next == UnreachedPath(a, p) IN
  IF next = <<>> \/ Head(next) = a.to THEN a
  ELSE IF a.to = NoTile THEN [a EXCEPT !.path = next, !.ticks = 0]
  ELSE [a EXCEPT !.to = Head(next), !.path = Tail(next), !.ticks = 0]
\* Without an unreached tile the avatar goes on as before.
SetPath(a, p) ==
  LET next == UnreachedPath(a, p) IN
  IF next = <<>> THEN a
  ELSE IF a.to = NoTile THEN [a EXCEPT !.path = next, !.ticks = 0]
  ELSE IF Head(next) = a.to THEN [a EXCEPT !.path = Tail(next)]
  ELSE [a EXCEPT !.to = Head(next), !.path = Tail(next), !.ticks = 0]

BeginSegment(a) ==
  IF a.to # NoTile \/ a.path = <<>> THEN a
  ELSE [a EXCEPT !.to = Head(a.path), !.path = Tail(a.path), !.ticks = 0]

\* A frame as long as a tick.
HalfWay(a) ==                                                     \* (mutant)
  LET b == BeginSegment(a) IN IF b.to = NoTile THEN b ELSE [b EXCEPT !.at = b.to, !.to = NoTile]
Update(a) ==
  LET b == BeginSegment(a) IN
  IF b.to = NoTile THEN b
  ELSE IF b.ticks + 1 < TicksPerTile THEN [b EXCEPT !.ticks = @ + 1]
  ELSE [b EXCEPT !.at = b.to, !.to = NoTile, !.ticks = 0]

---------------------------------------------------------------------------
(* The Room, and what it publishes about the watched user.                 *)

\* A page that is not in the Room yet is told nothing.
Send(m) ==
  IF watching THEN Len(link) < MaxLink /\ link' = Append(link, m) ELSE UNCHANGED link
\* bound: while the page watches, no other avatar is in the Room.  Its tile and
\* goal would block moves, as furniture does.
Quiet == present \subseteq {Watched}

Message(type, t, p) == [type |-> type, at |-> t, path |-> p]

\* getRemainingPath, of a walk that is not over.
RemainingPath == From(walk[Watched].path, Reached(Watched))

WatchedJoins ==
  /\ Join(Watched)
  /\ Send(Message("joined", SpawnPosition, <<>>))
  /\ UNCHANGED <<watching, avatar, missed, direct>>

WatchedLeaves ==
  /\ Leave(Watched)
  /\ Send(Message("left", NoTile, <<>>))
  /\ direct' = FALSE
  /\ UNCHANGED <<watching, avatar, missed>>

\* A move to the same goal is answered, and published, with what is left of the
\* path; a path of less than two tiles is not published.
WatchedMoves(target) ==
  LET again == SweptWalk[Watched] # NoWalk /\ Goal(Watched) = target
      starts == ~again /\ walk'[Watched] \notin {NoWalk, SweptWalk[Watched]}
  IN
  /\ MoveUser(Watched, target)
  /\ IF again THEN Send(Message("moved", NoTile, RemainingPath))
     ELSE IF starts THEN Send(Message("moved", NoTile, walk'[Watched].path))
     ELSE UNCHANGED link
  /\ direct' = IF starts
               THEN /\ SweptWalk[Watched] = NoWalk /\ link = <<>>
                    /\ avatar = At(Tile(Watched))
               ELSE direct /\ walk'[Watched] # NoWalk
  /\ UNCHANGED <<watching, avatar, missed>>

\* The page's own user joins, or joins again.
SendSnapshot ==
  /\ Quiet
  /\ GetSnapshot
  /\ watching' = TRUE
  /\ Len(link) < MaxLink
  /\ link' = Append(link, IF Watched \in present
          THEN Message("snapshot", Tile(Watched),
                       IF SweptWalk[Watched] = NoWalk THEN <<>> ELSE RemainingPath)
          ELSE Message("left", NoTile, <<>>))
  /\ direct' = FALSE
  /\ UNCHANGED <<avatar, missed>>

OthersAct ==
  /\ \/ \E u \in Users \ {Watched} :
          /\ ~watching
          /\ Join(u) \/ Leave(u) \/ \E target \in Tiles : MoveUser(u, target)
     \/ \E t \in Floor : PlaceItem(t) \/ PickupItem(t)
     \/ \E t, next \in Floor : MoveItem(t, next)
  /\ UNCHANGED view

---------------------------------------------------------------------------
(* The page.                                                               *)

\* A new avatar replaces the one there was; a path for none is ignored.
Shown(m) ==
  CASE m.type = "left" -> NoAvatar
    [] m.type = "joined" -> At(m.at)
    [] m.type = "snapshot" -> IF Len(m.path) > 1 THEN SetPath(At(m.at), m.path) ELSE At(m.at)
    [] m.type = "moved" -> IF avatar = NoAvatar THEN NoAvatar ELSE SetPath(avatar, m.path)

HandleServerMessage ==
  LET m == Head(link) IN
  /\ link # <<>>
  /\ link' = Tail(link)
  /\ avatar' = Shown(m)
  /\ missed' = (/\ m.type = "moved" /\ avatar # NoAvatar
                /\ ~Idle(avatar) /\ UnreachedPath(avatar, m.path) = <<>>)
  /\ UNCHANGED <<vars, watching, direct>>

\* Time passes for the Room and, unless the page is in the background, for it.
Time ==
  \/ /\ Tick
     /\ avatar' = avatar \/ (avatar # NoAvatar /\ avatar' = Update(avatar))
     /\ UNCHANGED <<watching, link, missed, direct>>
  \/ /\ \A u \in Users : ~Walking(u) \/ Arrived(u)
     /\ avatar # NoAvatar /\ ~Idle(avatar)
     /\ avatar' = Update(avatar)
     /\ UNCHANGED <<vars, watching, link, missed, direct>>

ViewInit == Init /\ watching = FALSE /\ link = <<>> /\ avatar = NoAvatar /\ missed = FALSE /\ direct = FALSE

ViewNext ==
  \/ WatchedJoins \/ WatchedLeaves \/ \E target \in Tiles : WatchedMoves(target)
  \/ SendSnapshot \/ OthersAct \/ HandleServerMessage \/ Time

ViewSpec == ViewInit /\ [][ViewNext]_allVars

---------------------------------------------------------------------------
(* Properties.                                                             *)

\* Once the page has heard everything, it has an avatar exactly while the user
\* is in the Room, and that avatar walks to where the Room's will stop, however
\* walks were rerouted and frames missed.  Two cases are excluded: a walk the
\* Room ended without telling anyone, and a path that ends on the tile the
\* avatar has just left, which the page ignores while it walks.
HeadsForGoal ==
  watching /\ link = <<>> =>
    /\ (avatar # NoAvatar) = (Watched \in present)
    /\ (avatar # NoAvatar /\ ~missed /\ shown[Watched] = Goal(Watched))
         => Destination(avatar) = Goal(Watched)

\* An avatar that was at rest in both places when its walk started, and was not
\* rerouted, is not shown further along than the Room has it.
NeverAhead ==
  (direct /\ Walking(Watched) /\ avatar # NoAvatar) =>
    \E k \in 1 .. Reached(Watched) : walk[Watched].path[k] = avatar.at

\* The page's avatar heads where the Room's does, and is not ahead of it.
ViewFollows == HeadsForGoal /\ NeverAhead
=============================================================================
