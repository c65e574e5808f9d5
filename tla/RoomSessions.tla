--------------------------- MODULE RoomSessions ---------------------------
(***************************************************************************)
(* Who is in which room, on behalf of which WebSocket connection.           *)
(*                                                                         *)
(* The server keeps that fact four times: in each Room (which user is in   *)
(* it and which connection drives the avatar), in every socket's data      *)
(* (roomId), in the presence tracker shown to friends, and in the topic    *)
(* subscriptions that decide who hears a room's broadcasts.  A user may    *)
(* have several sockets open at once.  Joining a personal room awaits the  *)
(* database, so a join may resume after its socket moved on or closed.     *)
(* The fifth copy, what each client shows, is derived from the snapshots   *)
(* and the user.joined / user.left broadcasts the socket received.         *)
(*                                                                         *)
(* Positions, chat and furniture are other modules' business; bots count   *)
(* towards a room's population and are otherwise left out.                 *)
(***************************************************************************)
EXTENDS Naturals, FiniteSets

CONSTANTS
  Users,        \* authenticated accounts
  Sockets,      \* connection slots; every use of one is a fresh connectionId
  Owner,        \* [Sockets -> Users]: the account a connection belongs to
  Rooms,        \* every room that exists or may be created
  Home,         \* [Users -> Rooms]: personalRoomId
  PublicRooms,  \* rooms whose layout is public
  KnockRooms,   \* rooms whose rule is access = "knock"
  RoomOwner,    \* [Rooms -> Users \cup {NoUser}]
  Capacity,     \* [Rooms -> Nat], 0 when the room has no capacity rule
  Bots,         \* [Rooms -> Nat]: bots seeded into the room
  SeededRooms,  \* layouts known when the server starts
  MaxSockets,   \* config.maxWebSocketConnectionsPerUser
  MaxPending,   \* bound: joins of one socket awaiting seedRoom at once
  NoUser, NoSocket, NoRoom

(* A home is private to its owner.  A room with bots leaves space for a     *)
(* visitor: bots live in the bundled rooms, which have no capacity, and a   *)
(* created room's capacity is at least one.                                *)
ASSUME SessionAssumption ==
  /\ Owner \in [Sockets -> Users]
  /\ Home \in [Users -> Rooms]
  /\ RoomOwner \in [Rooms -> Users \cup {NoUser}]
  /\ PublicRooms \subseteq Rooms /\ KnockRooms \subseteq Rooms
  /\ SeededRooms \subseteq Rooms
  /\ Capacity \in [Rooms -> Nat] /\ Bots \in [Rooms -> Nat]
  /\ \A r \in Rooms : Capacity[r] > 0 => Bots[r] < Capacity[r]
  /\ \A u \in Users : RoomOwner[Home[u]] = u /\ Home[u] \notin PublicRooms
  /\ MaxSockets \in Nat /\ MaxPending \in Nat
  /\ NoUser \notin Users /\ NoSocket \notin Sockets /\ NoRoom \notin Rooms
  /\ IsFiniteSet(Users)

VARIABLES
  conn,         \* [Sockets -> {"closed", "upgrading", "open"}]
  roomOf,       \* ws.data.roomId of each connection
  subs,         \* the room topics each socket is subscribed to
  avatar,       \* avatar[r][u]: the connection driving u's avatar in r
  active,       \* the Room objects the RoomManager holds
  layouts,      \* the layouts the RoomManager knows
  online,       \* connections the presence tracker knows
  presenceRoom, \* the room the presence tracker has for each connection
  pending,      \* joins of each socket that wait for seedRoom
  view          \* the users each client shows in its room

vars == <<conn, roomOf, subs, avatar, active, layouts, online,
          presenceRoom, pending, view>>

memberVars == <<roomOf, subs, avatar, active, presenceRoom, view>>

---------------------------------------------------------------------------
Members(r) == {u \in Users : avatar[r][u] # NoSocket}

OpenSockets(u) == {s \in Sockets : Owner[s] = u /\ conn[s] = "open"}

AnyKnownLayout(u, r, known) == r \in known              \* (mutant)
HasAccessibleLayout(u, r, known) ==
  r \in known /\ (r \in PublicRooms \/ RoomOwner[r] = u)

OverCapacity(r) ==                                      \* (mutant)
  Capacity[r] > 0 /\ Cardinality(Members(r)) + Bots[r] > Capacity[r]
IsRoomAtCapacity(r) ==
  Capacity[r] > 0 /\ Cardinality(Members(r)) + Bots[r] >= Capacity[r]

CanJoinRoom(u, r, known) ==
  /\ HasAccessibleLayout(u, r, known)
  /\ r \in KnockRooms => RoomOwner[r] = u
  /\ (r \in active /\ avatar[r][u] = NoSocket) => ~IsRoomAtCapacity(r)

\* Room.leave succeeds: the user is in the room and this connection drives
\* the avatar, so a superseded connection cannot remove it.
AnyoneMayLeave(s, r) ==                                 \* (mutant)
  r \in active /\ avatar[r][Owner[s]] # NoSocket
RegisteredMayLeave(s, r) ==                             \* (mutant)
  r \in active /\ avatar[r][Owner[s]] = s /\ conn'[s] = "open"
MayLeave(s, r) == r \in active /\ avatar[r][Owner[s]] = s

\* RoomManager.removeUserFromOtherRooms: the rooms that held user u.
NoOtherRooms(u, kept) == {}                             \* (mutant)
OtherRoomsWith(u, kept) == {q \in active \ kept : avatar[q][u] # NoSocket}

\* RoomManager.removeIfEmpty on every room in rs after user u left them.
RemoveAnyway(rooms, rs, u) == rooms \ rs                \* (mutant)
RemoveIfEmpty(rooms, rs, u) == rooms \ {q \in rs : Members(q) \subseteq {u}}

\* The sockets of s's user that disconnectSupersededRoomSockets detaches
\* from the rooms in rs.
Superseded(s, rs) ==
  {t \in OpenSockets(Owner[s]) \ {s} : roomOf[t] \in rs}

\* The topics of s once it left the rooms in rs and joined r; the calls do
\* nothing on a closed socket.
TopicsBeforeRoomId(s, r, rs) == (subs[s] \ rs) \cup {roomOf[s]}  \* (mutant)
Topics(s, r, rs) ==
  IF conn'[s] = "open" THEN (subs[s] \ rs) \cup {r} ELSE subs[s]

\* PresenceTracker.moveUserToRoom.
MoveConnection(s, r) == [presenceRoom EXCEPT ![s] = r]  \* (mutant)
MoveUserToRoom(s, r) ==
  [t \in Sockets |-> IF t = s THEN r
                     ELSE IF Owner[t] = Owner[s] THEN NoRoom
                     ELSE presenceRoom[t]]

\* What client t, subscribed to topics, shows after user.left for u was
\* published to the rooms in rs.
NotToldOfLeaving(t, topics, rs, u) == view[t]           \* (mutant)
AfterUserLeft(t, topics, rs, u) ==
  IF topics \cap rs # {} THEN view[t] \ {u} ELSE view[t]

---------------------------------------------------------------------------
(* The accepted part of joinRoom: leave the room this socket was in, take  *)
(* the user out of every other room, then join or reattach.  The steps of  *)
(* this function run with no await between them.                           *)

EnterRoom(s, r) ==
  LET u == Owner[s]
      left == {q \in {roomOf[s]} \ {r} : MayLeave(s, q)}
      removed == OtherRoomsWith(u, left \cup {r})
      detached == Superseded(s, removed)
      isReconnect == avatar[r][u] # NoSocket
  IN
  /\ avatar' = [q \in Rooms |->
       [avatar[q] EXCEPT ![u] = IF q = r THEN s
                                ELSE IF q \in left \cup removed THEN NoSocket
                                ELSE @]]
  /\ active' = RemoveIfEmpty(active \cup {r}, left \cup removed, u)
  /\ roomOf' = [t \in Sockets |-> IF t = s THEN r
                                  ELSE IF t \in detached THEN NoRoom
                                  ELSE roomOf[t]]
  /\ subs' = [t \in Sockets |-> IF t = s THEN Topics(s, r, left)
                                ELSE IF t \in detached
                                     THEN subs[t] \ {roomOf[t]}
                                ELSE subs[t]]
  /\ presenceRoom' = MoveUserToRoom(s, r)
  /\ view' = [t \in Sockets |->
       IF t = s
       THEN IF conn'[s] = "open" THEN Members(r) \cup {u} ELSE {}
       ELSE AfterUserLeft(t, subs[t], left \cup removed, u)
            \cup (IF r \in subs[t] /\ ~isReconnect THEN {u} ELSE {})]

(* joinRoom from the access check on.  "known" is the set of layouts and   *)
(* "connected" the presence connections at that moment.                    *)
JoinRoom(s, r, known, connected) ==
  \/ /\ ~CanJoinRoom(Owner[s], r, known)
     /\ online' = connected
     /\ UNCHANGED memberVars
  \/ /\ CanJoinRoom(Owner[s], r, known)
     /\ roomOf[s] = r                 \* the snapshot is sent again, no more
     /\ active' = active \cup {r}
     /\ view' = [view EXCEPT ![s] = IF conn'[s] = "open" THEN Members(r)
                                    ELSE {}]
     /\ online' = connected
     /\ UNCHANGED <<roomOf, subs, avatar, presenceRoom>>
  \/ /\ CanJoinRoom(Owner[s], r, known)
     /\ roomOf[s] # r
     /\ EnterRoom(s, r)
     /\ online' = connected \cup {s}

(* joinRoom from its first line: a personal room that has no layout yet is *)
(* seeded first, and the rest of the join waits for the database.          *)
RequestJoin(s, r, connected) ==
  /\ UNCHANGED layouts
  /\ \/ /\ r = Home[Owner[s]] /\ r \notin layouts
        /\ pending[s] < MaxPending
        /\ pending' = [pending EXCEPT ![s] = @ + 1]
        /\ online' = connected
        /\ UNCHANGED memberVars
     \/ /\ ~(r = Home[Owner[s]] /\ r \notin layouts)
        /\ JoinRoom(s, r, layouts, connected)
        /\ UNCHANGED pending

---------------------------------------------------------------------------
(* The upgrade handler checks the number of registered sockets and then    *)
(* awaits the last-room lookup; the socket is registered only when it      *)
(* opens.  A slot is used again once nothing refers to its last use.       *)
Upgrade(s) ==
  /\ conn[s] = "closed"
  /\ pending[s] = 0
  /\ \A r \in Rooms : avatar[r][Owner[s]] # s
  /\ Cardinality(OpenSockets(Owner[s])) < MaxSockets
  /\ conn' = [conn EXCEPT ![s] = "upgrading"]
  /\ roomOf' = [roomOf EXCEPT ![s] = NoRoom]
  /\ UNCHANGED <<subs, avatar, active, layouts, online, presenceRoom,
                 pending, view>>

UpgradeFails(s) ==
  /\ conn[s] = "upgrading"
  /\ conn' = [conn EXCEPT ![s] = "closed"]
  /\ UNCHANGED <<roomOf, subs, avatar, active, layouts, online,
                 presenceRoom, pending, view>>

\* The resume room comes from the database and may name any room.
HandleOpen(s, resume) ==
  /\ conn[s] = "upgrading"
  /\ conn' = [conn EXCEPT ![s] = "open"]
  /\ \/ /\ resume = NoRoom
        /\ online' = online \cup {s}
        /\ UNCHANGED <<memberVars, layouts, pending>>
     \/ /\ resume # NoRoom
        /\ RequestJoin(s, resume, online \cup {s})

HandleJoin(s, r) ==
  /\ conn[s] = "open"
  /\ UNCHANGED conn
  /\ RequestJoin(s, r, online)

\* The awaited seedRoom returns, or throws and leaves the layouts alone.
SeedRoomDone(s, ok) ==
  /\ pending[s] > 0
  /\ pending' = [pending EXCEPT ![s] = @ - 1]
  /\ layouts' = IF ok THEN layouts \cup {Home[Owner[s]]} ELSE layouts
  /\ UNCHANGED conn
  /\ JoinRoom(s, Home[Owner[s]], layouts', online)

HandleClose(s) ==
  LET u == Owner[s]
      left == {q \in {roomOf[s]} : MayLeave(s, q)}
  IN
  /\ conn[s] = "open"
  /\ conn' = [conn EXCEPT ![s] = "closed"]
  /\ online' = online \ {s}
  /\ presenceRoom' = [presenceRoom EXCEPT ![s] = NoRoom]
  /\ avatar' = [q \in Rooms |-> IF q \in left
                                THEN [avatar[q] EXCEPT ![u] = NoSocket]
                                ELSE avatar[q]]
  /\ active' = RemoveIfEmpty(active, left, u)
  /\ subs' = [subs EXCEPT ![s] = {}]
  /\ view' = [t \in Sockets |-> IF t = s THEN {}
                                ELSE AfterUserLeft(t, subs[t], left, u)]
  /\ UNCHANGED <<roomOf, layouts, pending>>

\* A room created over HTTP, or a home provisioned by a room listing.
AddRoom(r) ==
  /\ r \notin layouts
  /\ layouts' = layouts \cup {r}
  /\ UNCHANGED <<conn, online, pending, memberVars>>

(* The process stops and starts again: memory is gone, the layouts are     *)
(* read back, with the homes whose seedRoom reached the database.          *)
Restart ==
  /\ \E s \in Sockets : conn[s] # "closed" \/ pending[s] > 0
  /\ \E seeded \in SUBSET {Home[Owner[s]] : s \in {t \in Sockets : pending[t] > 0}} :
       layouts' = layouts \cup seeded
  /\ conn' = [s \in Sockets |-> "closed"]
  /\ roomOf' = [s \in Sockets |-> NoRoom]
  /\ subs' = [s \in Sockets |-> {}]
  /\ avatar' = [r \in Rooms |-> [u \in Users |-> NoSocket]]
  /\ active' = {}
  /\ online' = {}
  /\ presenceRoom' = [s \in Sockets |-> NoRoom]
  /\ pending' = [s \in Sockets |-> 0]
  /\ view' = [s \in Sockets |-> {}]

---------------------------------------------------------------------------
Init ==
  /\ conn = [s \in Sockets |-> "closed"]
  /\ roomOf = [s \in Sockets |-> NoRoom]
  /\ subs = [s \in Sockets |-> {}]
  /\ avatar = [r \in Rooms |-> [u \in Users |-> NoSocket]]
  /\ active = {}
  /\ layouts = SeededRooms
  /\ online = {}
  /\ presenceRoom = [s \in Sockets |-> NoRoom]
  /\ pending = [s \in Sockets |-> 0]
  /\ view = [s \in Sockets |-> {}]

Next ==
  \/ \E s \in Sockets :
       \/ Upgrade(s)
       \/ UpgradeFails(s)
       \/ \E r \in Rooms \cup {NoRoom} : HandleOpen(s, r)
       \/ \E r \in Rooms : HandleJoin(s, r)
       \/ \E ok \in BOOLEAN : SeedRoomDone(s, ok)
       \/ HandleClose(s)
  \/ \E r \in Rooms : AddRoom(r)
  \/ Restart

Spec == Init /\ [][Next]_vars
---------------------------------------------------------------------------
TypeOK ==
  /\ conn \in [Sockets -> {"closed", "upgrading", "open"}]
  /\ roomOf \in [Sockets -> Rooms \cup {NoRoom}]
  /\ subs \in [Sockets -> SUBSET Rooms]
  /\ avatar \in [Rooms -> [Users -> Sockets \cup {NoSocket}]]
  /\ active \in SUBSET Rooms
  /\ layouts \in SUBSET Rooms
  /\ online \in SUBSET Sockets
  /\ presenceRoom \in [Sockets -> Rooms \cup {NoRoom}]
  /\ pending \in [Sockets -> Nat]
  /\ view \in [Sockets -> SUBSET Users]

\* A user has an avatar in one room at most, whatever sockets join what
\* and in whatever order the joins that wait for the database resume.
OneRoomPerUser ==
  \A u \in Users : \A q, r \in Rooms :
    avatar[q][u] # NoSocket /\ avatar[r][u] # NoSocket => q = r

\* An avatar is in a room the manager still holds, and the connection that
\* drives it is one of its user's and has that room as its own: a socket
\* that is superseded or detached never keeps an avatar.
DriverIsJoined ==
  \A r \in Rooms, u \in Users :
    avatar[r][u] # NoSocket =>
      /\ r \in active
      /\ Owner[avatar[r][u]] = u
      /\ roomOf[avatar[r][u]] = r

\* getJoinedRoom accepts an action of socket s: the socket drives an avatar.
MemberDrives(s) ==                                      \* (mutant)
  roomOf[s] \in active /\ avatar[roomOf[s]][Owner[s]] # NoSocket
Drives(s) ==
  roomOf[s] \in active /\ avatar[roomOf[s]][Owner[s]] = s

\* Of all the connections a user has, at most one can move, chat, type or
\* dress: superseded sockets are refused by getJoinedRoom.
OneDriverPerUser ==
  \A s, t \in Sockets :
    Owner[s] = Owner[t] /\ Drives(s) /\ Drives(t) => s = t

\* What friends are shown is where the avatar is: the presence tracker has
\* a connection in a room exactly when that connection drives an avatar
\* there, through supersession, detaching and late joins.
PresenceMatchesAvatar ==
  \A s \in Sockets, r \in Rooms :
    presenceRoom[s] = r <=> avatar[r][Owner[s]] = s

\* An open socket hears the room it is joined to: no order of joins and
\* supersessions leaves it in a room whose broadcasts it does not receive.
JoinedIsSubscribed ==
  \A s \in Sockets :
    conn[s] = "open" /\ roomOf[s] # NoRoom => roomOf[s] \in subs[s]

\* What a client shows is who is in the room: the last snapshot and the
\* user.joined / user.left broadcasts since agree with the Room object, for
\* every socket that hears its own room and no other.
ViewMatchesRoom ==
  \A s \in Sockets :
    conn[s] = "open" /\ roomOf[s] # NoRoom /\ subs[s] = {roomOf[s]} =>
      view[s] = Members(roomOf[s])

\* Nobody is in a room that is private to, or knock-gated by, another user,
\* even when the join was checked long after it was requested.
AccessRespected ==
  \A r \in Rooms, u \in Users :
    avatar[r][u] # NoSocket =>
      /\ r \in layouts
      /\ r \in PublicRooms \/ RoomOwner[r] = u
      /\ r \in KnockRooms => RoomOwner[r] = u

\* A room never holds more users and bots than its capacity.
CapacityRespected ==
  \A r \in Rooms :
    Capacity[r] > 0 => Cardinality(Members(r)) + Bots[r] <= Capacity[r]

\* An avatar without a live connection can only stand in its own user's
\* home: only a home join awaits the database, so only there can the
\* connection close before the avatar is placed.
GhostOnlyAtHome ==
  \A r \in Rooms, u \in Users :
    avatar[r][u] # NoSocket /\ conn[avatar[r][u]] # "open" => r = Home[u]

---------------------------------------------------------------------------
(* What the runs check, of the parts above.                                *)

\* All that says where a user is agrees: types, one room per user, the presence
\* tracker, and avatars without an open connection in their homes only.
AvatarsAgree == TypeOK /\ OneRoomPerUser /\ PresenceMatchesAvatar /\ GhostOnlyAtHome

\* At most one of a user's connections drives the avatar, and it joined there.
DriversAreTrue == OneDriverPerUser /\ DriverIsJoined

\* An open socket hears its room, and its client shows the avatars in it.
HearsItsRoom == JoinedIsSubscribed /\ ViewMatchesRoom

\* Rooms hold whom their rule admits, and no more than their capacity.
RoomsAdmit == AccessRespected /\ CapacityRespected

---------------------------------------------------------------------------
(* Where the users are, read off the Room objects.                         *)

Live == {s \in Sockets : conn[s] = "open"}

InRoom ==
  [u \in Users |-> IF \E r \in Rooms : avatar[r][u] # NoSocket
                   THEN CHOOSE r \in Rooms : avatar[r][u] # NoSocket ELSE NoRoom]

Driver == [u \in Users |-> IF InRoom[u] = NoRoom THEN NoSocket ELSE avatar[InRoom[u]][u]]

W == INSTANCE Whereabouts WITH live <- Live, inRoom <- InRoom, driver <- Driver

\* Whatever Room objects, sockets, topics and awaited joins go through, users
\* are moved as Whereabouts says: a step takes one user into a room that admits
\* the user, or the closing of its driver takes one out, or nobody moves.
IsWhereabouts == W!Spec
===========================================================================
