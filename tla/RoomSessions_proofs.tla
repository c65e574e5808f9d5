------------------------ MODULE RoomSessions_proofs ------------------------
(***************************************************************************)
(* What RoomSessions promises for every set of users, sockets and rooms.   *)
(* The heart of the argument is AvatarAfterEnter: joinRoom's three steps   *)
(* (leave, remove from the other rooms, join or reattach) together leave   *)
(* the user in the joined room and in no other.                            *)
(***************************************************************************)
EXTENDS RoomSessions, FiniteSetTheorems, TLAPS

\* A socket that is being upgraded has no room yet and no join in flight.
UpgradingIsFresh ==
  \A s \in Sockets : conn[s] = "upgrading" => roomOf[s] = NoRoom /\ pending[s] = 0

IInv ==
  /\ TypeOK
  /\ OneRoomPerUser
  /\ DriverIsJoined
  /\ PresenceMatchesAvatar
  /\ AccessRespected
  /\ GhostOnlyAtHome
  /\ JoinedIsSubscribed
  /\ UpgradingIsFresh

USE SessionAssumption

---------------------------------------------------------------------------
\* The joined room holds the user under the joining socket, every other room
\* no longer holds the user, and no other user is touched.
LEMMA AvatarAfterEnter ==
  ASSUME TypeOK, DriverIsJoined, NEW s \in Sockets, NEW r \in Rooms,
         EnterRoom(s, r)
  PROVE  /\ avatar' \in [Rooms -> [Users -> Sockets \cup {NoSocket}]]
         /\ \A q \in Rooms, v \in Users :
              avatar'[q][v] = IF v # Owner[s] THEN avatar[q][v]
                              ELSE IF q = r THEN s ELSE NoSocket
<1> DEFINE u == Owner[s]
           left == {q \in {roomOf[s]} \ {r} : MayLeave(s, q)}
           removed == OtherRoomsWith(u, left \cup {r})
<1>1. u \in Users
  OBVIOUS
<1>2. avatar' = [q \in Rooms |->
         [avatar[q] EXCEPT ![u] = IF q = r THEN s
                                  ELSE IF q \in left \cup removed THEN NoSocket
                                  ELSE @]]
  BY DEF EnterRoom
<1>3. ASSUME NEW q \in Rooms, q # r, q \notin left \cup removed
      PROVE  avatar[q][u] = NoSocket
  BY <1>1, <1>3 DEF OtherRoomsWith, DriverIsJoined
<1>4. avatar \in [Rooms -> [Users -> Sockets \cup {NoSocket}]]
  BY DEF TypeOK
<1> HIDE DEF u, left, removed
<1>5. avatar' \in [Rooms -> [Users -> Sockets \cup {NoSocket}]]
  BY <1>1, <1>2, <1>4
<1>6. ASSUME NEW q \in Rooms, NEW v \in Users
      PROVE  avatar'[q][v] = IF v # u THEN avatar[q][v]
                             ELSE IF q = r THEN s ELSE NoSocket
  BY <1>1, <1>2, <1>3, <1>4
<1> QED
  BY <1>5, <1>6 DEF u

---------------------------------------------------------------------------
\* What a handler that runs joinRoom may do to the rest of the state: the
\* socket becomes or stays open, or is the closed one of a late home join.
JoinContext(s, r) ==
  /\ layouts \subseteq layouts' /\ layouts' \subseteq Rooms
  /\ conn' \in [Sockets -> {"closed", "upgrading", "open"}]
  /\ pending' \in [Sockets -> Nat]
  /\ \A t \in Sockets \ {s} : conn'[t] = conn[t] /\ pending'[t] = pending[t]
  /\ \/ conn[s] \in {"open", "upgrading"} /\ conn'[s] = "open"
     \/ conn[s] = "closed" /\ conn'[s] = "closed" /\ r = Home[Owner[s]]

LEMMA EnterRoomType ==
  ASSUME IInv, NEW s \in Sockets, NEW r \in Rooms,
         JoinContext(s, r), EnterRoom(s, r)
  PROVE  /\ roomOf' \in [Sockets -> Rooms \cup {NoRoom}]
         /\ subs' \in [Sockets -> SUBSET Rooms]
         /\ avatar' \in [Rooms -> [Users -> Sockets \cup {NoSocket}]]
         /\ active' \in SUBSET Rooms
         /\ presenceRoom' \in [Sockets -> Rooms \cup {NoRoom}]
         /\ view' \in [Sockets -> SUBSET Users]
<1>1. roomOf' \in [Sockets -> Rooms \cup {NoRoom}]
  BY DEF EnterRoom, IInv, TypeOK
<1>2. subs' \in [Sockets -> SUBSET Rooms]
  BY DEF EnterRoom, IInv, TypeOK, Topics
<1>3. avatar' \in [Rooms -> [Users -> Sockets \cup {NoSocket}]]
  BY AvatarAfterEnter DEF IInv
<1>4. active' \in SUBSET Rooms
  BY DEF EnterRoom, IInv, TypeOK, RemoveIfEmpty
<1>5. presenceRoom' \in [Sockets -> Rooms \cup {NoRoom}]
  BY DEF EnterRoom, IInv, TypeOK, MoveUserToRoom
<1>6. view' \in [Sockets -> SUBSET Users]
  <2>1. Members(r) \cup {Owner[s]} \in SUBSET Users
    BY DEF Members
  <2>2. ASSUME NEW t \in Sockets, NEW topics, NEW rs
        PROVE  AfterUserLeft(t, topics, rs, Owner[s]) \in SUBSET Users
    BY DEF AfterUserLeft, IInv, TypeOK
  <2> QED
    BY <2>1, <2>2 DEF EnterRoom
<1> QED
  BY <1>1, <1>2, <1>3, <1>4, <1>5, <1>6

\* Entering a room keeps the avatar's driver joined, and the room active.
LEMMA EnterRoomDriver ==
  ASSUME IInv, NEW s \in Sockets, NEW r \in Rooms, EnterRoom(s, r)
  PROVE  DriverIsJoined'
<1> DEFINE u == Owner[s]
           left == {q \in {roomOf[s]} \ {r} : MayLeave(s, q)}
           removed == OtherRoomsWith(u, left \cup {r})
           detached == Superseded(s, removed)
<1>1. \A q \in Rooms, v \in Users :
        avatar'[q][v] = IF v # u THEN avatar[q][v]
                        ELSE IF q = r THEN s ELSE NoSocket
  BY AvatarAfterEnter DEF IInv
<1>2. SUFFICES ASSUME NEW q \in Rooms, NEW v \in Users, avatar'[q][v] # NoSocket
               PROVE  /\ q \in active'
                      /\ Owner[avatar'[q][v]] = v
                      /\ roomOf'[avatar'[q][v]] = q
  BY DEF DriverIsJoined
<1>3. CASE v = u
  <2>1. q = r /\ avatar'[q][v] = s
    BY <1>1, <1>2, <1>3
  <2>2. r \in active'
    BY DEF EnterRoom, RemoveIfEmpty, MayLeave, OtherRoomsWith
  <2>3. roomOf'[s] = r
    BY DEF EnterRoom
  <2> QED
    BY <1>3, <2>1, <2>2, <2>3
<1>4. CASE v # u
  <2> DEFINE t == avatar[q][v]
  <2>1. avatar'[q][v] = t /\ t # NoSocket /\ t \in Sockets
    BY <1>1, <1>2, <1>4 DEF IInv, TypeOK
  <2>2. q \in active /\ Owner[t] = v /\ roomOf[t] = q
    BY <2>1 DEF IInv, DriverIsJoined
  <2>3. roomOf'[t] = roomOf[t]
    <3>1. t # s /\ t \notin detached
      BY <1>4, <2>2 DEF Superseded, OpenSockets
    <3> QED
      BY <2>1, <3>1 DEF EnterRoom
  <2>4. v \in Members(q)
    BY <2>1 DEF Members
  <2>5. q \in active'
    BY <1>4, <2>2, <2>4 DEF EnterRoom, RemoveIfEmpty
  <2> QED
    BY <2>1, <2>2, <2>3, <2>5
<1> QED
  BY <1>3, <1>4

\* The presence tracker follows the avatar into the room.
LEMMA EnterRoomPresence ==
  ASSUME IInv, NEW s \in Sockets, NEW r \in Rooms, EnterRoom(s, r)
  PROVE  PresenceMatchesAvatar'
<1>1. \A q \in Rooms, v \in Users :
        avatar'[q][v] = IF v # Owner[s] THEN avatar[q][v]
                        ELSE IF q = r THEN s ELSE NoSocket
  BY AvatarAfterEnter DEF IInv
<1>2. \A t \in Sockets :
        presenceRoom'[t] = IF t = s THEN r
                           ELSE IF Owner[t] = Owner[s] THEN NoRoom
                           ELSE presenceRoom[t]
  BY DEF EnterRoom, MoveUserToRoom
<1>3. \A t \in Sockets, q \in Rooms :
        presenceRoom[t] = q <=> avatar[q][Owner[t]] = t
  BY DEF IInv, PresenceMatchesAvatar
<1>4. \A t \in Sockets, q \in Rooms :
        presenceRoom'[t] = q <=> avatar'[q][Owner[t]] = t
  BY <1>1, <1>2, <1>3
<1> QED
  BY <1>4 DEF PresenceMatchesAvatar

\* The user is in the joined room and nowhere else.
LEMMA EnterRoomOneRoom ==
  ASSUME IInv, NEW s \in Sockets, NEW r \in Rooms, EnterRoom(s, r)
  PROVE  OneRoomPerUser'
<1>1. \A q \in Rooms, v \in Users :
        avatar'[q][v] = IF v # Owner[s] THEN avatar[q][v]
                        ELSE IF q = r THEN s ELSE NoSocket
  BY AvatarAfterEnter DEF IInv
<1> QED
  BY <1>1 DEF IInv, OneRoomPerUser

\* The user was allowed in, and no other avatar moved.
LEMMA EnterRoomAccess ==
  ASSUME IInv, NEW s \in Sockets, NEW r \in Rooms, JoinContext(s, r),
         CanJoinRoom(Owner[s], r, layouts'), EnterRoom(s, r)
  PROVE  AccessRespected'
<1>1. \A q \in Rooms, v \in Users :
        avatar'[q][v] = IF v # Owner[s] THEN avatar[q][v]
                        ELSE IF q = r THEN s ELSE NoSocket
  BY AvatarAfterEnter DEF IInv
<1>2. SUFFICES ASSUME NEW q \in Rooms, NEW v \in Users, avatar'[q][v] # NoSocket
               PROVE  /\ HasAccessibleLayout(v, q, layouts')
                      /\ q \in KnockRooms => RoomOwner[q] = v
  BY DEF AccessRespected, HasAccessibleLayout
<1>3. CASE v = Owner[s]
  BY <1>1, <1>2, <1>3 DEF CanJoinRoom
<1>4. CASE v # Owner[s]
  BY <1>1, <1>2, <1>4 DEF IInv, AccessRespected, HasAccessibleLayout, JoinContext
<1> QED
  BY <1>3, <1>4

\* A closed socket only ever enters its user's home.
LEMMA EnterRoomGhost ==
  ASSUME IInv, NEW s \in Sockets, NEW r \in Rooms, JoinContext(s, r),
         EnterRoom(s, r)
  PROVE  GhostOnlyAtHome'
<1>1. \A q \in Rooms, v \in Users :
        avatar'[q][v] = IF v # Owner[s] THEN avatar[q][v]
                        ELSE IF q = r THEN s ELSE NoSocket
  BY AvatarAfterEnter DEF IInv
<1>2. SUFFICES ASSUME NEW q \in Rooms, NEW v \in Users, avatar'[q][v] # NoSocket,
                      conn'[avatar'[q][v]] # "open"
               PROVE  q = Home[v]
  BY DEF GhostOnlyAtHome
<1>3. CASE v = Owner[s]
  BY <1>1, <1>2, <1>3 DEF JoinContext
<1>4. CASE v # Owner[s]
  <2>1. avatar'[q][v] = avatar[q][v] /\ avatar[q][v] \in Sockets
    BY <1>1, <1>2, <1>4 DEF IInv, TypeOK
  <2>2. avatar[q][v] # s
    BY <1>2, <1>4, <2>1 DEF IInv, DriverIsJoined
  <2>3. conn[avatar[q][v]] # "open"
    BY <1>2, <2>1, <2>2 DEF JoinContext
  <2> QED
    BY <1>2, <2>1, <2>3 DEF IInv, GhostOnlyAtHome
<1> QED
  BY <1>3, <1>4

\* An open socket that entered a room subscribed to it, and one that was
\* detached from its room has none.
LEMMA EnterRoomSubscribed ==
  ASSUME IInv, NEW s \in Sockets, NEW r \in Rooms, JoinContext(s, r),
         EnterRoom(s, r)
  PROVE  JoinedIsSubscribed'
<1> DEFINE left == {q \in {roomOf[s]} \ {r} : MayLeave(s, q)}
           removed == OtherRoomsWith(Owner[s], left \cup {r})
           detached == Superseded(s, removed)
<1>1. SUFFICES ASSUME NEW t \in Sockets, conn'[t] = "open", roomOf'[t] # NoRoom
               PROVE  roomOf'[t] \in subs'[t]
  BY DEF JoinedIsSubscribed
<1>2. CASE t = s
  BY <1>1, <1>2 DEF EnterRoom, Topics
<1>3. CASE t # s
  <2>1. t \notin detached
    BY <1>1, <1>3 DEF EnterRoom
  <2>2. roomOf'[t] = roomOf[t] /\ subs'[t] = subs[t]
    BY <1>3, <2>1 DEF EnterRoom
  <2>3. conn[t] = "open"
    BY <1>1, <1>3 DEF JoinContext
  <2> QED
    BY <1>1, <2>2, <2>3 DEF IInv, JoinedIsSubscribed
<1> QED
  BY <1>2, <1>3

\* No socket is left upgrading with a room or a join in flight.
LEMMA EnterRoomUpgrading ==
  ASSUME IInv, NEW s \in Sockets, NEW r \in Rooms, JoinContext(s, r),
         EnterRoom(s, r)
  PROVE  UpgradingIsFresh'
<1>1. SUFFICES ASSUME NEW t \in Sockets, conn'[t] = "upgrading"
               PROVE  roomOf'[t] = NoRoom /\ pending'[t] = 0
  BY DEF UpgradingIsFresh
<1>2. t # s
  BY <1>1 DEF JoinContext
<1>3. conn[t] = "upgrading" /\ pending'[t] = pending[t]
  BY <1>1, <1>2 DEF JoinContext
<1>4. roomOf[t] = NoRoom /\ pending[t] = 0
  BY <1>3 DEF IInv, UpgradingIsFresh
<1>5. roomOf'[t] = NoRoom
  BY <1>2, <1>4 DEF EnterRoom
<1> QED
  BY <1>3, <1>4, <1>5

\* Whatever joinRoom decides, the invariant survives it.
LEMMA JoinRoomInv ==
  ASSUME IInv, NEW s \in Sockets, NEW r \in Rooms, NEW connected,
         connected \in SUBSET Sockets, JoinContext(s, r),
         JoinRoom(s, r, layouts', connected)
  PROVE  IInv'
<1>1. layouts' \in SUBSET Rooms /\ online' \in SUBSET Sockets
  BY DEF JoinContext, JoinRoom
<1>2. CASE EnterRoom(s, r) /\ CanJoinRoom(Owner[s], r, layouts')
  <2>1. TypeOK'
    BY <1>1, <1>2, EnterRoomType DEF TypeOK, JoinContext
  <2> QED
    BY <1>2, <2>1, EnterRoomDriver, EnterRoomPresence, EnterRoomOneRoom,
       EnterRoomAccess, EnterRoomGhost, EnterRoomSubscribed, EnterRoomUpgrading
       DEF IInv
<1>3. CASE UNCHANGED <<avatar, roomOf, subs, presenceRoom>>
           /\ active \subseteq active' /\ active' \in SUBSET Rooms
           /\ view' \in [Sockets -> SUBSET Users]
  <2>1. TypeOK'
    BY <1>1, <1>3 DEF IInv, TypeOK, JoinContext
  <2>2. OneRoomPerUser' /\ PresenceMatchesAvatar'
    BY <1>3 DEF IInv, OneRoomPerUser, PresenceMatchesAvatar
  <2>3. DriverIsJoined'
    BY <1>3 DEF IInv, DriverIsJoined
  <2>4. AccessRespected'
    BY <1>3 DEF IInv, AccessRespected, HasAccessibleLayout, JoinContext
  <2>5. GhostOnlyAtHome'
    <3>1. \A q \in Rooms, v \in Users :
            avatar[q][v] # NoSocket => avatar[q][v] \in Sockets
      BY DEF IInv, TypeOK
    <3> QED
      BY <1>3, <3>1 DEF IInv, GhostOnlyAtHome, JoinContext
  <2>6. JoinedIsSubscribed'
    BY <1>3 DEF IInv, JoinedIsSubscribed, UpgradingIsFresh, JoinContext
  <2>7. UpgradingIsFresh'
    BY <1>3 DEF IInv, UpgradingIsFresh, JoinContext
  <2> QED
    BY <2>1, <2>2, <2>3, <2>4, <2>5, <2>6, <2>7 DEF IInv
<1>4. \/ EnterRoom(s, r) /\ CanJoinRoom(Owner[s], r, layouts')
      \/ /\ UNCHANGED <<avatar, roomOf, subs, presenceRoom>>
         /\ active \subseteq active' /\ active' \in SUBSET Rooms
         /\ view' \in [Sockets -> SUBSET Users]
  <2>1. CASE UNCHANGED memberVars
    BY <2>1 DEF IInv, TypeOK, memberVars
  <2>2. CASE /\ UNCHANGED <<roomOf, subs, avatar, presenceRoom>>
             /\ active' = active \cup {r}
             /\ view' = [view EXCEPT ![s] = IF conn'[s] = "open" THEN Members(r)
                                           ELSE {}]
    <3>1. Members(r) \in SUBSET Users
      BY DEF Members
    <3>2. view' \in [Sockets -> SUBSET Users]
      BY <2>2, <3>1 DEF IInv, TypeOK
    <3> QED
      BY <2>2, <3>2 DEF IInv, TypeOK
  <2> QED
    BY <2>1, <2>2 DEF JoinRoom
<1> QED
  BY <1>2, <1>3, <1>4

\* So does a join that stops to seed the home, or that goes straight on.
LEMMA RequestJoinInv ==
  ASSUME IInv, NEW s \in Sockets, NEW r \in Rooms, NEW connected,
         connected \in SUBSET Sockets,
         conn[s] \in {"open", "upgrading"},
         conn' = [conn EXCEPT ![s] = "open"],
         RequestJoin(s, r, connected)
  PROVE  IInv'
<1>1. conn' \in [Sockets -> {"closed", "upgrading", "open"}]
      /\ \A t \in Sockets : conn'[t] = IF t = s THEN "open" ELSE conn[t]
  BY DEF IInv, TypeOK
<1>2. CASE /\ JoinRoom(s, r, layouts, connected)
           /\ UNCHANGED pending /\ UNCHANGED layouts
  <2>1. JoinContext(s, r)
    BY <1>1, <1>2 DEF JoinContext, IInv, TypeOK
  <2> QED
    BY <1>2, <2>1, JoinRoomInv
<1>3. CASE /\ pending' = [pending EXCEPT ![s] = @ + 1]
           /\ online' = connected
           /\ UNCHANGED layouts /\ UNCHANGED memberVars
  <2>1. TypeOK'
    BY <1>1, <1>3 DEF IInv, TypeOK, memberVars
  <2>2. OneRoomPerUser' /\ PresenceMatchesAvatar' /\ DriverIsJoined'
    BY <1>3 DEF IInv, OneRoomPerUser, PresenceMatchesAvatar, DriverIsJoined, memberVars
  <2>3. AccessRespected'
    BY <1>3 DEF IInv, AccessRespected, HasAccessibleLayout, memberVars
  <2>4. GhostOnlyAtHome'
    <3>1. \A q \in Rooms, v \in Users :
            avatar[q][v] # NoSocket => avatar[q][v] \in Sockets
      BY DEF IInv, TypeOK
    <3> QED
      BY <1>1, <1>3, <3>1 DEF IInv, GhostOnlyAtHome, memberVars
  <2>5. JoinedIsSubscribed'
    BY <1>1, <1>3 DEF IInv, JoinedIsSubscribed, UpgradingIsFresh, memberVars
  <2>6. UpgradingIsFresh'
    BY <1>1, <1>3 DEF IInv, TypeOK, UpgradingIsFresh, memberVars
  <2> QED
    BY <2>1, <2>2, <2>3, <2>4, <2>5, <2>6 DEF IInv
<1> QED
  BY <1>2, <1>3 DEF RequestJoin

---------------------------------------------------------------------------
\* The actions that do not join a room.

LEMMA UpgradeInv ==
  ASSUME IInv, NEW s \in Sockets, Upgrade(s)
  PROVE  IInv'
<1>1. \A r \in Rooms, v \in Users : avatar[r][v] # s
  BY DEF Upgrade, IInv, DriverIsJoined
<1>2. TypeOK'
  BY DEF Upgrade, IInv, TypeOK
<1>3. OneRoomPerUser' /\ PresenceMatchesAvatar' /\ AccessRespected'
  BY DEF Upgrade, IInv, OneRoomPerUser, PresenceMatchesAvatar, AccessRespected,
         HasAccessibleLayout
<1>4. DriverIsJoined'
  BY <1>1 DEF Upgrade, IInv, TypeOK, DriverIsJoined
<1>5. GhostOnlyAtHome'
  BY <1>1 DEF Upgrade, IInv, TypeOK, GhostOnlyAtHome
<1>6. JoinedIsSubscribed'
  BY DEF Upgrade, IInv, TypeOK, JoinedIsSubscribed
<1>7. UpgradingIsFresh'
  BY DEF Upgrade, IInv, TypeOK, UpgradingIsFresh
<1> QED
  BY <1>2, <1>3, <1>4, <1>5, <1>6, <1>7 DEF IInv

LEMMA UpgradeFailsInv ==
  ASSUME IInv, NEW s \in Sockets, UpgradeFails(s)
  PROVE  IInv'
<1>1. TypeOK'
  BY DEF UpgradeFails, IInv, TypeOK
<1>2. OneRoomPerUser' /\ PresenceMatchesAvatar' /\ AccessRespected' /\ DriverIsJoined'
  BY DEF UpgradeFails, IInv, OneRoomPerUser, PresenceMatchesAvatar,
         AccessRespected, HasAccessibleLayout, DriverIsJoined
<1>3. GhostOnlyAtHome'
  <2>1. \A q \in Rooms, v \in Users :
          avatar[q][v] # NoSocket => avatar[q][v] \in Sockets
    BY DEF IInv, TypeOK
  <2> QED
    BY <2>1 DEF UpgradeFails, IInv, TypeOK, GhostOnlyAtHome
<1>4. JoinedIsSubscribed' /\ UpgradingIsFresh'
  BY DEF UpgradeFails, IInv, TypeOK, JoinedIsSubscribed, UpgradingIsFresh
<1> QED
  BY <1>1, <1>2, <1>3, <1>4 DEF IInv

LEMMA HandleOpenInv ==
  ASSUME IInv, NEW s \in Sockets, NEW resume \in Rooms \cup {NoRoom},
         HandleOpen(s, resume)
  PROVE  IInv'
<1>1. CASE resume = NoRoom
  <2>1. TypeOK'
    BY <1>1 DEF HandleOpen, IInv, TypeOK, memberVars
  <2>2. OneRoomPerUser' /\ PresenceMatchesAvatar' /\ AccessRespected' /\ DriverIsJoined'
    BY <1>1 DEF HandleOpen, IInv, OneRoomPerUser, PresenceMatchesAvatar,
                AccessRespected, HasAccessibleLayout, DriverIsJoined, memberVars
  <2>3. GhostOnlyAtHome'
    <3>1. \A q \in Rooms, v \in Users :
            avatar[q][v] # NoSocket => avatar[q][v] \in Sockets
      BY DEF IInv, TypeOK
    <3> QED
      BY <1>1, <3>1 DEF HandleOpen, IInv, TypeOK, GhostOnlyAtHome, memberVars
  <2>4. JoinedIsSubscribed' /\ UpgradingIsFresh'
    BY <1>1 DEF HandleOpen, IInv, TypeOK, JoinedIsSubscribed, UpgradingIsFresh,
                memberVars
  <2> QED
    BY <2>1, <2>2, <2>3, <2>4 DEF IInv
<1>2. CASE resume # NoRoom
  <2>1. resume \in Rooms /\ online \cup {s} \in SUBSET Sockets
    BY <1>2 DEF IInv, TypeOK
  <2>2. RequestJoin(s, resume, online \cup {s})
    BY <1>2 DEF HandleOpen
  <2> QED
    BY <2>1, <2>2, RequestJoinInv DEF HandleOpen
<1> QED
  BY <1>1, <1>2

LEMMA HandleJoinInv ==
  ASSUME IInv, NEW s \in Sockets, NEW r \in Rooms, HandleJoin(s, r)
  PROVE  IInv'
<1>1. conn' = [conn EXCEPT ![s] = "open"]
  BY DEF HandleJoin, IInv, TypeOK
<1>2. online \in SUBSET Sockets
  BY DEF IInv, TypeOK
<1> QED
  BY <1>1, <1>2, RequestJoinInv DEF HandleJoin

LEMMA SeedRoomDoneInv ==
  ASSUME IInv, NEW s \in Sockets, NEW ok \in BOOLEAN, SeedRoomDone(s, ok)
  PROVE  IInv'
<1> DEFINE r == Home[Owner[s]]
<1>1. r \in Rooms /\ online \in SUBSET Sockets
  BY DEF IInv, TypeOK
<1>2. conn[s] # "upgrading"
  BY DEF SeedRoomDone, IInv, UpgradingIsFresh
<1>3. JoinContext(s, r)
  BY <1>1, <1>2 DEF SeedRoomDone, IInv, TypeOK, JoinContext
<1> QED
  BY <1>1, <1>3, JoinRoomInv DEF SeedRoomDone

LEMMA HandleCloseInv ==
  ASSUME IInv, NEW s \in Sockets, HandleClose(s)
  PROVE  IInv'
<1> DEFINE u == Owner[s]
           left == {q \in {roomOf[s]} : MayLeave(s, q)}
<1>1. \A q \in Rooms, v \in Users :
        avatar'[q][v] = IF v = u /\ avatar[q][v] = s THEN NoSocket
                        ELSE avatar[q][v]
  <2>1. \A q \in Rooms : q \in left <=> avatar[q][u] = s
    BY DEF MayLeave, IInv, DriverIsJoined
  <2>2. avatar' = [q \in Rooms |-> IF q \in left
                                   THEN [avatar[q] EXCEPT ![u] = NoSocket]
                                   ELSE avatar[q]]
    BY DEF HandleClose
  <2> HIDE DEF left
  <2> QED
    BY <2>1, <2>2 DEF IInv, TypeOK
<1>2. TypeOK'
  <2>1. avatar' \in [Rooms -> [Users -> Sockets \cup {NoSocket}]]
    BY DEF HandleClose, IInv, TypeOK
  <2>2. view' \in [Sockets -> SUBSET Users]
    BY DEF HandleClose, IInv, TypeOK, AfterUserLeft
  <2>3. active' \in SUBSET Rooms
    BY DEF HandleClose, IInv, TypeOK, RemoveIfEmpty
  <2> QED
    BY <2>1, <2>2, <2>3 DEF HandleClose, IInv, TypeOK
<1>3. OneRoomPerUser'
  BY <1>1 DEF IInv, OneRoomPerUser
<1>4. PresenceMatchesAvatar'
  BY <1>1 DEF HandleClose, IInv, TypeOK, PresenceMatchesAvatar
<1>5. AccessRespected'
  BY <1>1 DEF HandleClose, IInv, AccessRespected, HasAccessibleLayout
<1>6. GhostOnlyAtHome'
  <2>1. SUFFICES ASSUME NEW q \in Rooms, NEW v \in Users, avatar'[q][v] # NoSocket,
                        conn'[avatar'[q][v]] # "open"
                 PROVE  q = Home[v]
    BY DEF GhostOnlyAtHome
  <2>2. avatar'[q][v] = avatar[q][v] /\ avatar[q][v] \in Sockets \ {s}
    BY <1>1, <2>1 DEF IInv, TypeOK, DriverIsJoined
  <2> QED
    BY <2>1, <2>2 DEF HandleClose, IInv, TypeOK, GhostOnlyAtHome
<1>7. DriverIsJoined'
  <2>1. SUFFICES ASSUME NEW q \in Rooms, NEW v \in Users, avatar'[q][v] # NoSocket
                 PROVE  /\ q \in active'
                        /\ Owner[avatar'[q][v]] = v
                        /\ roomOf'[avatar'[q][v]] = q
    BY DEF DriverIsJoined
  <2>2. avatar'[q][v] = avatar[q][v] /\ avatar[q][v] # NoSocket
    BY <1>1, <2>1
  <2>3. q \in active /\ Owner[avatar[q][v]] = v /\ roomOf[avatar[q][v]] = q
    BY <2>2 DEF IInv, DriverIsJoined
  <2>4. v \in Members(q) /\ (q \in left => v # u)
    BY <1>1, <2>1, <2>2, <2>3 DEF Members, MayLeave
  <2>5. q \in active'
    BY <2>3, <2>4 DEF HandleClose, RemoveIfEmpty
  <2> QED
    BY <2>2, <2>3, <2>5 DEF HandleClose
<1>8. JoinedIsSubscribed' /\ UpgradingIsFresh'
  BY DEF HandleClose, IInv, TypeOK, JoinedIsSubscribed, UpgradingIsFresh
<1> QED
  BY <1>2, <1>3, <1>4, <1>5, <1>6, <1>7, <1>8 DEF IInv

LEMMA AddRoomInv ==
  ASSUME IInv, NEW r \in Rooms, AddRoom(r)
  PROVE  IInv'
<1>1. TypeOK'
  BY DEF AddRoom, IInv, TypeOK, memberVars
<1>2. OneRoomPerUser' /\ PresenceMatchesAvatar' /\ DriverIsJoined'
      /\ GhostOnlyAtHome' /\ JoinedIsSubscribed' /\ UpgradingIsFresh'
  BY DEF AddRoom, IInv, memberVars, OneRoomPerUser, PresenceMatchesAvatar,
         DriverIsJoined, GhostOnlyAtHome, JoinedIsSubscribed, UpgradingIsFresh
<1>3. AccessRespected'
  BY DEF AddRoom, IInv, memberVars, AccessRespected, HasAccessibleLayout
<1> QED
  BY <1>1, <1>2, <1>3 DEF IInv

LEMMA RestartInv ==
  ASSUME IInv, Restart
  PROVE  IInv'
<1>1. \A r \in Rooms, u \in Users : avatar'[r][u] = NoSocket
  BY DEF Restart
<1>2. TypeOK'
  <2>1. layouts' \in SUBSET Rooms
    BY DEF Restart, IInv, TypeOK
  <2> QED
    BY <2>1 DEF Restart, TypeOK
<1>3. OneRoomPerUser' /\ DriverIsJoined' /\ GhostOnlyAtHome' /\ AccessRespected'
  BY <1>1 DEF OneRoomPerUser, DriverIsJoined, GhostOnlyAtHome, AccessRespected
<1>4. PresenceMatchesAvatar'
  BY <1>1 DEF Restart, PresenceMatchesAvatar
<1>5. JoinedIsSubscribed' /\ UpgradingIsFresh'
  BY DEF Restart, JoinedIsSubscribed, UpgradingIsFresh
<1> QED
  BY <1>2, <1>3, <1>4, <1>5 DEF IInv

LEMMA StutterInv ==
  ASSUME IInv, UNCHANGED vars
  PROVE  IInv'
BY DEF IInv, vars, TypeOK, OneRoomPerUser, DriverIsJoined,
       PresenceMatchesAvatar, AccessRespected, HasAccessibleLayout,
       GhostOnlyAtHome, JoinedIsSubscribed, UpgradingIsFresh

---------------------------------------------------------------------------
(* The steps as members and views see them: a socket enters a room, is sent *)
(* the snapshot of the room it is in, closes, or neither happens.          *)

Enters(s, r) ==
  JoinContext(s, r) /\ CanJoinRoom(Owner[s], r, layouts') /\ EnterRoom(s, r)

\* An open socket with a room was open, there and as subscribed before.
NoneJoins ==
  \A t \in Sockets :
    conn'[t] = "open" /\ roomOf'[t] # NoRoom =>
      conn[t] = "open" /\ roomOf'[t] = roomOf[t] /\ subs'[t] = subs[t]

Resends(s) ==
  /\ NoneJoins
  /\ UNCHANGED <<roomOf, avatar>>
  /\ view' = [view EXCEPT ![s] = IF conn'[s] = "open" THEN Members(roomOf[s])
                                 ELSE {}]

IsQuiet == NoneJoins /\ UNCHANGED <<avatar, view>>

SessionStep ==
  \/ \E s \in Sockets, r \in Rooms : Enters(s, r)
  \/ \E s \in Sockets : Resends(s)
  \/ \E s \in Sockets : HandleClose(s)
  \/ Restart
  \/ IsQuiet

LEMMA JoinRoomStep ==
  ASSUME IInv, NEW s \in Sockets, NEW r \in Rooms, NEW connected \in SUBSET Sockets,
         JoinContext(s, r), JoinRoom(s, r, layouts', connected)
  PROVE  SessionStep
<1>1. ASSUME UNCHANGED <<roomOf, subs>> PROVE NoneJoins
  <2>1. SUFFICES ASSUME NEW t \in Sockets, conn'[t] = "open", roomOf'[t] # NoRoom
                 PROVE  conn[t] = "open"
    BY <1>1 DEF NoneJoins
  <2>2. roomOf[t] # NoRoom
    BY <1>1, <2>1
  <2> QED
    BY <2>1, <2>2 DEF JoinContext, IInv, UpgradingIsFresh
<1>2. CASE UNCHANGED memberVars
  BY <1>1, <1>2 DEF memberVars, SessionStep, IsQuiet
<1>3. CASE /\ roomOf[s] = r
           /\ view' = [view EXCEPT ![s] = IF conn'[s] = "open" THEN Members(r)
                                          ELSE {}]
           /\ UNCHANGED <<roomOf, subs, avatar, presenceRoom>>
  BY <1>1, <1>3 DEF SessionStep, Resends
<1>4. CASE CanJoinRoom(Owner[s], r, layouts') /\ EnterRoom(s, r)
  BY <1>4 DEF SessionStep, Enters
<1> QED
  BY <1>2, <1>3, <1>4 DEF JoinRoom

LEMMA RequestJoinStep ==
  ASSUME IInv, NEW s \in Sockets, NEW r \in Rooms, NEW connected \in SUBSET Sockets,
         conn[s] \in {"open", "upgrading"},
         conn' = [conn EXCEPT ![s] = "open"],
         RequestJoin(s, r, connected)
  PROVE  SessionStep
<1>1. conn' \in [Sockets -> {"closed", "upgrading", "open"}]
      /\ \A t \in Sockets : conn'[t] = IF t = s THEN "open" ELSE conn[t]
  BY DEF IInv, TypeOK
<1>2. CASE /\ JoinRoom(s, r, layouts, connected)
           /\ UNCHANGED pending /\ UNCHANGED layouts
  <2>1. JoinContext(s, r)
    BY <1>1, <1>2 DEF JoinContext, IInv, TypeOK
  <2> QED
    BY <1>2, <2>1, JoinRoomStep
<1>3. CASE UNCHANGED memberVars
  BY <1>1, <1>3 DEF memberVars, SessionStep, IsQuiet, NoneJoins, IInv, UpgradingIsFresh
<1> QED
  BY <1>2, <1>3 DEF RequestJoin

LEMMA EveryStep ==
  ASSUME IInv, [Next]_vars
  PROVE  SessionStep
<1>1. ASSUME NEW s \in Sockets, Upgrade(s) PROVE SessionStep
  BY <1>1 DEF Upgrade, IInv, TypeOK, SessionStep, IsQuiet, NoneJoins
<1>2. ASSUME NEW s \in Sockets, UpgradeFails(s) PROVE SessionStep
  BY <1>2 DEF UpgradeFails, IInv, TypeOK, SessionStep, IsQuiet, NoneJoins
<1>3. ASSUME NEW s \in Sockets, NEW r \in Rooms \cup {NoRoom}, HandleOpen(s, r)
      PROVE  SessionStep
  <2>1. CASE r = NoRoom
    BY <1>3, <2>1 DEF HandleOpen, IInv, TypeOK, UpgradingIsFresh, memberVars,
                      SessionStep, IsQuiet, NoneJoins
  <2>2. CASE r # NoRoom
    <3>1. r \in Rooms /\ online \cup {s} \in SUBSET Sockets
      BY <2>2 DEF IInv, TypeOK
    <3>2. RequestJoin(s, r, online \cup {s})
      BY <1>3, <2>2 DEF HandleOpen
    <3> QED
      BY <1>3, <3>1, <3>2, RequestJoinStep DEF HandleOpen
  <2> QED
    BY <2>1, <2>2
<1>4. ASSUME NEW s \in Sockets, NEW r \in Rooms, HandleJoin(s, r)
      PROVE  SessionStep
  <2>1. conn' = [conn EXCEPT ![s] = "open"] /\ online \in SUBSET Sockets
    BY <1>4 DEF HandleJoin, IInv, TypeOK
  <2> QED
    BY <1>4, <2>1, RequestJoinStep DEF HandleJoin
<1>5. ASSUME NEW s \in Sockets, NEW ok \in BOOLEAN, SeedRoomDone(s, ok)
      PROVE  SessionStep
  <2>1. /\ Home[Owner[s]] \in Rooms /\ conn[s] # "upgrading"
        /\ online \in SUBSET Sockets
    BY <1>5 DEF SeedRoomDone, IInv, TypeOK, UpgradingIsFresh
  <2>2. JoinContext(s, Home[Owner[s]])
    BY <1>5, <2>1 DEF SeedRoomDone, IInv, TypeOK, JoinContext
  <2> QED
    BY <1>5, <2>1, <2>2, JoinRoomStep DEF SeedRoomDone
<1>6. ASSUME NEW r \in Rooms, AddRoom(r) PROVE SessionStep
  BY <1>6 DEF AddRoom, memberVars, SessionStep, IsQuiet, NoneJoins
<1>7. CASE UNCHANGED vars
  BY <1>7 DEF vars, SessionStep, IsQuiet, NoneJoins
<1> QED
  BY <1>1, <1>2, <1>3, <1>4, <1>5, <1>6, <1>7 DEF Next, SessionStep

\* Closing a socket takes away the avatar it drives, and no other.
LEMMA AvatarAfterClose ==
  ASSUME IInv, NEW s \in Sockets, HandleClose(s)
  PROVE  \A q \in Rooms, v \in Users :
           avatar'[q][v] = IF v = Owner[s] /\ avatar[q][v] = s THEN NoSocket
                           ELSE avatar[q][v]
<1> DEFINE left == {q \in {roomOf[s]} : MayLeave(s, q)}
<1>1. \A q \in Rooms : q \in left <=> avatar[q][Owner[s]] = s
  BY DEF MayLeave, IInv, DriverIsJoined
<1>2. avatar' = [q \in Rooms |-> IF q \in left
                                 THEN [avatar[q] EXCEPT ![Owner[s]] = NoSocket]
                                 ELSE avatar[q]]
  BY DEF HandleClose
<1> HIDE DEF left
<1> QED
  BY <1>1, <1>2 DEF IInv, TypeOK
---------------------------------------------------------------------------
\* The inductive invariant: it holds at the start and every step keeps it.
THEOREM SessionsInvariant == Spec => []IInv
<1>1. Init => IInv
  <2> SUFFICES ASSUME Init PROVE IInv
    OBVIOUS
  <2>1. \A r \in Rooms, u \in Users : avatar[r][u] = NoSocket
    BY DEF Init
  <2>2. TypeOK
    BY DEF Init, TypeOK
  <2>3. OneRoomPerUser /\ DriverIsJoined /\ GhostOnlyAtHome /\ AccessRespected
    BY <2>1 DEF OneRoomPerUser, DriverIsJoined, GhostOnlyAtHome, AccessRespected
  <2>4. PresenceMatchesAvatar
    BY <2>1 DEF Init, PresenceMatchesAvatar
  <2>5. JoinedIsSubscribed /\ UpgradingIsFresh
    BY DEF Init, JoinedIsSubscribed, UpgradingIsFresh
  <2> QED
    BY <2>2, <2>3, <2>4, <2>5 DEF IInv
<1>2. IInv /\ [Next]_vars => IInv'
  <2> SUFFICES ASSUME IInv, [Next]_vars PROVE IInv'
    OBVIOUS
  <2>1. ASSUME NEW s \in Sockets, Upgrade(s) PROVE IInv'
    BY <2>1, UpgradeInv
  <2>2. ASSUME NEW s \in Sockets, UpgradeFails(s) PROVE IInv'
    BY <2>2, UpgradeFailsInv
  <2>3. ASSUME NEW s \in Sockets, NEW r \in Rooms \cup {NoRoom}, HandleOpen(s, r)
        PROVE  IInv'
    BY <2>3, HandleOpenInv
  <2>4. ASSUME NEW s \in Sockets, NEW r \in Rooms, HandleJoin(s, r) PROVE IInv'
    BY <2>4, HandleJoinInv
  <2>5. ASSUME NEW s \in Sockets, NEW ok \in BOOLEAN, SeedRoomDone(s, ok)
        PROVE  IInv'
    BY <2>5, SeedRoomDoneInv
  <2>6. ASSUME NEW s \in Sockets, HandleClose(s) PROVE IInv'
    BY <2>6, HandleCloseInv
  <2>7. ASSUME NEW r \in Rooms, AddRoom(r) PROVE IInv'
    BY <2>7, AddRoomInv
  <2>8. CASE Restart
    BY <2>8, RestartInv
  <2>9. CASE UNCHANGED vars
    BY <2>9, StutterInv
  <2> QED
    BY <2>1, <2>2, <2>3, <2>4, <2>5, <2>6, <2>7, <2>8, <2>9 DEF Next
<1> QED
  BY <1>1, <1>2, PTL DEF Spec

\* Whatever the sockets do, every variable keeps its type.
THEOREM TypeCorrect == Spec => []TypeOK
<1>1. IInv => TypeOK
  BY DEF IInv
<1> QED
  BY <1>1, SessionsInvariant, PTL

\* No order of joins, supersessions, late home joins, closes and restarts
\* leaves a user with avatars in two rooms.
THEOREM UserInOneRoom == Spec => []OneRoomPerUser
<1>1. IInv => OneRoomPerUser
  BY DEF IInv
<1> QED
  BY <1>1, SessionsInvariant, PTL

\* Friends are shown the room in which the avatar stands, and no other.
THEOREM PresenceIsTruthful == Spec => []PresenceMatchesAvatar
<1>1. IInv => PresenceMatchesAvatar
  BY DEF IInv
<1> QED
  BY <1>1, SessionsInvariant, PTL

\* The avatar of a dead connection never stands in a shared room.
THEOREM GhostsStayHome == Spec => []GhostOnlyAtHome
<1>1. IInv => GhostOnlyAtHome
  BY DEF IInv
<1> QED
  BY <1>1, SessionsInvariant, PTL

\* Private and knock-gated rooms hold nobody but those the rules admit.
THEOREM AccessIsRespected == Spec => []AccessRespected
<1>1. IInv => AccessRespected
  BY DEF IInv
<1> QED
  BY <1>1, SessionsInvariant, PTL

\* An open socket hears the broadcasts of the room it is joined to.
THEOREM JoinedHears == Spec => []JoinedIsSubscribed
<1>1. IInv => JoinedIsSubscribed
  BY DEF IInv
<1> QED
  BY <1>1, SessionsInvariant, PTL

\* Of a user's connections at most one is obeyed by getJoinedRoom.
THEOREM OneSocketDrives == Spec => []OneDriverPerUser
<1>1. IInv => OneDriverPerUser
  <2> SUFFICES ASSUME IInv, NEW s \in Sockets, NEW t \in Sockets,
                      Owner[s] = Owner[t], Drives(s), Drives(t)
               PROVE  s = t
    BY DEF OneDriverPerUser
  <2>1. roomOf[s] \in Rooms /\ roomOf[t] \in Rooms
    BY DEF Drives, IInv, TypeOK
  <2>2. roomOf[s] = roomOf[t]
    BY <2>1 DEF Drives, IInv, OneRoomPerUser
  <2> QED
    BY <2>2 DEF Drives
<1> QED
  BY <1>1, SessionsInvariant, PTL

\* A user disappears from all rooms only when the connection that drives
\* the avatar closes; a stale socket's close, join or detach never does it.
VanishesOnlyWithDriver ==
  [][\A u \in Users, r \in Rooms :
       (avatar[r][u] # NoSocket /\ \A q \in Rooms : avatar'[q][u] = NoSocket)
         => conn'[avatar[r][u]] = "closed"]_vars

\* A user's avatar leaves the last room it is in only in a step that closes
\* the connection driving it.
THEOREM AvatarVanishesWithDriver == Spec => VanishesOnlyWithDriver
<1> DEFINE Vanish == \A u \in Users, r \in Rooms :
             (avatar[r][u] # NoSocket /\ \A q \in Rooms : avatar'[q][u] = NoSocket)
               => conn'[avatar[r][u]] = "closed"
<1>1. IInv /\ [Next]_vars => [Vanish]_vars
  <2> SUFFICES ASSUME IInv, [Next]_vars PROVE Vanish
    OBVIOUS
  <2> SUFFICES ASSUME NEW u \in Users, NEW r \in Rooms, avatar[r][u] # NoSocket,
                      \A q \in Rooms : avatar'[q][u] = NoSocket
               PROVE  conn'[avatar[r][u]] = "closed"
    OBVIOUS
  <2>1. avatar[r][u] \in Sockets
    BY DEF IInv, TypeOK
  <2>2. ASSUME NEW s \in Sockets, NEW q \in Rooms, Enters(s, q) PROVE FALSE
    <3>1. \A p \in Rooms, v \in Users :
            avatar'[p][v] = IF v # Owner[s] THEN avatar[p][v]
                            ELSE IF p = q THEN s ELSE NoSocket
      BY <2>2, AvatarAfterEnter DEF Enters, IInv
    <3> QED
      BY <3>1
  <2>3. ASSUME NEW s \in Sockets, HandleClose(s)
        PROVE  conn'[avatar[r][u]] = "closed"
    <3>1. \A q \in Rooms, v \in Users :
            avatar'[q][v] = IF v = Owner[s] /\ avatar[q][v] = s THEN NoSocket
                            ELSE avatar[q][v]
      BY <2>3, AvatarAfterClose
    <3>2. avatar[r][u] = s
      BY <3>1
    <3>3. conn \in [Sockets -> {"closed", "upgrading", "open"}]
      BY DEF IInv, TypeOK
    <3>4. conn' = [conn EXCEPT ![s] = "closed"]
      BY <2>3 DEF HandleClose
    <3> QED
      BY <3>2, <3>3, <3>4
  <2>4. CASE Restart
    BY <2>1, <2>4 DEF Restart
  <2>5. CASE UNCHANGED avatar
    BY <2>5
  <2> QED
    BY <2>2, <2>3, <2>4, <2>5, EveryStep DEF SessionStep, Resends, IsQuiet
<1> QED
  BY <1>1, SessionsInvariant, PTL DEF Spec, VanishesOnlyWithDriver

\* What a client shows is who is in its room.  A join changes the room and
\* the views of those who hear it in one step; a socket whose subscriptions
\* are its room and no other misses none of the changes.
THEOREM ViewIsTruthful == Spec => []ViewMatchesRoom
<1>1. Init => ViewMatchesRoom
  BY DEF Init, ViewMatchesRoom
<1>2. IInv /\ ViewMatchesRoom /\ [Next]_vars => ViewMatchesRoom'
  <2> SUFFICES ASSUME IInv, ViewMatchesRoom, [Next]_vars,
                      NEW t \in Sockets, conn'[t] = "open", roomOf'[t] # NoRoom,
                      subs'[t] = {roomOf'[t]}
               PROVE  view'[t] = Members(roomOf[t])'
    BY DEF ViewMatchesRoom
  <2>1. ASSUME NoneJoins
        PROVE  roomOf[t] \in Rooms /\ roomOf'[t] = roomOf[t]
               /\ view[t] = Members(roomOf[t])
    BY <2>1 DEF NoneJoins, ViewMatchesRoom, IInv, TypeOK
  <2>2. CASE IsQuiet
    BY <2>1, <2>2 DEF IsQuiet, Members
  <2>3. ASSUME NEW s \in Sockets, Resends(s) PROVE view'[t] = Members(roomOf[t])'
    BY <2>1, <2>3 DEF Resends, Members, IInv, TypeOK
  <2>4. CASE Restart
    BY <2>4 DEF Restart
  <2>5. ASSUME NEW s \in Sockets, HandleClose(s)
        PROVE  view'[t] = Members(roomOf[t])'
    <3> DEFINE left == {q \in {roomOf[s]} : MayLeave(s, q)}
    <3>1. t # s /\ conn[t] = "open" /\ roomOf'[t] = roomOf[t] /\ subs'[t] = subs[t]
      BY <2>5 DEF HandleClose, IInv, TypeOK
    <3>2. roomOf[t] \in Rooms /\ view[t] = Members(roomOf[t]) /\ subs[t] = {roomOf[t]}
      BY <3>1 DEF ViewMatchesRoom, IInv, TypeOK
    <3>3. view'[t] = IF roomOf[t] \in left THEN view[t] \ {Owner[s]} ELSE view[t]
      <4>1. view'[t] = AfterUserLeft(t, subs[t], left, Owner[s])
        BY <2>5, <3>1 DEF HandleClose
      <4> HIDE DEF left
      <4> QED
        BY <3>2, <4>1 DEF AfterUserLeft
    <3>4. roomOf[t] \in left <=> avatar[roomOf[t]][Owner[s]] = s
      BY <3>2 DEF MayLeave, IInv, DriverIsJoined
    <3>5. \A v \in Users :
            avatar'[roomOf[t]][v] = IF v = Owner[s] /\ avatar[roomOf[t]][v] = s
                                    THEN NoSocket ELSE avatar[roomOf[t]][v]
      BY <2>5, <3>2, AvatarAfterClose
    <3> HIDE DEF left
    <3> QED
      BY <3>1, <3>2, <3>3, <3>4, <3>5 DEF Members
  <2>6. ASSUME NEW s \in Sockets, NEW r \in Rooms, Enters(s, r)
        PROVE  view'[t] = Members(roomOf[t])'
    <3> DEFINE u == Owner[s]
               left == {q \in {roomOf[s]} \ {r} : MayLeave(s, q)}
               removed == OtherRoomsWith(u, left \cup {r})
    <3>1. \A q \in Rooms, v \in Users :
            avatar'[q][v] = IF v # u THEN avatar[q][v]
                            ELSE IF q = r THEN s ELSE NoSocket
      BY <2>6, AvatarAfterEnter DEF Enters, IInv
    <3>2. CASE t = s
      <4>1. roomOf'[t] = r /\ view'[t] = Members(r) \cup {u}
        BY <2>6, <3>2 DEF Enters, EnterRoom
      <4>2. Members(r)' = Members(r) \cup {u}
        BY <3>1 DEF Members
      <4> QED
        BY <4>1, <4>2
    <3>3. CASE t # s
      <4>1. /\ conn[t] = "open" /\ roomOf'[t] = roomOf[t] /\ subs'[t] = subs[t]
            /\ roomOf[t] \in Rooms
        BY <2>6, <3>3 DEF Enters, EnterRoom, JoinContext, IInv, TypeOK
      <4> DEFINE q == roomOf[t]
      <4>2. view[t] = Members(q) /\ subs[t] = {q} /\ q \in Rooms
        BY <4>1 DEF ViewMatchesRoom
      <4>3. view'[t] = (IF q \in left \cup removed THEN view[t] \ {u} ELSE view[t])
                       \cup (IF q = r /\ avatar[r][u] = NoSocket THEN {u} ELSE {})
        <5>1. view'[t] = AfterUserLeft(t, subs[t], left \cup removed, u)
                         \cup (IF r \in subs[t] /\ ~(avatar[r][u] # NoSocket)
                               THEN {u} ELSE {})
          BY <2>6, <3>3 DEF Enters, EnterRoom
        <5> HIDE DEF left, removed
        <5> QED
          BY <4>2, <5>1 DEF AfterUserLeft
      <4>4. q # r /\ q \notin left \cup removed => avatar[q][u] = NoSocket
        BY <4>2 DEF OtherRoomsWith, IInv, DriverIsJoined
      <4>5. r \notin left \cup removed
        BY DEF OtherRoomsWith
      <4> HIDE DEF left, removed
      <4>6. CASE q = r
        BY <3>1, <4>1, <4>2, <4>3, <4>5, <4>6 DEF Members
      <4>7. CASE q # r
        BY <3>1, <4>1, <4>2, <4>3, <4>4, <4>7 DEF Members
      <4> QED
        BY <4>6, <4>7
    <3> QED
      BY <3>2, <3>3
  <2> QED
    BY <2>2, <2>3, <2>4, <2>5, <2>6, EveryStep DEF SessionStep
<1> QED
  BY <1>1, <1>2, SessionsInvariant, PTL DEF Spec, ViewMatchesRoom, vars

\* A room is never over its capacity.  An inactive room has nobody in it,
\* which is why canJoinRoom need not count for one.
THEOREM CapacityIsRespected == Spec => []CapacityRespected
<1>1. Init => CapacityRespected
  <2> SUFFICES ASSUME Init, NEW r \in Rooms, Capacity[r] > 0
               PROVE  Cardinality(Members(r)) + Bots[r] <= Capacity[r]
    BY DEF CapacityRespected
  <2>1. Members(r) = {}
    BY DEF Init, Members
  <2>2. Cardinality(Members(r)) = 0
    BY <2>1, FS_EmptySet
  <2> QED
    BY <2>2
<1>2. IInv /\ CapacityRespected /\ [Next]_vars => CapacityRespected'
  <2> SUFFICES ASSUME IInv, CapacityRespected, [Next]_vars,
                      NEW q \in Rooms, Capacity[q] > 0
               PROVE  Cardinality(Members(q)') + Bots[q] <= Capacity[q]
    BY DEF CapacityRespected
  <2>1. /\ IsFiniteSet(Members(q)) /\ Cardinality(Members(q)) \in Nat
        /\ Capacity[q] \in Nat /\ Bots[q] \in Nat
        /\ Cardinality(Members(q)) + Bots[q] <= Capacity[q]
    <3>1. Members(q) \subseteq Users
      BY DEF Members
    <3> QED
      BY <3>1, FS_Subset, FS_CardinalityType DEF CapacityRespected
  <2>2. ASSUME Members(q)' \subseteq Members(q)
        PROVE  Cardinality(Members(q)') + Bots[q] <= Capacity[q]
    <3>1. /\ IsFiniteSet(Members(q)') /\ Cardinality(Members(q)') \in Nat
          /\ Cardinality(Members(q)') <= Cardinality(Members(q))
      BY <2>1, <2>2, FS_Subset, FS_CardinalityType
    <3> QED
      BY <2>1, <3>1
  <2>3. CASE UNCHANGED avatar
    BY <2>2, <2>3 DEF Members
  <2>4. ASSUME NEW s \in Sockets, HandleClose(s) PROVE Members(q)' \subseteq Members(q)
    BY <2>4, AvatarAfterClose DEF Members
  <2>5. CASE Restart
    BY <2>2, <2>5 DEF Restart, Members
  <2>6. ASSUME NEW s \in Sockets, NEW r \in Rooms, Enters(s, r)
        PROVE  Cardinality(Members(q)') + Bots[q] <= Capacity[q]
    <3> DEFINE u == Owner[s]
    <3>1. \A v \in Users :
            avatar'[q][v] = IF v # u THEN avatar[q][v]
                            ELSE IF q = r THEN s ELSE NoSocket
      BY <2>6, AvatarAfterEnter DEF Enters, IInv
    <3>2. CASE q # r \/ avatar[q][u] # NoSocket
      <4>1. Members(q)' \subseteq Members(q)
        BY <3>1, <3>2 DEF Members
      <4> QED
        BY <2>2, <4>1
    <3>3. CASE q = r /\ avatar[q][u] = NoSocket
      <4>1. Members(q)' = Members(q) \cup {u} /\ u \notin Members(q)
        BY <3>1, <3>3 DEF Members
      <4>2. Cardinality(Members(q)') = Cardinality(Members(q)) + 1
        BY <2>1, <4>1, FS_AddElement
      <4>3. Cardinality(Members(q)) + Bots[q] < Capacity[q]
        <5>1. CASE q \in active
          BY <2>1, <2>6, <3>3, <5>1 DEF Enters, CanJoinRoom, IsRoomAtCapacity
        <5>2. CASE q \notin active
          <6>1. Members(q) = {}
            BY <5>2 DEF IInv, DriverIsJoined, Members
          <6>2. Cardinality(Members(q)) = 0
            BY <6>1, FS_EmptySet
          <6> QED
            BY <2>1, <6>2
        <5> QED
          BY <5>1, <5>2
      <4> QED
        BY <2>1, <4>2, <4>3
    <3> QED
      BY <3>2, <3>3
  <2> QED
    BY <2>2, <2>3, <2>4, <2>5, <2>6, EveryStep DEF SessionStep, Resends, IsQuiet
<1> QED
  BY <1>1, <1>2, SessionsInvariant, PTL DEF Spec

---------------------------------------------------------------------------
(* The properties of the runs, put together from the theorems above.       *)

\* Wherever it is written where a user is, it says the same: AvatarsAgree.
THEOREM WhereaboutsAgree == Spec => []AvatarsAgree
BY TypeCorrect, UserInOneRoom, PresenceIsTruthful, GhostsStayHome, PTL DEF AvatarsAgree

\* One connection of a user drives the avatar, and joined its room.
THEOREM DriversStayTrue == Spec => []DriversAreTrue
<1>1. IInv => DriverIsJoined
  BY DEF IInv
<1> QED
  BY <1>1, SessionsInvariant, OneSocketDrives, PTL DEF DriversAreTrue

\* An open socket hears its room, and its client shows it as it is.
THEOREM RoomsAreHeard == Spec => []HearsItsRoom
BY JoinedHears, ViewIsTruthful, PTL DEF HearsItsRoom

\* Rooms hold whom they admit, and as many.
THEOREM RoomsAdmitRightly == Spec => []RoomsAdmit
BY AccessIsRespected, CapacityIsRespected, PTL DEF RoomsAdmit

---------------------------------------------------------------------------
(* RoomSessions implements Whereabouts.                                    *)

\* The room that InRoom chooses is the one that holds the user.
LEMMA ChosenRoom ==
  ASSUME NEW av \in [Rooms -> [Users -> Sockets \cup {NoSocket}]],
         NEW u \in Users, NEW r \in Rooms, av[r][u] # NoSocket,
         \A q \in Rooms : av[q][u] # NoSocket => q = r
  PROVE  (IF \E p \in Rooms : av[p][u] # NoSocket
          THEN CHOOSE p \in Rooms : av[p][u] # NoSocket ELSE NoRoom) = r
OBVIOUS

\* Where user u is before a step, and after it.
LEMMA WhereIs ==
  ASSUME TypeOK, OneRoomPerUser, NEW u \in Users
  PROVE  /\ \A r \in Rooms : avatar[r][u] # NoSocket =>
              InRoom[u] = r /\ Driver[u] = avatar[r][u]
         /\ (\A r \in Rooms : avatar[r][u] = NoSocket) =>
              InRoom[u] = NoRoom /\ Driver[u] = NoSocket
         /\ InRoom[u] # NoRoom =>
              InRoom[u] \in Rooms /\ avatar[InRoom[u]][u] # NoSocket
<1>1. avatar \in [Rooms -> [Users -> Sockets \cup {NoSocket}]]
  BY DEF TypeOK
<1>2. ASSUME NEW r \in Rooms, avatar[r][u] # NoSocket
      PROVE  InRoom[u] = r /\ Driver[u] = avatar[r][u]
  <2>1. \A q \in Rooms : avatar[q][u] # NoSocket => q = r
    BY <1>2 DEF OneRoomPerUser
  <2>2. InRoom[u] = r
    BY <1>1, <1>2, <2>1, ChosenRoom DEF InRoom
  <2> QED
    BY <1>2, <2>2 DEF Driver
<1>3. ASSUME \A r \in Rooms : avatar[r][u] = NoSocket
      PROVE  InRoom[u] = NoRoom /\ Driver[u] = NoSocket
  BY <1>3 DEF InRoom, Driver
<1> QED
  BY <1>2, <1>3

LEMMA WhereIsNext ==
  ASSUME TypeOK', OneRoomPerUser', NEW u \in Users
  PROVE  /\ \A r \in Rooms : avatar'[r][u] # NoSocket =>
              InRoom'[u] = r /\ Driver'[u] = avatar'[r][u]
         /\ (\A r \in Rooms : avatar'[r][u] = NoSocket) =>
              InRoom'[u] = NoRoom /\ Driver'[u] = NoSocket
<1>1. avatar' \in [Rooms -> [Users -> Sockets \cup {NoSocket}]]
  BY DEF TypeOK
<1>2. ASSUME NEW r \in Rooms, avatar'[r][u] # NoSocket
      PROVE  InRoom'[u] = r /\ Driver'[u] = avatar'[r][u]
  <2>1. \A q \in Rooms : avatar'[q][u] # NoSocket => q = r
    BY <1>2 DEF OneRoomPerUser
  <2>2. InRoom'[u] = r
    BY <1>1, <1>2, <2>1, ChosenRoom DEF InRoom
  <2> QED
    BY <1>2, <2>2 DEF Driver
<1>3. ASSUME \A r \in Rooms : avatar'[r][u] = NoSocket
      PROVE  InRoom'[u] = NoRoom /\ Driver'[u] = NoSocket
  BY <1>3 DEF InRoom, Driver
<1> QED
  BY <1>2, <1>3

\* A user whose avatar nobody touched is where it was.
LEMMA Untouched ==
  ASSUME IInv, IInv', NEW u \in Users,
         \A r \in Rooms : avatar'[r][u] = avatar[r][u]
  PROVE  InRoom'[u] = InRoom[u] /\ Driver'[u] = Driver[u]
<1>1. CASE \E r \in Rooms : avatar[r][u] # NoSocket
  <2> PICK r \in Rooms : avatar[r][u] # NoSocket
    BY <1>1
  <2> QED
    BY WhereIs, WhereIsNext DEF IInv
<1>2. CASE \A r \in Rooms : avatar[r][u] = NoSocket
  BY <1>2, WhereIs, WhereIsNext DEF IInv
<1> QED
  BY <1>1, <1>2

LEMMA PlaceType ==
  /\ InRoom = [u \in Users |-> InRoom[u]] /\ Driver = [u \in Users |-> Driver[u]]
  /\ InRoom' = [u \in Users |-> InRoom'[u]] /\ Driver' = [u \in Users |-> Driver'[u]]
BY DEF InRoom, Driver

\* Besides closing and restarting, a step opens one connection at most, and
\* that connection drives no avatar yet.
LEMMA LiveStep ==
  ASSUME IInv, [Next]_vars
  PROVE  \/ Live' = Live
         \/ \E s \in Sockets : conn[s] = "upgrading" /\ Live' = Live \cup {s}
         \/ \E s \in Sockets : HandleClose(s)
         \/ Restart
<1>1. conn \in [Sockets -> {"closed", "upgrading", "open"}]
  BY DEF IInv, TypeOK
<1>2. ASSUME NEW s \in Sockets, Upgrade(s) \/ UpgradeFails(s) PROVE Live' = Live
  BY <1>1, <1>2 DEF Upgrade, UpgradeFails, Live
<1>3. ASSUME NEW s \in Sockets, NEW r \in Rooms \cup {NoRoom}, HandleOpen(s, r)
      PROVE  conn[s] = "upgrading" /\ Live' = Live \cup {s}
  BY <1>1, <1>3 DEF HandleOpen, Live
<1>4. ASSUME UNCHANGED conn PROVE Live' = Live
  BY <1>4 DEF Live
<1>5. ASSUME NEW s \in Sockets, NEW r \in Rooms, HandleJoin(s, r) PROVE UNCHANGED conn
  BY <1>5 DEF HandleJoin
<1>6. ASSUME NEW s \in Sockets, NEW ok \in BOOLEAN, SeedRoomDone(s, ok)
      PROVE  UNCHANGED conn
  BY <1>6 DEF SeedRoomDone
<1>7. ASSUME NEW r \in Rooms, AddRoom(r) PROVE UNCHANGED conn
  BY <1>7 DEF AddRoom
<1>8. CASE UNCHANGED vars
  BY <1>4, <1>8 DEF vars
<1> QED
  BY <1>2, <1>3, <1>4, <1>5, <1>6, <1>7, <1>8 DEF Next

LEMMA SameCount == \A S : W!Cardinality(S) = Cardinality(S)
BY DEF W!Cardinality, Cardinality

\* An accepted join is an abstract Enter.
LEMMA EnterIsEnter ==
  ASSUME IInv, IInv', NEW s \in Sockets, NEW r \in Rooms, Enters(s, r)
  PROVE  W!Enter(s, r)
<1> DEFINE u == Owner[s]
<1>1. u \in Users /\ JoinContext(s, r) /\ CanJoinRoom(u, r, layouts')
  BY DEF Enters
<1>2. \A q \in Rooms, v \in Users :
        avatar'[q][v] = IF v # u THEN avatar[q][v] ELSE IF q = r THEN s ELSE NoSocket
  BY AvatarAfterEnter DEF Enters, IInv
<1>3. W!Admits(r, u)
  <2>1. /\ r \in PublicRooms \/ RoomOwner[r] = u
        /\ r \in KnockRooms => RoomOwner[r] = u
    BY <1>1 DEF CanJoinRoom, HasAccessibleLayout
  <2>2. ASSUME Capacity[r] > 0, InRoom[u] # r
        PROVE  Cardinality(W!Present(r)) + Bots[r] < Capacity[r]
    <3>1. avatar[r][u] = NoSocket
      BY <1>1, <2>2, WhereIs DEF IInv
    <3>2. W!Present(r) = Members(r)
      <4>1. ASSUME NEW v \in Users PROVE InRoom[v] = r <=> avatar[r][v] # NoSocket
        BY <4>1, WhereIs DEF IInv
      <4> QED
        BY <4>1 DEF W!Present, Members
    <3>3. Cardinality(Members(r)) \in Nat
      <4>1. Members(r) \subseteq Users
        BY DEF Members
      <4> QED
        BY <4>1, FS_Subset, FS_CardinalityType
    <3>4. CASE r \in active
      BY <1>1, <2>2, <3>1, <3>2, <3>3, <3>4 DEF CanJoinRoom, IsRoomAtCapacity
    <3>5. CASE r \notin active
      <4>1. Members(r) = {}
        BY <3>5 DEF Members, IInv, DriverIsJoined
      <4> QED
        BY <2>2, <3>2, <4>1, FS_EmptySet
    <3> QED
      BY <3>4, <3>5
  <2> QED
    BY <2>1, <2>2, SameCount DEF W!Admits
<1>4. Live' \in {Live, Live \cup {s}} /\ (s \in Live' \/ r = Home[u])
  BY <1>1 DEF JoinContext, Live
<1>5. \A v \in Users \ {u} : InRoom'[v] = InRoom[v] /\ Driver'[v] = Driver[v]
  BY <1>2, Untouched
<1>6. InRoom'[u] = r /\ Driver'[u] = s
  <2>1. avatar'[r][u] = s /\ s # NoSocket
    BY <1>1, <1>2
  <2> QED
    BY <1>1, <2>1, WhereIsNext DEF IInv
<1>7. InRoom' = [InRoom EXCEPT ![u] = r] /\ Driver' = [Driver EXCEPT ![u] = s]
  BY <1>1, <1>5, <1>6, PlaceType
<1> QED
  BY <1>3, <1>4, <1>7 DEF W!Enter

\* A close is an abstract Close: it takes the user away if it was the driver.
LEMMA CloseIsClose ==
  ASSUME IInv, IInv', NEW s \in Sockets, HandleClose(s)
  PROVE  W!Close(s)
<1> DEFINE u == Owner[s]
<1>1. u \in Users /\ conn[s] = "open" /\ conn' = [conn EXCEPT ![s] = "closed"]
      /\ conn \in [Sockets -> {"closed", "upgrading", "open"}]
  BY DEF HandleClose, IInv, TypeOK
<1>2. s \in Live /\ Live' = Live \ {s}
  BY <1>1 DEF Live
<1>3. \A q \in Rooms, v \in Users :
        avatar'[q][v] = IF v = u /\ avatar[q][v] = s THEN NoSocket ELSE avatar[q][v]
  BY AvatarAfterClose
<1>4. \A v \in Users \ {u} : InRoom'[v] = InRoom[v] /\ Driver'[v] = Driver[v]
  BY <1>3, Untouched
<1>5. CASE Driver[u] = s
  <2>1. s # NoSocket
    OBVIOUS
  <2>2. InRoom[u] # NoRoom
    BY <1>1, <1>5, <2>1 DEF Driver
  <2>3. InRoom[u] \in Rooms /\ avatar[InRoom[u]][u] = s
    BY <1>1, <1>5, <2>1, <2>2, WhereIs DEF IInv
  <2>4. \A q \in Rooms : avatar'[q][u] = NoSocket
    BY <1>1, <1>3, <2>1, <2>3 DEF IInv, OneRoomPerUser
  <2>5. InRoom'[u] = NoRoom /\ Driver'[u] = NoSocket
    BY <1>1, <2>4, WhereIsNext DEF IInv
  <2>6. InRoom' = [InRoom EXCEPT ![u] = NoRoom] /\ Driver' = [Driver EXCEPT ![u] = NoSocket]
    BY <1>1, <1>4, <2>5, PlaceType
  <2> QED
    BY <1>2, <1>5, <2>6 DEF W!Close
<1>6. CASE Driver[u] # s
  <2>1. \A q \in Rooms : avatar[q][u] # s
    BY <1>1, <1>6, WhereIs DEF IInv
  <2>2. InRoom'[u] = InRoom[u] /\ Driver'[u] = Driver[u]
    BY <1>1, <1>3, <2>1, Untouched
  <2>3. InRoom' = InRoom /\ Driver' = Driver
    BY <1>4, <2>2, PlaceType
  <2> QED
    BY <1>2, <1>6, <2>3 DEF W!Close
<1> QED
  BY <1>5, <1>6

LEMMA RestartIsRestart ==
  ASSUME IInv, IInv', Restart
  PROVE  W!Restart
<1>1. Live' = {} /\ \A u \in Users : InRoom'[u] = NoRoom /\ Driver'[u] = NoSocket
  <2>1. \A r \in Rooms, u \in Users : avatar'[r][u] = NoSocket
    BY DEF Restart
  <2>2. Live' = {}
    BY DEF Restart, Live
  <2> QED
    BY <2>1, <2>2, WhereIsNext DEF IInv
<1> QED
  BY <1>1, PlaceType DEF W!Restart

\* A step that touches no avatar opens a connection or is not seen.
LEMMA QuietIsQuiet ==
  ASSUME IInv, IInv', [Next]_vars, UNCHANGED avatar
  PROVE  W!Next \/ UNCHANGED <<Live, InRoom, Driver>>
<1>1. UNCHANGED <<InRoom, Driver>>
  BY DEF InRoom, Driver
<1>2. ASSUME NEW s \in Sockets, conn[s] = "upgrading", Live' = Live \cup {s}
      PROVE  W!Connect(s)
  <2>1. s \notin Live /\ roomOf[s] = NoRoom
    BY <1>2 DEF Live, IInv, UpgradingIsFresh
  <2>2. Driver[Owner[s]] # s
    <3>1. Owner[s] \in Users /\ s # NoSocket
      OBVIOUS
    <3>2. ASSUME Driver[Owner[s]] = s PROVE FALSE
      <4>1. InRoom[Owner[s]] # NoRoom
        BY <3>1, <3>2 DEF Driver
      <4>2. InRoom[Owner[s]] \in Rooms /\ avatar[InRoom[Owner[s]]][Owner[s]] = s
        BY <3>1, <3>2, <4>1, WhereIs DEF IInv
      <4>3. roomOf[s] \in Rooms
        BY <3>1, <4>2 DEF IInv, DriverIsJoined
      <4> QED
        BY <2>1, <4>3
    <3> QED
      BY <3>2
  <2> QED
    BY <1>1, <1>2, <2>1, <2>2 DEF W!Connect
<1>3. ASSUME NEW s \in Sockets, HandleClose(s) PROVE W!Close(s)
  BY <1>3, CloseIsClose
<1>4. CASE Restart
  BY <1>4, RestartIsRestart DEF W!Next
<1> QED
  BY <1>1, <1>2, <1>3, <1>4, LiveStep DEF W!Next

LEMMA WhereaboutsStep ==
  ASSUME IInv, IInv', [Next]_vars
  PROVE  [W!Next]_<<Live, InRoom, Driver>>
<1>1. ASSUME NEW s \in Sockets, NEW r \in Rooms, Enters(s, r) PROVE W!Next
  BY <1>1, EnterIsEnter DEF W!Next
<1>2. ASSUME NEW s \in Sockets, HandleClose(s) PROVE W!Next
  BY <1>2, CloseIsClose DEF W!Next
<1>3. CASE Restart
  BY <1>3, RestartIsRestart DEF W!Next
<1>4. CASE UNCHANGED avatar
  BY <1>4, QuietIsQuiet
<1> QED
  BY <1>1, <1>2, <1>3, <1>4, EveryStep DEF SessionStep, Resends, IsQuiet

\* The Room objects, the sockets' rooms, the delayed joins and the closes move
\* users as Whereabouts says, for every number of users, sockets and rooms.
THEOREM SessionsImplementWhereabouts == Spec => IsWhereabouts
<1>1. Init => W!Init
  <2> SUFFICES ASSUME Init PROVE W!Init
    OBVIOUS
  <2>1. Live = {} /\ \A u \in Users : InRoom[u] = NoRoom /\ Driver[u] = NoSocket
    BY DEF Init, Live, InRoom, Driver
  <2> QED
    BY <2>1, PlaceType DEF W!Init
<1>2. IInv /\ IInv' /\ [Next]_vars => [W!Next]_W!vars
  BY WhereaboutsStep DEF W!vars
<1> QED
  BY <1>1, <1>2, SessionsInvariant, PTL DEF Spec, W!Spec, IsWhereabouts
===========================================================================
