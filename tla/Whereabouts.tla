---------------------------- MODULE Whereabouts ----------------------------
(***************************************************************************)
(* What the server promises about where users are, with nothing said of    *)
(* Room objects, sockets' data, topics or awaits: a user is nowhere, or in *)
(* one room on behalf of one of the user's connections.  A connection      *)
(* takes its user into a room that admits the user, and out of the one     *)
(* before; the user is nowhere again when that connection closes, and is   *)
(* left alone when any other connection does.  Only a home may be entered  *)
(* for a connection that has closed meanwhile.                             *)
(*                                                                         *)
(* RoomSessions implements this specification.                             *)
(***************************************************************************)
EXTENDS Naturals, FiniteSets

CONSTANTS
  Users, Sockets, Owner, Rooms, Home, PublicRooms, KnockRooms, RoomOwner,
  Capacity, Bots, NoSocket, NoRoom

VARIABLES
  live,     \* the open connections
  inRoom,   \* [Users -> Rooms \cup {NoRoom}]
  driver    \* [Users -> Sockets \cup {NoSocket}]: on whose behalf

vars == <<live, inRoom, driver>>

Present(r) == {u \in Users : inRoom[u] = r}

Admits(r, u) ==
  /\ r \in PublicRooms \/ RoomOwner[r] = u
  /\ r \in KnockRooms => RoomOwner[r] = u
  /\ Capacity[r] > 0 /\ inRoom[u] # r
       => Cardinality(Present(r)) + Bots[r] < Capacity[r]

Connect(s) ==
  /\ s \notin live /\ driver[Owner[s]] # s
  /\ live' = live \cup {s}
  /\ UNCHANGED <<inRoom, driver>>

\* The connection may open in the same step.
Enter(s, r) ==
  /\ Admits(r, Owner[s])
  /\ live' \in {live, live \cup {s}}
  /\ s \in live' \/ r = Home[Owner[s]]
  /\ inRoom' = [inRoom EXCEPT ![Owner[s]] = r]
  /\ driver' = [driver EXCEPT ![Owner[s]] = s]

Close(s) ==
  /\ s \in live
  /\ live' = live \ {s}
  /\ \/ /\ driver[Owner[s]] = s
        /\ inRoom' = [inRoom EXCEPT ![Owner[s]] = NoRoom]
        /\ driver' = [driver EXCEPT ![Owner[s]] = NoSocket]
     \/ /\ driver[Owner[s]] # s
        /\ UNCHANGED <<inRoom, driver>>

Restart ==
  /\ live' = {}
  /\ inRoom' = [u \in Users |-> NoRoom]
  /\ driver' = [u \in Users |-> NoSocket]

Init ==
  /\ live = {}
  /\ inRoom = [u \in Users |-> NoRoom]
  /\ driver = [u \in Users |-> NoSocket]

Next ==
  \/ \E s \in Sockets : Connect(s) \/ Close(s) \/ (\E r \in Rooms : Enter(s, r))
  \/ Restart

Spec == Init /\ [][Next]_vars
=============================================================================
