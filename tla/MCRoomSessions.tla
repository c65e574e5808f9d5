-------------------------- MODULE MCRoomSessions --------------------------
(***************************************************************************)
(* An instance of RoomSessions: two users, one with two sockets.  "lobby"  *)
(* is public with a bot, "den" a created room with space for one, "club" a *)
(* created room of bob's that others must knock at, and each user has a    *)
(* home: ann's is seeded when she first joins it, bob's at the start.      *)
(***************************************************************************)
EXTENDS RoomSessions, TLC

CONSTANTS ann, bob, a1, a2, b1, lobby, den, club, annHome, bobHome

MCUsers == {ann, bob}
MCSockets == {a1, a2, b1}
MCOwner == [s \in MCSockets |-> IF s = b1 THEN bob ELSE ann]
MCRooms == {lobby, den, club, annHome, bobHome}
MCHome == (ann :> annHome) @@ (bob :> bobHome)
MCRoomOwner == (lobby :> NoUser) @@ (den :> ann) @@ (club :> bob)
               @@ (annHome :> ann) @@ (bobHome :> bob)
MCCapacity == [r \in MCRooms |-> IF r = den THEN 1 ELSE 0]
MCBots == [r \in MCRooms |-> IF r = lobby THEN 1 ELSE 0]

\* The two sockets of ann are interchangeable.
SocketSymmetry == Permutations({a1, a2})
===========================================================================
