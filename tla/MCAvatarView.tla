---------------------------- MODULE MCAvatarView ----------------------------
(***************************************************************************)
(* An instance of AvatarView, and with it of RoomMovement, on a small      *)
(* floor.  The paths are those that findPath may return: the shortest ones *)
(* by single steps, diagonal steps past two walkable corners included.     *)
(***************************************************************************)
EXTENDS AvatarView, TLC

CONSTANTS u1, u2

MCUsers == {u1, u2}
MCFloor == {<<0, 0>>, <<1, 0>>, <<2, 0>>, <<0, 1>>, <<1, 1>>}
MCElsewhere == {<<3, 0>>}
MCTileOrder == << <<0, 0>>, <<1, 0>>, <<2, 0>>, <<0, 1>>, <<1, 1>> >>
MCSpawn == <<1, 0>>

Diagonal(s, t) == s[1] # t[1] /\ s[2] # t[2]

StepsFrom(b, s) ==
  {t \in Floor \ b :
     /\ s # t /\ s[1] - t[1] \in -1 .. 1 /\ s[2] - t[2] \in -1 .. 1
     /\ Diagonal(s, t) => {<<t[1], s[2]>>, <<s[1], t[2]>>} \subseteq Floor \ b}

\* Simple paths from one tile, of any length.
PathsFrom(b, from) ==
  LET of[k \in 0 .. Cardinality(Floor)] ==
        IF k = 0 THEN {<<from>>}
        ELSE of[k - 1] \cup
             UNION {{Append(p, t) : t \in StepsFrom(b, LastOf(p)) \ Visited(p)} :
                      p \in of[k - 1]}
  IN  of[Cardinality(Floor)]

\* 7 : 5 orders the paths of this floor as the square root of two does.
Cost(p) ==
  LET diagonals == Cardinality({k \in 1 .. Len(p) - 1 : Diagonal(p[k], p[k + 1])})
  IN  5 * (Len(p) - 1) + 2 * diagonals

\* Tabulated once: @@ makes TLC compute every entry.
PathTable ==
  [q \in {c \in SUBSET Floor : Cardinality(c) <= MaxItems} \X Floor \X Floor |->
     LET there == {p \in PathsFrom(q[1], q[2]) : LastOf(p) = q[3]}
     IN  {p \in there : \A r \in there : Cost(p) <= Cost(r)}] @@ <<>>

MCFindPaths(b, from, to) ==
  IF ~({from, to} \subseteq Floor \ b) THEN {}
  ELSE IF from = to THEN {<<>>}
  ELSE PathTable[<<b, from, to>>]
=============================================================================
