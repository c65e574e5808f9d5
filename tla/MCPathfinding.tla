--------------------------- MODULE MCPathfinding ---------------------------
(* Instances of Pathfinding for TLC. *)
EXTENDS Pathfinding

CONSTANTS Width, Height, MaxBlocked

Inside == (0 .. Width - 1) \X (0 .. Height - 1)
Door == <<-1, 1>>

\* Sums of one cost round apart by the order of their additions: a straight step
\* brings an error, or takes it away, after an odd number of diagonal ones.  Tiles
\* are then rewritten after they were closed.
MCRoundings == {0, 1}
MCRounds(c, r, d, q) == q = (r + d[1] * c[2]) % 2

MCInputs ==
  {[walkable |-> {Door} \cup (Inside \ blocked), start |-> s, target |-> t] :
     blocked \in UNION {kSubset(n, Inside) : n \in 0 .. MaxBlocked},
     s \in {Door, <<0, 0>>}, t \in {<<0, 0>>, <<Width - 1, 1>>, <<Width - 1, Height - 1>>}}
=============================================================================
