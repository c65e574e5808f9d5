---------------------------- MODULE Pathfinding ----------------------------
(***************************************************************************)
(* findPath of the engine: A* over the tiles of a room, one action per     *)
(* turn of its loops.  The Room asks it where a user walks, and bots and    *)
(* users get no other paths (RoomMovement's FindPaths).                    *)
(***************************************************************************)
EXTENDS PriorityQueue, FiniteSets, FiniteSetsExt

CONSTANTS
  Inputs,   \* [walkable : tiles, start, target : tiles]
  NoPath,   \* null
  Roundings,         \* the errors of the doubles
  Rounds(_, _, _, _) \* the double of cost c with error r, plus d, has error q

AllTiles == Int \X Int
ASSUME PathfindingAssumption ==
  /\ Inputs \subseteq [walkable : SUBSET AllTiles, start : AllTiles, target : AllTiles]
  /\ \A in \in Inputs : IsFiniteSet(in.walkable)
  /\ NoPath \notin Seq(AllTiles)
  /\ Roundings \subseteq Int

VARIABLES
  input,     \* the call
  phase,     \* "called", "searching", "rebuilding", "returned"
  openSet,   \* the heap: [position, score, rounding, heuristic]
  current,   \* the tile taken from it last
  ahead,     \* the directions of its neighbours the inner loop has not looked at
  gScore,    \* [tiles seen -> cost]
  gRounding, \* [tiles seen -> the error of that cost]
  cameFrom,  \* [tiles seen but the start -> tile]
  closed,    \* closedKeys
  result     \* the path as far as it is rebuilt, then what is returned

search == <<openSet, current, ahead, gScore, gRounding, cameFrom, closed>>
searchVars == <<input, phase, search, result>>

IsWalkable(t) == t \in input.walkable

---------------------------------------------------------------------------
(* TileGrid.                                                               *)

\* The candidates of getNeighbors, in its order.
Directions == << <<1, 0>>, <<-1, 0>>, <<0, 1>>, <<0, -1>>,
                 <<1, 1>>, <<1, -1>>, <<-1, 1>>, <<-1, -1>> >>

CutsCorners(t, d) == IsWalkable(Plus(t, d))                       \* (mutant)
IsReachableNeighbor(t, d) ==
  /\ IsWalkable(Plus(t, d))
  /\ (d[1] # 0 /\ d[2] # 0) =>
       IsWalkable(Plus(t, <<d[1], 0>>)) /\ IsWalkable(Plus(t, <<0, d[2]>>))

\* The directions in which getNeighbors finds a neighbour, by their number.
Neighbors(t) == {k \in DOMAIN Directions : IsReachableNeighbor(t, Directions[k])}

MovementCost(d) == IF d[1] # 0 /\ d[2] # 0 THEN <<0, 1>> ELSE <<1, 0>>

Abs(n) == IF n < 0 THEN -n ELSE n
OctileDistance(s, t) ==
  LET dx == Abs(s[1] - t[1])
      dy == Abs(s[2] - t[2])
      diagonal == IF dx < dy THEN dx ELSE dy
  IN  <<dx + dy - 2 * diagonal, diagonal>>

---------------------------------------------------------------------------
(* The search.                                                             *)

Put(f, k, v) == [x \in DOMAIN f \cup {k} |-> IF x = k THEN v ELSE f[x]]
Nothing == [x \in {} |-> x]

\* The errors the double of cost c with error r, plus d, may have.
SumRoundings(c, r, d) == {q \in Roundings : Rounds(c, r, d, q)}

Entry(t, cost, q) ==
  LET h == OctileDistance(t, input.target)
  IN  [position |-> t, score |-> Plus(cost, h), rounding |-> q, heuristic |-> h]

Return(r) ==
  /\ result' = r /\ phase' = "returned"
  /\ UNCHANGED <<input, openSet, current, ahead, gScore, gRounding, cameFrom>>

Begin ==
  /\ phase = "called"
  /\ IF ~IsWalkable(input.start) \/ ~IsWalkable(input.target)
     THEN Return(NoPath) /\ UNCHANGED closed
     ELSE IF input.start = input.target
     THEN Return(<<>>) /\ UNCHANGED closed
     ELSE /\ phase' = "searching"
          /\ openSet' = Push(<<>>, Entry(input.start, <<0, 0>>, 0))
          /\ gScore' = Put(Nothing, input.start, <<0, 0>>)
          /\ gRounding' = Put(Nothing, input.start, 0)
          /\ UNCHANGED <<input, current, ahead, cameFrom, closed, result>>

\* A turn of the outer loop, up to its inner one.
TakeBest ==
  LET t == openSet[1].position IN
  /\ phase = "searching" /\ ahead = {} /\ openSet # <<>>
  /\ openSet' = Rest(openSet)
  /\ closed' = closed \cup {t}
  /\ IF t \in closed THEN UNCHANGED <<phase, current, ahead, result>>
     ELSE /\ current' = t
          /\ IF t = input.target
             THEN phase' = "rebuilding" /\ result' = <<t>> /\ UNCHANGED ahead
             ELSE ahead' = Neighbors(t) /\ UNCHANGED <<phase, result>>
  /\ UNCHANGED <<input, gScore, gRounding, cameFrom>>

AlwaysImproves(t, cost, r) == t \notin DOMAIN gScore \/ gScore[t] # cost  \* (mutant)
KeepsFirst(t, cost, r) == t \notin DOMAIN gScore                  \* (mutant)
Improves(t, cost, r) ==
  t \notin DOMAIN gScore \/ LessAsDoubles(cost, r, gScore[t], gRounding[t])

\* A turn of the inner loop.  It does not ask whether the tile is closed.
LookAt ==
  LET d == Directions[Min(ahead)]
      next == Plus(current, d)
      cost == Plus(gScore[current], MovementCost(d))
  IN
  /\ phase = "searching" /\ ahead # {}
  /\ ahead' = ahead \ {Min(ahead)}
  /\ \E r \in SumRoundings(gScore[current], gRounding[current], MovementCost(d)) :
       IF Improves(next, cost, r)
       THEN /\ gScore' = Put(gScore, next, cost)
            /\ gRounding' = Put(gRounding, next, r)
            /\ cameFrom' = Put(cameFrom, next, current)
            /\ \E q \in SumRoundings(cost, r, OctileDistance(next, input.target)) :
                 openSet' = Push(openSet, Entry(next, cost, q))
       ELSE UNCHANGED <<gScore, gRounding, cameFrom, openSet>>
  /\ UNCHANGED <<input, phase, current, closed, result>>

\* A turn of reconstructPath, or its end.
Rebuild ==
  /\ phase = "rebuilding"
  /\ IF result[1] = input.start
     THEN Return(result)
     ELSE IF result[1] \notin DOMAIN cameFrom
     THEN Return(NoPath)
     ELSE /\ result' = <<cameFrom[result[1]]>> \o result
          /\ UNCHANGED <<input, phase, openSet, current, ahead, gScore, gRounding, cameFrom>>
  /\ UNCHANGED closed

GiveUp ==
  /\ phase = "searching" /\ ahead = {} /\ openSet = <<>>
  /\ Return(NoPath) /\ UNCHANGED closed

SearchInit ==
  /\ input \in Inputs
  /\ phase = "called" /\ openSet = <<>> /\ closed = {} /\ result = NoPath
  /\ gScore = Nothing /\ gRounding = Nothing /\ cameFrom = Nothing /\ current = input.start /\ ahead = {}

SearchNext == Begin \/ TakeBest \/ LookAt \/ Rebuild \/ GiveUp

SearchSpec == SearchInit /\ [][SearchNext]_searchVars
FairSearch == SearchSpec /\ WF_searchVars(SearchNext)

---------------------------------------------------------------------------
(* Reference: a step is between two tiles at most one apart in x and in y, *)
(* all four tiles they span walkable; a walk costs what its steps cost.    *)

IsStep(floor, s, t) ==
  /\ s # t /\ Abs(s[1] - t[1]) <= 1 /\ Abs(s[2] - t[2]) <= 1
  /\ {s[1], t[1]} \X {s[2], t[2]} \subseteq floor

StepCost(s, t) == IF s[1] # t[1] /\ s[2] # t[2] THEN <<0, 1>> ELSE <<1, 0>>

\* Where the walks of a number of steps lead and what they cost, and those of
\* as many or fewer.
StepsOn(floor) == {e \in floor \X floor : IsStep(floor, e[1], e[2])}
Longer(steps, w) ==
  LET extended(e) == {<<e[2], Plus(p[2], StepCost(e[1], e[2]))>> : p \in {p \in w.last : p[1] = e[1]}}
      last == UNION {extended(e) : e \in steps}
  IN  [last |-> last, all |-> w.all \cup last]

WalksOf(in) ==
  LET steps == StepsOn(in.walkable)
      none == {<<in.start, <<0, 0>>>>}
      walks[n \in Nat] == IF n = 0 THEN [last |-> none, all |-> none] ELSE Longer(steps, walks[n - 1])
  IN  walks

CostOf(path) ==
  LET steps == 1 .. Len(path) - 1
      diagonal == {k \in steps : StepCost(path[k], path[k + 1]) = <<0, 1>>}
  IN  <<Cardinality(steps \ diagonal), Cardinality(diagonal)>>

---------------------------------------------------------------------------
(* Properties.                                                             *)

\* The heap is ordered, whatever was pushed and taken; the open set, the scores
\* and the parents speak of walkable tiles.
OpenSetOK ==
  /\ \A i \in 2 .. Len(openSet) : ~IsBetter(openSet[i], openSet[i \div 2])
  /\ closed \subseteq DOMAIN gScore
  /\ DOMAIN gScore \subseteq input.walkable
  /\ \A i \in DOMAIN openSet : openSet[i].position \in DOMAIN gScore

\* A path that is returned leads from the start to the target by steps between
\* neighbouring walkable tiles, diagonal ones between two walkable corners, and
\* comes to no tile twice: what the Room relies on.
IsPath(in, path) ==
  /\ path \in Seq(in.walkable) /\ {in.start, in.target} \subseteq in.walkable
  /\ in.start = in.target => path = <<>>
  /\ in.start # in.target =>
       /\ Len(path) > 1 /\ path[1] = in.start /\ path[Len(path)] = in.target
       /\ \A k \in 1 .. Len(path) - 1 : IsStep(in.walkable, path[k], path[k + 1])
       /\ \A k, l \in 1 .. Len(path) : path[k] = path[l] => k = l
PathIsWalk == (phase = "returned" /\ result # NoPath) => IsPath(input, result)

\* A path is returned when there is a walk, and no walk costs less.
PathIsShortest ==
  (phase = "returned" /\ IsWalkable(input.start) /\ IsWalkable(input.target)) =>
    \A w \in WalksOf(input)[Cardinality(input.walkable)].all :
      w[1] = input.target => result # NoPath /\ ~Less(w[2], CostOf(result))

\* A tile that was taken from the open set keeps its cost, so that the search may
\* skip it from then on: where rounding makes it look cheaper through another
\* tile, that one is closed and the way through it costs the same.
ClosedIsFinal ==
  [][\A t \in closed : gScore'[t] = gScore[t]
       /\ t # input.start =>
            LET parent == cameFrom'[t]
            IN  parent \in closed /\ Plus(gScore[parent], StepCost(parent, t)) = gScore[t]]_searchVars

\* The search ends.
Terminates == <>(phase = "returned")

\* The heap is ordered, and what is found is a walk, and a shortest one.
FindsShortest == OpenSetOK /\ PathIsWalk /\ PathIsShortest
=============================================================================
