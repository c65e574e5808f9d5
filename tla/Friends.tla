------------------------------ MODULE Friends ------------------------------
(***************************************************************************)
(* FriendService and BlockService over their tables.                       *)
(*                                                                         *)
(* Adding a friend is up to four statements, under a lock that is held per *)
(* pair of users; removing one is a single statement that takes no lock.   *)
(* Blocking is up to three statements without a lock.  Each action is one  *)
(* statement taking effect together with what the handler does before its  *)
(* next await; any statement may fail.  Names are looked up before the     *)
(* lock and leave no trace; lists are read-only; neither is modelled.      *)
(***************************************************************************)
EXTENDS Naturals, Sequences, FiniteSets

CONSTANTS
  Users,
  Ops,          \* slots for add and block requests in flight
  Blockers,     \* bound: the users whose blocks are followed
  Followed,     \* bound: the pairs whose answers are followed
  MaxFriends,
  MaxBlocked,
  MaxClashed,   \* bound: the users who overlap their own requests in a behaviour
  NoOp

Pairs == {{r[1], r[2]} : r \in {q \in Users \X Users : q[1] # q[2]}}

AddSteps == {"lock", "status", "count", "find", "insert", "accept"}
BlockSteps == {"isBlocked", "countBlocked", "insertBlock"}
Requests ==
  [kind : {"add"}, user : Users, other : Users, step : AddSteps, void : BOOLEAN]
  \cup [kind : {"block"}, user : Users, other : Users, step : BlockSteps]

ASSUME FriendsAssumption ==
  /\ IsFiniteSet(Users) /\ Blockers \subseteq Users
  /\ MaxFriends \in Nat \ {0} /\ MaxBlocked \in Nat \ {0} /\ MaxClashed \in Nat
  /\ NoOp \notin Requests /\ "none" \notin Users /\ "accepted" \notin Users

VARIABLES
  row,      \* [Pairs -> "none", "accepted", or the user whose request is pending]
  blocked,  \* pairs <<blocker, blocked>>
  ops,      \* [Ops -> a request in flight, or NoOp]
  chain,    \* [Pairs -> the adds that hold or wait for the pair's lock, in order]
  asked,    \* history: adds answered without an error since the pair was removed
  clashed   \* history: users who had two adds, or two blocks, in flight at once

vars == <<row, blocked, ops, chain, asked, clashed>>

Busy == {o \in Ops : ops[o] # NoOp}
PairOf(o) == {ops[o].user, ops[o].other}
At(o, step) == o \in Busy /\ ops[o].step = step
Goto(o, step) == ops' = [ops EXCEPT ![o].step = step]

\* countFriendSlots: accepted friends and own pending requests.
FriendsOnly(u) == {p \in Pairs : u \in p /\ row[p] = "accepted"}    \* (mutant)
FriendSlots(u) == {p \in Pairs : u \in p /\ row[p] \in {"accepted", u}}

BlockedBy(u) == {b \in blocked : b[1] = u}

Clash(u, kind) ==
  IF \E o \in Busy : ops[o].kind = kind /\ ops[o].user = u
  THEN clashed \cup {u} ELSE clashed

---------------------------------------------------------------------------
(* withAddLock.                                                            *)

Unlocked(p) == TRUE                                                 \* (mutant)
LockFree(p) == chain[p] = <<>>

RequestAdd(o, u, v) ==
  LET p == {u, v}
  IN
  /\ ops[o] = NoOp /\ u # v
  /\ chain' = [chain EXCEPT ![p] = Append(@, o)]
  /\ ops' = [ops EXCEPT ![o] =
               [kind |-> "add", user |-> u, other |-> v, void |-> FALSE,
                step |-> IF LockFree(p) THEN "status" ELSE "lock"]]
  /\ Cardinality(Clash(u, "add")) <= MaxClashed
  /\ clashed' = Clash(u, "add")
  /\ UNCHANGED <<row, blocked, asked>>

\* The add that holds the lock releases it, and the next one of the pair starts.
EndUnreleased(o) ==                                                 \* (mutant)
  ops' = [ops EXCEPT ![o] = NoOp] /\ UNCHANGED chain
EndAdd(o) ==
  LET p == PairOf(o)
      left == Tail(chain[p])
  IN
  /\ chain' = [chain EXCEPT ![p] = left]
  /\ ops' = [q \in Ops |->
               IF q = o THEN NoOp
               ELSE IF left # <<>> /\ q = left[1] THEN [ops[q] EXCEPT !.step =
                 IF @ = "lock" THEN "status" ELSE @]
               ELSE ops[q]]

\* The add is answered with a status.
AnswerAdd(o) ==
  /\ EndAdd(o)
  /\ asked' = IF ops[o].void \/ PairOf(o) \notin Followed THEN asked
              ELSE asked \cup {<<ops[o].user, ops[o].other>>}

---------------------------------------------------------------------------
(* FriendService.add.                                                      *)

\* Answered from the row: friends already, or asked before.
Settled(o) == row[PairOf(o)] \in {"accepted", ops[o].user}

FindFriendshipStatus(o) ==
  /\ At(o, "status")
  /\ IF Settled(o) THEN AnswerAdd(o) ELSE Goto(o, "count") /\ UNCHANGED <<chain, asked>>
  /\ UNCHANGED <<row, blocked, clashed>>

CountFriendSlots(o) ==
  /\ At(o, "count")
  /\ IF Cardinality(FriendSlots(ops[o].user)) < MaxFriends
     THEN Goto(o, "find") /\ UNCHANGED chain
     ELSE EndAdd(o)
  /\ UNCHANGED <<row, blocked, asked, clashed>>

\* addFriend reads the row again; a request of the other user is accepted.
AnyPending(o) == row[PairOf(o)] # "none"                            \* (mutant)
Found(o) == Settled(o)

FindFriendship(o) ==
  /\ At(o, "find")
  /\ IF Found(o) THEN AnswerAdd(o)
     ELSE /\ Goto(o, IF row[PairOf(o)] = "none" THEN "insert" ELSE "accept")
          /\ UNCHANGED <<chain, asked>>
  /\ UNCHANGED <<row, blocked, clashed>>

\* The row's key is the pair: a second insert is an error.
InsertFriendship(o) ==
  /\ At(o, "insert")
  /\ IF row[PairOf(o)] = "none"
     THEN row' = [row EXCEPT ![PairOf(o)] = ops[o].user] /\ AnswerAdd(o)
     ELSE UNCHANGED <<row, asked>> /\ EndAdd(o)
  /\ UNCHANGED <<blocked, clashed>>

\* The update finds no row when it was removed; the answer is "accepted" all
\* the same.
AcceptFriendship(o) ==
  /\ At(o, "accept")
  /\ row' = [row EXCEPT ![PairOf(o)] = IF @ = "none" THEN @ ELSE "accepted"]
  /\ AnswerAdd(o)
  /\ UNCHANGED <<blocked, clashed>>

AddFails(o) ==
  /\ \E step \in AddSteps \ {"lock"} : At(o, step)
  /\ EndAdd(o)
  /\ UNCHANGED <<row, blocked, asked, clashed>>

RemoveFriend(u, v) ==
  LET p == {u, v}
  IN
  /\ u # v
  /\ row' = [row EXCEPT ![p] = "none"]
  /\ asked' = asked \ {<<u, v>>, <<v, u>>}
  /\ ops' = [o \in Ops |->
               IF o \in Busy /\ ops[o].kind = "add" /\ PairOf(o) = p /\ p \in Followed
               THEN [ops[o] EXCEPT !.void = TRUE] ELSE ops[o]]
  /\ UNCHANGED <<blocked, chain, clashed>>

---------------------------------------------------------------------------
(* BlockService.                                                           *)

RequestBlock(o, u, v) ==
  /\ ops[o] = NoOp /\ u # v /\ u \in Blockers
  /\ ops' = [ops EXCEPT ![o] =
               [kind |-> "block", user |-> u, other |-> v, step |-> "isBlocked"]]
  /\ Cardinality(Clash(u, "block")) <= MaxClashed
  /\ clashed' = Clash(u, "block")
  /\ UNCHANGED <<row, blocked, chain, asked>>

EndBlock(o) == ops' = [ops EXCEPT ![o] = NoOp]

\* A user who is blocked already is not counted against the limit.
IsBlocked(o) ==
  /\ At(o, "isBlocked")
  /\ Goto(o, IF <<ops[o].user, ops[o].other>> \in blocked
             THEN "insertBlock" ELSE "countBlocked")
  /\ UNCHANGED <<row, blocked, chain, asked, clashed>>

CountBlockedUsers(o) ==
  /\ At(o, "countBlocked")
  /\ IF Cardinality(BlockedBy(ops[o].user)) < MaxBlocked
     THEN Goto(o, "insertBlock") ELSE EndBlock(o)
  /\ UNCHANGED <<row, blocked, chain, asked, clashed>>

BlockUser(o) ==
  /\ At(o, "insertBlock")
  /\ blocked' = blocked \cup {<<ops[o].user, ops[o].other>>}
  /\ EndBlock(o)
  /\ UNCHANGED <<row, chain, asked, clashed>>

BlockFails(o) ==
  /\ \E step \in BlockSteps : At(o, step)
  /\ EndBlock(o)
  /\ UNCHANGED <<row, blocked, chain, asked, clashed>>

UnblockUser(u, v) ==
  /\ <<u, v>> \in blocked
  /\ blocked' = blocked \ {<<u, v>>}
  /\ UNCHANGED <<row, ops, chain, asked, clashed>>

---------------------------------------------------------------------------
Init ==
  /\ row = [p \in Pairs |-> "none"] /\ blocked = {}
  /\ ops = [o \in Ops |-> NoOp] /\ chain = [p \in Pairs |-> <<>>]
  /\ asked = {} /\ clashed = {}

Statement(o) ==
  \/ FindFriendshipStatus(o) \/ CountFriendSlots(o) \/ FindFriendship(o)
  \/ InsertFriendship(o) \/ AcceptFriendship(o) \/ AddFails(o)
  \/ IsBlocked(o) \/ CountBlockedUsers(o) \/ BlockUser(o) \/ BlockFails(o)

Next ==
  \/ \E o \in Ops : Statement(o)
  \/ \E o \in Ops, u, v \in Users : RequestAdd(o, u, v) \/ RequestBlock(o, u, v)
  \/ \E u, v \in Users : RemoveFriend(u, v) \/ UnblockUser(u, v)

Spec == Init /\ [][Next]_vars

---------------------------------------------------------------------------
\* Types of the tables, the requests in flight and the locks; a pair's lock is
\* held or waited for by exactly the adds of that pair.
TypeOK ==
  /\ row \in [Pairs -> Users \cup {"none", "accepted"}]
  /\ \A p \in Pairs : row[p] \in p \cup {"none", "accepted"}
  /\ blocked \subseteq Users \X Users
  /\ ops \in [Ops -> Requests \cup {NoOp}]
  /\ chain \in [Pairs -> Seq(Ops)]
  /\ \A p \in Pairs :
       {chain[p][i] : i \in DOMAIN chain[p]} =
         {o \in Busy : ops[o].kind = "add" /\ PairOf(o) = p}
  /\ asked \subseteq Users \X Users /\ clashed \subseteq Users

\* While an add is about to write, only a removal may have changed the row it
\* read: an insert meets no row, and what is accepted is the other user's
\* request, never one of the accepting user's own.
WritesWhatItRead ==
  \A o \in Busy :
    /\ ops[o].step = "insert" => row[PairOf(o)] = "none"
    /\ ops[o].step = "accept" => row[PairOf(o)] \in {"none", ops[o].other}

\* Requests that cross meet: two users who both asked, and were both answered
\* without an error since the pair was last removed, are friends.
CrossedRequestsMeet ==
  \A u, v \in Users :
    {<<u, v>>, <<v, u>>} \subseteq asked => row[{u, v}] = "accepted"

\* The caps hold for a user whose requests do not overlap, whatever the other
\* users ask, accept and remove meanwhile.
CapsWithoutOverlap ==
  \A u \in Users \ clashed :
    /\ Cardinality(FriendSlots(u)) <= MaxFriends
    /\ Cardinality(BlockedBy(u)) <= MaxBlocked
=============================================================================
