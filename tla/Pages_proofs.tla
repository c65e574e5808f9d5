--------------------------- MODULE Pages_proofs ----------------------------
(***************************************************************************)
(* What a page promises: the friends it shows, with the services behind    *)
(* them (Friends and FriendsPage), for any users, caps, requests in flight *)
(* and refreshes; and its session (ClientSession), for any Games, sockets  *)
(* and overlapping starts.                                                 *)
(*                                                                         *)
(* The inductive invariant of the services has two halves.  RowsInv says   *)
(* who may write a row: the adds of a pair stand in its chain once each,   *)
(* the first runs and the others wait, so what the first has read of the   *)
(* row is still there when it writes, but for a removal, and then its      *)
(* answer is void; and an answer that counts says what the row says.       *)
(* CapsInv says that a user whose requests do not overlap has one add, and *)
(* one block, in flight at most, and that one which has been counted has a *)
(* slot left until it writes, since what other users write takes none of   *)
(* its slots.  PageInv adds that a refresh nothing overlaps holds the      *)
(* friends of the moment.                                                  *)
(*                                                                         *)
(* SessionInvariant says what calls, sockets and Games have to do with     *)
(* each other: an attempt is under way exactly while the client says so, a *)
(* call awaits a socket of its own, and a socket belongs to the Game that  *)
(* dialled it.  Until a game is started again (hist.again) it says more:   *)
(* there is one call, the one socket is the current Game's current one, a  *)
(* timer, an attempt and a start exclude each other, and nothing of it     *)
(* remains after signing out.  That a user is there while anything is      *)
(* under way makes the timer's attempts real, unless signing in overlapped *)
(* the restore.                                                            *)
(***************************************************************************)
EXTENDS FriendsPage, ClientSession, FiniteSetTheorems, SequenceTheorems, TLAPS

\* The first of a pair's adds runs, the others wait.
LocksHandOver ==
  \A p \in Pairs : \A i, j \in DOMAIN chain[p] :
    /\ chain[p][i] = chain[p][j] => i = j
    /\ ops[chain[p][i]].step = "lock" <=> i # 1

Distinct == \A o \in Busy : ops[o].user # ops[o].other

VoidWhenRemoved ==
  \A o \in Busy :
    (ops[o].step = "accept" /\ row[PairOf(o)] = "none" /\ PairOf(o) \in Followed) => ops[o].void

AskedStands ==
  \A u, v \in Users : <<u, v>> \in asked => u # v /\ row[{u, v}] \in {"accepted", u}

OneAtATime ==
  \A o, q \in Busy :
    (ops[o].user \notin clashed /\ ops[q].user = ops[o].user /\ ops[q].kind = ops[o].kind) => q = o

SlotLeft(o) ==
  /\ ops[o].step \in {"find", "insert", "accept"} =>
       Cardinality(FriendSlots(ops[o].user)) < MaxFriends
  /\ ops[o].step = "insertBlock" =>
       Cardinality(BlockedBy(ops[o].user) \cup {<<ops[o].user, ops[o].other>>}) <= MaxBlocked
SlotsLeft == \A o \in Busy : ops[o].user \notin clashed => SlotLeft(o)

\* The inductive invariant of the services: the rows and the locks, and the caps.
RowsInv ==
  /\ TypeOK /\ Distinct /\ LocksHandOver
  /\ WritesWhatItRead /\ VoidWhenRemoved /\ AskedStands
CapsInv == OneAtATime /\ SlotsLeft /\ CapsWithoutOverlap

---------------------------------------------------------------------------
LEMMA PairsAre ==
  /\ \A u, v \in Users : u # v => {u, v} \in Pairs
  /\ \A p \in Pairs : \E u, v \in Users : u # v /\ p = {u, v}
<1>1. ASSUME NEW u \in Users, NEW v \in Users, u # v PROVE {u, v} \in Pairs
  <2>1. <<u, v>> \in {q \in Users \X Users : q[1] # q[2]}
    BY <1>1
  <2>2. {<<u, v>>[1], <<u, v>>[2]} = {u, v}
    OBVIOUS
  <2> QED
    BY <2>1, <2>2 DEF Pairs
<1>2. ASSUME NEW p \in Pairs PROVE \E u, v \in Users : u # v /\ p = {u, v}
  BY DEF Pairs
<1> QED
  BY <1>1, <1>2

\* The fields of a request in flight.
LEMMA OpIs ==
  ASSUME FriendsAssumption, ops \in [Ops -> Requests \cup {NoOp}], Distinct, NEW o \in Busy
  PROVE  /\ o \in Ops /\ ops[o] \in Requests
         /\ ops[o].user \in Users /\ ops[o].other \in Users /\ ops[o].user # ops[o].other
         /\ PairOf(o) \in Pairs
         /\ \/ ops[o].kind = "add" /\ ops[o].step \in AddSteps /\ ops[o].void \in BOOLEAN
            \/ ops[o].kind = "block" /\ ops[o].step \in BlockSteps
<1>1. o \in Ops /\ ops[o] \in Requests
  BY DEF Busy
<1>2. ops[o].user # ops[o].other
  BY DEF Distinct
<1>3. /\ ops[o].user \in Users /\ ops[o].other \in Users
      /\ \/ ops[o].kind = "add" /\ ops[o].step \in AddSteps /\ ops[o].void \in BOOLEAN
         \/ ops[o].kind = "block" /\ ops[o].step \in BlockSteps
  BY <1>1 DEF Requests
<1>4. PairOf(o) \in Pairs
  BY <1>2, <1>3, PairsAre DEF PairOf
<1> QED
  BY <1>1, <1>2, <1>3, <1>4

\* An add and a block are told apart by their steps.
LEMMA StepsApart == AddSteps \cap BlockSteps = {}
BY DEF AddSteps, BlockSteps

LEMMA RecordSteps ==
  ASSUME NEW r \in Requests, NEW s,
         (r.kind = "add" /\ s \in AddSteps) \/ (r.kind = "block" /\ s \in BlockSteps)
  PROVE  /\ [r EXCEPT !.step = s] \in Requests
         /\ [r EXCEPT !.step = s].step = s
         /\ [r EXCEPT !.step = s].kind = r.kind
         /\ [r EXCEPT !.step = s].user = r.user
         /\ [r EXCEPT !.step = s].other = r.other
         /\ r.kind = "add" => [r EXCEPT !.step = s].void = r.void
<1>1. CASE r \in [kind : {"add"}, user : Users, other : Users, step : AddSteps, void : BOOLEAN]
  BY <1>1 DEF Requests
<1>2. CASE r \in [kind : {"block"}, user : Users, other : Users, step : BlockSteps]
  BY <1>2 DEF Requests
<1> QED
  BY <1>1, <1>2 DEF Requests

\* What a step leaves of a request.
SameRequest(q) ==
  /\ ops'[q].kind = ops[q].kind /\ ops'[q].user = ops[q].user /\ ops'[q].other = ops[q].other
  /\ ops[q].kind = "add" => ops'[q].void = ops[q].void

LEMMA GotoIs ==
  ASSUME FriendsAssumption, ops \in [Ops -> Requests \cup {NoOp}], Distinct,
         NEW o \in Busy, NEW s, Goto(o, s),
         (ops[o].kind = "add" /\ s \in AddSteps) \/ (ops[o].kind = "block" /\ s \in BlockSteps)
  PROVE  /\ ops' \in [Ops -> Requests \cup {NoOp}]
         /\ Busy' = Busy
         /\ \A q \in Busy : SameRequest(q)
         /\ \A q \in Busy \ {o} : ops'[q] = ops[q]
         /\ ops'[o].step = s
<1>1. o \in Ops /\ ops[o] \in Requests
  BY OpIs
<1>2. [ops[o] EXCEPT !.step = s] \in Requests
  BY <1>1, RecordSteps
<1>3. ops' = [ops EXCEPT ![o] = [ops[o] EXCEPT !.step = s]]
  BY <1>1 DEF Goto
<1> DEFINE r == [ops[o] EXCEPT !.step = s]
<1>4. /\ r.step = s /\ r.kind = ops[o].kind /\ r.user = ops[o].user /\ r.other = ops[o].other
      /\ ops[o].kind = "add" => r.void = ops[o].void
  BY <1>1, RecordSteps
<1>5. ops' = [ops EXCEPT ![o] = r] /\ r \in Requests
  BY <1>2, <1>3
<1> HIDE DEF r
<1>6. ops' \in [Ops -> Requests \cup {NoOp}] /\ ops'[o] = r /\ \A q \in Ops \ {o} : ops'[q] = ops[q]
  BY <1>1, <1>5
<1>7. Busy' = Busy
  BY <1>1, <1>5, <1>6 DEF Busy, FriendsAssumption
<1>8. \A q \in Busy \ {o} : ops'[q] = ops[q]
  BY <1>6 DEF Busy
<1>9. \A q \in Busy : SameRequest(q)
  BY <1>4, <1>6, <1>8 DEF SameRequest
<1> QED
  BY <1>4, <1>6, <1>7, <1>8, <1>9

LEMMA EndBlockIs ==
  ASSUME FriendsAssumption, ops \in [Ops -> Requests \cup {NoOp}], NEW o \in Busy, EndBlock(o)
  PROVE  /\ ops' \in [Ops -> Requests \cup {NoOp}]
         /\ Busy' = Busy \ {o}
         /\ \A q \in Busy \ {o} : ops'[q] = ops[q]
<1>1. o \in Ops
  BY DEF Busy
<1>2. ops' \in [Ops -> Requests \cup {NoOp}] /\ ops'[o] = NoOp /\ \A q \in Ops \ {o} : ops'[q] = ops[q]
  BY <1>1 DEF EndBlock
<1> QED
  BY <1>2 DEF Busy

\* The adds of a pair are the ones in its chain.
Chains ==
  /\ chain \in [Pairs -> Seq(Ops)]
  /\ \A p \in Pairs :
       {chain[p][i] : i \in DOMAIN chain[p]} =
         {o \in Busy : ops[o].kind = "add" /\ PairOf(o) = p}

\* The add that runs is the first of its pair's chain.
LEMMA HolderIsFirst ==
  ASSUME FriendsAssumption, ops \in [Ops -> Requests \cup {NoOp}], Distinct, Chains, LocksHandOver,
         NEW o \in Busy, ops[o].kind = "add", ops[o].step # "lock"
  PROVE  /\ chain[PairOf(o)] \in Seq(Ops) /\ Len(chain[PairOf(o)]) \in Nat \ {0}
         /\ chain[PairOf(o)][1] = o
<1>1. PairOf(o) \in Pairs
  BY OpIs
<1>2. chain[PairOf(o)] \in Seq(Ops)
  BY <1>1 DEF Chains
<1>3. o \in {chain[PairOf(o)][i] : i \in DOMAIN chain[PairOf(o)]}
  BY <1>1 DEF Chains
<1>4. PICK i \in DOMAIN chain[PairOf(o)] : chain[PairOf(o)][i] = o
  BY <1>3
<1>5. i = 1
  BY <1>1, <1>4 DEF LocksHandOver
<1> QED
  BY <1>2, <1>4, <1>5

\* Two adds of a pair do not run at once.
LEMMA OneRuns ==
  ASSUME FriendsAssumption, ops \in [Ops -> Requests \cup {NoOp}], Distinct, Chains, LocksHandOver,
         NEW o \in Busy, ops[o].kind = "add", ops[o].step # "lock",
         NEW q \in Busy, ops[q].kind = "add", ops[q].step # "lock", PairOf(o) = PairOf(q)
  PROVE  o = q
BY HolderIsFirst

LEMMA TailIs ==
  ASSUME NEW S, NEW c \in Seq(S), Len(c) \in Nat \ {0}
  PROVE  /\ Tail(c) \in Seq(S) /\ Len(Tail(c)) = Len(c) - 1
         /\ \A i \in 1 .. Len(c) - 1 : Tail(c)[i] = c[i + 1]
         /\ Tail(c) # <<>> <=> Len(c) > 1
<1>1. c # <<>>
  OBVIOUS
<1>2. /\ Tail(c) \in Seq(S) /\ Len(Tail(c)) = Len(c) - 1
      /\ \A i \in 1 .. Len(c) - 1 : Tail(c)[i] = c[i + 1]
  BY <1>1
<1>3. Tail(c) # <<>> <=> Len(c) > 1
  <2>1. Tail(c) = <<>> <=> Len(Tail(c)) = 0
    BY <1>2, EmptySeq
  <2> QED
    BY <1>2, <2>1
<1> QED
  BY <1>2, <1>3

LEMMA EndAddIs ==
  ASSUME FriendsAssumption, ops \in [Ops -> Requests \cup {NoOp}], Distinct, Chains, LocksHandOver,
         NEW o \in Busy, ops[o].kind = "add", ops[o].step # "lock", EndAdd(o)
  PROVE  /\ ops' \in [Ops -> Requests \cup {NoOp}]
         /\ Busy' = Busy \ {o}
         /\ \A q \in Busy \ {o} :
              /\ SameRequest(q)
              /\ ops'[q].step = ops[q].step \/ (ops[q].step = "lock" /\ ops'[q].step = "status")
         /\ Chains' /\ LocksHandOver'
<1> DEFINE p == PairOf(o)
           c == chain[p]
<1>1. /\ p \in Pairs /\ c \in Seq(Ops) /\ Len(c) \in Nat \ {0} /\ c[1] = o /\ DOMAIN c = 1 .. Len(c)
      /\ o \in Ops
  BY HolderIsFirst, OpIs
<1>2. \A i, j \in 1 .. Len(c) : (c[i] = c[j] => i = j) /\ (ops[c[i]].step = "lock" <=> i # 1)
  BY <1>1 DEF LocksHandOver
<1>3. \A i \in 1 .. Len(c) : c[i] \in Busy /\ ops[c[i]].kind = "add" /\ PairOf(c[i]) = p
  <2>1. {c[i] : i \in DOMAIN c} = {q \in Busy : ops[q].kind = "add" /\ PairOf(q) = p}
    BY <1>1 DEF Chains
  <2> QED
    BY <1>1, <2>1
<1>4. /\ Tail(c) \in Seq(Ops) /\ Len(Tail(c)) = Len(c) - 1
      /\ \A i \in 1 .. Len(c) - 1 : Tail(c)[i] = c[i + 1]
      /\ Tail(c) # <<>> <=> Len(c) > 1
  BY <1>1, TailIs
<1>5. chain' = [chain EXCEPT ![p] = Tail(c)]
  BY DEF EndAdd
<1>6. Chains => chain' \in [Pairs -> Seq(Ops)] /\ chain'[p] = Tail(c)
                /\ \A r \in Pairs \ {p} : chain'[r] = chain[r]
  BY <1>1, <1>4, <1>5 DEF Chains
\* Who runs next.
<1> DEFINE next == IF Len(c) > 1 THEN {c[2]} ELSE {}
<1>7. \A n \in next : n \in Busy /\ n # o /\ ops[n].step = "lock" /\ ops[n].kind = "add" /\ PairOf(n) = p
  BY <1>1, <1>2, <1>3
<1>8. ops' = [q \in Ops |-> IF q = o THEN NoOp
                            ELSE IF q \in next THEN [ops[q] EXCEPT !.step = IF @ = "lock" THEN "status" ELSE @]
                            ELSE ops[q]]
  <2>1. Len(c) > 1 => Tail(c)[1] = c[2]
    BY <1>1, <1>4
  <2>2. \A q : (Tail(c) # <<>> /\ q = Tail(c)[1]) <=> q \in next
    BY <1>4, <2>1
  <2>3. ops' = [q \in Ops |-> IF q = o THEN NoOp
                  ELSE IF Tail(c) # <<>> /\ q = Tail(c)[1] THEN [ops[q] EXCEPT !.step = IF @ = "lock" THEN "status" ELSE @]
                  ELSE ops[q]]
    BY DEF EndAdd
  <2> HIDE DEF next, c, p
  <2> QED
    BY <2>2, <2>3
<1>9. \A n \in next : [ops[n] EXCEPT !.step = IF @ = "lock" THEN "status" ELSE @] = [ops[n] EXCEPT !.step = "status"]
  BY <1>7
<1> HIDE DEF next
<1>10. /\ ops'[o] = NoOp
       /\ \A n \in next : ops'[n] = [ops[n] EXCEPT !.step = "status"]
       /\ \A q \in Ops \ (next \cup {o}) : ops'[q] = ops[q]
  <2>1. \A n \in next : n \in Ops /\ n # o
    BY <1>7 DEF Busy
  <2> QED
    BY <1>1, <1>8, <1>9, <2>1
<1>11. ASSUME NEW n \in next
       PROVE  /\ [ops[n] EXCEPT !.step = "status"] \in Requests
              /\ SameRequest(n) /\ ops[n].step = "lock" /\ ops'[n].step = "status"
  <2>1. ops[n] \in Requests /\ ops[n].kind = "add" /\ "status" \in AddSteps
    BY <1>7 DEF Busy, AddSteps
  <2>2. ops'[n] = [ops[n] EXCEPT !.step = "status"]
    BY <1>10
  <2>3. /\ [ops[n] EXCEPT !.step = "status"] \in Requests
        /\ ops'[n].step = "status" /\ ops'[n].kind = ops[n].kind
        /\ ops'[n].user = ops[n].user /\ ops'[n].other = ops[n].other
        /\ ops'[n].void = ops[n].void
    BY <2>1, <2>2, RecordSteps
  <2> QED
    BY <1>7, <2>3 DEF SameRequest
<1>12. \A q \in Busy \ {o} :
         /\ SameRequest(q)
         /\ ops'[q].step = ops[q].step \/ (ops[q].step = "lock" /\ ops'[q].step = "status")
  <2> TAKE q \in Busy \ {o}
  <2>1. CASE q \in next
    BY <1>11, <2>1
  <2>2. CASE q \notin next
    BY <1>10, <2>2 DEF Busy, SameRequest
  <2> QED
    BY <2>1, <2>2
<1>13. ops' \in [Ops -> Requests \cup {NoOp}]
  <2>1. ASSUME NEW q \in Ops PROVE ops'[q] \in Requests \cup {NoOp}
    <3>1. CASE q = o
      BY <1>10, <3>1
    <3>2. CASE q \in next
      BY <1>10, <1>11, <3>2
    <3> QED
      BY <1>10, <3>1, <3>2
  <2>2. ops' = [q \in Ops |-> ops'[q]]
    BY <1>8
  <2> QED
    BY <2>1, <2>2
<1>14. Busy' = Busy \ {o}
  <2>1. ASSUME NEW q \in Ops \ {o} PROVE ops'[q] # NoOp <=> ops[q] # NoOp
    <3>1. CASE q \in next
      <4>1. ops'[q] \in Requests
        BY <1>10, <1>11, <3>1
      <4>2. ops[q] # NoOp
        BY <1>7, <3>1 DEF Busy
      <4> QED
        BY <4>1, <4>2 DEF FriendsAssumption
    <3> QED
      BY <1>10, <3>1
  <2> QED
    BY <1>10, <2>1 DEF Busy
<1>15. \A q \in Busy \ {o} : PairOf(q)' = PairOf(q) /\ ops'[q].kind = ops[q].kind
  BY <1>12 DEF SameRequest, PairOf
<1>16. ASSUME NEW r \in Pairs
       PROVE  /\ {chain'[r][i] : i \in DOMAIN chain'[r]} = {q \in Busy' : ops'[q].kind = "add" /\ PairOf(q)' = r}
              /\ \A i, j \in DOMAIN chain'[r] :
                   /\ chain'[r][i] = chain'[r][j] => i = j
                   /\ ops'[chain'[r][i]].step = "lock" <=> i # 1
  <2>1. {chain[r][i] : i \in DOMAIN chain[r]} = {q \in Busy : ops[q].kind = "add" /\ PairOf(q) = r}
    BY DEF Chains
  <2>2. {q \in Busy' : ops'[q].kind = "add" /\ PairOf(q)' = r}
          = {q \in Busy : ops[q].kind = "add" /\ PairOf(q) = r} \ {o}
    BY <1>14, <1>15
  <2>3. CASE r # p
    <3>1. chain'[r] = chain[r]
      BY <1>6, <2>3
    <3>2. o \notin {q \in Busy : ops[q].kind = "add" /\ PairOf(q) = r}
      BY <2>3
    <3>3. \A i \in DOMAIN chain[r] : chain[r][i] \in Busy \ {o} /\ PairOf(chain[r][i]) = r
      BY <2>1, <3>2
    <3>4. \A i \in DOMAIN chain[r] : ops'[chain[r][i]] = ops[chain[r][i]]
      BY <1>7, <1>10, <2>3, <3>3 DEF Busy
    <3>5. \A i, j \in DOMAIN chain[r] :
            /\ chain[r][i] = chain[r][j] => i = j
            /\ ops[chain[r][i]].step = "lock" <=> i # 1
      BY DEF LocksHandOver
    <3> QED
      BY <2>1, <2>2, <3>1, <3>2, <3>4, <3>5
  <2>4. CASE r = p
    <3>1. chain'[r] = Tail(c) /\ DOMAIN Tail(c) = 1 .. Len(c) - 1
      BY <1>4, <1>6, <2>4
    <3>2. \A i \in 1 .. Len(c) - 1 : Tail(c)[i] = c[i + 1] /\ i + 1 \in 1 .. Len(c) /\ i + 1 # 1
      BY <1>1, <1>4
    <3>3. {Tail(c)[i] : i \in 1 .. Len(c) - 1} = {c[i] : i \in 1 .. Len(c)} \ {o}
      <4>1. \A i \in 1 .. Len(c) : i # 1 => i - 1 \in 1 .. Len(c) - 1 /\ (i - 1) + 1 = i
        BY <1>1
      <4>2. \A i \in 1 .. Len(c) : c[i] = o <=> i = 1
        BY <1>1, <1>2
      <4> HIDE DEF c, p
      <4>3. \A i \in 1 .. Len(c) : c[i] # o => c[i] \in {Tail(c)[k] : k \in 1 .. Len(c) - 1}
        BY <3>2, <4>1, <4>2
      <4>4. \A i \in 1 .. Len(c) - 1 : Tail(c)[i] \in {c[k] : k \in 1 .. Len(c)} \ {o}
        BY <3>2, <4>2
      <4> QED
        BY <4>3, <4>4
    <3>4. {chain'[r][i] : i \in DOMAIN chain'[r]} = {q \in Busy' : ops'[q].kind = "add" /\ PairOf(q)' = r}
      <4>1. {c[i] : i \in 1 .. Len(c)} = {chain[r][i] : i \in DOMAIN chain[r]}
        BY <1>1, <2>4
      <4>2. {chain'[r][i] : i \in DOMAIN chain'[r]} = {Tail(c)[i] : i \in 1 .. Len(c) - 1}
        BY <3>1
      <4> HIDE DEF c
      <4> QED
        BY <2>1, <2>2, <3>3, <4>1, <4>2
    <3>5. ASSUME NEW i \in 1 .. Len(c) - 1, NEW j \in 1 .. Len(c) - 1
          PROVE  /\ Tail(c)[i] = Tail(c)[j] => i = j
                 /\ ops'[Tail(c)[i]].step = "lock" <=> i # 1
      <4>1. Tail(c)[i] = Tail(c)[j] => i + 1 = j + 1
        BY <1>2, <3>2
      <4>2. CASE i = 1
        <5>1. Tail(c)[i] = c[2] /\ Len(c) > 1
          BY <1>1, <3>2, <4>2
        <5>2. c[2] \in next
          BY <5>1 DEF next
        <5>3. ops'[c[2]].step # "lock"
          BY <1>11, <5>2
        <5> QED
          BY <4>1, <4>2, <5>1, <5>3
      <4>3. CASE i # 1
        <5>1. ops[c[i + 1]].step = "lock" /\ c[i + 1] \in Busy /\ c[i + 1] # o
          BY <1>1, <1>2, <1>3, <3>2
        <5>2. i + 1 # 2 /\ (Len(c) > 1 => 2 \in 1 .. Len(c))
          BY <1>1, <4>3
        <5>3. c[i + 1] \notin next
          BY <1>2, <3>2, <5>2 DEF next
        <5>4. ops'[c[i + 1]] = ops[c[i + 1]]
          BY <1>10, <5>1, <5>3 DEF Busy
        <5> QED
          BY <3>2, <4>1, <4>3, <5>1, <5>4
      <4> QED
        BY <4>2, <4>3
    <3> QED
      BY <3>1, <3>4, <3>5
  <2> QED
    BY <2>3, <2>4
<1>17. Chains'
  BY <1>6, <1>16 DEF Chains
<1>18. LocksHandOver'
  BY <1>16 DEF LocksHandOver
<1> QED
  BY <1>12, <1>13, <1>14, <1>17, <1>18

RowTypes ==
  /\ row \in [Pairs -> Users \cup {"none", "accepted"}]
  /\ \A p \in Pairs : row[p] \in p \cup {"none", "accepted"}
  /\ blocked \subseteq Users \X Users
  /\ asked \subseteq Users \X Users /\ clashed \subseteq Users

LEMMA TypesAre == TypeOK <=> RowTypes /\ Chains /\ ops \in [Ops -> Requests \cup {NoOp}]
BY DEF TypeOK, RowTypes, Chains

\* What is left of the row a request has read.
Writes(o) ==
  /\ ops[o].step = "insert" => row[PairOf(o)] = "none"
  /\ ops[o].step = "accept" =>
       /\ row[PairOf(o)] \in {"none", ops[o].other}
       /\ row[PairOf(o)] = "none" /\ PairOf(o) \in Followed => ops[o].void

LEMMA WritesAre == WritesWhatItRead /\ VoidWhenRemoved <=> \A o \in Busy : Writes(o)
BY DEF WritesWhatItRead, VoidWhenRemoved, Writes

Running(o) == o \in Busy /\ ops[o].kind = "add" /\ ops[o].step # "lock"

\* The requests of others go on while an add runs, and so do its pair's.
LEMMA OthersWrite ==
  ASSUME FriendsAssumption, RowsInv, NEW o, Running(o), NEW q \in Busy' \ {o}, q \in Busy, SameRequest(q),
         ops'[q].step = ops[q].step \/ ops'[q].step = "status",
         \A r \in Pairs \ {PairOf(o)} : row'[r] = row[r]
  PROVE  Writes(q)' /\ ops'[q].user # ops'[q].other
<1>1. /\ ops \in [Ops -> Requests \cup {NoOp}] /\ Distinct /\ Chains /\ LocksHandOver /\ Writes(q)
      /\ o \in Busy /\ ops[o].kind = "add" /\ ops[o].step # "lock"
  BY TypesAre, WritesAre DEF RowsInv, Running
<1>2. ops[q].user # ops[q].other /\ PairOf(q) \in Pairs /\ PairOf(q)' = PairOf(q)
  BY <1>1, OpIs DEF SameRequest, PairOf
<1>3. ASSUME ops'[q].step \in {"insert", "accept"} PROVE Writes(q)'
  <2>1. ops[q].step = ops'[q].step /\ ops[q].kind = "add"
    <3>1. ops[q].step = ops'[q].step
      BY <1>3
    <3> QED
      BY <1>1, <1>3, <3>1, OpIs DEF BlockSteps
  <2>2. PairOf(q) # PairOf(o)
    BY <1>1, <1>3, <2>1, OneRuns
  <2>3. row'[PairOf(q)] = row[PairOf(q)]
    BY <1>2, <2>2
  <2> QED
    BY <1>1, <1>2, <2>1, <2>3 DEF Writes, SameRequest
<1>4. ASSUME ops'[q].step \notin {"insert", "accept"} PROVE Writes(q)'
  BY <1>4 DEF Writes
<1> QED
  BY <1>2, <1>3, <1>4 DEF SameRequest

LEMMA AddEnds ==
  ASSUME FriendsAssumption, RowsInv, NEW o, Running(o), EndAdd(o), RowTypes', AskedStands',
         \A r \in Pairs \ {PairOf(o)} : row'[r] = row[r]
  PROVE  RowsInv'
<1>1. /\ ops \in [Ops -> Requests \cup {NoOp}] /\ Distinct /\ Chains /\ LocksHandOver
      /\ o \in Busy /\ ops[o].kind = "add" /\ ops[o].step # "lock"
  BY TypesAre DEF RowsInv, Running
<1>2. /\ ops' \in [Ops -> Requests \cup {NoOp}]
      /\ Busy' = Busy \ {o}
      /\ \A q \in Busy \ {o} :
           /\ SameRequest(q)
           /\ ops'[q].step = ops[q].step \/ (ops[q].step = "lock" /\ ops'[q].step = "status")
      /\ Chains' /\ LocksHandOver'
  BY <1>1, EndAddIs
<1>3. TypeOK'
  BY <1>2 DEF TypeOK, RowTypes, Chains
<1>4. ASSUME NEW q \in Busy' PROVE Writes(q)' /\ ops'[q].user # ops'[q].other
  <2>1. q \in Busy' \ {o} /\ q \in Busy
    BY <1>2
  <2> QED
    BY <1>2, <2>1, OthersWrite
<1>5. Distinct' /\ WritesWhatItRead' /\ VoidWhenRemoved'
  BY <1>4 DEF Distinct, WritesWhatItRead, VoidWhenRemoved, Writes
<1> QED
  BY <1>2, <1>3, <1>5 DEF RowsInv

LEMMA AddGoesOn ==
  ASSUME FriendsAssumption, RowsInv, NEW o, Running(o), NEW s \in AddSteps \ {"lock"}, Goto(o, s),
         UNCHANGED <<row, blocked, chain, asked, clashed>>, Writes(o)'
  PROVE  RowsInv'
<1>1. /\ ops \in [Ops -> Requests \cup {NoOp}] /\ Distinct /\ Chains /\ LocksHandOver /\ RowTypes /\ AskedStands
      /\ o \in Busy /\ ops[o].kind = "add" /\ ops[o].step # "lock"
  BY TypesAre DEF RowsInv, Running
<1>2. /\ ops' \in [Ops -> Requests \cup {NoOp}]
      /\ Busy' = Busy
      /\ \A q \in Busy : SameRequest(q)
      /\ \A q \in Busy \ {o} : ops'[q] = ops[q]
      /\ ops'[o].step = s
  BY <1>1, GotoIs
<1>3. \A q \in Busy : PairOf(q)' = PairOf(q) /\ ops'[q].kind = ops[q].kind
                      /\ (ops'[q].step = "lock" <=> ops[q].step = "lock")
  BY <1>1, <1>2 DEF SameRequest, PairOf
<1>4. Chains'
  BY <1>1, <1>2, <1>3 DEF Chains
<1>5. LocksHandOver'
  <2> SUFFICES ASSUME NEW p \in Pairs, NEW i \in DOMAIN chain[p], NEW j \in DOMAIN chain[p]
               PROVE  /\ chain[p][i] = chain[p][j] => i = j
                      /\ ops'[chain[p][i]].step = "lock" <=> i # 1
    BY <1>1 DEF LocksHandOver
  <2>1. chain[p][i] \in {chain[p][k] : k \in DOMAIN chain[p]}
    OBVIOUS
  <2>2. chain[p][i] \in Busy
    BY <1>1, <2>1 DEF Chains
  <2>3. ops'[chain[p][i]].step = "lock" <=> ops[chain[p][i]].step = "lock"
    BY <1>3, <2>2
  <2> QED
    BY <1>1, <2>3 DEF LocksHandOver
<1>6. TypeOK'
  BY <1>1, <1>2, <1>4 DEF TypeOK, RowTypes, Chains
<1>7. ASSUME NEW q \in Busy' PROVE Writes(q)' /\ ops'[q].user # ops'[q].other
  <2>1. CASE q = o
    BY <1>1, <1>2, <2>1 DEF SameRequest, Distinct
  <2>2. CASE q # o
    <3>1. q \in Busy' \ {o} /\ q \in Busy
      BY <1>2, <2>2
    <3> QED
      BY <1>2, <3>1, OthersWrite
  <2> QED
    BY <2>1, <2>2
<1>8. Distinct' /\ WritesWhatItRead' /\ VoidWhenRemoved'
  BY <1>7 DEF Distinct, WritesWhatItRead, VoidWhenRemoved, Writes
<1>9. AskedStands'
  BY <1>1 DEF AskedStands
<1> QED
  BY <1>5, <1>6, <1>8, <1>9 DEF RowsInv

\* Requests that start wait at the end of their pair's chain.
LEMMA RequestAddRows ==
  ASSUME FriendsAssumption, RowsInv, NEW o \in Ops, NEW u \in Users, NEW v \in Users, RequestAdd(o, u, v)
  PROVE  RowsInv'
<1> DEFINE p == {u, v}
           s == IF LockFree(p) THEN "status" ELSE "lock"
           r == [kind |-> "add", user |-> u, other |-> v, void |-> FALSE, step |-> s]
           c == chain[p]
<1>1. /\ ops \in [Ops -> Requests \cup {NoOp}] /\ Distinct /\ Chains /\ LocksHandOver /\ RowTypes /\ AskedStands
      /\ WritesWhatItRead /\ VoidWhenRemoved
  BY TypesAre DEF RowsInv
<1>2. /\ ops[o] = NoOp /\ u # v
      /\ chain' = [chain EXCEPT ![p] = Append(c, o)]
      /\ ops' = [ops EXCEPT ![o] = r]
      /\ UNCHANGED <<row, blocked, asked>> /\ clashed' \in {clashed, clashed \cup {u}}
  BY DEF RequestAdd, Clash
<1>3. /\ r.kind = "add" /\ r.user = u /\ r.other = v /\ r.step = s /\ s \in {"status", "lock"}
      /\ s = "lock" <=> c # <<>>
  BY DEF LockFree
<1>4. r \in Requests
  BY DEF Requests, AddSteps
<1> HIDE DEF r, s
<1>5. /\ p \in Pairs /\ c \in Seq(Ops) /\ Append(c, o) \in Seq(Ops)
      /\ Len(Append(c, o)) = Len(c) + 1 /\ Append(c, o)[Len(c) + 1] = o
      /\ \A i \in 1 .. Len(c) : Append(c, o)[i] = c[i]
      /\ Len(c) \in Nat /\ DOMAIN c = 1 .. Len(c) /\ (c = <<>> <=> Len(c) = 0)
      /\ DOMAIN Append(c, o) = 1 .. Len(c) + 1
  <2>1. p \in Pairs
    BY <1>2, PairsAre
  <2>2. c \in Seq(Ops)
    BY <1>1, <2>1 DEF Chains
  <2> HIDE DEF c, p
  <2> QED
    BY <2>1, <2>2, EmptySeq
<1>6. /\ ops' \in [Ops -> Requests \cup {NoOp}] /\ ops'[o] = r /\ \A q \in Ops \ {o} : ops'[q] = ops[q]
      /\ o \notin Busy /\ Busy' = Busy \cup {o}
  <2>1. /\ ops' \in [Ops -> Requests \cup {NoOp}] /\ ops'[o] = r /\ \A q \in Ops \ {o} : ops'[q] = ops[q]
    BY <1>1, <1>2, <1>4
  <2>2. r # NoOp
    BY <1>4 DEF FriendsAssumption
  <2> QED
    BY <1>2, <2>1, <2>2 DEF Busy
<1>7. PairOf(o)' = p /\ \A q \in Busy : ops'[q] = ops[q] /\ PairOf(q)' = PairOf(q)
  BY <1>3, <1>6 DEF PairOf, Busy
<1>8. /\ chain' \in [Pairs -> Seq(Ops)] /\ chain'[p] = Append(c, o)
      /\ \A t \in Pairs \ {p} : chain'[t] = chain[t]
  <2> HIDE DEF p, c
  <2> QED
    BY <1>1, <1>2, <1>5 DEF Chains
<1>9. ASSUME NEW t \in Pairs
      PROVE  /\ {chain[t][i] : i \in DOMAIN chain[t]} = {q \in Busy : ops[q].kind = "add" /\ PairOf(q) = t}
             /\ \A i \in DOMAIN chain[t] : chain[t][i] \in Busy
             /\ \A i, j \in DOMAIN chain[t] :
                  /\ chain[t][i] = chain[t][j] => i = j
                  /\ ops[chain[t][i]].step = "lock" <=> i # 1
  <2>1. {chain[t][i] : i \in DOMAIN chain[t]} = {q \in Busy : ops[q].kind = "add" /\ PairOf(q) = t}
    BY <1>1 DEF Chains
  <2> QED
    BY <1>1, <2>1 DEF LocksHandOver
<1>10. ASSUME NEW t \in Pairs
       PROVE  /\ {chain'[t][i] : i \in DOMAIN chain'[t]} = {q \in Busy' : ops'[q].kind = "add" /\ PairOf(q)' = t}
              /\ \A i, j \in DOMAIN chain'[t] :
                   /\ chain'[t][i] = chain'[t][j] => i = j
                   /\ ops'[chain'[t][i]].step = "lock" <=> i # 1
  <2>1. CASE t # p
    <3>1. chain'[t] = chain[t]
      BY <1>8, <2>1
    <3>2. {q \in Busy' : ops'[q].kind = "add" /\ PairOf(q)' = t} = {q \in Busy : ops[q].kind = "add" /\ PairOf(q) = t}
      BY <1>6, <1>7, <2>1
    <3> QED
      BY <1>7, <1>9, <3>1, <3>2
  <2>2. CASE t = p
    <3>1. chain'[t] = Append(c, o) /\ DOMAIN Append(c, o) = 1 .. Len(c) + 1
      BY <1>5, <1>8, <2>2
    <3>2. {q \in Busy' : ops'[q].kind = "add" /\ PairOf(q)' = t}
            = {q \in Busy : ops[q].kind = "add" /\ PairOf(q) = t} \cup {o}
      BY <1>3, <1>6, <1>7, <2>2
    <3>3. {Append(c, o)[i] : i \in 1 .. Len(c) + 1} = {c[i] : i \in 1 .. Len(c)} \cup {o}
      <4>1. \A i \in 1 .. Len(c) + 1 : i = Len(c) + 1 \/ i \in 1 .. Len(c)
        BY <1>5
      <4>2. Len(c) + 1 \in 1 .. Len(c) + 1 /\ \A i \in 1 .. Len(c) : i \in 1 .. Len(c) + 1
        BY <1>5
      <4>3. ASSUME NEW i \in 1 .. Len(c) + 1 PROVE Append(c, o)[i] \in {c[k] : k \in 1 .. Len(c)} \cup {o}
        BY <1>5, <4>1
      <4>4. ASSUME NEW i \in 1 .. Len(c) PROVE c[i] \in {Append(c, o)[k] : k \in 1 .. Len(c) + 1}
        BY <1>5, <4>2
      <4>5. o \in {Append(c, o)[k] : k \in 1 .. Len(c) + 1}
        BY <1>5, <4>2
      <4> HIDE DEF c
      <4> QED
        BY <4>3, <4>4, <4>5
    <3>4. {chain'[t][i] : i \in DOMAIN chain'[t]} = {q \in Busy' : ops'[q].kind = "add" /\ PairOf(q)' = t}
      <4>1. {c[i] : i \in 1 .. Len(c)} = {chain[t][i] : i \in DOMAIN chain[t]}
        BY <1>5, <2>2
      <4>2. {chain'[t][i] : i \in DOMAIN chain'[t]} = {Append(c, o)[i] : i \in 1 .. Len(c) + 1}
        BY <3>1
      <4> HIDE DEF c
      <4> QED
        BY <1>9, <3>2, <3>3, <4>1, <4>2
    <3>5. /\ \A i \in 1 .. Len(c) : c[i] \in Busy /\ c[i] # o
          /\ \A i, j \in 1 .. Len(c) : (c[i] = c[j] => i = j) /\ (ops[c[i]].step = "lock" <=> i # 1)
      <4>1. c = chain[t] /\ DOMAIN chain[t] = 1 .. Len(c)
        BY <1>5, <2>2
      <4> HIDE DEF c
      <4> QED
        BY <1>6, <1>9, <4>1
    <3>6. ASSUME NEW i \in 1 .. Len(c) + 1, NEW j \in 1 .. Len(c) + 1
          PROVE  /\ Append(c, o)[i] = Append(c, o)[j] => i = j
                 /\ ops'[Append(c, o)[i]].step = "lock" <=> i # 1
      <4>1. \A k \in 1 .. Len(c) + 1 : k = Len(c) + 1 \/ k \in 1 .. Len(c)
        BY <1>5
      <4>2. Append(c, o)[i] = Append(c, o)[j] => i = j
        <5> DEFINE a == Append(c, o)
        <5>1. \A k \in 1 .. Len(c) : a[k] = c[k] /\ c[k] # o
          BY <1>5, <3>5
        <5>2. a[Len(c) + 1] = o
          BY <1>5
        <5>3. \A k, m \in 1 .. Len(c) : c[k] = c[m] => k = m
          BY <3>5
        <5> HIDE DEF a, c
        <5>4. a[i] = a[j] => i = j
          BY <4>1, <5>1, <5>2, <5>3, Zenon
        <5> QED
          BY <5>4 DEF a
      <4>3. CASE i \in 1 .. Len(c)
        <5>1. Append(c, o)[i] = c[i] /\ c[i] \in Busy /\ (ops[c[i]].step = "lock" <=> i # 1)
          BY <1>5, <3>5, <4>3
        <5>2. ops'[c[i]] = ops[c[i]]
          BY <1>7, <5>1
        <5> QED
          BY <4>2, <5>1, <5>2
      <4>4. CASE i = Len(c) + 1
        <5>1. ops'[Append(c, o)[i]].step = s
          BY <1>3, <1>5, <1>6, <4>4
        <5>2. s = "lock" <=> Len(c) # 0
          BY <1>3, <1>5
        <5> QED
          BY <1>5, <4>2, <4>4, <5>1, <5>2
      <4> QED
        BY <4>1, <4>3, <4>4
    <3> QED
      BY <3>1, <3>4, <3>6
  <2> QED
    BY <2>1, <2>2
<1>11. Chains' /\ LocksHandOver'
  BY <1>8, <1>10 DEF Chains, LocksHandOver
<1>12. RowTypes' /\ AskedStands'
  BY <1>1, <1>2 DEF RowTypes, AskedStands
<1>13. TypeOK'
  BY <1>6, <1>11, <1>12 DEF TypeOK, RowTypes, Chains
<1>14. Distinct'
  BY <1>1, <1>2, <1>3, <1>6, <1>7 DEF Distinct
<1>15. ASSUME NEW q \in Busy' PROVE Writes(q)'
  <2>1. CASE q = o
    BY <1>3, <1>6, <2>1 DEF Writes
  <2>2. CASE q # o
    BY <1>1, <1>2, <1>6, <1>7, <2>2, WritesAre DEF Writes
  <2> QED
    BY <2>1, <2>2
<1>16. WritesWhatItRead' /\ VoidWhenRemoved'
  BY <1>15 DEF WritesWhatItRead, VoidWhenRemoved, Writes
<1> QED
  BY <1>11, <1>12, <1>13, <1>14, <1>16 DEF RowsInv

\* A step that leaves the tables of friends, the locks and the adds alone.
LEMMA BlocksApart ==
  ASSUME FriendsAssumption, RowsInv, UNCHANGED <<row, chain, asked>>,
         blocked' \subseteq Users \X Users, clashed' \subseteq Users,
         ops' \in [Ops -> Requests \cup {NoOp}],
         \A q \in Ops : \/ ops'[q] = ops[q]
                        \/ /\ q \in Busy => ops[q].kind = "block"
                           /\ q \in Busy' => /\ ops'[q].kind = "block" /\ ops'[q].step \in BlockSteps
                                             /\ ops'[q].user # ops'[q].other
  PROVE  RowsInv'
<1>1. /\ ops \in [Ops -> Requests \cup {NoOp}] /\ Distinct /\ Chains /\ LocksHandOver /\ RowTypes /\ AskedStands
      /\ WritesWhatItRead /\ VoidWhenRemoved
  BY TypesAre DEF RowsInv
<1>2. \A q \in Ops : (q \in Busy' /\ ops'[q].kind = "add" <=> q \in Busy /\ ops[q].kind = "add")
  BY DEF Busy
<1>3. \A q \in Ops : (q \in Busy /\ ops[q].kind = "add") => ops'[q] = ops[q] /\ PairOf(q)' = PairOf(q)
  BY <1>2 DEF PairOf
<1>4. \A p \in Pairs : {q \in Busy' : ops'[q].kind = "add" /\ PairOf(q)' = p}
                         = {q \in Busy : ops[q].kind = "add" /\ PairOf(q) = p}
  BY <1>2, <1>3 DEF Busy
<1>5. Chains'
  BY <1>1, <1>4 DEF Chains
<1>6. LocksHandOver'
  <2> SUFFICES ASSUME NEW p \in Pairs, NEW i \in DOMAIN chain[p], NEW j \in DOMAIN chain[p]
               PROVE  /\ chain[p][i] = chain[p][j] => i = j
                      /\ ops'[chain[p][i]].step = "lock" <=> i # 1
    BY <1>1 DEF LocksHandOver
  <2>1. chain[p][i] \in {chain[p][k] : k \in DOMAIN chain[p]}
    OBVIOUS
  <2>2. chain[p][i] \in Busy /\ ops[chain[p][i]].kind = "add" /\ chain[p][i] \in Ops
    BY <1>1, <2>1 DEF Chains, Busy
  <2>3. ops'[chain[p][i]] = ops[chain[p][i]]
    BY <1>3, <2>2
  <2> QED
    BY <1>1, <2>3 DEF LocksHandOver
<1>7. TypeOK' /\ AskedStands'
  BY <1>1, <1>5 DEF TypeOK, RowTypes, Chains, AskedStands
<1>8. ASSUME NEW q \in Busy' PROVE Writes(q)' /\ ops'[q].user # ops'[q].other
  <2>1. q \in Ops
    BY DEF Busy
  <2>2. CASE ops'[q] = ops[q]
    <3>1. q \in Busy
      BY <2>2 DEF Busy
    <3> QED
      BY <1>1, <2>2, <3>1, WritesAre DEF Distinct, Writes, PairOf
  <2>3. CASE ops'[q].step \in BlockSteps /\ ops'[q].user # ops'[q].other
    BY <2>3 DEF Writes, BlockSteps
  <2> QED
    BY <2>1, <2>2, <2>3
<1>9. Distinct' /\ WritesWhatItRead' /\ VoidWhenRemoved'
  BY <1>8 DEF Distinct, WritesWhatItRead, VoidWhenRemoved, Writes
<1> QED
  BY <1>6, <1>7, <1>9 DEF RowsInv

LEMMA RemoveRows ==
  ASSUME FriendsAssumption, RowsInv, NEW u \in Users, NEW v \in Users, RemoveFriend(u, v)
  PROVE  /\ RowsInv'
         /\ Busy' = Busy /\ \A q \in Busy : /\ ops'[q].user = ops[q].user /\ ops'[q].other = ops[q].other
                                            /\ ops'[q].kind = ops[q].kind /\ ops'[q].step = ops[q].step
<1> DEFINE p == {u, v}
           voids(o) == o \in Busy /\ ops[o].kind = "add" /\ PairOf(o) = p /\ p \in Followed
<1>1. /\ ops \in [Ops -> Requests \cup {NoOp}] /\ Distinct /\ Chains /\ LocksHandOver /\ RowTypes /\ AskedStands
      /\ WritesWhatItRead /\ VoidWhenRemoved
  BY TypesAre DEF RowsInv
<1>2. /\ u # v /\ row' = [row EXCEPT ![p] = "none"] /\ asked' = asked \ {<<u, v>>, <<v, u>>}
      /\ ops' = [o \in Ops |-> IF voids(o) THEN [ops[o] EXCEPT !.void = TRUE] ELSE ops[o]]
      /\ UNCHANGED <<blocked, chain, clashed>>
  BY DEF RemoveFriend
<1>3. p \in Pairs
  BY <1>2, PairsAre
<1>4. ASSUME NEW o \in Ops, voids(o)
      PROVE  /\ [ops[o] EXCEPT !.void = TRUE] \in Requests
             /\ ops'[o].kind = ops[o].kind /\ ops'[o].user = ops[o].user /\ ops'[o].other = ops[o].other
             /\ ops'[o].step = ops[o].step /\ ops'[o].void = TRUE
  <2>1. ops[o] \in Requests /\ ops[o].kind = "add"
    BY <1>1, <1>4, OpIs
  <2>2. ops[o] \in [kind : {"add"}, user : Users, other : Users, step : AddSteps, void : BOOLEAN]
    BY <2>1 DEF Requests
  <2>3. ops'[o] = [ops[o] EXCEPT !.void = TRUE]
    BY <1>2, <1>4
  <2> QED
    BY <2>2, <2>3 DEF Requests
<1> HIDE DEF voids
<1>5. \A o \in Ops : ~voids(o) => ops'[o] = ops[o]
  BY <1>2
<1>6. ops' \in [Ops -> Requests \cup {NoOp}]
  BY <1>1, <1>2, <1>4
<1>7. Busy' = Busy
  <2>1. ASSUME NEW o \in Ops, voids(o) PROVE ops'[o] # NoOp /\ ops[o] # NoOp
    <3>1. ops'[o] \in Requests
      BY <1>2, <1>4, <2>1
    <3>2. o \in Busy
      BY <2>1 DEF voids
    <3> QED
      BY <3>1, <3>2 DEF FriendsAssumption, Busy
  <2> QED
    BY <1>5, <2>1 DEF Busy
<1>8. \A q \in Busy : /\ ops'[q].user = ops[q].user /\ ops'[q].other = ops[q].other
                      /\ ops'[q].kind = ops[q].kind /\ ops'[q].step = ops[q].step
                      /\ PairOf(q)' = PairOf(q)
  BY <1>4, <1>5 DEF Busy, PairOf
<1>9. RowTypes'
  <2> HIDE DEF p
  <2>1. /\ row' \in [Pairs -> Users \cup {"none", "accepted"}]
        /\ \A t \in Pairs : row'[t] \in {row[t], "none"}
    BY <1>1, <1>2, <1>3 DEF RowTypes
  <2>2. \A t \in Pairs : row'[t] \in t \cup {"none", "accepted"}
    BY <1>1, <2>1 DEF RowTypes
  <2>3. asked' \subseteq Users \X Users
    BY <1>1, <1>2 DEF RowTypes
  <2> QED
    BY <1>1, <1>2, <2>1, <2>2, <2>3 DEF RowTypes
<1>10. Chains'
  <2>1. \A t \in Pairs : {q \in Busy' : ops'[q].kind = "add" /\ PairOf(q)' = t}
                           = {q \in Busy : ops[q].kind = "add" /\ PairOf(q) = t}
    BY <1>7, <1>8
  <2> HIDE DEF p
  <2> QED
    BY <1>1, <1>2, <2>1 DEF Chains
<1>11. LocksHandOver'
  <2> SUFFICES ASSUME NEW t \in Pairs, NEW i \in DOMAIN chain[t], NEW j \in DOMAIN chain[t]
               PROVE  /\ chain[t][i] = chain[t][j] => i = j
                      /\ ops'[chain[t][i]].step = "lock" <=> i # 1
    BY <1>2 DEF LocksHandOver
  <2>1. chain[t][i] \in {chain[t][k] : k \in DOMAIN chain[t]}
    OBVIOUS
  <2>2. chain[t][i] \in Busy
    BY <1>1, <2>1 DEF Chains
  <2> QED
    BY <1>1, <1>8, <2>2 DEF LocksHandOver
<1>12. AskedStands'
  <2> SUFFICES ASSUME NEW a \in Users, NEW b \in Users, <<a, b>> \in asked'
               PROVE  a # b /\ row'[{a, b}] \in {"accepted", a}
    BY DEF AskedStands
  <2>1. <<a, b>> \in asked /\ <<a, b>> # <<u, v>> /\ <<a, b>> # <<v, u>>
    BY <1>2
  <2>2. a # b /\ row[{a, b}] \in {"accepted", a} /\ {a, b} \in Pairs
    BY <1>1, <2>1, PairsAre DEF AskedStands
  <2>3. {a, b} # p
    BY <2>1
  <2> QED
    BY <1>1, <1>2, <2>2, <2>3 DEF RowTypes
<1>13. ASSUME NEW q \in Busy' PROVE Writes(q)'
  <2>1. q \in Busy /\ q \in Ops /\ PairOf(q) \in Pairs /\ Writes(q)
        /\ (ops[q].step \in AddSteps => ops[q].kind = "add")
    BY <1>1, <1>7, OpIs, WritesAre, StepsApart
  <2>2. "insert" \in AddSteps /\ "accept" \in AddSteps
    BY DEF AddSteps
  <2>3. CASE PairOf(q) = p
    <3>1. row'[PairOf(q)'] = "none"
      BY <1>1, <1>2, <1>3, <1>8, <2>1, <2>3 DEF RowTypes
    <3>2. (ops'[q].step = "accept" /\ p \in Followed) => ops'[q].void
      BY <1>4, <1>8, <2>1, <2>2, <2>3 DEF voids
    <3> QED
      BY <1>8, <2>1, <2>3, <3>1, <3>2 DEF Writes
  <2>4. CASE PairOf(q) # p
    <3>1. row'[PairOf(q)'] = row[PairOf(q)] /\ ops'[q] = ops[q]
      BY <1>1, <1>2, <1>5, <1>8, <2>1, <2>4 DEF RowTypes, voids
    <3> QED
      BY <1>8, <2>1, <3>1 DEF Writes
  <2> QED
    BY <2>3, <2>4
<1>14. Distinct' /\ WritesWhatItRead' /\ VoidWhenRemoved'
  BY <1>1, <1>7, <1>8, <1>13 DEF Distinct, WritesWhatItRead, VoidWhenRemoved, Writes
<1>15. TypeOK'
  BY <1>6, <1>9, <1>10 DEF TypeOK, RowTypes, Chains
<1> QED
  BY <1>7, <1>8, <1>11, <1>12, <1>14, <1>15 DEF RowsInv

\* An answer is remembered while the row is what it says.
LEMMA Answered ==
  ASSUME FriendsAssumption, RowsInv, NEW o, Running(o), RowTypes, row' \in [Pairs -> Users \cup {"none", "accepted"}],
         asked' \in {asked, asked \cup {<<ops[o].user, ops[o].other>>}},
         \A r \in Pairs \ {PairOf(o)} : row'[r] = row[r],
         row'[PairOf(o)] = row[PairOf(o)]
           \/ (row[PairOf(o)] = "none" /\ row'[PairOf(o)] = ops[o].user)
           \/ row'[PairOf(o)] = "accepted",
         asked' = asked \/ row'[PairOf(o)] \in {"accepted", ops[o].user},
         UNCHANGED <<blocked, clashed>>
  PROVE  RowTypes' /\ AskedStands'
<1>1. /\ ops \in [Ops -> Requests \cup {NoOp}] /\ Distinct /\ AskedStands /\ o \in Busy
  BY TypesAre DEF RowsInv, Running
<1>2. /\ ops[o].user \in Users /\ ops[o].other \in Users /\ ops[o].user # ops[o].other
      /\ PairOf(o) \in Pairs /\ PairOf(o) = {ops[o].user, ops[o].other}
  BY <1>1, OpIs DEF PairOf
<1>3. asked' \subseteq Users \X Users
  BY <1>2 DEF RowTypes
<1>4. \A r \in Pairs : row'[r] \in r \cup {"none", "accepted"}
  BY <1>2 DEF RowTypes
<1>5. RowTypes'
  BY <1>3, <1>4 DEF RowTypes
<1>6. ASSUME NEW a \in Users, NEW b \in Users, <<a, b>> \in asked'
      PROVE  a # b /\ row'[{a, b}] \in {"accepted", a}
  <2>1. CASE <<a, b>> \in asked
    <3>0. a # b /\ row[{a, b}] \in {"accepted", a}
      BY <1>1, <2>1 DEF AskedStands
    <3>p. {a, b} \in Pairs
      BY <3>0, PairsAre
    <3>1. a # b /\ row[{a, b}] \in {"accepted", a} /\ {a, b} \in Pairs /\ row[{a, b}] # "none"
      BY <3>0, <3>p, FriendsAssumption
    <3>2. CASE {a, b} # PairOf(o)
      BY <3>1, <3>2
    <3>3. CASE {a, b} = PairOf(o)
      BY <3>1, <3>3
    <3> QED
      BY <3>2, <3>3
  <2>2. CASE <<a, b>> \notin asked
    <3>1. <<a, b>> = <<ops[o].user, ops[o].other>> /\ row'[PairOf(o)] \in {"accepted", ops[o].user}
      BY <1>6, <2>2
    <3> QED
      BY <1>2, <3>1
  <2> QED
    BY <2>1, <2>2
<1> QED
  BY <1>5, <1>6 DEF AskedStands

LEMMA AtIs ==
  ASSUME FriendsAssumption, RowsInv, NEW o, NEW s, At(o, s)
  PROVE  /\ o \in Busy /\ o \in Ops /\ ops[o].step = s
         /\ s \in AddSteps \ {"lock"} => Running(o)
         /\ s \in AddSteps => ops[o].kind = "add"
         /\ s \in BlockSteps => ops[o].kind = "block"
         /\ ops[o].user \in Users /\ ops[o].other \in Users /\ ops[o].user # ops[o].other
         /\ PairOf(o) \in Pairs
<1>1. /\ ops \in [Ops -> Requests \cup {NoOp}] /\ Distinct /\ o \in Busy /\ ops[o].step = s
  BY TypesAre DEF RowsInv, At
<1> QED
  BY <1>1, OpIs, StepsApart DEF Running

LEMMA StatementRows ==
  ASSUME FriendsAssumption, RowsInv, NEW o \in Ops, Statement(o)
  PROVE  RowsInv'
<1> DEFINE p == PairOf(o)
<1>1. /\ ops \in [Ops -> Requests \cup {NoOp}] /\ Distinct /\ Chains /\ LocksHandOver /\ RowTypes /\ AskedStands
      /\ WritesWhatItRead /\ VoidWhenRemoved
  BY TypesAre DEF RowsInv
<1>2. {"status", "count", "find", "insert", "accept"} \subseteq AddSteps \ {"lock"}
  BY DEF AddSteps
<1>3. {"isBlocked", "countBlocked", "insertBlock"} \subseteq BlockSteps
  BY DEF BlockSteps
\* An add that is answered, and one that is not.
<1>4. ASSUME Running(o), row' \in [Pairs -> Users \cup {"none", "accepted"}], EndAdd(o),
             asked' \in {asked, asked \cup {<<ops[o].user, ops[o].other>>}},
             \A r \in Pairs \ {p} : row'[r] = row[r],
             row'[p] = row[p] \/ (row[p] = "none" /\ row'[p] = ops[o].user) \/ row'[p] = "accepted",
             asked' = asked \/ row'[p] \in {"accepted", ops[o].user},
             UNCHANGED <<blocked, clashed>>
      PROVE  RowsInv'
  <2>1. RowTypes' /\ AskedStands'
    BY <1>1, <1>4, Answered
  <2> QED
    BY <1>4, <2>1, AddEnds
<1>5. ASSUME AnswerAdd(o)
      PROVE  /\ EndAdd(o) /\ asked' \in {asked, asked \cup {<<ops[o].user, ops[o].other>>}}
             /\ (p \in Followed => ops[o].void) => asked' = asked
  BY <1>5 DEF AnswerAdd
<1>6. row \in [Pairs -> Users \cup {"none", "accepted"}]
  BY <1>1 DEF RowTypes
<1>7. CASE FindFriendshipStatus(o)
  <2>1. Running(o) /\ UNCHANGED <<row, blocked, clashed>>
    BY <1>2, <1>7, AtIs DEF FindFriendshipStatus
  <2>2. CASE Settled(o)
    <3>1. AnswerAdd(o)
      BY <1>7, <2>2 DEF FindFriendshipStatus
    <3> QED
      BY <1>4, <1>5, <1>6, <2>1, <2>2, <3>1 DEF Settled
  <2>3. CASE ~Settled(o)
    <3>1. Goto(o, "count") /\ UNCHANGED <<chain, asked>>
      BY <1>7, <2>3 DEF FindFriendshipStatus
    <3>2. Writes(o)'
      BY <1>1, <1>2, <2>1, <3>1, GotoIs DEF Writes, Running
    <3> QED
      BY <1>2, <2>1, <3>1, <3>2, AddGoesOn
  <2> QED
    BY <2>2, <2>3
<1>8. CASE CountFriendSlots(o)
  <2>1. Running(o) /\ UNCHANGED <<row, blocked, asked, clashed>>
    BY <1>2, <1>8, AtIs DEF CountFriendSlots
  <2>2. CASE EndAdd(o)
    BY <1>4, <1>6, <2>1, <2>2
  <2>3. CASE ~EndAdd(o)
    <3>1. Goto(o, "find") /\ UNCHANGED chain
      BY <1>8, <2>3 DEF CountFriendSlots
    <3>2. Writes(o)'
      BY <1>1, <1>2, <2>1, <3>1, GotoIs DEF Writes, Running
    <3> QED
      BY <1>2, <2>1, <3>1, <3>2, AddGoesOn
  <2> QED
    BY <2>2, <2>3
<1>9. CASE FindFriendship(o)
  <2>1. Running(o) /\ UNCHANGED <<row, blocked, clashed>> /\ o \in Busy /\ p \in Pairs
        /\ ops[o].user # ops[o].other
    BY <1>2, <1>9, AtIs DEF FindFriendship
  <2>2. CASE Settled(o)
    <3>1. AnswerAdd(o)
      BY <1>9, <2>2 DEF FindFriendship, Found
    <3> QED
      BY <1>4, <1>5, <1>6, <2>1, <2>2, <3>1 DEF Settled
  <2>3. CASE ~Settled(o)
    <3> DEFINE s == IF row[p] = "none" THEN "insert" ELSE "accept"
    <3>1. Goto(o, s) /\ UNCHANGED <<chain, asked>> /\ s \in AddSteps \ {"lock"}
      BY <1>2, <1>9, <2>3 DEF FindFriendship, Found
    <3>2. s = "insert" => row[p] = "none"
      OBVIOUS
    <3>3. s = "accept" => row[p] = ops[o].other
      <4>1. row[p] \in {ops[o].user, ops[o].other, "none", "accepted"}
        BY <1>1, <2>1 DEF RowTypes, PairOf
      <4> QED
        BY <2>3, <4>1 DEF Settled
    <3> HIDE DEF s
    <3>4. ops'[o].step = s /\ SameRequest(o)
      BY <1>1, <1>2, <2>1, <3>1, GotoIs DEF Running
    <3>5. PairOf(o)' = p
      BY <3>4 DEF SameRequest, PairOf
    <3>6. row[p] = "none" => s # "accept"
      <4>1. row[p] = "none" => s = "insert"
        BY DEF s
      <4> QED
        BY <4>1
    <3>7. Writes(o)'
      BY <2>1, <3>2, <3>3, <3>4, <3>5, <3>6 DEF Writes, SameRequest
    <3> QED
      BY <2>1, <3>1, <3>7, AddGoesOn
  <2> QED
    BY <2>2, <2>3
<1>10. CASE InsertFriendship(o)
  <2>1. Running(o) /\ UNCHANGED <<blocked, clashed>> /\ o \in Busy /\ p \in Pairs /\ ops[o].user \in Users
    BY <1>2, <1>10, AtIs DEF InsertFriendship
  <2>2. CASE row[p] = "none"
    <3>1. AnswerAdd(o) /\ row' = [row EXCEPT ![p] = ops[o].user]
      BY <1>10, <2>2 DEF InsertFriendship
    <3>2. /\ row'[p] = ops[o].user /\ \A r \in Pairs \ {p} : row'[r] = row[r]
          /\ row' \in [Pairs -> Users \cup {"none", "accepted"}]
      BY <1>6, <2>1, <3>1
    <3> QED
      BY <1>4, <1>5, <2>1, <2>2, <3>1, <3>2
  <2>3. CASE row[p] # "none"
    <3>1. EndAdd(o) /\ UNCHANGED <<row, asked>>
      BY <1>10, <2>3 DEF InsertFriendship
    <3> QED
      BY <1>4, <1>6, <2>1, <3>1
  <2> QED
    BY <2>2, <2>3
<1>11. CASE AcceptFriendship(o)
  <2>1. Running(o) /\ UNCHANGED <<blocked, clashed>> /\ o \in Busy /\ p \in Pairs /\ ops[o].step = "accept"
    BY <1>2, <1>11, AtIs DEF AcceptFriendship
  <2>2. AnswerAdd(o) /\ row' = [row EXCEPT ![p] = IF @ = "none" THEN @ ELSE "accepted"]
    BY <1>11 DEF AcceptFriendship
  <2>3. /\ row'[p] = IF row[p] = "none" THEN "none" ELSE "accepted"
        /\ \A r \in Pairs \ {p} : row'[r] = row[r]
        /\ row' \in [Pairs -> Users \cup {"none", "accepted"}]
    BY <1>6, <2>1, <2>2
  <2>4. row[p] = "none" => (p \in Followed => ops[o].void)
    BY <1>1, <2>1 DEF VoidWhenRemoved
  <2>5. asked' = asked \/ row'[p] = "accepted"
    BY <1>5, <2>2, <2>3, <2>4
  <2> QED
    BY <1>4, <1>5, <2>1, <2>2, <2>3, <2>5
<1>12. CASE AddFails(o)
  <2>1. Running(o)
    BY <1>12, AtIs DEF AddFails
  <2>2. EndAdd(o) /\ UNCHANGED <<row, blocked, asked, clashed>>
    BY <1>12 DEF AddFails
  <2> QED
    BY <1>4, <1>6, <2>1, <2>2
\* The statements of a block.
<1>13. ASSUME NEW s \in BlockSteps, At(o, s), UNCHANGED <<row, chain, asked, clashed>>,
              blocked' \subseteq Users \X Users,
              EndBlock(o) \/ \E t \in BlockSteps : Goto(o, t)
       PROVE  RowsInv'
  <2>1. o \in Busy /\ ops[o].kind = "block" /\ ops[o].user # ops[o].other
    BY <1>13, AtIs
  <2>2. CASE EndBlock(o)
    <3>1. /\ ops' \in [Ops -> Requests \cup {NoOp}] /\ Busy' = Busy \ {o}
          /\ \A q \in Ops \ {o} : ops'[q] = ops[q]
      BY <1>1, <2>1, <2>2, EndBlockIs DEF EndBlock
    <3> QED
      BY <1>1, <1>13, <2>1, <3>1, BlocksApart DEF RowTypes
  <2>3. ASSUME NEW t \in BlockSteps, Goto(o, t) PROVE RowsInv'
    <3>1. /\ ops' \in [Ops -> Requests \cup {NoOp}] /\ Busy' = Busy
          /\ SameRequest(o) /\ ops'[o].step = t
      BY <1>1, <2>1, <2>3, GotoIs
    <3>2. \A q \in Ops \ {o} : ops'[q] = ops[q]
      BY <1>1, <2>3 DEF Goto
    <3> QED
      BY <1>1, <1>13, <2>1, <3>1, <3>2, BlocksApart DEF RowTypes, SameRequest
  <2> QED
    BY <1>13, <2>2, <2>3
<1>14. blocked \subseteq Users \X Users
  BY <1>1 DEF RowTypes
<1>15. CASE IsBlocked(o)
  <2>1. \E t \in BlockSteps : Goto(o, t)
    BY <1>3, <1>15 DEF IsBlocked
  <2> QED
    BY <1>3, <1>13, <1>14, <1>15, <2>1 DEF IsBlocked
<1>16. CASE CountBlockedUsers(o)
  <2>1. EndBlock(o) \/ Goto(o, "insertBlock")
    BY <1>16 DEF CountBlockedUsers
  <2> QED
    BY <1>3, <1>13, <1>14, <1>16, <2>1 DEF CountBlockedUsers
<1>17. CASE BlockUser(o)
  <2>1. blocked' \subseteq Users \X Users
    BY <1>14, <1>17, AtIs DEF BlockUser
  <2> QED
    BY <1>3, <1>13, <1>17, <2>1 DEF BlockUser
<1>18. CASE BlockFails(o)
  BY <1>13, <1>14, <1>18 DEF BlockFails
<1> QED
  BY <1>7, <1>8, <1>9, <1>10, <1>11, <1>12, <1>15, <1>16, <1>17, <1>18 DEF Statement

LEMMA RequestBlockRows ==
  ASSUME FriendsAssumption, RowsInv, NEW o \in Ops, NEW u \in Users, NEW v \in Users, RequestBlock(o, u, v)
  PROVE  RowsInv'
<1> DEFINE r == [kind |-> "block", user |-> u, other |-> v, step |-> "isBlocked"]
<1>1. /\ ops \in [Ops -> Requests \cup {NoOp}] /\ RowTypes
  BY TypesAre DEF RowsInv
<1>2. r \in Requests /\ r.kind = "block" /\ r.step \in BlockSteps /\ r.user # r.other
  BY DEF Requests, BlockSteps, RequestBlock
<1>3. ops' = [ops EXCEPT ![o] = r] /\ ops[o] = NoOp /\ UNCHANGED <<row, blocked, chain, asked>>
      /\ clashed' \in {clashed, clashed \cup {u}}
  BY DEF RequestBlock, Clash
<1> HIDE DEF r
<1>4. ops' \in [Ops -> Requests \cup {NoOp}] /\ ops'[o] = r /\ \A q \in Ops \ {o} : ops'[q] = ops[q]
  BY <1>1, <1>2, <1>3
<1>5. o \notin Busy
  BY <1>3 DEF Busy
<1>6. blocked' \subseteq Users \X Users /\ clashed' \subseteq Users
  BY <1>1, <1>3 DEF RowTypes
<1> QED
  BY <1>2, <1>3, <1>4, <1>5, <1>6, BlocksApart

LEMMA RowsNext == FriendsAssumption /\ RowsInv /\ [Next]_vars => RowsInv'
<1> SUFFICES ASSUME FriendsAssumption, RowsInv, [Next]_vars PROVE RowsInv'
  OBVIOUS
<1>1. CASE UNCHANGED vars
  <2>1. UNCHANGED <<row, blocked, ops, chain, asked, clashed>>
    BY <1>1 DEF vars
  <2>2. ops \in [Ops -> Requests \cup {NoOp}] /\ RowTypes
    BY TypesAre DEF RowsInv
  <2> QED
    BY <2>1, <2>2, BlocksApart DEF RowTypes
<1>2. ASSUME NEW u \in Users, NEW v \in Users, UnblockUser(u, v) PROVE RowsInv'
  <2>1. ops \in [Ops -> Requests \cup {NoOp}] /\ RowTypes
    BY TypesAre DEF RowsInv
  <2> QED
    BY <1>2, <2>1, BlocksApart DEF RowTypes, UnblockUser
<1> QED
  BY <1>1, <1>2, StatementRows, RequestAddRows, RequestBlockRows, RemoveRows DEF Next

LEMMA RowsInit == Init => RowsInv
<1> SUFFICES ASSUME Init PROVE RowsInv
  OBVIOUS
<1>1. /\ row = [p \in Pairs |-> "none"] /\ blocked = {}
      /\ ops = [o \in Ops |-> NoOp] /\ chain = [p \in Pairs |-> <<>>]
      /\ asked = {} /\ clashed = {} /\ Busy = {}
  BY DEF Init, Busy
<1>2. \A p \in Pairs : chain[p] \in Seq(Ops) /\ DOMAIN chain[p] = {}
  BY <1>1
<1>3. Chains
  BY <1>1, <1>2 DEF Chains
<1>4. TypeOK
  BY <1>1, <1>3 DEF TypeOK, Chains
<1> QED
  BY <1>1, <1>2, <1>4
     DEF RowsInv, Distinct, LocksHandOver, WritesWhatItRead, VoidWhenRemoved, AskedStands

LEMMA SetsAreFinite ==
  ASSUME FriendsAssumption, RowsInv
  PROVE  /\ \A S \in SUBSET Pairs : IsFiniteSet(S) /\ Cardinality(S) \in Nat
         /\ \A S \in SUBSET (Users \X Users) : IsFiniteSet(S) /\ Cardinality(S) \in Nat
         /\ \A u : FriendSlots(u) \in SUBSET Pairs /\ BlockedBy(u) \in SUBSET (Users \X Users)
<1>1. IsFiniteSet(SUBSET Users) /\ IsFiniteSet(Users \X Users)
  BY FS_SUBSET, FS_Product DEF FriendsAssumption
<1>2. Pairs \subseteq SUBSET Users
  BY PairsAre
<1>3. IsFiniteSet(Pairs)
  BY <1>1, <1>2, FS_Subset
<1>4. \A S \in SUBSET Pairs : IsFiniteSet(S) /\ Cardinality(S) \in Nat
  BY <1>3, FS_Subset, FS_CardinalityType
<1>5. \A S \in SUBSET (Users \X Users) : IsFiniteSet(S) /\ Cardinality(S) \in Nat
  BY <1>1, FS_Subset, FS_CardinalityType
<1>6. \A u : FriendSlots(u) \in SUBSET Pairs /\ BlockedBy(u) \in SUBSET (Users \X Users)
  BY DEF FriendSlots, BlockedBy, RowsInv, TypeOK
<1> QED
  BY <1>4, <1>5, <1>6

\* A smaller set is not counted higher, and one element more counts one.
LEMMA Counts ==
  ASSUME NEW S, IsFiniteSet(S), NEW x, NEW T \in SUBSET (S \cup {x})
  PROVE  /\ Cardinality(T) \in Nat /\ Cardinality(S) \in Nat
         /\ Cardinality(T) <= Cardinality(S) + 1
         /\ x \in S \/ x \notin T => Cardinality(T) <= Cardinality(S)
<1>1. /\ IsFiniteSet(S \cup {x}) /\ Cardinality(S) \in Nat
      /\ Cardinality(S \cup {x}) \in {Cardinality(S), Cardinality(S) + 1}
  BY FS_AddElement, FS_CardinalityType
<1>2. Cardinality(T) \in Nat /\ Cardinality(T) <= Cardinality(S \cup {x})
  BY <1>1, FS_Subset, FS_CardinalityType
<1>3. ASSUME x \in S \/ x \notin T PROVE Cardinality(T) <= Cardinality(S)
  <2>1. T \subseteq S
    BY <1>3
  <2> QED
    BY <2>1, FS_Subset
<1> QED
  BY <1>1, <1>2, <1>3

SameRequester(q) ==
  ops'[q].kind = ops[q].kind /\ ops'[q].user = ops[q].user /\ ops'[q].other = ops[q].other

\* Only the slots of o's user may have become more.
LEMMA CapsKept ==
  ASSUME FriendsAssumption, RowsInv, RowsInv', CapsInv, clashed' = clashed, NEW o,
         \A q \in Busy' : q \in Busy /\ SameRequester(q),
         \A q \in Busy' \ {o} : ops'[q].step = ops[q].step \/ ops'[q].step = "status",
         \A w \in Users :
           \/ FriendSlots(w)' \subseteq FriendSlots(w)
           \/ /\ o \in Busy /\ ops[o].kind = "add" /\ ops[o].user = w
              /\ w \notin clashed => Cardinality(FriendSlots(w)') <= MaxFriends,
         \A w \in Users :
           \/ BlockedBy(w)' \subseteq BlockedBy(w)
           \/ /\ o \in Busy /\ ops[o].kind = "block" /\ ops[o].user = w
              /\ w \notin clashed => Cardinality(BlockedBy(w)') <= MaxBlocked,
         (o \in Busy' /\ ops[o].user \notin clashed) => SlotLeft(o)'
  PROVE  CapsInv'
<1>1. /\ ops \in [Ops -> Requests \cup {NoOp}] /\ Distinct /\ OneAtATime /\ SlotsLeft /\ CapsWithoutOverlap
      /\ ops' \in [Ops -> Requests \cup {NoOp}] /\ Distinct'
  BY TypesAre DEF RowsInv, CapsInv, TypeOK
<1>2. MaxFriends \in Nat /\ MaxBlocked \in Nat
  BY DEF FriendsAssumption
<1>3. OneAtATime'
  BY <1>1 DEF OneAtATime, SameRequester
<1>4. ASSUME NEW w \in Users, w \notin clashed
      PROVE  Cardinality(FriendSlots(w)') <= MaxFriends /\ Cardinality(BlockedBy(w)') <= MaxBlocked
  <2>1. Cardinality(FriendSlots(w)) <= MaxFriends /\ Cardinality(BlockedBy(w)) <= MaxBlocked
    BY <1>1, <1>4 DEF CapsWithoutOverlap
  <2>2. IsFiniteSet(FriendSlots(w)) /\ IsFiniteSet(BlockedBy(w))
    BY SetsAreFinite
  <2>3. FriendSlots(w)' \subseteq FriendSlots(w) => Cardinality(FriendSlots(w)') <= MaxFriends
    BY <1>2, <2>1, <2>2, FS_Subset, FS_CardinalityType
  <2>4. BlockedBy(w)' \subseteq BlockedBy(w) => Cardinality(BlockedBy(w)') <= MaxBlocked
    BY <1>2, <2>1, <2>2, FS_Subset, FS_CardinalityType
  <2> QED
    BY <1>4, <2>3, <2>4
<1>5. CapsWithoutOverlap'
  BY <1>4 DEF CapsWithoutOverlap
<1>6. ASSUME NEW q \in Busy', ops'[q].user \notin clashed' PROVE SlotLeft(q)'
  <2>1. CASE q = o
    BY <1>6, <2>1 DEF SameRequester
  <2>2. CASE q # o
    <3> DEFINE u == ops[q].user
               v == ops[q].other
    <3>1. /\ q \in Busy /\ u \in Users /\ u \notin clashed /\ ops'[q].user = u /\ ops'[q].other = v
          /\ SlotLeft(q)
      BY <1>1, <1>6, OpIs DEF SameRequester, SlotsLeft
    <3>2. ops'[q].step = ops[q].step \/ ops'[q].step = "status"
      BY <2>2
    <3>3. ASSUME ops'[q].step \in {"find", "insert", "accept"}
          PROVE  Cardinality(FriendSlots(u)') < MaxFriends
      <4>1. ops[q].step \in {"find", "insert", "accept"}
        BY <3>2, <3>3
      <4>2. ops[q].kind = "add"
        BY <1>1, <3>1, <4>1, OpIs DEF BlockSteps
      <4>3. FriendSlots(u)' \subseteq FriendSlots(u)
        BY <1>1, <2>2, <3>1, <4>2 DEF OneAtATime
      <4>4. IsFiniteSet(FriendSlots(u)) /\ Cardinality(FriendSlots(u)) < MaxFriends
        BY <3>1, <4>1, SetsAreFinite DEF SlotLeft
      <4> QED
        BY <1>2, <4>3, <4>4, FS_Subset, FS_CardinalityType
    <3>4. ASSUME ops'[q].step = "insertBlock"
          PROVE  Cardinality(BlockedBy(u)' \cup {<<u, v>>}) <= MaxBlocked
      <4>1. ops[q].step = "insertBlock"
        BY <3>2, <3>4
      <4>2. ops[q].kind = "block"
        BY <1>1, <3>1, <4>1, OpIs DEF AddSteps
      <4>3. BlockedBy(u)' \subseteq BlockedBy(u)
        BY <1>1, <2>2, <3>1, <4>2 DEF OneAtATime
      <4>4. Cardinality(BlockedBy(u) \cup {<<u, v>>}) <= MaxBlocked
        BY <3>1, <4>1 DEF SlotLeft
      <4> DEFINE Bigger == BlockedBy(u) \cup {<<u, v>>}
      <4> DEFINE Smaller == BlockedBy(u)' \cup {<<u, v>>}
      <4>5. IsFiniteSet(Bigger)
        <5> DEFINE S == BlockedBy(u)
        <5> DEFINE pair == <<u, v>>
        <5>1. IsFiniteSet(S)
          BY SetsAreFinite
        <5> HIDE DEF S, pair
        <5>2. IsFiniteSet(S \cup {pair})
          BY <5>1, FS_AddElement
        <5> QED
          BY <5>2 DEF S, pair
      <4>6. Smaller \in SUBSET Bigger
        BY <4>3
      <4> HIDE DEF Smaller, Bigger
      <4>7. Cardinality(Smaller) <= Cardinality(Bigger) /\ Cardinality(Smaller) \in Nat
                                                       /\ Cardinality(Bigger) \in Nat
        BY <4>5, <4>6, FS_Subset, FS_CardinalityType
      <4> QED
        BY <1>2, <4>4, <4>7 DEF Smaller, Bigger
    <3> QED
      BY <3>1, <3>3, <3>4 DEF SlotLeft
  <2> QED
    BY <2>1, <2>2
<1>7. SlotsLeft'
  BY <1>6 DEF SlotsLeft
<1> QED
  BY <1>3, <1>5, <1>7 DEF CapsInv

\* A request that starts has no other of its kind and user beside it, or it
\* makes them overlap.
LEMMA CapsStart ==
  ASSUME FriendsAssumption, RowsInv, RowsInv', CapsInv, NEW o \in Ops, o \notin Busy, Busy' = Busy \cup {o},
         UNCHANGED <<row, blocked>>, \A q \in Busy : ops'[q] = ops[q],
         clashed' = Clash(ops'[o].user, ops'[o].kind),
         ops'[o].step \notin {"find", "insert", "accept", "insertBlock"}
  PROVE  CapsInv'
<1>1. /\ ops' \in [Ops -> Requests \cup {NoOp}] /\ OneAtATime /\ SlotsLeft /\ CapsWithoutOverlap
  BY DEF RowsInv, CapsInv, TypeOK
<1>2. clashed \subseteq clashed'
  BY DEF Clash
<1>3. CapsWithoutOverlap'
  BY <1>1, <1>2 DEF CapsWithoutOverlap, FriendSlots, BlockedBy
<1>4. ASSUME NEW q \in Busy, ops'[o].user \notin clashed', ops[q].user = ops'[o].user, ops[q].kind = ops'[o].kind
      PROVE  FALSE
  BY <1>4 DEF Clash
<1>5. OneAtATime'
  BY <1>1, <1>2, <1>4 DEF OneAtATime
<1>6. SlotsLeft'
  <2> SUFFICES ASSUME NEW q \in Busy', ops'[q].user \notin clashed' PROVE SlotLeft(q)'
    BY DEF SlotsLeft
  <2>1. CASE q = o
    BY <2>1 DEF SlotLeft
  <2>2. CASE q # o
    BY <1>1, <1>2, <2>2 DEF SlotsLeft, SlotLeft, FriendSlots, BlockedBy
  <2> QED
    BY <2>1, <2>2
<1> QED
  BY <1>3, <1>5, <1>6 DEF CapsInv

\* A row that one user's request writes takes a slot of that user only.
LEMMA SlotsWritten ==
  ASSUME FriendsAssumption, RowsInv, NEW o, Running(o),
         \A r \in Pairs \ {PairOf(o)} : row'[r] = row[r],
         row'[PairOf(o)] \in {row[PairOf(o)], ops[o].user}
           \/ (row[PairOf(o)] = ops[o].other /\ row'[PairOf(o)] = "accepted")
  PROVE  /\ \A w \in Users \ {ops[o].user} : FriendSlots(w)' \subseteq FriendSlots(w)
         /\ \A w \in Users : FriendSlots(w)' \subseteq FriendSlots(w) \cup {PairOf(o)}
<1>1. /\ ops \in [Ops -> Requests \cup {NoOp}] /\ Distinct /\ o \in Busy
  BY DEF RowsInv, TypeOK, Running
<1>2. /\ ops[o].user \in Users /\ ops[o].other \in Users
      /\ PairOf(o) \in Pairs /\ PairOf(o) = {ops[o].user, ops[o].other}
  BY <1>1, OpIs DEF PairOf
<1>3. ASSUME NEW w \in Users, NEW r \in FriendSlots(w)', r # PairOf(o) PROVE r \in FriendSlots(w)
  BY <1>3 DEF FriendSlots
<1>4. ASSUME NEW w \in Users \ {ops[o].user}, PairOf(o) \in FriendSlots(w)' PROVE PairOf(o) \in FriendSlots(w)
  <2>1. w \in PairOf(o) /\ row'[PairOf(o)] \in {"accepted", w}
    BY <1>4 DEF FriendSlots
  <2>2. w = ops[o].other
    BY <1>2, <2>1
  <2>3. row'[PairOf(o)] # ops[o].user
    BY <1>2, <2>1 DEF FriendsAssumption
  <2>4. row[PairOf(o)] \in {"accepted", w}
    BY <2>1, <2>2, <2>3
  <2> QED
    BY <1>2, <2>1, <2>4 DEF FriendSlots
<1> QED
  BY <1>3, <1>4

\* The requests of others, after an add or a block has ended.
LEMMA AfterAdd ==
  ASSUME FriendsAssumption, RowsInv, NEW o, Running(o), EndAdd(o)
  PROVE  /\ Busy' = Busy \ {o}
         /\ \A q \in Busy' : q \in Busy /\ SameRequester(q)
         /\ \A q \in Busy' \ {o} : ops'[q].step = ops[q].step \/ ops'[q].step = "status"
<1>1. /\ ops \in [Ops -> Requests \cup {NoOp}] /\ Distinct /\ Chains /\ LocksHandOver
      /\ o \in Busy /\ ops[o].kind = "add" /\ ops[o].step # "lock"
  BY TypesAre DEF RowsInv, Running
<1> QED
  BY <1>1, EndAddIs DEF SameRequest, SameRequester

LEMMA AfterGoto ==
  ASSUME FriendsAssumption, RowsInv, NEW o \in Busy, NEW s, Goto(o, s),
         (ops[o].kind = "add" /\ s \in AddSteps) \/ (ops[o].kind = "block" /\ s \in BlockSteps)
  PROVE  /\ Busy' = Busy
         /\ \A q \in Busy' : q \in Busy /\ SameRequester(q)
         /\ \A q \in Busy' \ {o} : ops'[q].step = ops[q].step \/ ops'[q].step = "status"
         /\ ops'[o].step = s
<1>1. ops \in [Ops -> Requests \cup {NoOp}] /\ Distinct
  BY TypesAre DEF RowsInv
<1> QED
  BY <1>1, GotoIs DEF SameRequest, SameRequester

LEMMA StatementCaps ==
  ASSUME FriendsAssumption, RowsInv, CapsInv, NEW o \in Ops, Statement(o)
  PROVE  CapsInv'
<1> DEFINE p == PairOf(o)
           u == ops[o].user
           v == ops[o].other
<1>1. /\ RowsInv' /\ SlotsLeft /\ CapsWithoutOverlap
  BY StatementRows DEF CapsInv
<1>2. {"status", "count", "find", "insert", "accept"} \subseteq AddSteps \ {"lock"}
  BY DEF AddSteps
<1>3. {"isBlocked", "countBlocked", "insertBlock"} \subseteq BlockSteps
  BY DEF BlockSteps
<1>4. MaxFriends \in Nat /\ MaxBlocked \in Nat
  BY DEF FriendsAssumption
<1>5. UNCHANGED row => \A w : FriendSlots(w)' = FriendSlots(w)
  BY DEF FriendSlots
<1>6. UNCHANGED blocked => \A w : BlockedBy(w)' = BlockedBy(w)
  BY DEF BlockedBy
\* An add that ends, without having written or with a slot to write to.
<1>7. ASSUME Running(o), EndAdd(o), UNCHANGED <<row, blocked, clashed>> PROVE CapsInv'
  <2>1. o \notin Busy'
    BY <1>7, AfterAdd
  <2> QED
    BY <1>1, <1>5, <1>6, <1>7, <2>1, AfterAdd, CapsKept
<1>8. ASSUME Running(o), EndAdd(o), UNCHANGED <<blocked, clashed>>,
             ops[o].step \in {"insert", "accept"},
             \A r \in Pairs \ {p} : row'[r] = row[r],
             row'[p] \in {row[p], u} \/ (row[p] = v /\ row'[p] = "accepted")
      PROVE  CapsInv'
  <2>1. /\ \A w \in Users \ {u} : FriendSlots(w)' \subseteq FriendSlots(w)
        /\ \A w \in Users : FriendSlots(w)' \subseteq FriendSlots(w) \cup {p}
    BY <1>8, SlotsWritten
  <2>2. o \in Busy /\ ops[o].kind = "add" /\ o \notin Busy'
    BY <1>8, AfterAdd DEF Running
  <2>3. ASSUME NEW w \in Users, w = u, w \notin clashed PROVE Cardinality(FriendSlots(w)') <= MaxFriends
    <3>1. Cardinality(FriendSlots(w)) < MaxFriends
      BY <1>1, <1>8, <2>2, <2>3 DEF SlotsLeft, SlotLeft
    <3>2. IsFiniteSet(FriendSlots(w))
      BY SetsAreFinite
    <3>3. FriendSlots(w)' \in SUBSET (FriendSlots(w) \cup {p})
      BY <2>1
    <3>4. /\ Cardinality(FriendSlots(w)') \in Nat /\ Cardinality(FriendSlots(w)) \in Nat
          /\ Cardinality(FriendSlots(w)') <= Cardinality(FriendSlots(w)) + 1
      BY <3>2, <3>3, Counts
    <3> QED
      BY <1>4, <3>1, <3>4
  <2>4. \A w \in Users :
           \/ FriendSlots(w)' \subseteq FriendSlots(w)
           \/ /\ o \in Busy /\ ops[o].kind = "add" /\ ops[o].user = w
              /\ w \notin clashed => Cardinality(FriendSlots(w)') <= MaxFriends
    BY <2>1, <2>2, <2>3
  <2> QED
    BY <1>1, <1>6, <1>8, <2>2, <2>4, AfterAdd, CapsKept
\* An add that goes on.
<1>9. ASSUME Running(o), NEW s \in AddSteps, Goto(o, s), UNCHANGED <<row, blocked, clashed>>,
             s \in {"find", "insert", "accept"} =>
               (u \notin clashed => Cardinality(FriendSlots(u)) < MaxFriends)
      PROVE  CapsInv'
  <2>1. o \in Busy /\ ops[o].kind = "add"
    BY <1>9 DEF Running
  <2>2. /\ Busy' = Busy
        /\ \A q \in Busy' : q \in Busy /\ SameRequester(q)
        /\ \A q \in Busy' \ {o} : ops'[q].step = ops[q].step \/ ops'[q].step = "status"
        /\ ops'[o].step = s
    BY <1>9, <2>1, AfterGoto
  <2>3. s # "insertBlock"
    BY DEF AddSteps
  <2>4. u \notin clashed => SlotLeft(o)'
    BY <1>5, <1>9, <2>1, <2>2, <2>3 DEF SlotLeft, SameRequester
  <2> QED
    BY <1>1, <1>5, <1>6, <1>9, <2>2, <2>4, CapsKept
<1>10. CASE FindFriendshipStatus(o)
  <2>1. Running(o) /\ UNCHANGED <<row, blocked, clashed>>
    BY <1>2, <1>10, AtIs DEF FindFriendshipStatus
  <2>2. EndAdd(o) \/ Goto(o, "count")
    BY <1>10 DEF FindFriendshipStatus, AnswerAdd
  <2> QED
    BY <1>2, <1>7, <1>9, <2>1, <2>2
<1>11. CASE CountFriendSlots(o)
  <2>1. Running(o) /\ UNCHANGED <<row, blocked, clashed>>
    BY <1>2, <1>11, AtIs DEF CountFriendSlots
  <2>2. EndAdd(o) \/ (Goto(o, "find") /\ Cardinality(FriendSlots(u)) < MaxFriends)
    BY <1>11 DEF CountFriendSlots
  <2> QED
    BY <1>2, <1>7, <1>9, <2>1, <2>2
<1>12. CASE FindFriendship(o)
  <2>1. Running(o) /\ UNCHANGED <<row, blocked, clashed>> /\ o \in Busy /\ ops[o].step = "find"
    BY <1>2, <1>12, AtIs DEF FindFriendship
  <2>2. u \notin clashed => Cardinality(FriendSlots(u)) < MaxFriends
    BY <1>1, <2>1 DEF SlotsLeft, SlotLeft
  <2>3. EndAdd(o) \/ Goto(o, "insert") \/ Goto(o, "accept")
    BY <1>12 DEF FindFriendship, AnswerAdd
  <2> QED
    BY <1>2, <1>7, <1>9, <2>1, <2>2, <2>3
<1>13. CASE InsertFriendship(o)
  <2>1. /\ Running(o) /\ UNCHANGED <<blocked, clashed>> /\ ops[o].step = "insert" /\ EndAdd(o)
        /\ p \in Pairs
    BY <1>2, <1>13, AtIs DEF InsertFriendship, AnswerAdd
  <2>2. row' \in {row, [row EXCEPT ![p] = u]}
    BY <1>13 DEF InsertFriendship
  <2>3. row \in [Pairs -> Users \cup {"none", "accepted"}]
    BY DEF RowsInv, TypeOK
  <2>4. /\ \A r \in Pairs \ {p} : row'[r] = row[r]
        /\ row'[p] \in {row[p], u}
    BY <2>1, <2>2, <2>3
  <2> QED
    BY <1>8, <2>1, <2>4
<1>14. CASE AcceptFriendship(o)
  <2>1. /\ Running(o) /\ UNCHANGED <<blocked, clashed>> /\ ops[o].step = "accept" /\ EndAdd(o)
        /\ p \in Pairs /\ o \in Busy
    BY <1>2, <1>14, AtIs DEF AcceptFriendship, AnswerAdd
  <2>2. row' = [row EXCEPT ![p] = IF @ = "none" THEN @ ELSE "accepted"]
    BY <1>14 DEF AcceptFriendship
  <2>3. row \in [Pairs -> Users \cup {"none", "accepted"}]
    BY DEF RowsInv, TypeOK
  <2>4. row[p] \in {"none", v}
    BY <2>1 DEF RowsInv, WritesWhatItRead
  <2>5. /\ \A r \in Pairs \ {p} : row'[r] = row[r]
        /\ row'[p] = row[p] \/ (row[p] = v /\ row'[p] = "accepted")
    BY <2>1, <2>2, <2>3, <2>4
  <2> QED
    BY <1>8, <2>1, <2>5
<1>15. CASE AddFails(o)
  BY <1>7, <1>15, AtIs DEF AddFails
\* The statements of a block.
<1>16. ASSUME NEW s \in BlockSteps, At(o, s), EndBlock(o), UNCHANGED <<row, clashed>>,
              \/ UNCHANGED blocked
              \/ s = "insertBlock" /\ blocked' = blocked \cup {<<u, v>>}
       PROVE  CapsInv'
  <2>1. o \in Busy /\ ops[o].kind = "block" /\ ops[o].step = s /\ u \in Users
    BY <1>16, AtIs
  <2>2. Busy' = Busy \ {o} /\ \A q \in Busy \ {o} : ops'[q] = ops[q]
    BY <1>16, <2>1, EndBlockIs DEF RowsInv, TypeOK
  <2>3. \A w \in Users \ {u} : BlockedBy(w)' \subseteq BlockedBy(w)
    BY <1>16 DEF BlockedBy
  <2>4. ASSUME NEW w \in Users, w = u, w \notin clashed PROVE Cardinality(BlockedBy(w)') <= MaxBlocked
    <3>1. CASE UNCHANGED blocked
      BY <1>1, <1>6, <2>4, <3>1 DEF CapsWithoutOverlap
    <3>2. CASE s = "insertBlock" /\ blocked' = blocked \cup {<<u, v>>}
      <4>1. BlockedBy(w)' = BlockedBy(w) \cup {<<w, v>>}
        BY <2>4, <3>2 DEF BlockedBy
      <4>2. Cardinality(BlockedBy(w) \cup {<<w, v>>}) <= MaxBlocked
        BY <1>1, <2>1, <2>4, <3>2 DEF SlotsLeft, SlotLeft
      <4> QED
        BY <4>1, <4>2
    <3> QED
      BY <1>16, <3>1, <3>2
  <2>5. \A q \in Busy' : q \in Busy /\ SameRequester(q) /\ ops'[q].step = ops[q].step /\ q # o
    BY <2>2 DEF SameRequester
  <2> QED
    BY <1>1, <1>5, <1>16, <2>1, <2>3, <2>4, <2>5, CapsKept
<1>17. ASSUME NEW s \in BlockSteps, At(o, s), NEW t \in BlockSteps, Goto(o, t), UNCHANGED <<row, blocked, clashed>>,
              t = "insertBlock" => \/ <<u, v>> \in blocked
                                   \/ Cardinality(BlockedBy(u)) < MaxBlocked
       PROVE  CapsInv'
  <2>1. o \in Busy /\ ops[o].kind = "block" /\ u \in Users
    BY <1>17, AtIs
  <2>2. /\ Busy' = Busy
        /\ \A q \in Busy' : q \in Busy /\ SameRequester(q)
        /\ \A q \in Busy' \ {o} : ops'[q].step = ops[q].step \/ ops'[q].step = "status"
        /\ ops'[o].step = t
    BY <1>17, <2>1, AfterGoto
  <2>3. t \notin {"find", "insert", "accept"}
    BY DEF BlockSteps
  <2>4. ASSUME u \notin clashed, t = "insertBlock" PROVE Cardinality(BlockedBy(u) \cup {<<u, v>>}) <= MaxBlocked
    <3>1. CASE <<u, v>> \in blocked
      <4>1. BlockedBy(u) \cup {<<u, v>>} = BlockedBy(u)
        BY <3>1 DEF BlockedBy
      <4> QED
        BY <1>1, <2>1, <2>4, <4>1 DEF CapsWithoutOverlap
    <3>2. CASE Cardinality(BlockedBy(u)) < MaxBlocked
      <4> DEFINE S == BlockedBy(u)
      <4> DEFINE pair == <<u, v>>
      <4> DEFINE T == S \cup {pair}
      <4>1. IsFiniteSet(S) /\ T \in SUBSET (S \cup {pair}) /\ Cardinality(S) < MaxBlocked
        BY <3>2, SetsAreFinite
      <4> HIDE DEF S, pair, T
      <4>2. Cardinality(T) \in Nat /\ Cardinality(S) \in Nat /\ Cardinality(T) <= Cardinality(S) + 1
        BY <4>1, Counts
      <4>3. Cardinality(T) <= MaxBlocked
        BY <1>4, <4>1, <4>2
      <4> QED
        BY <4>3 DEF T, S, pair
    <3> QED
      BY <1>17, <2>4, <3>1, <3>2
  <2>5. u \notin clashed => SlotLeft(o)'
    BY <1>6, <1>17, <2>1, <2>2, <2>3, <2>4 DEF SlotLeft, SameRequester
  <2> QED
    BY <1>1, <1>5, <1>6, <1>17, <2>2, <2>5, CapsKept
<1>18. CASE IsBlocked(o)
  <2>1. /\ UNCHANGED <<row, blocked, clashed>> /\ At(o, "isBlocked")
        /\ \/ Goto(o, "insertBlock") /\ <<u, v>> \in blocked
           \/ Goto(o, "countBlocked")
    BY <1>18 DEF IsBlocked
  <2> QED
    BY <1>3, <1>17, <2>1
<1>19. CASE CountBlockedUsers(o)
  <2>1. /\ UNCHANGED <<row, blocked, clashed>> /\ At(o, "countBlocked")
        /\ \/ Goto(o, "insertBlock") /\ Cardinality(BlockedBy(u)) < MaxBlocked
           \/ EndBlock(o)
    BY <1>19 DEF CountBlockedUsers
  <2> QED
    BY <1>3, <1>16, <1>17, <2>1
<1>20. CASE BlockUser(o)
  BY <1>3, <1>16, <1>20 DEF BlockUser
<1>21. CASE BlockFails(o)
  BY <1>16, <1>21 DEF BlockFails
<1> QED
  BY <1>10, <1>11, <1>12, <1>13, <1>14, <1>15, <1>18, <1>19, <1>20, <1>21 DEF Statement

LEMMA CapsNext == FriendsAssumption /\ RowsInv /\ CapsInv /\ [Next]_vars => CapsInv'
<1> SUFFICES ASSUME FriendsAssumption, RowsInv, CapsInv, [Next]_vars PROVE CapsInv'
  OBVIOUS
<1>1. RowsInv'
  BY RowsNext
\* Nobody has more slots taken, and no request moves.
<1>2. ASSUME clashed' = clashed, Busy' = Busy,
             \A q \in Busy : SameRequester(q) /\ ops'[q].step = ops[q].step,
             \A w \in Users : FriendSlots(w)' \subseteq FriendSlots(w) /\ BlockedBy(w)' \subseteq BlockedBy(w)
      PROVE  CapsInv'
  <2>1. PICK o : o \notin Busy'
    <3>1. {x \in Busy' : x \notin x} \notin Busy'
      OBVIOUS
    <3> QED
      BY <3>1
  <2> QED
    BY <1>1, <1>2, <2>1, CapsKept
<1>3. CASE UNCHANGED vars
  BY <1>2, <1>3 DEF vars, SameRequester, Busy, FriendSlots, BlockedBy
<1>4. ASSUME NEW u \in Users, NEW v \in Users, UnblockUser(u, v) PROVE CapsInv'
  BY <1>2, <1>4 DEF UnblockUser, SameRequester, Busy, FriendSlots, BlockedBy
<1>5. ASSUME NEW u \in Users, NEW v \in Users, RemoveFriend(u, v) PROVE CapsInv'
  <2>1. row' = [row EXCEPT ![{u, v}] = "none"] /\ UNCHANGED <<blocked, clashed>>
    BY <1>5 DEF RemoveFriend
  <2>2. \A r \in Pairs : row'[r] \in {row[r], "none"}
    BY <2>1 DEF RowsInv, TypeOK
  <2>3. \A w \in Users : FriendSlots(w)' \subseteq FriendSlots(w)
    BY <2>2 DEF FriendSlots, FriendsAssumption
  <2>4. \A w \in Users : BlockedBy(w)' \subseteq BlockedBy(w)
    BY <2>1 DEF BlockedBy
  <2> QED
    BY <1>2, <1>5, <2>1, <2>3, <2>4, RemoveRows DEF SameRequester
<1>6. ASSUME NEW o \in Ops, NEW u \in Users, NEW v \in Users, NEW r, r # NoOp,
             ops[o] = NoOp, ops' = [ops EXCEPT ![o] = r], UNCHANGED <<row, blocked>>,
             clashed' = Clash(r.user, r.kind), r.step \notin {"find", "insert", "accept", "insertBlock"}
      PROVE  CapsInv'
  <2>1. ops'[o] = r /\ \A q \in Ops \ {o} : ops'[q] = ops[q]
    BY <1>6 DEF RowsInv, TypeOK
  <2>2. o \notin Busy /\ Busy' = Busy \cup {o} /\ \A q \in Busy : ops'[q] = ops[q]
    BY <1>6, <2>1 DEF Busy
  <2> QED
    BY <1>1, <1>6, <2>1, <2>2, CapsStart
<1>7. ASSUME NEW o \in Ops, NEW u \in Users, NEW v \in Users, RequestAdd(o, u, v) PROVE CapsInv'
  <2> DEFINE s == IF LockFree({u, v}) THEN "status" ELSE "lock"
             r == [kind |-> "add", user |-> u, other |-> v, void |-> FALSE, step |-> s]
  <2>1. r \in Requests /\ r.user = u /\ r.kind = "add" /\ r.step \in {"status", "lock"}
    BY DEF Requests, AddSteps
  <2>2. /\ ops[o] = NoOp /\ ops' = [ops EXCEPT ![o] = r] /\ UNCHANGED <<row, blocked>>
        /\ clashed' = Clash(u, "add")
    BY <1>7 DEF RequestAdd
  <2> HIDE DEF r
  <2> QED
    BY <1>6, <2>1, <2>2 DEF FriendsAssumption
<1>8. ASSUME NEW o \in Ops, NEW u \in Users, NEW v \in Users, RequestBlock(o, u, v) PROVE CapsInv'
  <2> DEFINE r == [kind |-> "block", user |-> u, other |-> v, step |-> "isBlocked"]
  <2>1. r \in Requests /\ r.user = u /\ r.kind = "block" /\ r.step = "isBlocked"
    BY DEF Requests, BlockSteps
  <2>2. /\ ops[o] = NoOp /\ ops' = [ops EXCEPT ![o] = r] /\ UNCHANGED <<row, blocked>>
        /\ clashed' = Clash(u, "block")
    BY <1>8 DEF RequestBlock
  <2> HIDE DEF r
  <2> QED
    BY <1>6, <2>1, <2>2 DEF FriendsAssumption
<1> QED
  BY <1>3, <1>4, <1>5, <1>7, <1>8, StatementCaps DEF Next

LEMMA CapsInit == FriendsAssumption /\ Init => CapsInv
<1> SUFFICES ASSUME FriendsAssumption, Init PROVE CapsInv
  OBVIOUS
<1>1. \A u \in Users : FriendSlots(u) = {} /\ BlockedBy(u) = {}
  BY DEF Init, FriendSlots, BlockedBy, FriendsAssumption
<1>2. Cardinality({}) = 0 /\ MaxFriends \in Nat /\ MaxBlocked \in Nat
  BY FS_EmptySet DEF FriendsAssumption
<1>3. Busy = {}
  BY DEF Init, Busy
<1>4. CapsWithoutOverlap
  <2> SUFFICES ASSUME NEW u \in Users
               PROVE  Cardinality(FriendSlots(u)) <= MaxFriends /\ Cardinality(BlockedBy(u)) <= MaxBlocked
    BY DEF CapsWithoutOverlap
  <2> QED
    BY <1>1, <1>2
<1> QED
  BY <1>3, <1>4 DEF CapsInv, OneAtATime, SlotsLeft

\* The services keep both halves of their invariant, whatever page asks.
THEOREM ServicesInvariant == Spec => [](RowsInv /\ CapsInv)
<1>1. Init => RowsInv /\ CapsInv
  BY RowsInit, CapsInit, FriendsAssumption
<1>2. (RowsInv /\ CapsInv) /\ [Next]_vars => (RowsInv /\ CapsInv)'
  BY RowsNext, CapsNext, FriendsAssumption
<1> QED
  BY <1>1, <1>2, PTL DEF Spec

\* A refresh that nothing overlaps, and that has read the list, holds the
\* friends of the moment.
CleanIsAlone ==
  \A f \in Fetches : fetch[f].clean =>
    /\ UnderWay = {f}
    /\ fetch[f].step = "listed" => fetch[f].list = FriendsOf(Me)

PageInv == PageTypeOK /\ PanelAgrees /\ CleanIsAlone

FetchRecords == [step : {"idle", "asked", "listed"}, list : SUBSET (Users \ {Me}), clean : BOOLEAN]

LEMMA PageUnchanged ==
  ASSUME PageInv, UNCHANGED page, FriendsOf(Me)' = FriendsOf(Me)
  PROVE  PageInv'
<1>1. UNCHANGED <<panel, fetch, excused>>
  BY DEF page
<1>2. UnderWay' = UnderWay
  BY <1>1 DEF UnderWay
<1> QED
  BY <1>1, <1>2 DEF PageInv, PageTypeOK, PanelAgrees, CleanIsAlone

LEMMA CleanRecords ==
  ASSUME NEW r \in FetchRecords
  PROVE  /\ [r EXCEPT !.clean = FALSE] \in FetchRecords
         /\ [r EXCEPT !.clean = FALSE].step = r.step
         /\ [r EXCEPT !.clean = FALSE].clean = FALSE
BY DEF FetchRecords

\* Whatever happens to the friends, an old list is not clean.
LEMMA MissedKeeps == ASSUME PageInv, Missed PROVE PageInv'
<1>1. /\ fetch \in [Fetches -> FetchRecords] /\ CleanIsAlone /\ panel \subseteq Users \ {Me}
      /\ excused' = TRUE /\ panel' = panel
      /\ fetch' = [f \in Fetches |->
           IF fetch[f].step = "listed" THEN [fetch[f] EXCEPT !.clean = FALSE] ELSE fetch[f]]
  BY DEF PageInv, PageTypeOK, Missed, FetchRecords
<1>2. ASSUME NEW f \in Fetches
      PROVE  /\ fetch'[f] \in FetchRecords /\ fetch'[f].step = fetch[f].step
             /\ fetch'[f].clean => fetch[f].clean /\ fetch[f].step # "listed"
  <2>1. fetch[f] \in FetchRecords
    BY <1>1
  <2> QED
    BY <1>1, <2>1, CleanRecords
<1>3. fetch' \in [Fetches -> FetchRecords]
  BY <1>1, <1>2
<1>4. UnderWay' = UnderWay
  BY <1>2 DEF UnderWay
<1> QED
  BY <1>1, <1>2, <1>3, <1>4 DEF PageInv, PageTypeOK, PanelAgrees, CleanIsAlone, FetchRecords

LEMMA BeginKeeps ==
  ASSUME PageInv, NEW g \in Fetches, Begin(g), excused' = excused
  PROVE  PageInv'
<1> DEFINE r == [step |-> "asked", list |-> {}, clean |-> UnderWay = {}]
<1>1. /\ fetch \in [Fetches -> FetchRecords] /\ CleanIsAlone /\ panel \subseteq Users \ {Me}
      /\ excused \in BOOLEAN /\ panel' = panel /\ fetch[g].step = "idle"
      /\ fetch' = [f \in Fetches |->
           IF f = g THEN r
           ELSE IF f \in UnderWay THEN [fetch[f] EXCEPT !.clean = FALSE]
           ELSE fetch[f]]
  BY DEF PageInv, PageTypeOK, Begin, FetchRecords
<1>2. /\ r \in FetchRecords /\ r.step = "asked" /\ (r.clean => UnderWay = {})
  <2>1. (UnderWay = {}) \in BOOLEAN
    OBVIOUS
  <2> QED
    BY <2>1 DEF FetchRecords
<1> HIDE DEF r
<1>3. ASSUME NEW f \in Fetches \ {g}
      PROVE  /\ fetch'[f] \in FetchRecords /\ fetch'[f].step = fetch[f].step
             /\ ~fetch'[f].clean
  <2>1. fetch[f] \in FetchRecords
    BY <1>1
  <2>2. f \notin UnderWay => ~fetch[f].clean
    BY <1>1 DEF CleanIsAlone
  <2> QED
    BY <1>1, <2>1, <2>2, CleanRecords
<1>4. fetch'[g] = r
  BY <1>1
<1>5. fetch' \in [Fetches -> FetchRecords]
  BY <1>1, <1>2, <1>3, <1>4
<1>6. UnderWay' = UnderWay \cup {g}
  BY <1>2, <1>3, <1>4 DEF UnderWay
<1>7. CleanIsAlone'
  BY <1>2, <1>3, <1>4, <1>6 DEF CleanIsAlone
<1> QED
  BY <1>1, <1>5, <1>6, <1>7 DEF PageInv, PageTypeOK, PanelAgrees, FetchRecords

\* One refresh moves on.
LEMMA FetchMoves ==
  ASSUME PageInv, NEW g \in Fetches, NEW r \in FetchRecords, fetch' = [fetch EXCEPT ![g] = r]
  PROVE  /\ fetch' \in [Fetches -> FetchRecords] /\ fetch'[g] = r
         /\ \A f \in Fetches \ {g} : fetch'[f] = fetch[f]
         /\ UnderWay' = IF r.step = "idle" THEN UnderWay \ {g} ELSE UnderWay \cup {g}
<1>1. fetch \in [Fetches -> FetchRecords]
  BY DEF PageInv, PageTypeOK, FetchRecords
<1>2. /\ fetch' \in [Fetches -> FetchRecords] /\ fetch'[g] = r
      /\ \A f \in Fetches \ {g} : fetch'[f] = fetch[f]
  BY <1>1
<1> QED
  BY <1>2 DEF UnderWay

LEMMA FriendsAreOthers == FriendsOf(Me) \in SUBSET (Users \ {Me}) /\ FriendsOf(Me)' \in SUBSET (Users \ {Me})
BY DEF FriendsOf

LEMMA ListedKeeps == ASSUME PageInv, NEW g \in Fetches, FriendsListed(g) PROVE PageInv'
<1>1. /\ fetch \in [Fetches -> FetchRecords] /\ CleanIsAlone /\ fetch[g] \in FetchRecords
      /\ fetch[g].step = "asked" /\ UNCHANGED <<row, panel, excused>>
      /\ fetch' = [fetch EXCEPT ![g].step = "listed", ![g].list = FriendsOf(Me)]
  BY DEF PageInv, PageTypeOK, FriendsListed, ListFriends, FetchRecords, vars
<1>2. PICK l \in SUBSET (Users \ {Me}) : l = FriendsOf(Me)
  BY FriendsAreOthers
<1>3. PICK r \in FetchRecords : /\ r.step = "listed" /\ r.list = l /\ r.clean = fetch[g].clean
                               /\ r = [fetch[g] EXCEPT !.step = "listed", !.list = l]
  BY <1>1 DEF FetchRecords
<1>4. fetch' = [fetch EXCEPT ![g] = r]
  BY <1>1, <1>2, <1>3
<1>5. /\ fetch' \in [Fetches -> FetchRecords] /\ fetch'[g] = r
      /\ \A f \in Fetches \ {g} : fetch'[f] = fetch[f]
      /\ UnderWay' = UnderWay
  <2>1. g \in UnderWay
    BY <1>1 DEF UnderWay
  <2>2. /\ fetch' \in [Fetches -> FetchRecords] /\ fetch'[g] = r
        /\ \A f \in Fetches \ {g} : fetch'[f] = fetch[f]
        /\ UnderWay' = IF r.step = "idle" THEN UnderWay \ {g} ELSE UnderWay \cup {g}
    BY <1>4, FetchMoves
  <2>3. UnderWay' = UnderWay \cup {g}
    BY <1>3, <2>2
  <2> QED
    BY <2>1, <2>2, <2>3
<1>6. FriendsOf(Me)' = FriendsOf(Me)
  BY <1>1 DEF FriendsOf
<1>7. CleanIsAlone'
  BY <1>1, <1>2, <1>3, <1>5, <1>6 DEF CleanIsAlone
<1> QED
  BY <1>1, <1>5, <1>6, <1>7 DEF PageInv, PageTypeOK, PanelAgrees, FetchRecords

\* A refresh ends: with its list, or with an error.
LEMMA EndKeeps ==
  ASSUME PageInv, NEW g \in Fetches, fetch' = [fetch EXCEPT ![g] = Idle], UNCHANGED row,
         \/ panel' = fetch[g].list /\ excused' = ~fetch[g].clean /\ fetch[g].step = "listed"
         \/ panel' = panel /\ excused' = TRUE
  PROVE  PageInv'
<1>1. /\ fetch \in [Fetches -> FetchRecords] /\ CleanIsAlone /\ fetch[g] \in FetchRecords
      /\ panel \subseteq Users \ {Me}
  BY DEF PageInv, PageTypeOK, FetchRecords
<1>2. Idle \in FetchRecords /\ Idle.step = "idle" /\ Idle.clean = FALSE
  BY DEF Idle, FetchRecords
<1>3. /\ fetch' \in [Fetches -> FetchRecords] /\ fetch'[g] = Idle
      /\ \A f \in Fetches \ {g} : fetch'[f] = fetch[f]
      /\ UnderWay' = UnderWay \ {g}
  BY <1>2, FetchMoves
<1>4. FriendsOf(Me)' = FriendsOf(Me)
  BY DEF FriendsOf
<1>5. CleanIsAlone'
  BY <1>1, <1>2, <1>3, <1>4 DEF CleanIsAlone
<1>6. PageTypeOK'
  <2>1. (~fetch[g].clean) \in BOOLEAN /\ fetch[g].list \subseteq Users \ {Me}
    BY <1>1 DEF FetchRecords
  <2>2. panel' \subseteq Users \ {Me} /\ excused' \in BOOLEAN
    BY <1>1, <2>1
  <2> QED
    BY <1>3, <2>2 DEF PageTypeOK, FetchRecords
<1>7. PanelAgrees'
  <2> SUFFICES ASSUME ~excused' PROVE panel' = FriendsOf(Me)
    BY <1>4 DEF PanelAgrees
  <2> QED
    BY <1>1 DEF CleanIsAlone
<1> QED
  BY <1>5, <1>6, <1>7 DEF PageInv

---------------------------------------------------------------------------
\* The friends of the page's user change at the end of a request only.
LEMMA FriendsChange ==
  ASSUME FriendsAssumption, RowsInv, NEW o \in Ops, Statement(o), ~AcceptFriendship(o)
  PROVE  FriendsOf(Me)' = FriendsOf(Me)
<1>1. row \in [Pairs -> Users \cup {"none", "accepted"}]
  BY DEF RowsInv, TypeOK
<1>2. CASE InsertFriendship(o)
  <2>1. PairOf(o) \in Pairs /\ ops[o].user \in Users
    BY <1>2, AtIs DEF InsertFriendship
  <2>2. row' = row \/ (row[PairOf(o)] = "none" /\ row' = [row EXCEPT ![PairOf(o)] = ops[o].user])
    BY <1>2 DEF InsertFriendship
  <2>3. \A p : (p \in Pairs /\ row[p] = "accepted") => p \in Pairs /\ row'[p] = "accepted"
    BY <1>1, <2>1, <2>2
  <2>4. \A p : (p \in Pairs /\ row'[p] = "accepted") => row[p] = "accepted"
    BY <1>1, <2>1, <2>2 DEF FriendsAssumption
  <2>5. \A v \in Users : v # Me => (Me \in Users => {Me, v} \in Pairs)
    BY PairsAre
  <2> QED
    BY <2>3, <2>4, <2>5, FriendsPageAssumption DEF FriendsOf
<1>3. CASE ~InsertFriendship(o)
  <2>1. UNCHANGED row
    BY <1>3 DEF Statement, FindFriendshipStatus, CountFriendSlots, FindFriendship, AddFails,
                IsBlocked, CountBlockedUsers, BlockUser, BlockFails
  <2> QED
    BY <2>1 DEF FriendsOf
<1> QED
  BY <1>2, <1>3

LEMMA ThenRefreshKeeps == ASSUME PageInv, ThenRefresh PROVE PageInv'
BY BeginKeeps, MissedKeeps DEF ThenRefresh

LEMMA UnheardKeeps == ASSUME PageInv, Unheard PROVE PageInv'
BY PageUnchanged, MissedKeeps DEF Unheard

LEMMA PageNextKeeps ==
  FriendsAssumption /\ RowsInv /\ PageInv /\ [PageNext]_<<vars, page>> => PageInv'
<1> SUFFICES ASSUME FriendsAssumption, RowsInv, PageInv, [PageNext]_<<vars, page>> PROVE PageInv'
  OBVIOUS
<1>1. UNCHANGED row => FriendsOf(Me)' = FriendsOf(Me)
  BY DEF FriendsOf
<1>2. CASE UNCHANGED <<vars, page>>
  BY <1>1, <1>2, PageUnchanged DEF vars
<1>3. CASE OthersStep
  BY <1>3, UnheardKeeps DEF OthersStep
<1>4. ASSUME NEW o \in Ops, PageStatement(o) PROVE PageInv'
  <2>1. /\ ops[o] # NoOp /\ ops[o].user = Me /\ Statement(o)
        /\ IF AnswersPage(o) THEN ThenRefresh ELSE UNCHANGED page
    BY <1>4 DEF PageStatement
  <2>2. CASE AnswersPage(o)
    BY <2>1, <2>2, ThenRefreshKeeps
  <2>3. CASE ~AnswersPage(o)
    <3>1. AcceptFriendship(o) => ops'[o] = NoOp
      BY DEF AcceptFriendship, AnswerAdd, EndAdd
    <3>2. ~AcceptFriendship(o)
      BY <2>1, <2>3, <3>1 DEF AnswersPage
    <3> QED
      BY <2>1, <2>3, <3>2, FriendsChange, PageUnchanged
  <2> QED
    BY <2>2, <2>3
<1>5. ASSUME NEW o \in Ops, NEW v \in Users, PageAdds(o, v) \/ PageBlocks(o, v) PROVE PageInv'
  BY <1>1, <1>5, PageUnchanged DEF PageAdds, PageBlocks, RequestAdd, RequestBlock
<1>6. ASSUME NEW v \in Users, PageRemoves(v) PROVE PageInv'
  BY <1>6, ThenRefreshKeeps DEF PageRemoves
<1>7. ASSUME NEW f \in Fetches, Refresh(f) PROVE PageInv'
  BY <1>7, BeginKeeps DEF Refresh
<1>8. ASSUME NEW f \in Fetches, RefreshAnswered(f) \/ RefreshFails(f) PROVE PageInv'
  BY <1>8, EndKeeps DEF RefreshAnswered, RefreshFails, vars
<1> QED
  BY <1>2, <1>3, <1>4, <1>5, <1>6, <1>7, <1>8, ListedKeeps DEF PageNext

LEMMA PageBegins == PageInit => PageInv
<1> SUFFICES ASSUME PageInit PROVE PageInv
  OBVIOUS
<1>1. panel = {} /\ fetch = [f \in Fetches |-> Idle] /\ excused = FALSE /\ row = [p \in Pairs |-> "none"]
  BY DEF PageInit, Init
<1>2. Idle \in FetchRecords /\ ~Idle.clean
  BY DEF Idle, FetchRecords
<1>3. FriendsOf(Me) = {}
  <2>1. \A v \in Users \ {Me} : row[{Me, v}] # "accepted"
    BY <1>1, PairsAre, FriendsPageAssumption
  <2> QED
    BY <2>1 DEF FriendsOf
<1> QED
  BY <1>1, <1>2, <1>3 DEF PageInv, PageTypeOK, PanelAgrees, CleanIsAlone, FetchRecords

---------------------------------------------------------------------------
\* A step of the page and the users around it is a step of the services.
LEMMA PageSteps == [PageNext]_<<vars, page>> => [Next]_vars
<1> SUFFICES ASSUME [PageNext]_<<vars, page>> PROVE [Next]_vars
  OBVIOUS
<1> USE FriendsPageAssumption DEF FriendsPageAssumption
<1>1. CASE UNCHANGED <<vars, page>>
  BY <1>1
<1>2. CASE OthersStep
  BY <1>2 DEF OthersStep, Next, Busy
<1>3. ASSUME NEW o \in Ops, PageStatement(o) PROVE Next
  BY <1>3 DEF PageStatement, Next
<1>4. ASSUME NEW o \in Ops, NEW v \in Users, PageAdds(o, v) \/ PageBlocks(o, v) PROVE Next
  BY <1>4 DEF PageAdds, PageBlocks, Next
<1>5. ASSUME NEW v \in Users, PageRemoves(v) PROVE Next
  BY <1>5 DEF PageRemoves, Next
<1>6. ASSUME NEW f \in Fetches, Refresh(f) \/ FriendsListed(f) \/ RefreshAnswered(f) \/ RefreshFails(f)
      PROVE  UNCHANGED vars
  BY <1>6 DEF Refresh, FriendsListed, RefreshAnswered, RefreshFails
<1> QED
  BY <1>1, <1>2, <1>3, <1>4, <1>5, <1>6 DEF PageNext

\* The services of the page are those of Friends: what is proved of them holds
\* here.
THEOREM ServicesInPage == PageSpec => Spec
<1>1. PageInit => Init
  BY DEF PageInit
<1> QED
  BY <1>1, PageSteps, PTL DEF PageSpec, Spec

\* An add writes what it has read while it held its pair's lock, but for a row
\* that was removed; and two users who asked each other are friends.
THEOREM PairsAreKept == PageSpec => []PairsKept
<1>1. RowsInv => PairsKept
  <2> SUFFICES ASSUME RowsInv PROVE PairsKept
    OBVIOUS
  <2>1. CrossedRequestsMeet
    <3> SUFFICES ASSUME NEW u \in Users, NEW v \in Users, <<u, v>> \in asked, <<v, u>> \in asked
                 PROVE  row[{u, v}] = "accepted"
      BY DEF CrossedRequestsMeet
    <3>1. u # v /\ row[{u, v}] \in {"accepted", u} /\ row[{v, u}] \in {"accepted", v}
      BY DEF RowsInv, AskedStands
    <3>2. {u, v} = {v, u}
      OBVIOUS
    <3> QED
      BY <3>1, <3>2
  <2> QED
    BY <2>1 DEF RowsInv, PairsKept
<1> QED
  BY <1>1, ServicesInPage, ServicesInvariant, PTL

\* A user whose own requests do not overlap stays within the caps, whatever
\* the others ask, accept and remove meanwhile.
THEOREM CapsAreKept == PageSpec => []CapsWithoutOverlap
<1>1. CapsInv => CapsWithoutOverlap
  BY DEF CapsInv
<1> QED
  BY <1>1, ServicesInPage, ServicesInvariant, PTL

\* The panel shows the friends there are when nothing is under way, but for
\* what others did since, failures and refreshes that overlapped.
THEOREM PanelIsTrue == PageSpec => []PanelTrue
<1>1. PageSpec => []RowsInv
  BY ServicesInPage, ServicesInvariant, PTL
<1>2. PageInit => PageInv
  BY PageBegins
<1>3. RowsInv /\ PageInv /\ [PageNext]_<<vars, page>> => PageInv'
  BY PageNextKeeps, FriendsAssumption
<1>4. PageInv => PanelTrue
  BY DEF PageInv, PanelTrue
<1> QED
  BY <1>1, <1>2, <1>3, <1>4, PTL DEF PageSpec

---------------------------------------------------------------------------
(* The client's session.                                                   *)

GameRecords == [ready : BOOLEAN, listening : BOOLEAN, connected : BOOLEAN, socket : Sockets \cup {NoSocket}]
SocketRecords == [is : {"free", "connecting", "open", "closing"}, of : Games \cup {NoGame}]
Histories == [mixed : BOOLEAN, again : BOOLEAN, lost : BOOLEAN, late : BOOLEAN]

SessionTypes ==
  /\ user \in BOOLEAN /\ gameStarted \in BOOLEAN /\ joinedRoom \in BOOLEAN /\ reconnecting \in BOOLEAN
  /\ pending \in [RequestKinds -> 0 .. MaxAsked]
  /\ calls \in [Calls -> {NoCall} \cup CallRecords]
  /\ game \in Games \cup {NoGame}
  /\ shown \subseteq {"login", "editor", "edit", "logOut", "create"}
  /\ timers \in {0, 1}
  /\ dialog \in {"hidden", "countdown", "retrying"}
  /\ games \in [Games -> GameRecords]
  /\ sock \in [Sockets -> SocketRecords]
  /\ out \in {"no", "leaving", "gone"}
  /\ hist \in Histories

IsRetry(c) == calls[c] # NoCall /\ calls[c].by = "retry"

\* A call that awaits a socket has one of its own, and there is an attempt
\* exactly while the client says so.
CallsWait ==
  /\ \A c \in Calls : calls[c] # NoCall =>
       /\ calls[c].step = "init" => calls[c].by # "retry" /\ calls[c].game \in Games
       /\ calls[c].step = "connect" =>
            calls[c].socket \in Sockets /\ sock[calls[c].socket].is \in {"connecting", "closing"}
  /\ \A c, d \in Calls :
       Awaits(c, "connect") /\ Awaits(d, "connect") /\ calls[c].socket = calls[d].socket => c = d
  /\ \A c, d \in Calls : IsRetry(c) /\ IsRetry(d) => c = d
  /\ reconnecting <=> \E c \in Calls : IsRetry(c)

\* Sockets belong to Games, a Game's current one to it, and a Game listens while
\* it is ready.
GamesRun ==
  /\ \A s \in Sockets : sock[s].is = "free" => sock[s].of = NoGame
  /\ \A s \in Sockets : sock[s].is # "free" => sock[s].of \in Games
  /\ \A g \in Games : games[g].ready <=> games[g].listening
  /\ \A g \in Games : games[g].socket # NoSocket => sock[games[g].socket].of = g

\* Until a game is started again, there is one call at a time, and nothing of
\* the schedule before the game is started.
StartsOnce ==
  ~hist.again =>
    /\ \A c \in Calls : calls[c] # NoCall /\ gameStarted => IsRetry(c)
    /\ ~gameStarted => timers = 0 /\ ~reconnecting /\ dialog = "hidden"
    /\ \A c, d \in Calls : calls[c] # NoCall /\ calls[d] # NoCall => c = d

\* The session is restored before anything else happens, and whoever has a
\* request, a call, a game or a timer is a user.
RestoreCall(c) == calls[c] # NoCall /\ calls[c].by = "restore"

HasUser ==
  ~hist.mixed =>
    /\ pending["restore"] > 0 => pending["restore"] = 1 /\ \A c \in Calls : calls[c] = NoCall
    /\ \A c \in Calls : RestoreCall(c) =>
         "login" \notin shown /\ \A d \in Calls : calls[d] # NoCall => c = d
    /\ (pending["restore"] > 0 \/ \E c \in Calls : RestoreCall(c)) =>
         /\ ~gameStarted /\ timers = 0 /\ ~reconnecting /\ dialog = "hidden"
         /\ \A s \in Sockets : sock[s].is # "open"
         /\ pending["login"] = 0 /\ pending["character"] = 0 /\ pending["room"] = 0
         /\ shown \subseteq {"login", "logOut"}
    /\ (\E c \in Calls : calls[c] # NoCall) => user
    /\ (pending["character"] > 0 \/ pending["room"] > 0 \/ gameStarted \/ timers = 1) => user

Connecting == \E c \in Calls : Awaits(c, "connect")

\* Until a game is started again or the user signs out, the one socket is the
\* current Game's, and there while a call awaits it or the game is started.
OneOfEach ==
  (~hist.again /\ out = "no") =>
    /\ \A s \in Sockets : sock[s].is # "free" =>
         sock[s].is # "closing" /\ sock[s].of = game /\ games[game].socket = s
    /\ \A g \in Games : games[g].listening => g = game
    /\ gameStarted \/ Connecting => game \in Games /\ games[game].listening
    /\ ~gameStarted /\ ~Connecting => /\ \A s \in Sockets : sock[s].is = "free"
                                      /\ \A g \in Games : ~games[g].listening
    /\ \A c \in Calls : IsRetry(c) => calls[c].step = "connect"
    /\ \A c \in Calls : Awaits(c, "init") => calls[c].game = game
    /\ timers = 1 \/ dialog = "countdown" =>
         /\ \A s \in Sockets : sock[s].is = "free"
         /\ \A c \in Calls : calls[c] = NoCall

\* After that, nothing is left of it.
NothingRemains ==
  (out # "no" /\ ~hist.again /\ ~hist.late) =>
    /\ \A c \in Calls : calls[c] = NoCall
    /\ timers = 0 /\ ~reconnecting
    /\ \A g \in Games : ~games[g].listening
    /\ \A s \in Sockets : sock[s].is \in {"free", "closing"}

SessionInvariant ==
  /\ SessionTypes /\ CallsWait /\ GamesRun /\ StartsOnce /\ HasUser
  /\ OneOfEach /\ NothingRemains /\ DialogIsTrue /\ NoDeadScene

LEMMA SessionTypesAre == SessionTypes => SessionTypeOK
  BY DEF SessionTypes, SessionTypeOK, GameRecords, SocketRecords, CallRecords

LEMMA SessionBegins == ASSUME SessionInit PROVE SessionInvariant
<1> USE ClientSessionAssumption DEF SessionInit
<1>1. /\ \A c \in Calls : calls[c] = NoCall
      /\ \A g \in Games : games[g] = NewGame
      /\ \A s \in Sockets : sock[s] = Free
  OBVIOUS
<1>2. SessionTypes
  <2>1. NewGame \in GameRecords /\ Free \in SocketRecords BY DEF NewGame, Free, GameRecords, SocketRecords
  <2>2. games \in [Games -> GameRecords] /\ sock \in [Sockets -> SocketRecords] BY <2>1
  <2>3. pending \in [RequestKinds -> 0 .. MaxAsked] BY DEF RequestKinds
  <2>4. hist \in Histories BY DEF Histories
  <2>. QED BY <2>2, <2>3, <2>4 DEF SessionTypes
<1>3. CallsWait BY <1>1 DEF CallsWait, Awaits, IsRetry
<1>4. GamesRun BY <1>1 DEF GamesRun, NewGame, Free
<1>5. StartsOnce BY <1>1 DEF StartsOnce
<1>6. HasUser BY <1>1 DEF HasUser, RestoreCall, RequestKinds, Free
<1>7. OneOfEach BY <1>1 DEF OneOfEach, Connecting, Awaits, IsRetry, NewGame, Free
<1>8. NothingRemains /\ DialogIsTrue /\ NoDeadScene BY DEF NothingRemains, DialogIsTrue, NoDeadScene
<1>. QED BY <1>2, <1>3, <1>4, <1>5, <1>6, <1>7, <1>8 DEF SessionInvariant

\* What the histories keep.
LEMMA HistGrows ==
  ASSUME NEW h \in Histories, NEW b \in BOOLEAN, NEW k
  PROVE  /\ k = [h EXCEPT !.mixed = @ \/ b] =>
              k \in Histories /\ (k.mixed <=> h.mixed \/ b) /\ k.again = h.again /\ k.late = h.late
         /\ k = [h EXCEPT !.lost = @ \/ b] =>
              k \in Histories /\ k.mixed = h.mixed /\ k.again = h.again /\ k.late = h.late
         /\ k = [h EXCEPT !.late = @ \/ b] =>
              k \in Histories /\ k.mixed = h.mixed /\ k.again = h.again /\ (k.late <=> h.late \/ b)
<1>1. /\ h.mixed \in BOOLEAN /\ h.again \in BOOLEAN /\ h.lost \in BOOLEAN /\ h.late \in BOOLEAN
  BY DEF Histories
<1>2. /\ (h.mixed \/ b) \in BOOLEAN /\ (h.lost \/ b) \in BOOLEAN
      /\ (h.late \/ b) \in BOOLEAN
  BY <1>1
<1>3. ASSUME k = [h EXCEPT !.mixed = @ \/ b]
      PROVE  k \in Histories /\ (k.mixed <=> h.mixed \/ b) /\ k.again = h.again /\ k.late = h.late
  BY <1>1, <1>2, <1>3 DEF Histories
<1>4. ASSUME k = [h EXCEPT !.lost = @ \/ b]
      PROVE  k \in Histories /\ k.mixed = h.mixed /\ k.again = h.again /\ k.late = h.late
  BY <1>1, <1>2, <1>4 DEF Histories
<1>5. ASSUME k = [h EXCEPT !.late = @ \/ b]
      PROVE  k \in Histories /\ k.mixed = h.mixed /\ k.again = h.again /\ (k.late <=> h.late \/ b)
  BY <1>1, <1>2, <1>5 DEF Histories
<1>. QED BY <1>3, <1>4, <1>5

\* What forms and buttons leave alone.
OnlyForms ==
  /\ UNCHANGED <<calls, game, gameStarted, timers, reconnecting, dialog, games, sock>>
  /\ out = "no" <=> out' = "no"
  /\ hist'.again = hist.again /\ hist'.late = hist.late
  /\ hist.mixed => hist'.mixed

LEMMA FormsKeep ==
  ASSUME SessionInvariant, OnlyForms
  PROVE  CallsWait' /\ GamesRun' /\ StartsOnce' /\ OneOfEach' /\ NothingRemains' /\ DialogIsTrue' /\ NoDeadScene'
<1> USE DEF SessionInvariant, OnlyForms
<1>1. CallsWait' BY DEF CallsWait, Awaits, IsRetry
<1>2. GamesRun' BY DEF GamesRun
<1>3. StartsOnce' BY DEF StartsOnce, IsRetry
<1>4. OneOfEach' BY DEF OneOfEach, Connecting, Awaits, IsRetry
<1>5. NothingRemains' BY DEF NothingRemains
<1>6. DialogIsTrue' BY DEF DialogIsTrue
<1>7. NoDeadScene' BY DEF NoDeadScene, Heard, Current
<1>. QED BY <1>1, <1>2, <1>3, <1>4, <1>5, <1>6, <1>7

LEMMA SessionStutters == SessionInvariant /\ UNCHANGED sessionVars => SessionInvariant'
<1> SUFFICES ASSUME SessionInvariant, UNCHANGED sessionVars PROVE SessionInvariant' OBVIOUS
<1> USE DEF sessionVars, app, started, schedule, net
<1>1. OnlyForms BY DEF OnlyForms
<1>2. SessionTypes' BY DEF SessionInvariant, SessionTypes
<1>3. HasUser' BY DEF SessionInvariant, HasUser, RestoreCall
<1>. QED BY <1>1, <1>2, <1>3, FormsKeep DEF SessionInvariant

\* Answers and questions count the requests.
LEMMA AnswerCounts ==
  ASSUME SessionTypes, NEW r \in RequestKinds, Answer(r)
  PROVE  /\ pending' \in [RequestKinds -> 0 .. MaxAsked]
         /\ pending[r] > 0 /\ pending'[r] = pending[r] - 1
         /\ \A q \in RequestKinds : q # r => pending'[q] = pending[q]
         /\ \A q \in RequestKinds : pending'[q] > 0 => pending[q] > 0
  BY ClientSessionAssumption DEF SessionTypes, Answer

LEMMA AskCounts ==
  ASSUME SessionTypes, NEW r \in RequestKinds, Ask(r)
  PROVE  /\ pending' \in [RequestKinds -> 0 .. MaxAsked]
         /\ HasButtons
         /\ \A q \in RequestKinds : q # r => pending'[q] = pending[q]
<1>1. \A q \in RequestKinds : pending[q] \in 0 .. MaxAsked BY DEF SessionTypes
<1>2. pending["restore"] + pending["login"] + pending["character"] + pending["room"] < MaxAsked
  BY DEF Ask, Awaited
<1>3. pending[r] < MaxAsked BY <1>1, <1>2, ClientSessionAssumption DEF RequestKinds
<1>. QED BY <1>1, <1>3, ClientSessionAssumption DEF SessionTypes, Ask

LEMMA SNoSession == ASSUME SessionInvariant, NoSession PROVE SessionInvariant'
<1> USE DEF NoSession, started, schedule, net
<1> SessionTypes /\ HasUser BY DEF SessionInvariant
<1>1. OnlyForms BY DEF OnlyForms
<1>2. SessionTypes' BY AnswerCounts DEF SessionTypes, RequestKinds
<1>3. HasUser' BY AnswerCounts DEF HasUser, RestoreCall, RequestKinds, SessionTypes
<1>. QED BY <1>1, <1>2, <1>3, FormsKeep DEF SessionInvariant

LEMMA SSubmits == ASSUME SessionInvariant, SubmitLogin PROVE SessionInvariant'
<1> USE DEF SubmitLogin, started, schedule, net
<1> SessionTypes /\ HasUser BY DEF SessionInvariant
<1>0. pending["restore"] \in Nat /\ (pending["restore"] > 0) \in BOOLEAN
  BY ClientSessionAssumption DEF SessionTypes, RequestKinds
<1>a. hist \in Histories BY DEF SessionTypes
<1>b. ASSUME NEW b \in BOOLEAN, b = (pending["restore"] > 0)
      PROVE  /\ hist' \in Histories /\ hist'.again = hist.again /\ hist'.late = hist.late
             /\ (hist.mixed => hist'.mixed) /\ (b => hist'.mixed)
  <2>1. hist' = [hist EXCEPT !.mixed = @ \/ b] BY <1>b
  <2>. QED BY <1>a, <2>1, HistGrows
<1>1. hist' \in Histories /\ hist'.again = hist.again /\ hist'.late = hist.late
      /\ (hist.mixed => hist'.mixed) /\ (pending["restore"] > 0 => hist'.mixed)
  BY <1>0, <1>b
<1>2. OnlyForms BY <1>1 DEF OnlyForms
<1>3. SessionTypes' BY <1>1, AskCounts DEF SessionTypes, RequestKinds
<1>4. HasUser' BY <1>1, AskCounts DEF HasUser, RestoreCall, RequestKinds, SessionTypes
<1>. QED BY <1>2, <1>3, <1>4, FormsKeep DEF SessionInvariant

LEMMA SAccepted == ASSUME SessionInvariant, LoginAccepted PROVE SessionInvariant'
<1> USE DEF LoginAccepted, started, schedule, net
<1> SessionTypes /\ HasUser BY DEF SessionInvariant
<1>1. OnlyForms BY DEF OnlyForms
<1>2. SessionTypes' BY AnswerCounts DEF SessionTypes, RequestKinds
<1>3. HasUser' BY AnswerCounts DEF HasUser, RestoreCall, RequestKinds, SessionTypes
<1>. QED BY <1>1, <1>2, <1>3, FormsKeep DEF SessionInvariant

LEMMA SRefused == ASSUME SessionInvariant, LoginRefused PROVE SessionInvariant'
<1> USE DEF LoginRefused, started, schedule, net
<1> SessionTypes /\ HasUser BY DEF SessionInvariant
<1>1. OnlyForms BY DEF OnlyForms
<1>2. SessionTypes' BY AnswerCounts DEF SessionTypes, RequestKinds
<1>3. HasUser' BY AnswerCounts DEF HasUser, RestoreCall, RequestKinds, SessionTypes
<1>. QED BY <1>1, <1>2, <1>3, FormsKeep DEF SessionInvariant

LEMMA SNotSaved == ASSUME SessionInvariant, Refused PROVE SessionInvariant'
<1> USE DEF Refused, started, schedule, net
<1> SessionTypes /\ HasUser BY DEF SessionInvariant
<1>1. OnlyForms BY DEF OnlyForms
<1>2. SessionTypes' BY AnswerCounts DEF SessionTypes, RequestKinds
<1>3. HasUser' BY AnswerCounts DEF HasUser, RestoreCall, RequestKinds, SessionTypes
<1>. QED BY <1>1, <1>2, <1>3, FormsKeep DEF SessionInvariant

LEMMA SEdits == ASSUME SessionInvariant, EditCharacter PROVE SessionInvariant'
<1> USE DEF EditCharacter, started, schedule, net
<1>1. OnlyForms BY DEF OnlyForms
<1>2. SessionTypes' BY DEF SessionInvariant, SessionTypes
<1>3. HasUser' BY DEF SessionInvariant, HasUser, RestoreCall, SessionTypes
<1>. QED BY <1>1, <1>2, <1>3, FormsKeep DEF SessionInvariant

LEMMA SCancels == ASSUME SessionInvariant, CancelCharacter PROVE SessionInvariant'
<1> USE DEF CancelCharacter, started, schedule, net
<1>1. OnlyForms BY DEF OnlyForms
<1>2. SessionTypes' BY DEF SessionInvariant, SessionTypes
<1>3. HasUser' BY DEF SessionInvariant, HasUser, RestoreCall, SessionTypes
<1>. QED BY <1>1, <1>2, <1>3, FormsKeep DEF SessionInvariant

LEMMA SSubmitsLook == ASSUME SessionInvariant, SubmitCharacter PROVE SessionInvariant'
<1> USE DEF SubmitCharacter, started, schedule, net
<1> SessionTypes /\ HasUser BY DEF SessionInvariant
<1>1. OnlyForms BY DEF OnlyForms
<1>2. SessionTypes' BY AskCounts DEF SessionTypes, RequestKinds
<1>3. HasUser' BY AskCounts DEF HasUser, RestoreCall, RequestKinds, SessionTypes
<1>. QED BY <1>1, <1>2, <1>3, FormsKeep DEF SessionInvariant

LEMMA SSubmitsRoom == ASSUME SessionInvariant, SubmitRoom PROVE SessionInvariant'
<1> USE DEF SubmitRoom, started, schedule, net
<1> SessionTypes /\ HasUser BY DEF SessionInvariant
<1>1. OnlyForms BY DEF OnlyForms
<1>2. SessionTypes' BY AskCounts DEF SessionTypes, RequestKinds
<1>3. HasUser' BY AskCounts DEF HasUser, RestoreCall, RequestKinds, SessionTypes
<1>. QED BY <1>1, <1>2, <1>3, FormsKeep DEF SessionInvariant

LEMMA SJoined == ASSUME SessionInvariant, RoomJoined PROVE SessionInvariant'
<1> USE DEF RoomJoined, started, schedule, net
<1>1. OnlyForms BY DEF OnlyForms
<1>2. SessionTypes' BY DEF SessionInvariant, SessionTypes
<1>3. HasUser' BY DEF SessionInvariant, HasUser, RestoreCall, SessionTypes
<1>. QED BY <1>1, <1>2, <1>3, FormsKeep DEF SessionInvariant

LEMMA SLoggedOut == ASSUME SessionInvariant, LoggedOut PROVE SessionInvariant'
<1> USE DEF LoggedOut, app, started, schedule, net
<1>1. OnlyForms BY DEF OnlyForms
<1>2. SessionTypes' BY DEF SessionInvariant, SessionTypes
<1>3. HasUser' BY DEF SessionInvariant, HasUser, RestoreCall, SessionTypes
<1>. QED BY <1>1, <1>2, <1>3, FormsKeep DEF SessionInvariant

\* startGame begins one call more.
Begun(c, by) ==
  /\ calls[c] = NoCall /\ calls'[c] \in CallRecords /\ calls'[c] # NoCall
  /\ calls'[c].by = by /\ calls'[c].step \in {"load", "init"} /\ calls'[c].game = game
  /\ calls'[c].step = "init" => game # NoGame
  /\ \A d \in Calls : d # c => calls'[d] = calls[d]
  /\ calls' \in [Calls -> {NoCall} \cup CallRecords]

LEMMA StartBegins ==
  ASSUME SessionTypes, NEW by \in {"restore", "character", "room"}, StartGame(by)
  PROVE  /\ \E c \in Calls : Begun(c, by)
         /\ hist' \in Histories /\ hist'.mixed = hist.mixed
         /\ hist'.again <=> hist.again \/ gameStarted \/ AnyCall
         /\ hist'.late <=> hist.late \/ out # "no"
<1> DEFINE step == IF game = NoGame THEN "load" ELSE "init"
           k == [by |-> by, step |-> step, game |-> game, socket |-> NoSocket]
<1>1. PICK c \in Calls : calls[c] = NoCall /\ calls' = [calls EXCEPT ![c] = k]
  BY DEF StartGame, FreeCall
<1>2. k \in CallRecords BY DEF SessionTypes, CallRecords
<1>3. k # NoCall BY <1>2, ClientSessionAssumption
<1>4. /\ calls[c] = NoCall /\ calls'[c] = k
      /\ \A d \in Calls : d # c => calls'[d] = calls[d]
      /\ calls' \in [Calls -> {NoCall} \cup CallRecords]
  BY <1>1, <1>2 DEF SessionTypes
<1>5. ASSUME NEW b \in BOOLEAN, b = (out # "no"), NEW d \in BOOLEAN, d = (gameStarted \/ AnyCall)
      PROVE  /\ hist' \in Histories /\ hist'.mixed = hist.mixed
             /\ (hist'.again <=> hist.again \/ d) /\ (hist'.late <=> hist.late \/ b)
  <2>1. hist' = [hist EXCEPT !.late = @ \/ b, !.again = @ \/ d] BY <1>5 DEF StartGame
  <2>2. hist \in Histories BY DEF SessionTypes
  <2>3. /\ hist.mixed \in BOOLEAN /\ hist.again \in BOOLEAN /\ hist.lost \in BOOLEAN /\ hist.late \in BOOLEAN
    BY <2>2 DEF Histories
  <2>4. (hist.late \/ b) \in BOOLEAN /\ (hist.again \/ d) \in BOOLEAN BY <2>3
  <2>. QED BY <2>1, <2>2, <2>3, <2>4 DEF Histories
<1>6. (out # "no") \in BOOLEAN /\ (gameStarted \/ AnyCall) \in BOOLEAN BY DEF SessionTypes, AnyCall
<1>7. /\ hist' \in Histories /\ hist'.mixed = hist.mixed
      /\ (hist'.again <=> hist.again \/ (gameStarted \/ AnyCall)) /\ (hist'.late <=> hist.late \/ out # "no")
  BY <1>5, <1>6
<1>. QED BY <1>2, <1>3, <1>4, <1>7 DEF Begun

\* Apart from the user it needs, a start keeps the invariant.
LEMMA StartKeeps ==
  ASSUME SessionInvariant, NEW by \in {"restore", "character", "room"}, StartGame(by),
         UNCHANGED <<game, gameStarted, schedule, net, out>>
  PROVE  CallsWait' /\ GamesRun' /\ StartsOnce' /\ OneOfEach' /\ NothingRemains' /\ DialogIsTrue' /\ NoDeadScene'
<1> USE DEF SessionInvariant, schedule, net
<1>1. PICK c \in Calls : Begun(c, by)
  BY StartBegins
<1> USE DEF Begun
<1>2. /\ hist'.mixed = hist.mixed
      /\ hist'.again <=> hist.again \/ gameStarted \/ AnyCall
      /\ hist'.late <=> hist.late \/ out # "no"
  BY StartBegins
<1>3. ~IsRetry(c)' /\ ~IsRetry(c) /\ ~Awaits(c, "connect")' /\ ~Awaits(c, "connect")
  BY <1>1 DEF IsRetry, Awaits
<1>4. \A d \in Calls : d # c => (IsRetry(d)' <=> IsRetry(d)) /\ (Awaits(d, "connect")' <=> Awaits(d, "connect"))
                                /\ (Awaits(d, "init")' <=> Awaits(d, "init"))
  BY <1>1 DEF IsRetry, Awaits
<1>5. CallsWait'
  <2>1. game \in Games \cup {NoGame} BY DEF SessionTypes
  <2>2. \A d \in Calls : calls'[d] # NoCall =>
       /\ calls'[d].step = "init" => calls'[d].by # "retry" /\ calls'[d].game \in Games
       /\ calls'[d].step = "connect" =>
            calls'[d].socket \in Sockets /\ sock'[calls'[d].socket].is \in {"connecting", "closing"}
    BY <1>1, <2>1 DEF CallsWait
  <2>3. \A d, e \in Calls :
       Awaits(d, "connect")' /\ Awaits(e, "connect")' /\ calls'[d].socket = calls'[e].socket => d = e
    BY <1>1, <1>3, <1>4 DEF CallsWait
  <2>4. \A d, e \in Calls : IsRetry(d)' /\ IsRetry(e)' => d = e
    BY <1>3, <1>4 DEF CallsWait
  <2>5. reconnecting' <=> \E d \in Calls : IsRetry(d)'
    BY <1>3, <1>4 DEF CallsWait
  <2>. QED BY <2>2, <2>3, <2>4, <2>5 DEF CallsWait
<1>6. GamesRun' BY DEF GamesRun
<1>7. StartsOnce'
  <2> SUFFICES ASSUME ~hist'.again
               PROVE  /\ \A d \in Calls : calls'[d] # NoCall /\ gameStarted' => IsRetry(d)'
                      /\ ~gameStarted' => timers' = 0 /\ ~reconnecting' /\ dialog' = "hidden"
                      /\ \A d, e \in Calls : calls'[d] # NoCall /\ calls'[e] # NoCall => d = e
    BY DEF StartsOnce
  <2>1. ~hist.again /\ ~gameStarted /\ \A d \in Calls : calls[d] = NoCall BY <1>2 DEF AnyCall
  <2>. QED BY <1>1, <2>1 DEF StartsOnce
<1>8. OneOfEach'
  <2> SUFFICES ASSUME ~hist'.again, out' = "no" PROVE OneOfEach' BY DEF OneOfEach
  <2>1. ~hist.again /\ ~gameStarted /\ \A d \in Calls : calls[d] = NoCall BY <1>2 DEF AnyCall
  <2>2. ~Connecting' /\ ~Connecting /\ \A d \in Calls : ~IsRetry(d)'
    BY <1>1, <2>1, <1>3 DEF Connecting, Awaits, IsRetry
  <2>3. timers = 0 /\ dialog = "hidden" BY <2>1 DEF StartsOnce
  <2>4. \A d \in Calls : Awaits(d, "init")' => calls'[d].game = game' BY <1>1, <2>1 DEF Awaits
  <2>. QED BY <2>1, <2>2, <2>3, <2>4 DEF OneOfEach
<1>9. NothingRemains' BY <1>2 DEF NothingRemains
<1>10. DialogIsTrue' BY <1>2 DEF DialogIsTrue
<1>11. NoDeadScene' BY <1>2 DEF NoDeadScene, Heard, Current
<1>. QED BY <1>5, <1>6, <1>7, <1>8, <1>9, <1>10, <1>11

LEMMA SRestored == ASSUME SessionInvariant, SessionRestored PROVE SessionInvariant'
<1> USE DEF SessionRestored
<1> SessionTypes /\ HasUser /\ CallsWait BY DEF SessionInvariant
<1>0. StartGame("restore") /\ UNCHANGED <<game, gameStarted, schedule, net, out>> BY DEF schedule, net
<1>1. CallsWait' /\ GamesRun' /\ StartsOnce' /\ OneOfEach' /\ NothingRemains' /\ DialogIsTrue' /\ NoDeadScene'
  BY <1>0, StartKeeps
<1>2. PICK c \in Calls : Begun(c, "restore")
  BY StartBegins
<1> USE DEF Begun
<1>3. hist' \in Histories /\ hist'.mixed = hist.mixed BY StartBegins
<1>4. /\ pending' \in [RequestKinds -> 0 .. MaxAsked]
      /\ pending["restore"] > 0 /\ pending'["restore"] = pending["restore"] - 1
      /\ \A q \in RequestKinds : q # "restore" => pending'[q] = pending[q]
  BY AnswerCounts DEF RequestKinds
<1>5. SessionTypes' BY <1>2, <1>3, <1>4 DEF SessionTypes, schedule, net
<1>6. HasUser'
  <2> SUFFICES ASSUME ~hist.mixed PROVE HasUser' BY <1>3 DEF HasUser
  <2>1. pending["restore"] = 1 /\ \A d \in Calls : calls[d] = NoCall BY <1>4 DEF HasUser
  <2>. QED BY <1>2, <1>4, <2>1 DEF HasUser, RestoreCall, RequestKinds, schedule, net
<1>. QED BY <1>1, <1>5, <1>6 DEF SessionInvariant

LEMMA SSaved == ASSUME SessionInvariant, CharacterSaved PROVE SessionInvariant'
<1> USE DEF CharacterSaved
<1> SessionTypes /\ HasUser BY DEF SessionInvariant
<1>1. /\ pending' \in [RequestKinds -> 0 .. MaxAsked]
      /\ pending["character"] > 0
      /\ \A q \in RequestKinds : pending'[q] > 0 => pending[q] > 0
      /\ \A q \in RequestKinds : q # "character" => pending'[q] = pending[q]
      /\ pending'["character"] >= 0 /\ pending'["character"] < pending["character"]
  BY AnswerCounts, ClientSessionAssumption DEF RequestKinds, SessionTypes
<1>2. CASE joinedRoom
  <2>1. OnlyForms BY <1>2 DEF OnlyForms, schedule, net
  <2>2. SessionTypes' BY <1>1, <1>2 DEF SessionTypes, schedule, net
  <2>3. HasUser' BY <1>1, <1>2 DEF HasUser, RestoreCall, RequestKinds, SessionTypes, schedule, net
  <2>. QED BY <2>1, <2>2, <2>3, FormsKeep DEF SessionInvariant
<1>3. CASE ~joinedRoom
  <2>0. StartGame("character") /\ UNCHANGED <<game, gameStarted, schedule, net, out>>
    BY <1>3 DEF schedule, net
  <2>1. CallsWait' /\ GamesRun' /\ StartsOnce' /\ OneOfEach' /\ NothingRemains' /\ DialogIsTrue' /\ NoDeadScene'
    BY <2>0, StartKeeps
  <2>2. PICK c \in Calls : Begun(c, "character")
    BY <2>0, StartBegins
  <2> USE DEF Begun
  <2>3. hist' \in Histories /\ hist'.mixed = hist.mixed BY <2>0, StartBegins
  <2>4. SessionTypes' BY <1>1, <1>3, <2>2, <2>3 DEF SessionTypes, schedule, net
  <2>5. HasUser'
    <3> SUFFICES ASSUME ~hist.mixed PROVE HasUser' BY <2>3 DEF HasUser
    <3>1. pending["restore"] = 0 /\ \A d \in Calls : ~RestoreCall(d)
      BY <1>1, ClientSessionAssumption DEF HasUser, SessionTypes, RequestKinds
    <3>2. pending'["restore"] = 0 BY <1>1, <3>1 DEF RequestKinds
    <3>3. \A d \in Calls : ~RestoreCall(d)' BY <2>2, <3>1 DEF RestoreCall
    <3>. QED BY <3>2, <3>3 DEF HasUser
  <2>. QED BY <2>1, <2>4, <2>5 DEF SessionInvariant
<1>. QED BY <1>2, <1>3

LEMMA SCreated == ASSUME SessionInvariant, RoomCreated PROVE SessionInvariant'
<1> USE DEF RoomCreated
<1> SessionTypes /\ HasUser BY DEF SessionInvariant
<1>1. /\ pending' \in [RequestKinds -> 0 .. MaxAsked]
      /\ pending["room"] > 0
      /\ \A q \in RequestKinds : pending'[q] > 0 => pending[q] > 0
      /\ \A q \in RequestKinds : q # "room" => pending'[q] = pending[q]
      /\ pending'["room"] >= 0 /\ pending'["room"] < pending["room"]
  BY AnswerCounts, ClientSessionAssumption DEF RequestKinds, SessionTypes
<1>2. CASE gameStarted
  <2>1. OnlyForms BY <1>2 DEF OnlyForms, schedule, net
  <2>2. SessionTypes' BY <1>1, <1>2 DEF SessionTypes, schedule, net
  <2>3. HasUser' BY <1>1, <1>2 DEF HasUser, RestoreCall, RequestKinds, SessionTypes, schedule, net
  <2>. QED BY <2>1, <2>2, <2>3, FormsKeep DEF SessionInvariant
<1>3. CASE ~gameStarted
  <2>0. StartGame("room") /\ UNCHANGED <<game, gameStarted, schedule, net, out>>
    BY <1>3 DEF schedule, net
  <2>1. CallsWait' /\ GamesRun' /\ StartsOnce' /\ OneOfEach' /\ NothingRemains' /\ DialogIsTrue' /\ NoDeadScene'
    BY <2>0, StartKeeps
  <2>2. PICK c \in Calls : Begun(c, "room")
    BY <2>0, StartBegins
  <2> USE DEF Begun
  <2>3. hist' \in Histories /\ hist'.mixed = hist.mixed BY <2>0, StartBegins
  <2>4. SessionTypes' BY <1>1, <1>3, <2>2, <2>3 DEF SessionTypes, schedule, net
  <2>5. HasUser'
    <3> SUFFICES ASSUME ~hist.mixed PROVE HasUser' BY <2>3 DEF HasUser
    <3>1. pending["restore"] = 0 /\ (\A d \in Calls : ~RestoreCall(d)) /\ user
      BY <1>1, ClientSessionAssumption DEF HasUser, SessionTypes, RequestKinds
    <3>2. pending'["restore"] = 0 BY <1>1, <3>1 DEF RequestKinds
    <3>3. \A d \in Calls : ~RestoreCall(d)' BY <2>2, <3>1 DEF RestoreCall
    <3>. QED BY <3>1, <3>2, <3>3 DEF HasUser
  <2>. QED BY <2>1, <2>4, <2>5 DEF SessionInvariant
<1>. QED BY <1>2, <1>3

\* What dialling makes of a Game, a socket and a call.
Dialled(c, by, g, f, s) ==
  /\ sock[s].is = "free"
  /\ sock' \in [Sockets -> SocketRecords] /\ sock'[s].is = "connecting" /\ sock'[s].of = g
  /\ \A q \in Sockets : q # s => sock'[q] = sock[q]
  /\ games' \in [Games -> GameRecords] /\ games'[g].socket = s
  /\ games'[g].ready = f.ready /\ games'[g].listening = f.listening
  /\ \A h \in Games : h # g => games'[h] = games[h]
  /\ calls' \in [Calls -> {NoCall} \cup CallRecords] /\ calls'[c] # NoCall
  /\ calls'[c].by = by /\ calls'[c].step = "connect" /\ calls'[c].game = g /\ calls'[c].socket = s
  /\ \A d \in Calls : d # c => calls'[d] = calls[d]

LEMMA DialShape ==
  ASSUME SessionTypes, NEW c \in Calls, NEW by \in {"restore", "character", "room", "retry"},
         NEW g \in Games, NEW f \in GameRecords, Dial(c, by, g, f)
  PROVE  \E s \in Sockets : Dialled(c, by, g, f, s)
<1>1. PICK s \in Sockets :
        /\ sock[s] = Free
        /\ sock' = [sock EXCEPT ![s] = [is |-> "connecting", of |-> g]]
        /\ games' = [games EXCEPT ![g] = [f EXCEPT !.socket = s]]
        /\ calls' = [calls EXCEPT ![c] = [by |-> by, step |-> "connect", game |-> g, socket |-> s]]
  BY DEF Dial, FreeSocket
<1> DEFINE k == [by |-> by, step |-> "connect", game |-> g, socket |-> s]
<1>2. k \in CallRecords BY DEF CallRecords
<1>3. k # NoCall BY <1>2, ClientSessionAssumption
<1>4. /\ calls' \in [Calls -> {NoCall} \cup CallRecords] /\ calls'[c] = k
      /\ \A d \in Calls : d # c => calls'[d] = calls[d]
  BY <1>1, <1>2 DEF SessionTypes
<1>5. /\ [f EXCEPT !.socket = s] \in GameRecords /\ [f EXCEPT !.socket = s].socket = s
      /\ [f EXCEPT !.socket = s].ready = f.ready /\ [f EXCEPT !.socket = s].listening = f.listening
  BY DEF GameRecords
<1>6. /\ games' \in [Games -> GameRecords] /\ games'[g] = [f EXCEPT !.socket = s]
      /\ \A h \in Games : h # g => games'[h] = games[h]
  BY <1>1, <1>5 DEF SessionTypes
<1>7. [is |-> "connecting", of |-> g] \in SocketRecords BY DEF SocketRecords
<1>8. /\ sock' \in [Sockets -> SocketRecords] /\ sock'[s] = [is |-> "connecting", of |-> g]
      /\ \A q \in Sockets : q # s => sock'[q] = sock[q]
  BY <1>1, <1>7 DEF SessionTypes
<1>9. sock[s].is = "free" BY <1>1 DEF Free
<1>. QED BY <1>3, <1>4, <1>5, <1>6, <1>8, <1>9 DEF Dialled

\* The record of a Game, and its fields.
LEMMA GameFields ==
  ASSUME SessionTypes, NEW g \in Games
  PROVE  /\ games[g] \in GameRecords /\ NewGame \in GameRecords
         /\ [games[g] EXCEPT !.ready = TRUE, !.listening = TRUE] \in GameRecords
         /\ [games[g] EXCEPT !.ready = TRUE, !.listening = TRUE].ready
         /\ [games[g] EXCEPT !.ready = TRUE, !.listening = TRUE].listening
         /\ ~NewGame.ready /\ ~NewGame.listening /\ NewGame.socket = NoSocket
  BY DEF SessionTypes, GameRecords, NewGame

\* What a call that dials leaves of the invariant's parts about calls, sockets
\* and Games.
LEMMA DialKeeps ==
  ASSUME SessionTypes, CallsWait, GamesRun,
         NEW c \in Calls, NEW by \in {"restore", "character", "room", "retry"},
         NEW g \in Games, NEW f \in GameRecords, Dial(c, by, g, f),
         f.ready <=> f.listening,
         by = "retry" => \A d \in Calls : IsRetry(d) => d = c,
         by # "retry" => ~IsRetry(c),
         reconnecting' <=> (by = "retry" \/ reconnecting)
  PROVE  CallsWait' /\ GamesRun'
<1>1. PICK s \in Sockets : Dialled(c, by, g, f, s)
  BY DialShape
<1> USE DEF Dialled
<1>2. \A d \in Calls : d # c /\ Awaits(d, "connect")' => Awaits(d, "connect") /\ calls'[d].socket = calls[d].socket
  BY <1>1 DEF Awaits
<1>3. \A d \in Calls : Awaits(d, "connect") => calls[d].socket \in Sockets /\ calls[d].socket # s
  BY <1>1 DEF Awaits, CallsWait
<1>4. \A d \in Calls : d # c => (IsRetry(d)' <=> IsRetry(d)) BY <1>1 DEF IsRetry
<1>5. IsRetry(c)' <=> by = "retry" BY <1>1 DEF IsRetry
<1>6. CallsWait'
  <2>1. \A d \in Calls : calls'[d] # NoCall =>
         /\ calls'[d].step = "init" => calls'[d].by # "retry" /\ calls'[d].game \in Games
         /\ calls'[d].step = "connect" =>
              calls'[d].socket \in Sockets /\ sock'[calls'[d].socket].is \in {"connecting", "closing"}
    <3> SUFFICES ASSUME NEW d \in Calls, calls'[d] # NoCall
                 PROVE  /\ calls'[d].step = "init" => calls'[d].by # "retry" /\ calls'[d].game \in Games
                        /\ calls'[d].step = "connect" =>
                             calls'[d].socket \in Sockets /\ sock'[calls'[d].socket].is \in {"connecting", "closing"}
      OBVIOUS
    <3>1. CASE d = c BY <1>1, <3>1
    <3>2. CASE d # c BY <1>1, <1>3, <3>2 DEF CallsWait, Awaits
    <3>. QED BY <3>1, <3>2
  <2>2. \A d, e \in Calls :
         Awaits(d, "connect")' /\ Awaits(e, "connect")' /\ calls'[d].socket = calls'[e].socket => d = e
    BY <1>1, <1>2, <1>3 DEF CallsWait
  <2>3. \A d, e \in Calls : IsRetry(d)' /\ IsRetry(e)' => d = e BY <1>4, <1>5 DEF CallsWait
  <2>4. reconnecting' <=> \E d \in Calls : IsRetry(d)' BY <1>4, <1>5 DEF CallsWait
  <2>. QED BY <2>1, <2>2, <2>3, <2>4 DEF CallsWait
<1>7. GamesRun'
  <2>1. \A q \in Sockets : sock'[q].is = "free" => sock'[q].of = NoGame BY <1>1 DEF GamesRun
  <2>2. \A q \in Sockets : sock'[q].is # "free" => sock'[q].of \in Games BY <1>1 DEF GamesRun
  <2>3. \A h \in Games : games'[h].ready <=> games'[h].listening BY <1>1 DEF GamesRun
  <2>4. \A h \in Games : games'[h].socket # NoSocket => sock'[games'[h].socket].of = h
    <3> SUFFICES ASSUME NEW h \in Games, games'[h].socket # NoSocket PROVE sock'[games'[h].socket].of = h
      OBVIOUS
    <3>1. CASE h = g BY <1>1, <3>1
    <3>2. CASE h # g
      <4>1. games'[h].socket = games[h].socket BY <1>1, <3>2
      <4>2. games[h].socket \in Sockets BY <4>1 DEF SessionTypes, GameRecords
      <4>3. sock[games[h].socket].of = h BY <4>1 DEF GamesRun
      <4>4. games[h].socket # s BY <1>1, <4>3, ClientSessionAssumption DEF GamesRun
      <4>. QED BY <1>1, <4>1, <4>2, <4>3, <4>4
    <3>. QED BY <3>1, <3>2
  <2>. QED BY <2>1, <2>2, <2>3, <2>4 DEF GamesRun
<1>. QED BY <1>6, <1>7

\* Nothing is restored while a timer runs or the dialog is shown.
LEMMA SReconnect ==
  ASSUME SessionInvariant, Reconnect, timers > 0 \/ dialog = "countdown"
  PROVE  SessionInvariant'
<1> USE DEF SessionInvariant, Reconnect, MayTry, ClearReconnectSchedule
<1>1. PICK c \in Calls :
        /\ calls[c] = NoCall
        /\ IF game # NoGame
           THEN Dial(c, "retry", game, games[game])
           ELSE /\ calls' = [calls EXCEPT ![c] = [by |-> "retry", step |-> "load",
                                                 game |-> NoGame, socket |-> NoSocket]]
                /\ UNCHANGED net
  BY DEF FreeCall
<1>2. /\ hist' \in Histories /\ hist'.mixed = hist.mixed /\ hist'.again = hist.again
      /\ hist'.late <=> hist.late \/ out # "no"
  <2>1. ASSUME NEW b \in BOOLEAN, b = (out # "no")
        PROVE  /\ hist' \in Histories /\ hist'.mixed = hist.mixed /\ hist'.again = hist.again
               /\ (hist'.late <=> hist.late \/ b)
    <3>1. hist' = [hist EXCEPT !.late = @ \/ b] BY <2>1
    <3>2. hist \in Histories BY DEF SessionTypes
    <3>. QED BY <3>1, <3>2, HistGrows
  <2>. QED BY <2>1
<1>3. \A d \in Calls : ~IsRetry(d) BY DEF CallsWait
<1>4. ~hist.mixed => pending["restore"] = 0 /\ \A d \in Calls : ~RestoreCall(d)
  BY ClientSessionAssumption DEF HasUser, SessionTypes, RequestKinds
<1>5. ~hist.again => gameStarted /\ \A d \in Calls : calls[d] = NoCall
  BY <1>3 DEF StartsOnce
<1>6. /\ calls' \in [Calls -> {NoCall} \cup CallRecords] /\ calls'[c] # NoCall /\ calls'[c].by = "retry"
      /\ \A d \in Calls : d # c => calls'[d] = calls[d]
      /\ games' \in [Games -> GameRecords] /\ sock' \in [Sockets -> SocketRecords]
      /\ CallsWait' /\ GamesRun'
      /\ \A s \in Sockets : sock'[s].is = "open" => sock[s].is = "open"
  <2>1. CASE game # NoGame
    <3>1. game \in Games /\ games[game] \in GameRecords BY <2>1 DEF SessionTypes, GameRecords
    <3>2. Dial(c, "retry", game, games[game]) BY <1>1, <2>1
    <3>3. games[game].ready <=> games[game].listening BY <3>1 DEF GamesRun
    <3>4. CallsWait' /\ GamesRun' BY <1>3, <3>1, <3>2, <3>3, DialKeeps
    <3>5. \E s \in Sockets : Dialled(c, "retry", game, games[game], s)
      <4> HIDE DEF SessionInvariant, Reconnect, MayTry, ClearReconnectSchedule
      <4>1. SessionTypes BY DEF SessionInvariant
      <4>. QED BY <3>1, <3>2, <4>1, DialShape
    <3>. QED BY <3>4, <3>5 DEF Dialled
  <2>2. CASE game = NoGame
    <3> DEFINE k == [by |-> "retry", step |-> "load", game |-> NoGame, socket |-> NoSocket]
    <3>1. k \in CallRecords /\ k # NoCall BY ClientSessionAssumption DEF CallRecords
    <3>2. calls' = [calls EXCEPT ![c] = k] /\ UNCHANGED net BY <1>1, <2>2
    <3>3. /\ calls' \in [Calls -> {NoCall} \cup CallRecords] /\ calls'[c] = k
          /\ \A d \in Calls : d # c => calls'[d] = calls[d]
      BY <3>1, <3>2 DEF SessionTypes
    <3>4. games' \in [Games -> GameRecords] /\ sock' \in [Sockets -> SocketRecords] BY <3>2 DEF net, SessionTypes
    <3>5. GamesRun' BY <3>2 DEF GamesRun, net
    <3>6. IsRetry(c)' /\ (\A d \in Calls : d # c => ~IsRetry(d)') /\ ~Awaits(c, "connect")'
          /\ (\A d \in Calls : d # c => (Awaits(d, "connect")' <=> Awaits(d, "connect")))
      BY <1>3, <3>1, <3>3 DEF IsRetry, Awaits
    <3>7. CallsWait'
      <4>1. \A d \in Calls : calls'[d] # NoCall =>
             /\ calls'[d].step = "init" => calls'[d].by # "retry" /\ calls'[d].game \in Games
             /\ calls'[d].step = "connect" =>
                  calls'[d].socket \in Sockets /\ sock'[calls'[d].socket].is \in {"connecting", "closing"}
        BY <3>1, <3>2, <3>3 DEF CallsWait, net
      <4>2. \A d, e \in Calls :
             Awaits(d, "connect")' /\ Awaits(e, "connect")' /\ calls'[d].socket = calls'[e].socket => d = e
        BY <3>3, <3>6 DEF CallsWait
      <4>. QED BY <3>6, <4>1, <4>2 DEF CallsWait
    <3>. QED BY <3>1, <3>2, <3>3, <3>4, <3>5, <3>7 DEF net
  <2>. QED BY <2>1, <2>2
<1>7. SessionTypes' BY <1>2, <1>6 DEF SessionTypes, app
<1>8. StartsOnce' BY <1>2, <1>5, <1>6 DEF StartsOnce, IsRetry
<1>9. HasUser' BY <1>2, <1>4, <1>6 DEF HasUser, RestoreCall, app
<1>10. OneOfEach'
  <2> SUFFICES ASSUME ~hist'.again, out' = "no" PROVE OneOfEach' BY DEF OneOfEach
  <2>1. ~hist.again /\ out = "no" /\ gameStarted /\ \A d \in Calls : calls[d] = NoCall BY <1>2, <1>5
  <2>2. game \in Games /\ games[game].listening BY <2>1 DEF OneOfEach
  <2>3. \A s \in Sockets : sock[s].is = "free"
    BY <2>1 DEF OneOfEach, SessionTypes
  <2>4. Dial(c, "retry", game, games[game]) BY <1>1, <2>2, ClientSessionAssumption
  <2>5. games[game] \in GameRecords /\ SessionTypes BY <2>2 DEF SessionTypes, GameRecords
  <2>6. \E s \in Sockets : Dialled(c, "retry", game, games[game], s)
    <3> HIDE DEF SessionInvariant, Reconnect, MayTry, ClearReconnectSchedule
    <3>. QED BY <2>2, <2>4, <2>5, DialShape
  <2>11. PICK s \in Sockets : Dialled(c, "retry", game, games[game], s) BY <2>6
  <2> USE DEF Dialled
  <2>7. Connecting' /\ \A d \in Calls : ~Awaits(d, "init")' BY <2>1, <2>11 DEF Connecting, Awaits
  <2>8. \A d \in Calls : IsRetry(d)' => calls'[d].step = "connect" BY <2>1, <2>11 DEF IsRetry
  <2>. QED BY <2>1, <2>2, <2>3, <2>11, <2>7, <2>8 DEF OneOfEach
<1>11. NothingRemains' BY <1>2 DEF NothingRemains
<1>12. DialogIsTrue' BY DEF DialogIsTrue
<1>13. NoDeadScene' BY DEF NoDeadScene
<1>. QED BY <1>6, <1>7, <1>8, <1>9, <1>10, <1>11, <1>12, <1>13

LEMMA STimer == ASSUME SessionInvariant, RetryTimer PROVE SessionInvariant'
<1>1. CASE Reconnect BY <1>1, SReconnect DEF RetryTimer
<1>2. CASE /\ ~MayTry
           /\ timers' = timers - 1
           /\ UNCHANGED <<app, started, reconnecting, dialog, net, out, hist>>
  <2> USE <1>2 DEF SessionInvariant, started, net, app
  <2>1. timers = 1 /\ timers' = 0 BY DEF RetryTimer, SessionTypes
  <2>2. SessionTypes' BY <2>1 DEF SessionTypes
  <2>3. CallsWait' BY DEF CallsWait, IsRetry, Awaits
  <2>4. GamesRun' BY DEF GamesRun
  <2>5. StartsOnce' BY <2>1 DEF StartsOnce, IsRetry
  <2>6. HasUser' BY <2>1 DEF HasUser, RestoreCall
  <2>7. OneOfEach' BY <2>1 DEF OneOfEach, Connecting, Awaits, IsRetry
  <2>8. NothingRemains' BY <2>1 DEF NothingRemains
  <2>9. ~hist.mixed => reconnecting BY <2>1 DEF HasUser, MayTry
  <2>10. DialogIsTrue' BY <2>1, <2>9 DEF DialogIsTrue
  <2>11. NoDeadScene' BY <2>1, <2>9 DEF NoDeadScene
  <2>. QED BY <2>2, <2>3, <2>4, <2>5, <2>6, <2>7, <2>8, <2>10, <2>11
<1>. QED BY <1>1, <1>2 DEF RetryTimer

LEMMA SRetryNow == ASSUME SessionInvariant, RetryNow PROVE SessionInvariant'
  BY SReconnect DEF RetryNow

\* A call that is over.
LEMMA OverShape ==
  ASSUME SessionTypes, NEW c \in Calls, Over(c)
  PROVE  /\ calls' \in [Calls -> {NoCall} \cup CallRecords] /\ calls'[c] = NoCall
         /\ \A d \in Calls : d # c => calls'[d] = calls[d]
  BY DEF SessionTypes, Over

LEMMA OverKeeps ==
  ASSUME SessionTypes, CallsWait, NEW c \in Calls, Over(c),
         reconnecting' <=> (reconnecting /\ ~IsRetry(c)),
         \A d \in Calls : d # c /\ Awaits(d, "connect") => sock'[calls[d].socket].is \in {"connecting", "closing"}
  PROVE  CallsWait'
<1>1. /\ calls' \in [Calls -> {NoCall} \cup CallRecords] /\ calls'[c] = NoCall
      /\ \A d \in Calls : d # c => calls'[d] = calls[d]
  BY OverShape
<1>2. ~IsRetry(c)' /\ ~Awaits(c, "connect")' BY <1>1 DEF IsRetry, Awaits
<1>3. \A d \in Calls : d # c =>
        (IsRetry(d)' <=> IsRetry(d)) /\ (Awaits(d, "connect")' <=> Awaits(d, "connect"))
  BY <1>1 DEF IsRetry, Awaits
<1>4. \A d \in Calls : calls'[d] # NoCall =>
       /\ calls'[d].step = "init" => calls'[d].by # "retry" /\ calls'[d].game \in Games
       /\ calls'[d].step = "connect" =>
            calls'[d].socket \in Sockets /\ sock'[calls'[d].socket].is \in {"connecting", "closing"}
  BY <1>1 DEF CallsWait, Awaits
<1>5. \A d, e \in Calls :
       Awaits(d, "connect")' /\ Awaits(e, "connect")' /\ calls'[d].socket = calls'[e].socket => d = e
  BY <1>1, <1>2, <1>3 DEF CallsWait
<1>6. \A d, e \in Calls : IsRetry(d)' /\ IsRetry(e)' => d = e BY <1>2, <1>3 DEF CallsWait
<1>7. reconnecting' <=> \E d \in Calls : IsRetry(d)' BY <1>2, <1>3 DEF CallsWait
<1>. QED BY <1>4, <1>5, <1>6, <1>7 DEF CallsWait

\* A call is not there beside a restoring one, and after the sign-out only
\* when it came late.
LEMMA CallTells ==
  ASSUME SessionInvariant, NEW c \in Calls, calls[c] # NoCall
  PROVE  /\ ~hist.mixed => user /\ pending["restore"] = 0 /\ \A d \in Calls : RestoreCall(d) => c = d
         /\ ~hist.mixed /\ RestoreCall(c) =>
              /\ ~gameStarted /\ timers = 0 /\ pending["character"] = 0 /\ pending["room"] = 0
              /\ \A d \in Calls : d # c => calls[d] = NoCall
         /\ ~hist.again => \A d \in Calls : d # c => calls[d] = NoCall
         /\ ~hist.again /\ ~IsRetry(c) => ~gameStarted /\ timers = 0 /\ ~reconnecting /\ dialog = "hidden"
         /\ ~hist.again /\ IsRetry(c) => gameStarted
         /\ hist.again \/ hist.late \/ out = "no"
<1> USE DEF SessionInvariant
<1>1. pending["restore"] \in Nat /\ pending["character"] \in Nat /\ pending["room"] \in Nat
  BY ClientSessionAssumption DEF SessionTypes, RequestKinds
<1>2. ~hist.mixed => user /\ pending["restore"] = 0 /\ \A d \in Calls : RestoreCall(d) => c = d
  BY <1>1 DEF HasUser
<1>3. ~hist.mixed /\ RestoreCall(c) =>
              /\ ~gameStarted /\ timers = 0 /\ pending["character"] = 0 /\ pending["room"] = 0
              /\ \A d \in Calls : d # c => calls[d] = NoCall
  BY <1>1 DEF HasUser
<1>4. ~hist.again => \A d \in Calls : d # c => calls[d] = NoCall BY DEF StartsOnce
<1>5. ~hist.again /\ ~IsRetry(c) => ~gameStarted /\ timers = 0 /\ ~reconnecting /\ dialog = "hidden"
  BY DEF StartsOnce
<1>6. ~hist.again /\ IsRetry(c) => gameStarted BY DEF StartsOnce, CallsWait
<1>7. hist.again \/ hist.late \/ out = "no" BY DEF NothingRemains
<1>. QED BY <1>2, <1>3, <1>4, <1>5, <1>6, <1>7

\* What a start that failed leaves of the users' part.
LEMMA FailedStart ==
  ASSUME SessionInvariant, NEW c \in Calls, calls[c] # NoCall, ~IsRetry(c), StartFails(c),
         pending' = pending, gameStarted' => gameStarted, hist' \in Histories,
         hist'.mixed = hist.mixed, hist'.again = hist.again, hist'.late = hist.late, out' = out
  PROVE  /\ HasUser' /\ StartsOnce' /\ NothingRemains' /\ DialogIsTrue'
         /\ user' \in BOOLEAN /\ shown' \subseteq {"login", "editor", "edit", "logOut", "create"}
<1>1. SessionTypes /\ HasUser /\ StartsOnce /\ DialogIsTrue BY DEF SessionInvariant
<1>2. /\ calls'[c] = NoCall
      /\ \A d \in Calls : d # c => calls'[d] = calls[d]
  BY <1>1, OverShape DEF StartFails
<1>3. user' \in BOOLEAN /\ shown' \subseteq {"login", "editor", "edit", "logOut", "create"}
  BY <1>1 DEF StartFails, SessionTypes
<1>4. HasUser'
  <2> SUFFICES ASSUME ~hist.mixed PROVE HasUser' BY DEF HasUser
  <2>1. pending'["restore"] = 0 /\ \A d \in Calls : ~RestoreCall(d)'
    BY <1>2, CallTells DEF RestoreCall
  <2>2. CASE RestoreCall(c)
    <3>1. /\ ~gameStarted' /\ timers' = 0 /\ pending'["character"] = 0 /\ pending'["room"] = 0
          /\ \A d \in Calls : calls'[d] = NoCall
      BY <1>2, <2>2, CallTells DEF StartFails, schedule
    <3>. QED BY <2>1, <3>1 DEF HasUser
  <2>3. CASE ~RestoreCall(c)
    <3>1. user' = user /\ user BY <2>3, CallTells DEF StartFails, RestoreCall
    <3>. QED BY <2>1, <3>1 DEF HasUser
  <2>. QED BY <2>2, <2>3
<1>5. StartsOnce'
  <2> SUFFICES ASSUME ~hist.again PROVE StartsOnce' BY DEF StartsOnce
  <2>1. ~gameStarted' /\ timers' = 0 /\ ~reconnecting' /\ dialog' = "hidden" /\ \A d \in Calls : calls'[d] = NoCall
    BY <1>2, CallTells DEF StartFails, schedule
  <2>. QED BY <2>1 DEF StartsOnce
<1>6. NothingRemains' BY CallTells DEF NothingRemains
<1>7. DialogIsTrue' BY <1>1 DEF DialogIsTrue, StartFails, schedule
<1>. QED BY <1>3, <1>4, <1>5, <1>6, <1>7

\* What a failed attempt leaves.
LEMMA FailedAttempt ==
  ASSUME SessionInvariant, NEW c \in Calls, IsRetry(c), AttemptFails(c),
         UNCHANGED <<pending, out>>
  PROVE  /\ HasUser' /\ StartsOnce' /\ NothingRemains' /\ DialogIsTrue' /\ NoDeadScene'
         /\ timers' = 1 /\ dialog' = "countdown" /\ reconnecting' = FALSE
<1> calls[c] # NoCall BY DEF IsRetry
<1> USE DEF AttemptFails, ScheduleReconnect, ClearReconnectSchedule, AttemptOver
<1>1. SessionTypes /\ HasUser /\ StartsOnce BY DEF SessionInvariant
<1>2. /\ calls'[c] = NoCall
      /\ \A d \in Calls : d # c => calls'[d] = calls[d]
  BY <1>1, OverShape
<1>3. timers' = 1 /\ dialog' = "countdown" /\ reconnecting' = FALSE OBVIOUS
<1>4. HasUser'
  <2> SUFFICES ASSUME ~hist.mixed PROVE HasUser' BY DEF HasUser
  <2>1. pending'["restore"] = 0 /\ \A d \in Calls : ~RestoreCall(d)'
    BY <1>2, CallTells DEF RestoreCall
  <2>2. user' BY CallTells
  <2>. QED BY <2>1, <2>2 DEF HasUser
<1>5. StartsOnce'
  <2> SUFFICES ASSUME ~hist.again PROVE StartsOnce' BY DEF StartsOnce
  <2>1. gameStarted' /\ \A d \in Calls : calls'[d] = NoCall BY <1>2, CallTells
  <2>. QED BY <2>1 DEF StartsOnce
<1>6. NothingRemains' BY CallTells DEF NothingRemains
<1>7. DialogIsTrue' BY <1>3 DEF DialogIsTrue
<1>8. NoDeadScene' BY <1>3 DEF NoDeadScene
<1>. QED BY <1>3, <1>4, <1>5, <1>6, <1>7, <1>8

\* What giving a game up leaves of the history, and the current Game.
LEMMA GivenUp ==
  ASSUME SessionTypes, NEW c \in Calls, GivesUp(c)
  PROVE  /\ hist' \in Histories /\ hist'.mixed = hist.mixed /\ hist'.again = hist.again /\ hist'.late = hist.late
         /\ gameStarted' = FALSE /\ game' \in Games \cup {NoGame}
<1>1. hist \in Histories /\ hist.again \in BOOLEAN /\ game \in Games \cup {NoGame} BY DEF SessionTypes, Histories
<1>2. ASSUME NEW b \in BOOLEAN, b = hist.again
      PROVE  hist' \in Histories /\ hist'.mixed = hist.mixed /\ hist'.again = hist.again /\ hist'.late = hist.late
  <2>1. hist' = [hist EXCEPT !.lost = @ \/ b] BY <1>2 DEF GivesUp
  <2>. QED BY <1>1, <2>1, HistGrows
<1>. QED BY <1>1, <1>2 DEF GivesUp

\* What stopping a Game leaves of it and its socket.
LEMMA StopShape ==
  ASSUME SessionTypes, GamesRun, NEW g \in Games
  PROVE  /\ StoppedGames(g) \in [Games -> GameRecords]
         /\ ~StoppedGames(g)[g].ready /\ ~StoppedGames(g)[g].listening /\ StoppedGames(g)[g].socket = NoSocket
         /\ \A h \in Games : h # g => StoppedGames(g)[h] = games[h]
         /\ HungUp(g) \in [Sockets -> SocketRecords]
         /\ \A s \in Sockets : s # games[g].socket => HungUp(g)[s] = sock[s]
         /\ \A s \in Sockets : s = games[g].socket =>
              HungUp(g)[s].is = "closing" /\ HungUp(g)[s].of = g /\ sock[s].of = g
         /\ \A s \in Sockets : HungUp(g)[s].of = sock[s].of
         /\ \A s \in Sockets : sock[s].is \in {"connecting", "closing"} => HungUp(g)[s].is \in {"connecting", "closing"}
         /\ \A s \in Sockets : sock[s].is = "free" <=> HungUp(g)[s].is = "free"
<1> DEFINE k == [NewGame EXCEPT !.listening = StopsListening(g)]
<1>1. k \in GameRecords /\ ~k.ready /\ ~k.listening /\ k.socket = NoSocket
  BY DEF NewGame, StopsListening, GameRecords
<1>2. StoppedGames(g) = [games EXCEPT ![g] = k] BY DEF StoppedGames
<1>3. /\ StoppedGames(g) \in [Games -> GameRecords]
      /\ ~StoppedGames(g)[g].ready /\ ~StoppedGames(g)[g].listening /\ StoppedGames(g)[g].socket = NoSocket
      /\ \A h \in Games : h # g => StoppedGames(g)[h] = games[h]
  <2> HIDE DEF k
  <2>. QED BY <1>1, <1>2 DEF SessionTypes
<1>4. \A s \in Sockets : /\ [sock[s] EXCEPT !.is = "closing"] \in SocketRecords
                         /\ [sock[s] EXCEPT !.is = "closing"].is = "closing"
                         /\ [sock[s] EXCEPT !.is = "closing"].of = sock[s].of
                         /\ sock[s] \in SocketRecords
  BY DEF SessionTypes, SocketRecords
<1>5. HungUp(g) \in [Sockets -> SocketRecords] BY <1>4 DEF HungUp
<1>6. \A s \in Sockets : HungUp(g)[s] = IF s = games[g].socket THEN [sock[s] EXCEPT !.is = "closing"] ELSE sock[s]
  BY DEF HungUp
<1>7. \A s \in Sockets : s = games[g].socket => sock[s].of = g /\ sock[s].is # "free"
  BY ClientSessionAssumption DEF GamesRun
<1> HIDE DEF k
<1>8. \A s \in Sockets : s # games[g].socket => HungUp(g)[s] = sock[s] BY <1>6
<1>9. \A s \in Sockets : s = games[g].socket =>
        HungUp(g)[s].is = "closing" /\ HungUp(g)[s].of = g /\ sock[s].of = g
  BY <1>4, <1>6, <1>7
<1>10. \A s \in Sockets : HungUp(g)[s].of = sock[s].of BY <1>8, <1>9
<1>11. \A s \in Sockets : sock[s].is \in {"connecting", "closing"} => HungUp(g)[s].is \in {"connecting", "closing"}
  BY <1>8, <1>9
<1>12. \A s \in Sockets : sock[s].is = "free" <=> HungUp(g)[s].is = "free" BY <1>7, <1>8, <1>9
<1>. QED BY <1>3, <1>5, <1>8, <1>9, <1>10, <1>11, <1>12

LEMMA SLoaded == ASSUME SessionInvariant, NEW c \in Calls, GameLoaded(c) PROVE SessionInvariant'
<1> calls[c] # NoCall /\ calls[c].step = "load" /\ ~Awaits(c, "connect") /\ ~Awaits(c, "init")
  BY DEF GameLoaded, Awaits
<1>0. SessionTypes /\ CallsWait /\ GamesRun /\ StartsOnce /\ HasUser
      /\ OneOfEach /\ NothingRemains /\ DialogIsTrue /\ NoDeadScene
  BY DEF SessionInvariant
<1>a. pending' = pending /\ joinedRoom' = joinedRoom /\ out' = out BY DEF GameLoaded
<1>b. Retries(c) <=> IsRetry(c) BY DEF Retries, IsRetry
<1>c. IsRetry(c) /\ ~hist.again => out # "no" BY <1>0 DEF OneOfEach
<1>1. ASSUME NEW g \in Games, FreeGame(g), game' = g, Retries(c), Dial(c, "retry", g, NewGame),
             UNCHANGED <<user, shown, gameStarted, schedule, hist>>
      PROVE  SessionInvariant'
  <2>1. PICK s \in Sockets : Dialled(c, "retry", g, NewGame, s) BY <1>0, <1>1, GameFields, DialShape
  <2>2. IsRetry(c) /\ reconnecting /\ reconnecting' BY <1>0, <1>1, <1>b DEF CallsWait, schedule
  <2>3. ~NewGame.ready /\ ~NewGame.listening /\ NewGame \in GameRecords BY <1>0, GameFields
  <2>4. \A d \in Calls : IsRetry(d) => d = c BY <1>0, <2>2 DEF CallsWait
  <2>5. CallsWait' /\ GamesRun' BY <1>0, <1>1, <2>2, <2>3, <2>4, DialKeeps
  <2>6. SessionTypes' BY <1>0, <1>1, <1>a, <2>1 DEF SessionTypes, Dialled, schedule
  <2>7. \A d \in Calls : /\ calls'[d] # NoCall => calls[d] # NoCall
                         /\ IsRetry(d)' <=> IsRetry(d)
                         /\ RestoreCall(d)' => RestoreCall(d)
    BY <2>1, <2>2 DEF Dialled, IsRetry, RestoreCall
  <2>8. StartsOnce' BY <1>0, <1>1, <2>7 DEF StartsOnce, schedule
  <2>9. HasUser' BY <1>0, <1>1, <1>a, <2>2, <2>7, CallTells DEF HasUser, RestoreCall
  <2>10. OneOfEach' BY <1>1, <1>a, <1>c, <2>2 DEF OneOfEach
  <2>11. NothingRemains' BY <1>1, <1>a, CallTells DEF NothingRemains
  <2>12. DialogIsTrue' BY <1>0, <1>1, <1>a DEF DialogIsTrue, schedule
  <2>13. NoDeadScene' BY <2>2 DEF NoDeadScene
  <2>. QED BY <2>5, <2>6, <2>8, <2>9, <2>10, <2>11, <2>12, <2>13 DEF SessionInvariant
<1>2. ASSUME NEW g \in Games, FreeGame(g), game' = g, ~Retries(c),
             calls' = [calls EXCEPT ![c] = [@ EXCEPT !.step = "init", !.game = g]],
             games' = [games EXCEPT ![g] = NewGame], sock' = sock,
             UNCHANGED <<user, shown, gameStarted, schedule, hist>>
      PROVE  SessionInvariant'
  <2> USE <1>2, <1>a DEF schedule
  <2>1. calls[c] \in CallRecords BY <1>0 DEF SessionTypes
  <2> DEFINE k == [calls[c] EXCEPT !.step = "init", !.game = g]
  <2>2. k \in CallRecords /\ k.by = calls[c].by /\ k.step = "init" /\ k.game = g
    BY <2>1 DEF CallRecords
  <2>3. k # NoCall BY <2>2, ClientSessionAssumption
  <2>4. calls' = [calls EXCEPT ![c] = k] OBVIOUS
  <2> HIDE DEF k
  <2>5. /\ calls' \in [Calls -> {NoCall} \cup CallRecords] /\ calls'[c] = k
        /\ \A d \in Calls : d # c => calls'[d] = calls[d]
    BY <1>0, <2>2, <2>4 DEF SessionTypes
  <2>6. /\ games' \in [Games -> GameRecords] /\ games'[g] = NewGame
        /\ ~games'[g].ready /\ ~games'[g].listening /\ games'[g].socket = NoSocket
        /\ \A h \in Games : h # g => games'[h] = games[h]
    BY <1>0, GameFields DEF SessionTypes
  <2>7. SessionTypes' BY <1>0, <2>5, <2>6 DEF SessionTypes
  <2>8. \A d \in Calls : /\ calls'[d] # NoCall <=> calls[d] # NoCall
                         /\ IsRetry(d)' <=> IsRetry(d)
                         /\ RestoreCall(d)' <=> RestoreCall(d)
                         /\ Awaits(d, "connect")' <=> Awaits(d, "connect")
                         /\ calls'[d] # NoCall /\ calls'[d].step = "connect" => calls'[d] = calls[d]
    BY <2>2, <2>3, <2>5 DEF IsRetry, RestoreCall, Awaits
  <2>9. CallsWait'
    <3>1. \A d \in Calls : calls'[d] # NoCall =>
           /\ calls'[d].step = "init" => calls'[d].by # "retry" /\ calls'[d].game \in Games
           /\ calls'[d].step = "connect" =>
                calls'[d].socket \in Sockets /\ sock'[calls'[d].socket].is \in {"connecting", "closing"}
      BY <1>0, <2>2, <2>5, <2>8 DEF CallsWait, Retries
    <3>2. \A d, e \in Calls :
           Awaits(d, "connect")' /\ Awaits(e, "connect")' /\ calls'[d].socket = calls'[e].socket => d = e
      BY <1>0, <2>5, <2>8 DEF CallsWait, Awaits
    <3>3. \A d, e \in Calls : IsRetry(d)' /\ IsRetry(e)' => d = e BY <1>0, <2>8 DEF CallsWait
    <3>4. reconnecting' <=> \E d \in Calls : IsRetry(d)' BY <1>0, <2>8 DEF CallsWait
    <3>. QED BY <3>1, <3>2, <3>3, <3>4 DEF CallsWait
  <2>10. GamesRun' BY <1>0, <2>6 DEF GamesRun
  <2>11. StartsOnce' BY <1>0, <2>8 DEF StartsOnce
  <2>12. HasUser' BY <1>0, <2>8 DEF HasUser
  <2>13. OneOfEach'
    <3> SUFFICES ASSUME ~hist.again, out = "no" PROVE OneOfEach' BY DEF OneOfEach
    <3>1. /\ ~gameStarted /\ timers = 0 /\ dialog = "hidden"
          /\ \A d \in Calls : d # c => calls[d] = NoCall
      BY <1>b, CallTells
    <3>2. ~Connecting BY <3>1 DEF Connecting, Awaits
    <3>3. (\A s \in Sockets : sock[s].is = "free") /\ \A h \in Games : ~games[h].listening
      BY <1>0, <3>1, <3>2 DEF OneOfEach
    <3>4. \A h \in Games : ~games'[h].listening BY <2>6, <3>3
    <3>5. ~Connecting' BY <2>8, <3>2 DEF Connecting
    <3>6. \A d \in Calls : ~IsRetry(d)' BY <1>b, <2>8, <3>1 DEF IsRetry
    <3>7. \A d \in Calls : Awaits(d, "init")' => calls'[d].game = game' BY <2>2, <2>5, <3>1 DEF Awaits
    <3>. QED BY <3>1, <3>3, <3>4, <3>5, <3>6, <3>7 DEF OneOfEach
  <2>14. NothingRemains' BY CallTells DEF NothingRemains
  <2>15. DialogIsTrue' BY <1>0 DEF DialogIsTrue
  <2>16. NoDeadScene'
    <3> SUFFICES ASSUME gameStarted, out = "no", ~hist.mixed, ~reconnecting, timers # 1 PROVE NoDeadScene'
      BY DEF NoDeadScene
    <3>1. PICK s \in Sockets : Heard(s) /\ (Current(s) \/ hist.again) BY <1>0 DEF NoDeadScene
    <3>2. hist.again BY <1>b, CallTells
    <3>3. sock[s].of # g BY <3>1 DEF Heard, FreeGame, Unused
    <3>4. sock[s].of \in Games BY <1>0, <3>1 DEF Heard, GamesRun
    <3>5. Heard(s)' BY <2>6, <3>1, <3>3, <3>4 DEF Heard
    <3>. QED BY <3>2, <3>5 DEF NoDeadScene
  <2>. QED BY <2>7, <2>9, <2>10, <2>11, <2>12, <2>13, <2>14, <2>15, <2>16 DEF SessionInvariant
<1>3. ASSUME Retries(c), AttemptFails(c), UNCHANGED net PROVE SessionInvariant'
  <2>1. IsRetry(c) BY <1>3, <1>b
  <2>2. /\ HasUser' /\ StartsOnce' /\ NothingRemains' /\ DialogIsTrue' /\ NoDeadScene'
        /\ timers' = 1 /\ dialog' = "countdown" /\ reconnecting' = FALSE
    BY <1>3, <1>a, <2>1, FailedAttempt
  <2>a. calls' \in [Calls -> {NoCall} \cup CallRecords] BY <1>0, <1>3, OverShape DEF AttemptFails
  <2>3. SessionTypes' BY <1>0, <1>3, <1>a, <2>2, <2>a DEF SessionTypes, AttemptFails, net
  <2>4. CallsWait'
    <3>1. Over(c) /\ sock' = sock BY <1>3 DEF AttemptFails, net
    <3>2. \A d \in Calls : Awaits(d, "connect") => sock'[calls[d].socket].is \in {"connecting", "closing"}
      BY <1>0, <3>1 DEF CallsWait, Awaits
    <3>. QED BY <1>0, <2>1, <2>2, <3>1, <3>2, OverKeeps
  <2>5. GamesRun' BY <1>0, <1>3 DEF GamesRun, net
  <2>6. OneOfEach' BY <1>3, <1>a, <1>c, <2>1 DEF OneOfEach, AttemptFails
  <2>. QED BY <2>2, <2>3, <2>4, <2>5, <2>6 DEF SessionInvariant
<1>4. ASSUME ~Retries(c), StartFails(c), UNCHANGED <<game, gameStarted, hist>>, UNCHANGED net PROVE SessionInvariant'
  <2> USE <1>4, <1>a
  <2>1. ~IsRetry(c) /\ hist \in Histories BY <1>0, <1>b DEF SessionTypes
  <2>2. /\ HasUser' /\ StartsOnce' /\ NothingRemains' /\ DialogIsTrue'
        /\ user' \in BOOLEAN /\ shown' \subseteq {"login", "editor", "edit", "logOut", "create"}
    BY <2>1, FailedStart
  <2>3. Over(c) /\ UNCHANGED schedule BY DEF StartFails
  <2>4. /\ calls' \in [Calls -> {NoCall} \cup CallRecords] /\ calls'[c] = NoCall
        /\ \A d \in Calls : d # c => calls'[d] = calls[d]
    BY <1>0, <2>3, OverShape
  <2>5. SessionTypes' BY <1>0, <2>2, <2>3, <2>4 DEF SessionTypes, net, schedule
  <2>6. CallsWait'
    <3>1. \A d \in Calls : Awaits(d, "connect") => sock'[calls[d].socket].is \in {"connecting", "closing"}
      BY <1>0 DEF CallsWait, Awaits, net
    <3>. QED BY <1>0, <2>1, <2>3, <3>1, OverKeeps DEF schedule
  <2>7. GamesRun' BY <1>0 DEF GamesRun, net
  <2>8. OneOfEach'
    <3> SUFFICES ASSUME ~hist.again, out = "no" PROVE OneOfEach' BY DEF OneOfEach
    <3>1. /\ ~gameStarted /\ timers = 0 /\ dialog = "hidden"
          /\ \A d \in Calls : d # c => calls[d] = NoCall
      BY <2>1, CallTells
    <3>2. ~Connecting BY <3>1 DEF Connecting, Awaits
    <3>3. (\A s \in Sockets : sock[s].is = "free") /\ \A h \in Games : ~games[h].listening
      BY <1>0, <3>1, <3>2 DEF OneOfEach
    <3>4. \A d \in Calls : calls'[d] = NoCall BY <2>4, <3>1
    <3>. QED BY <2>3, <3>1, <3>3, <3>4 DEF OneOfEach, Connecting, Awaits, IsRetry, net, schedule
  <2>9. NoDeadScene'
    <3>1. games' = games /\ sock' = sock /\ timers' = timers /\ reconnecting' = reconnecting
      BY <2>3 DEF net, schedule
    <3>. QED BY <1>0, <3>1 DEF NoDeadScene, Heard, Current
  <2>. QED BY <2>2, <2>5, <2>6, <2>7, <2>8, <2>9 DEF SessionInvariant
<1>. QED BY <1>1, <1>2, <1>3, <1>4 DEF GameLoaded

LEMMA SInitialized == ASSUME SessionInvariant, NEW c \in Calls, AppInitialized(c) PROVE SessionInvariant'
<1> calls[c] # NoCall /\ calls[c].step = "init" /\ ~Awaits(c, "connect")
  BY DEF AppInitialized, Awaits
<1>0. SessionTypes /\ CallsWait /\ GamesRun /\ StartsOnce /\ HasUser
      /\ OneOfEach /\ NothingRemains /\ DialogIsTrue /\ NoDeadScene
  BY DEF SessionInvariant
<1>a. pending' = pending /\ joinedRoom' = joinedRoom /\ out' = out BY DEF AppInitialized
<1> DEFINE g == calls[c].game
           by == calls[c].by
           f == [games[g] EXCEPT !.ready = TRUE, !.listening = TRUE]
<1>b. g \in Games /\ by # "retry" /\ ~IsRetry(c) /\ by \in {"restore", "character", "room", "retry"}
  BY <1>0 DEF CallsWait, IsRetry, SessionTypes, CallRecords
<1>c. \/ /\ Dial(c, by, g, f)
         /\ UNCHANGED <<user, shown, game, gameStarted, schedule, hist>>
      \/ /\ StartFails(c) /\ GivesUp(c)
         /\ games' = StoppedGames(g) /\ sock' = HungUp(g)
  BY DEF AppInitialized
\* Until a game is started again there is nothing beside this call.
<1>d. ~hist.again => /\ ~gameStarted /\ timers = 0 /\ ~reconnecting /\ dialog = "hidden"
                     /\ \A d \in Calls : d # c => calls[d] = NoCall
  BY <1>b, CallTells
<1>e. ~hist.again /\ out = "no" =>
        /\ \A s \in Sockets : sock[s].is = "free"
        /\ \A h \in Games : ~games[h].listening
        /\ game = g
  <2> SUFFICES ASSUME ~hist.again, out = "no"
               PROVE  /\ \A s \in Sockets : sock[s].is = "free"
                      /\ \A h \in Games : ~games[h].listening
                      /\ game = g
    OBVIOUS
  <2>1. ~Connecting BY <1>d DEF Connecting, Awaits
  <2>2. Awaits(c, "init") BY DEF Awaits
  <2>. QED BY <1>0, <1>d, <2>1, <2>2 DEF OneOfEach
<1>f. hist.again \/ hist.late \/ out = "no" BY CallTells
<1>1. ASSUME Dial(c, by, g, f), UNCHANGED <<user, shown, game, gameStarted, schedule, hist>>
      PROVE  SessionInvariant'
  <2>0. f \in GameRecords /\ f.ready /\ f.listening BY <1>0, <1>b, GameFields
  <2> HIDE DEF f, g, by
  <2>1. PICK s \in Sockets : Dialled(c, by, g, f, s) BY <1>0, <1>1, <1>b, <2>0, DialShape
  <2>2. reconnecting' = reconnecting /\ timers' = timers /\ dialog' = dialog BY <1>1 DEF schedule
  <2>3. CallsWait' /\ GamesRun' BY <1>0, <1>1, <1>b, <2>0, <2>2, DialKeeps
  <2>4. SessionTypes' BY <1>0, <1>1, <1>a, <2>1, <2>2 DEF SessionTypes, Dialled
  <2>5. \A d \in Calls : /\ calls'[d] # NoCall <=> calls[d] # NoCall
                         /\ IsRetry(d)' <=> IsRetry(d)
                         /\ RestoreCall(d)' <=> RestoreCall(d)
    BY <1>b, <2>1 DEF Dialled, IsRetry, RestoreCall, by
  <2>6. StartsOnce' BY <1>0, <1>1, <2>2, <2>5 DEF StartsOnce
  <2>7. HasUser'
    <3>1. \A q \in Sockets : sock'[q].is = "open" => sock[q].is = "open" BY <2>1 DEF Dialled
    <3>. QED BY <1>0, <1>1, <1>a, <2>2, <2>5, <3>1 DEF HasUser
  <2>8. OneOfEach'
    <3> SUFFICES ASSUME ~hist.again, out = "no" PROVE OneOfEach' BY <1>1, <1>a DEF OneOfEach
    <3>1. Connecting' BY <2>1 DEF Dialled, Connecting, Awaits
    <3>2. \A d \in Calls : ~IsRetry(d)' /\ ~Awaits(d, "init")'
      BY <1>b, <1>d, <2>1, <2>5 DEF Dialled, Awaits, IsRetry
    <3>3. timers' = 0 /\ dialog' = "hidden" BY <1>d, <2>2
    <3>4. game' = g /\ games'[g].listening /\ games'[g].socket = s BY <1>1, <1>e, <2>0, <2>1 DEF Dialled
    <3>5. \A h \in Games : games'[h].listening => h = game' BY <1>e, <2>1, <3>4 DEF Dialled
    <3>6. \A q \in Sockets : sock'[q].is # "free" =>
            sock'[q].is # "closing" /\ sock'[q].of = game' /\ games'[game'].socket = q
      BY <1>e, <2>1, <3>4 DEF Dialled
    <3>. QED BY <1>b, <3>1, <3>2, <3>3, <3>4, <3>5, <3>6 DEF OneOfEach
  <2>9. NothingRemains' BY <1>1, <1>a, <1>f DEF NothingRemains
  <2>10. DialogIsTrue' BY <1>0, <1>1, <1>a, <2>2 DEF DialogIsTrue
  <2>11. NoDeadScene'
    <3> SUFFICES ASSUME gameStarted, out = "no", ~hist.mixed, ~reconnecting, timers # 1 PROVE NoDeadScene'
      BY <1>1, <1>a, <2>2 DEF NoDeadScene
    <3>1. PICK q \in Sockets : Heard(q) /\ (Current(q) \/ hist.again) BY <1>0 DEF NoDeadScene
    <3>2. hist'.again BY <1>1, <1>d
    <3>3. q # s /\ sock[q].of \in Games BY <1>0, <2>1, <3>1 DEF Dialled, Heard, GamesRun
    <3>4. Heard(q)' BY <2>0, <2>1, <3>1, <3>3 DEF Heard, Dialled
    <3>. QED BY <3>2, <3>4 DEF NoDeadScene
  <2>. QED BY <2>3, <2>4, <2>6, <2>7, <2>8, <2>9, <2>10, <2>11 DEF SessionInvariant
<1>2. ASSUME StartFails(c), GivesUp(c), games' = StoppedGames(g), sock' = HungUp(g) PROVE SessionInvariant'
  <2> HIDE DEF f, g, by
  <2>1. /\ hist' \in Histories /\ hist'.mixed = hist.mixed /\ hist'.again = hist.again /\ hist'.late = hist.late
        /\ gameStarted' = FALSE /\ game' \in Games \cup {NoGame}
    BY <1>0, <1>2, GivenUp
  <2>2. /\ HasUser' /\ StartsOnce' /\ NothingRemains' /\ DialogIsTrue'
        /\ user' \in BOOLEAN /\ shown' \subseteq {"login", "editor", "edit", "logOut", "create"}
    BY <1>2, <1>a, <1>b, <2>1, FailedStart
  <2>3. Over(c) /\ timers' = timers /\ reconnecting' = reconnecting /\ dialog' = dialog
    BY <1>2 DEF StartFails, schedule
  <2>4. /\ calls' \in [Calls -> {NoCall} \cup CallRecords] /\ calls'[c] = NoCall
        /\ \A d \in Calls : d # c => calls'[d] = calls[d]
    BY <1>0, <2>3, OverShape
  <2>5. /\ games' \in [Games -> GameRecords] /\ sock' \in [Sockets -> SocketRecords]
        /\ ~games'[g].ready /\ ~games'[g].listening /\ games'[g].socket = NoSocket
        /\ \A h \in Games : h # g => games'[h] = games[h]
        /\ \A s \in Sockets : sock'[s].of = sock[s].of
        /\ \A s \in Sockets : sock[s].is \in {"connecting", "closing"} => sock'[s].is \in {"connecting", "closing"}
        /\ \A s \in Sockets : sock[s].is = "free" <=> sock'[s].is = "free"
    BY <1>0, <1>2, <1>b, StopShape
  <2>6. SessionTypes' BY <1>0, <1>a, <2>1, <2>2, <2>3, <2>4, <2>5 DEF SessionTypes
  <2>7. CallsWait'
    <3>1. \A d \in Calls : Awaits(d, "connect") => sock'[calls[d].socket].is \in {"connecting", "closing"}
      BY <1>0, <2>5 DEF CallsWait, Awaits
    <3>. QED BY <1>0, <1>b, <2>3, <3>1, OverKeeps
  <2>8. GamesRun'
    <3>1. \A h \in Games : games'[h].socket # NoSocket => h # g /\ games[h].socket = games'[h].socket
      BY <2>5
    <3>2. \A h \in Games : games[h].socket # NoSocket => games[h].socket \in Sockets
      BY <1>0 DEF SessionTypes, GameRecords
    <3>3. \A h \in Games : games'[h].socket # NoSocket => sock'[games'[h].socket].of = h
      BY <1>0, <2>5, <3>1, <3>2 DEF GamesRun
    <3>4. \A h \in Games : games'[h].ready <=> games'[h].listening BY <1>0, <2>5 DEF GamesRun
    <3>5. /\ \A s \in Sockets : sock'[s].is = "free" => sock'[s].of = NoGame
          /\ \A s \in Sockets : sock'[s].is # "free" => sock'[s].of \in Games
      BY <1>0, <2>5 DEF GamesRun
    <3>. QED BY <3>3, <3>4, <3>5 DEF GamesRun
  <2>9. OneOfEach'
    <3> SUFFICES ASSUME ~hist.again, out = "no" PROVE OneOfEach' BY <1>a, <2>1 DEF OneOfEach
    <3>1. \A d \in Calls : calls'[d] = NoCall BY <1>d, <2>4
    <3>2. \A s \in Sockets : sock'[s].is = "free" BY <1>e, <2>5
    <3>3. \A h \in Games : ~games'[h].listening BY <1>e, <2>5
    <3>. QED BY <1>d, <2>1, <2>3, <3>1, <3>2, <3>3 DEF OneOfEach, Connecting, Awaits, IsRetry
  <2>10. NoDeadScene' BY <2>1 DEF NoDeadScene
  <2>. QED BY <2>2, <2>6, <2>7, <2>8, <2>9, <2>10 DEF SessionInvariant
<1>. QED BY <1>c, <1>1, <1>2

\* The socket that a call awaits.
LEMMA WaitTells ==
  ASSUME SessionInvariant, NEW c \in Calls, NEW s \in Sockets, Waits(c, s)
  PROVE  /\ calls[c] # NoCall /\ Awaits(c, "connect") /\ Connecting
         /\ sock[s].is # "free" /\ sock[s].of \in Games
         /\ \A d \in Calls : d # c /\ Awaits(d, "connect") =>
              /\ calls[d].socket \in Sockets \ {s}
              /\ sock[calls[d].socket].is \in {"connecting", "closing"}
         /\ \A g \in Games : games[g].socket = s => g = sock[s].of
         /\ ~hist.again /\ out = "no" =>
              /\ game \in Games /\ games[game].listening
              /\ sock[s].of = game /\ games[game].socket = s
              /\ \A q \in Sockets : q # s => sock[q].is = "free"
              /\ \A h \in Games : games[h].listening => h = game
              /\ timers = 0 /\ dialog # "countdown"
<1> USE DEF SessionInvariant
<1>1. calls[c] # NoCall /\ Awaits(c, "connect") /\ calls[c].socket = s /\ Connecting
  BY DEF Waits, Awaits, Connecting
<1>2. sock[s].is # "free" /\ sock[s].of \in Games
  <2>1. sock[s].is \in {"connecting", "closing"} BY <1>1 DEF CallsWait, Awaits
  <2>. QED BY <2>1 DEF GamesRun
<1>3. \A d \in Calls : d # c /\ Awaits(d, "connect") =>
        /\ calls[d].socket \in Sockets \ {s}
        /\ sock[calls[d].socket].is \in {"connecting", "closing"}
  BY <1>1 DEF CallsWait, Awaits
<1>4. \A g \in Games : games[g].socket = s => g = sock[s].of BY ClientSessionAssumption DEF GamesRun
<1>5. ASSUME ~hist.again, out = "no"
      PROVE  /\ game \in Games /\ games[game].listening
             /\ sock[s].of = game /\ games[game].socket = s
             /\ \A q \in Sockets : q # s => sock[q].is = "free"
             /\ \A h \in Games : games[h].listening => h = game
             /\ timers = 0 /\ dialog # "countdown"
  <2>1. game \in Games /\ games[game].listening BY <1>1, <1>5 DEF OneOfEach
  <2>2. \A q \in Sockets : sock[q].is # "free" => sock[q].of = game /\ games[game].socket = q
    BY <1>5 DEF OneOfEach
  <2>3. \A h \in Games : games[h].listening => h = game BY <1>5 DEF OneOfEach
  <2>4. timers # 1 /\ dialog # "countdown" BY <1>1, <1>5 DEF OneOfEach
  <2>5. timers = 0 BY <2>4 DEF SessionTypes
  <2>. QED BY <1>2, <2>1, <2>2, <2>3, <2>4, <2>5
<1>. QED BY <1>1, <1>2, <1>3, <1>4, <1>5

LEMMA SOpened ==
  ASSUME SessionInvariant, NEW s \in Sockets, NEW c \in Calls, Waits(c, s), sock[s].is = "connecting",
         Opened(s, c), UNCHANGED <<pending, joinedRoom, out>>
  PROVE  SessionInvariant'
<1> USE DEF Opened
<1>0. SessionTypes /\ CallsWait /\ GamesRun /\ StartsOnce /\ HasUser
      /\ OneOfEach /\ NothingRemains /\ DialogIsTrue /\ NoDeadScene
  BY DEF SessionInvariant
<1> DEFINE g == sock[s].of
<1>1. /\ calls[c] # NoCall /\ Awaits(c, "connect") /\ Connecting
      /\ g \in Games
      /\ \A d \in Calls : d # c /\ Awaits(d, "connect") =>
           /\ calls[d].socket \in Sockets \ {s}
           /\ sock[calls[d].socket].is \in {"connecting", "closing"}
      /\ ~hist.again /\ out = "no" =>
           /\ game \in Games /\ games[game].listening
           /\ g = game /\ games[game].socket = s
           /\ \A q \in Sockets : q # s => sock[q].is = "free"
           /\ \A h \in Games : games[h].listening => h = game
           /\ timers = 0 /\ dialog # "countdown"
  BY WaitTells
<1>2. Over(c) /\ games[g].ready /\ gameStarted' = TRUE /\ UNCHANGED <<user, game, timers, hist>> OBVIOUS
<1>3. /\ calls' \in [Calls -> {NoCall} \cup CallRecords] /\ calls'[c] = NoCall
      /\ \A d \in Calls : d # c => calls'[d] = calls[d]
  BY <1>0, <1>2, OverShape
<1>4. /\ sock' \in [Sockets -> SocketRecords] /\ sock'[s].is = "open" /\ sock'[s].of = g
      /\ \A q \in Sockets : q # s => sock'[q] = sock[q]
  BY <1>0 DEF SessionTypes, SocketRecords
<1>5. /\ games' \in [Games -> GameRecords]
      /\ games'[g].connected /\ games'[g].ready = games[g].ready
      /\ games'[g].listening = games[g].listening /\ games'[g].socket = games[g].socket
      /\ \A h \in Games : h # g => games'[h] = games[h]
  BY <1>0, <1>1 DEF SessionTypes, GameRecords
<1>6. /\ IsRetry(c) => reconnecting' = FALSE /\ dialog' = "hidden"
      /\ ~IsRetry(c) => reconnecting' = reconnecting /\ dialog' = dialog
  BY <1>1 DEF Retries, IsRetry, AttemptOver
<1>7. shown' \subseteq {"login", "editor", "edit", "logOut", "create"} BY <1>0 DEF SessionTypes
<1>8. SessionTypes' BY <1>0, <1>2, <1>3, <1>4, <1>5, <1>6, <1>7 DEF SessionTypes
<1> HIDE DEF g, Opened
<1>9. CallsWait'
  <2>1. \A d \in Calls : d # c /\ Awaits(d, "connect") => sock'[calls[d].socket].is \in {"connecting", "closing"}
    BY <1>1, <1>4
  <2>2. reconnecting' <=> (reconnecting /\ ~IsRetry(c)) BY <1>6
  <2>. QED BY <1>0, <1>2, <2>1, <2>2, OverKeeps
<1>10. GamesRun'
  <2>1. \A q \in Sockets : sock'[q].of = sock[q].of BY <1>4 DEF g
  <2>2. \A h \in Games : games'[h].socket = games[h].socket BY <1>5
  <2>3. \A h \in Games : games[h].socket # NoSocket => games[h].socket \in Sockets
    BY <1>0 DEF SessionTypes, GameRecords
  <2>4. \A h \in Games : games'[h].socket # NoSocket => sock'[games'[h].socket].of = h
    BY <1>0, <2>1, <2>2, <2>3 DEF GamesRun
  <2>5. \A h \in Games : games'[h].ready <=> games'[h].listening BY <1>0, <1>5 DEF GamesRun
  <2>6. /\ \A q \in Sockets : sock'[q].is = "free" => sock'[q].of = NoGame
        /\ \A q \in Sockets : sock'[q].is # "free" => sock'[q].of \in Games
    BY <1>0, <1>1, <1>4 DEF GamesRun
  <2>. QED BY <2>4, <2>5, <2>6 DEF GamesRun
<1>11. StartsOnce'
  <2> SUFFICES ASSUME ~hist.again PROVE StartsOnce' BY <1>2 DEF StartsOnce
  <2>1. \A d \in Calls : calls'[d] = NoCall BY <1>1, <1>3, CallTells
  <2>. QED BY <1>2, <2>1 DEF StartsOnce
<1>12. HasUser'
  <2> SUFFICES ASSUME ~hist.mixed PROVE HasUser' BY <1>2 DEF HasUser
  <2>1. pending'["restore"] = 0 /\ \A d \in Calls : ~RestoreCall(d)'
    BY <1>1, <1>3, CallTells DEF RestoreCall
  <2>2. user' BY <1>1, <1>2, CallTells
  <2>. QED BY <2>1, <2>2 DEF HasUser
<1>13. OneOfEach'
  <2> SUFFICES ASSUME ~hist.again, out = "no" PROVE OneOfEach' BY <1>2 DEF OneOfEach
  <2>1. \A d \in Calls : calls'[d] = NoCall BY <1>1, <1>3, CallTells
  <2>2. game' = g /\ games'[g].listening /\ games'[g].socket = s /\ g \in Games BY <1>1, <1>2, <1>5
  <2>3. \A h \in Games : games'[h].listening => h = game' BY <1>1, <1>2, <1>5
  <2>4. \A q \in Sockets : sock'[q].is # "free" =>
          sock'[q].is # "closing" /\ sock'[q].of = game' /\ games'[game'].socket = q
    BY <1>1, <1>4, <2>2
  <2>5. timers' = 0 /\ dialog' # "countdown" BY <1>1, <1>2, <1>6
  <2>. QED BY <1>2, <2>1, <2>2, <2>3, <2>4, <2>5 DEF OneOfEach, Connecting, Awaits, IsRetry
<1>14. NothingRemains' BY <1>1, <1>2, CallTells DEF NothingRemains
<1>15. DialogIsTrue'
  <2> SUFFICES ASSUME out = "no", ~hist.mixed PROVE DialogIsTrue' BY <1>2 DEF DialogIsTrue
  <2>1. CASE IsRetry(c) BY <1>1, <1>2, <1>6, <2>1 DEF DialogIsTrue
  <2>2. CASE ~IsRetry(c) BY <1>0, <1>2, <1>6, <2>2 DEF DialogIsTrue
  <2>. QED BY <2>1, <2>2
<1>16. NoDeadScene'
  <2> SUFFICES ASSUME out = "no" PROVE NoDeadScene' BY DEF NoDeadScene
  <2>1. games[g].listening BY <1>0, <1>1, <1>2 DEF GamesRun
  <2>2. Heard(s)' BY <1>4, <1>5, <2>1 DEF Heard
  <2>3. ~hist.again => Current(s)' BY <1>1, <1>2, <1>4, <1>5 DEF Current
  <2>. QED BY <1>2, <2>2, <2>3 DEF NoDeadScene
<1>. QED BY <1>8, <1>9, <1>10, <1>11, <1>12, <1>13, <1>14, <1>15, <1>16 DEF SessionInvariant

\* An attempt whose socket failed, or whose Game threw.
LEMMA AttemptEnds ==
  ASSUME SessionInvariant, NEW s \in Sockets, NEW c \in Calls, Waits(c, s), IsRetry(c),
         AttemptFails(c), UNCHANGED <<pending, joinedRoom, out>>,
         games' \in [Games -> GameRecords], sock' \in [Sockets -> SocketRecords],
         \A q \in Sockets : q # s => sock'[q] = sock[q],
         \A h \in Games : games'[h].listening = games[h].listening,
         ~hist.again /\ out = "no" => \A q \in Sockets : sock'[q].is = "free",
         GamesRun'
  PROVE  SessionInvariant'
<1>0. SessionTypes /\ CallsWait BY DEF SessionInvariant
<1>1. /\ HasUser' /\ StartsOnce' /\ NothingRemains' /\ DialogIsTrue' /\ NoDeadScene'
      /\ timers' = 1 /\ dialog' = "countdown" /\ reconnecting' = FALSE
  BY FailedAttempt
<1>2. Over(c) /\ UNCHANGED <<user, shown, game, gameStarted, hist>> BY DEF AttemptFails
<1>3. /\ calls' \in [Calls -> {NoCall} \cup CallRecords] /\ calls'[c] = NoCall
      /\ \A d \in Calls : d # c => calls'[d] = calls[d]
  BY <1>0, <1>2, OverShape
<1>4. SessionTypes' BY <1>0, <1>1, <1>2, <1>3 DEF SessionTypes
<1>5. CallsWait'
  <2>1. \A d \in Calls : d # c /\ Awaits(d, "connect") => sock'[calls[d].socket].is \in {"connecting", "closing"}
    BY WaitTells
  <2>. QED BY <1>0, <1>1, <1>2, <2>1, OverKeeps
<1>6. OneOfEach'
  <2> SUFFICES ASSUME ~hist.again, out = "no" PROVE OneOfEach' BY <1>2 DEF OneOfEach
  <2>1. \A d \in Calls : calls'[d] = NoCall BY <1>3, CallTells DEF IsRetry
  <2>2. gameStarted' BY <1>2, CallTells DEF IsRetry
  <2>3. game' \in Games /\ games'[game'].listening /\ \A h \in Games : games'[h].listening => h = game'
    BY <1>2, WaitTells
  <2>. QED BY <2>1, <2>2, <2>3 DEF OneOfEach, Connecting, Awaits, IsRetry
<1>. QED BY <1>1, <1>4, <1>5, <1>6 DEF SessionInvariant

\* A start that ended so.
LEMMA StartEnds ==
  ASSUME SessionInvariant, NEW s \in Sockets, NEW c \in Calls, Waits(c, s), ~IsRetry(c),
         StartFails(c), GivesUp(c), UNCHANGED <<pending, joinedRoom, out>>,
         games' \in [Games -> GameRecords], sock' \in [Sockets -> SocketRecords],
         \A q \in Sockets : q # s /\ sock[q].is \in {"connecting", "closing"} => sock'[q].is \in {"connecting", "closing"},
         ~hist.again /\ out = "no" =>
           (\A q \in Sockets : sock'[q].is = "free") /\ \A h \in Games : ~games'[h].listening,
         GamesRun'
  PROVE  SessionInvariant'
<1>0. SessionTypes /\ CallsWait /\ calls[c] # NoCall BY WaitTells DEF SessionInvariant
<1>1. /\ hist' \in Histories /\ hist'.mixed = hist.mixed /\ hist'.again = hist.again /\ hist'.late = hist.late
      /\ gameStarted' = FALSE /\ game' \in Games \cup {NoGame}
  BY <1>0, GivenUp
<1>2. /\ HasUser' /\ StartsOnce' /\ NothingRemains' /\ DialogIsTrue'
      /\ user' \in BOOLEAN /\ shown' \subseteq {"login", "editor", "edit", "logOut", "create"}
  BY <1>0, <1>1, FailedStart
<1>3. Over(c) /\ timers' = timers /\ reconnecting' = reconnecting /\ dialog' = dialog
  BY DEF StartFails, schedule
<1>4. /\ calls' \in [Calls -> {NoCall} \cup CallRecords] /\ calls'[c] = NoCall
      /\ \A d \in Calls : d # c => calls'[d] = calls[d]
  BY <1>0, <1>3, OverShape
<1>5. SessionTypes' BY <1>0, <1>1, <1>2, <1>3, <1>4 DEF SessionTypes
<1>6. CallsWait'
  <2>1. \A d \in Calls : d # c /\ Awaits(d, "connect") => sock'[calls[d].socket].is \in {"connecting", "closing"}
    BY WaitTells
  <2>. QED BY <1>0, <1>3, <2>1, OverKeeps
<1>7. OneOfEach'
  <2> SUFFICES ASSUME ~hist.again, out = "no" PROVE OneOfEach' BY <1>1 DEF OneOfEach
  <2>1. \A d \in Calls : calls'[d] = NoCall BY <1>0, <1>4, CallTells
  <2>2. timers' = 0 /\ dialog' = "hidden" BY <1>0, <1>3, CallTells
  <2>. QED BY <1>1, <2>1, <2>2 DEF OneOfEach, Connecting, Awaits, IsRetry
<1>8. NoDeadScene' BY <1>1 DEF NoDeadScene
<1>. QED BY <1>2, <1>5, <1>6, <1>7, <1>8 DEF SessionInvariant

LEMMA SThrew ==
  ASSUME SessionInvariant, NEW s \in Sockets, NEW c \in Calls, Waits(c, s), sock[s].is = "connecting",
         Throws(s, c), UNCHANGED <<pending, joinedRoom, out>>
  PROVE  SessionInvariant'
<1>0. SessionTypes /\ GamesRun BY DEF SessionInvariant
<1> DEFINE g == sock[s].of
<1>1. ~games[g].ready /\ g \in Games /\ games[g] \in GameRecords BY <1>0, WaitTells DEF Throws, SessionTypes
<1>2. ~games[g].listening BY <1>0, <1>1 DEF GamesRun
<1>3. ~(~hist.again /\ out = "no") BY <1>2, WaitTells
<1>4. Retries(c) <=> IsRetry(c) BY WaitTells DEF Retries, IsRetry
<1>5. \A h \in Games : games[h].socket # NoSocket => games[h].socket \in Sockets /\ sock[games[h].socket].of = h
  BY <1>0 DEF SessionTypes, GameRecords, GamesRun
<1>6. CASE Retries(c)
  <2>1. /\ AttemptFails(c)
        /\ games' = [games EXCEPT ![g].connected = TRUE]
        /\ sock' = [sock EXCEPT ![s].is = "open"]
    BY <1>6 DEF Throws
  <2>2. /\ sock' \in [Sockets -> SocketRecords] /\ sock'[s].is = "open"
        /\ \A q \in Sockets : q # s => sock'[q] = sock[q]
        /\ \A q \in Sockets : sock'[q].of = sock[q].of
    BY <1>0, <2>1 DEF SessionTypes, SocketRecords
  <2>3. /\ games' \in [Games -> GameRecords]
        /\ \A h \in Games : /\ games'[h].listening = games[h].listening
                            /\ games'[h].ready = games[h].ready /\ games'[h].socket = games[h].socket
    BY <1>0, <1>1, <2>1 DEF SessionTypes, GameRecords
  <2>4. GamesRun'
    <3>1. \A h \in Games : games'[h].socket # NoSocket => sock'[games'[h].socket].of = h BY <1>5, <2>2, <2>3
    <3>2. \A h \in Games : games'[h].ready <=> games'[h].listening BY <1>0, <2>3 DEF GamesRun
    <3>3. /\ \A q \in Sockets : sock'[q].is = "free" => sock'[q].of = NoGame
          /\ \A q \in Sockets : sock'[q].is # "free" => sock'[q].of \in Games
      BY <1>0, <1>1, <2>2 DEF GamesRun
    <3>. QED BY <3>1, <3>2, <3>3 DEF GamesRun
  <2>. QED BY <1>3, <1>4, <1>6, <2>1, <2>2, <2>3, <2>4, AttemptEnds
<1>7. CASE ~Retries(c)
  <2>1. /\ StartFails(c) /\ GivesUp(c)
        /\ games' = StoppedGames(g)
        /\ sock' = [HungUp(g) EXCEPT ![s].is = IF s = games[g].socket THEN @ ELSE "open"]
    BY <1>7 DEF Throws
  <2>2. /\ games' \in [Games -> GameRecords]
        /\ ~games'[g].ready /\ ~games'[g].listening /\ games'[g].socket = NoSocket
        /\ \A h \in Games : h # g => games'[h] = games[h]
        /\ HungUp(g) \in [Sockets -> SocketRecords]
        /\ \A q \in Sockets : HungUp(g)[q].of = sock[q].of
        /\ \A q \in Sockets : sock[q].is \in {"connecting", "closing"} => HungUp(g)[q].is \in {"connecting", "closing"}
        /\ \A q \in Sockets : sock[q].is = "free" <=> HungUp(g)[q].is = "free"
    BY <1>0, <1>1, <2>1, StopShape
  <2>3. /\ sock' \in [Sockets -> SocketRecords]
        /\ \A q \in Sockets : q # s => sock'[q] = HungUp(g)[q]
        /\ sock'[s].of = sock[s].of
    <3>1. HungUp(g)[s] \in SocketRecords BY <2>2
    <3> DEFINE k == [HungUp(g)[s] EXCEPT !.is = IF s = games[g].socket THEN @ ELSE "open"]
    <3>2. k \in SocketRecords /\ k.of = HungUp(g)[s].of BY <3>1 DEF SocketRecords
    <3>3. sock' = [HungUp(g) EXCEPT ![s] = k] BY <2>1
    <3> HIDE DEF k
    <3>. QED BY <2>2, <3>2, <3>3
  <2>4. GamesRun'
    <3>1. \A h \in Games : games'[h].socket # NoSocket => sock'[games'[h].socket].of = h
      <4>1. \A q \in Sockets : sock'[q].of = sock[q].of BY <2>2, <2>3
      <4>. QED BY <1>5, <2>2, <4>1
    <3>2. \A h \in Games : games'[h].ready <=> games'[h].listening BY <1>0, <2>2 DEF GamesRun
    <3>3. /\ \A q \in Sockets : sock'[q].is = "free" => sock'[q].of = NoGame
          /\ \A q \in Sockets : sock'[q].is # "free" => sock'[q].of \in Games
      <4>1. \A q \in Sockets : q # s => (sock'[q].is = "free" <=> sock[q].is = "free") /\ sock'[q].of = sock[q].of
        BY <2>2, <2>3
      <4>2. sock'[s].of \in Games /\ sock'[s].is # "free"
        <5>1. sock'[s].is = IF s = games[g].socket THEN HungUp(g)[s].is ELSE "open" BY <2>1, <2>2 DEF SocketRecords
        <5>. QED BY <1>1, <2>2, <2>3, <5>1, WaitTells
      <4>. QED BY <1>0, <4>1, <4>2 DEF GamesRun
    <3>. QED BY <3>1, <3>2, <3>3 DEF GamesRun
  <2>5. \A q \in Sockets : q # s /\ sock[q].is \in {"connecting", "closing"} => sock'[q].is \in {"connecting", "closing"}
    BY <2>2, <2>3
  <2>. QED BY <1>3, <1>4, <1>7, <2>1, <2>2, <2>3, <2>4, <2>5, StartEnds
<1>. QED BY <1>6, <1>7

\* What a socket that is gone leaves of the Game that dialled it.
LEMMA ForgetShape ==
  ASSUME SessionTypes, GamesRun, NEW s \in Sockets, sock[s].of \in Games
  PROVE  /\ Forgets(s) \in GameRecords /\ [Forgets(s) EXCEPT !.connected = FALSE] \in GameRecords
         /\ \A f \in {Forgets(s), [Forgets(s) EXCEPT !.connected = FALSE]} :
              /\ f.ready = games[sock[s].of].ready /\ f.listening = games[sock[s].of].listening
              /\ f.socket # s
              /\ games[sock[s].of].socket # s => f.socket = games[sock[s].of].socket
              /\ f.socket # NoSocket => f.socket = games[sock[s].of].socket
         /\ Forgets(s).connected = games[sock[s].of].connected
<1> DEFINE g == sock[s].of
<1>1. games[g] \in GameRecords BY DEF SessionTypes
<1>2. /\ Forgets(s) \in GameRecords
      /\ Forgets(s).ready = games[g].ready /\ Forgets(s).listening = games[g].listening
      /\ Forgets(s).connected = games[g].connected
      /\ Forgets(s).socket = IF games[g].socket = s THEN NoSocket ELSE games[g].socket
  BY <1>1 DEF Forgets, GameRecords
<1> DEFINE k == [Forgets(s) EXCEPT !.connected = FALSE]
<1> HIDE DEF g
<1>3. /\ k \in GameRecords /\ k.ready = Forgets(s).ready /\ k.listening = Forgets(s).listening
      /\ k.socket = Forgets(s).socket
  BY <1>2 DEF GameRecords
<1>4. s # NoSocket BY ClientSessionAssumption
<1> HIDE DEF k
<1>5. \A f \in {Forgets(s), k} :
        /\ f.ready = games[g].ready /\ f.listening = games[g].listening
        /\ f.socket # s
        /\ games[g].socket # s => f.socket = games[g].socket
        /\ f.socket # NoSocket => f.socket = games[g].socket
  BY <1>2, <1>3, <1>4
<1>. QED BY <1>2, <1>3, <1>5 DEF g, k

\* A socket is gone, and only its Game has forgotten it or was stopped.
LEMMA GoneKeeps ==
  ASSUME SessionTypes, GamesRun, NEW s \in Sockets, sock[s].of \in Games,
         games' \in [Games -> GameRecords],
         sock'[s] = Free,
         \A q \in Sockets : q # s => sock'[q].of = sock[q].of /\ (sock'[q].is = "free" <=> sock[q].is = "free"),
         \A h \in Games : h # sock[s].of => games'[h] = games[h],
         games'[sock[s].of].ready <=> games'[sock[s].of].listening,
         LET f == games'[sock[s].of].socket IN f # NoSocket => f # s /\ f = games[sock[s].of].socket
  PROVE  GamesRun'
<1> DEFINE g == sock[s].of
<1>1. \A h \in Games : games'[h].ready <=> games'[h].listening BY DEF GamesRun
<1>2. /\ \A q \in Sockets : sock'[q].is = "free" => sock'[q].of = NoGame
      /\ \A q \in Sockets : sock'[q].is # "free" => sock'[q].of \in Games
  BY DEF GamesRun, Free
<1>3. \A h \in Games : games[h].socket # NoSocket => games[h].socket \in Sockets /\ sock[games[h].socket].of = h
  BY DEF SessionTypes, GameRecords, GamesRun
<1>4. \A h \in Games : games'[h].socket # NoSocket => games'[h].socket # s /\ games'[h].socket = games[h].socket
  BY <1>3
<1>5. \A h \in Games : games'[h].socket # NoSocket => sock'[games'[h].socket].of = h BY <1>3, <1>4
<1>. QED BY <1>1, <1>2, <1>5 DEF GamesRun

LEMMA SFailed ==
  ASSUME SessionInvariant, NEW s \in Sockets, Fails(s)
  PROVE  SessionInvariant'
<1>0. SessionTypes /\ GamesRun BY DEF SessionInvariant
<1> DEFINE g == sock[s].of
<1>1. PICK c \in Calls :
        /\ Waits(c, s)
        /\ IF Retries(c)
           THEN /\ AttemptFails(c)
                /\ games' = [games EXCEPT ![g] = Forgets(s)]
                /\ sock' = [sock EXCEPT ![s] = Free]
           ELSE /\ StartFails(c) /\ GivesUp(c)
                /\ games' = StoppedGames(g)
                /\ sock' = [HungUp(g) EXCEPT ![s] = Free]
  BY DEF Fails
<1>2. UNCHANGED <<pending, joinedRoom, out>> BY DEF Fails
<1>3. g \in Games /\ Free \in SocketRecords /\ Free.is = "free" BY <1>1, WaitTells DEF Free, SocketRecords
<1>4. Retries(c) <=> IsRetry(c) BY <1>1, WaitTells DEF Retries, IsRetry
<1>5. ~hist.again /\ out = "no" =>
        /\ g = game /\ \A q \in Sockets : q # s => sock[q].is = "free"
        /\ \A h \in Games : games[h].listening => h = game
  BY <1>1, WaitTells
<1>6. CASE Retries(c)
  <2>1. AttemptFails(c) /\ games' = [games EXCEPT ![g] = Forgets(s)] /\ sock' = [sock EXCEPT ![s] = Free]
    BY <1>1, <1>6
  <2>2. /\ Forgets(s) \in GameRecords
        /\ Forgets(s).ready = games[g].ready /\ Forgets(s).listening = games[g].listening
        /\ Forgets(s).socket # s
        /\ Forgets(s).socket # NoSocket => Forgets(s).socket = games[g].socket
    BY <1>0, <1>3, ForgetShape
  <2>3. /\ games' \in [Games -> GameRecords] /\ games'[g] = Forgets(s)
        /\ \A h \in Games : h # g => games'[h] = games[h]
    BY <1>0, <1>3, <2>1, <2>2 DEF SessionTypes
  <2>4. /\ sock' \in [Sockets -> SocketRecords] /\ sock'[s] = Free
        /\ \A q \in Sockets : q # s => sock'[q] = sock[q]
    BY <1>0, <1>3, <2>1 DEF SessionTypes
  <2>5. \A h \in Games : games'[h].listening = games[h].listening BY <2>2, <2>3
  <2>6. games'[g].ready <=> games'[g].listening BY <1>0, <1>3, <2>2, <2>3 DEF GamesRun
  <2>7. games'[g].socket # NoSocket => games'[g].socket # s /\ games'[g].socket = games[g].socket
    BY <2>2, <2>3
  <2>8. GamesRun' BY <1>0, <1>3, <2>3, <2>4, <2>6, <2>7, GoneKeeps
  <2>9. ~hist.again /\ out = "no" => \A q \in Sockets : sock'[q].is = "free" BY <1>3, <1>5, <2>4
  <2>. QED BY <1>1, <1>2, <1>4, <1>6, <2>1, <2>3, <2>4, <2>5, <2>8, <2>9, AttemptEnds
<1>7. CASE ~Retries(c)
  <2>1. /\ StartFails(c) /\ GivesUp(c)
        /\ games' = StoppedGames(g) /\ sock' = [HungUp(g) EXCEPT ![s] = Free]
    BY <1>1, <1>7
  <2>2. /\ games' \in [Games -> GameRecords]
        /\ ~games'[g].ready /\ ~games'[g].listening /\ games'[g].socket = NoSocket
        /\ \A h \in Games : h # g => games'[h] = games[h]
        /\ HungUp(g) \in [Sockets -> SocketRecords]
        /\ \A q \in Sockets : HungUp(g)[q].of = sock[q].of
        /\ \A q \in Sockets : sock[q].is \in {"connecting", "closing"} => HungUp(g)[q].is \in {"connecting", "closing"}
        /\ \A q \in Sockets : sock[q].is = "free" <=> HungUp(g)[q].is = "free"
    BY <1>0, <1>3, <2>1, StopShape
  <2>3. /\ sock' \in [Sockets -> SocketRecords] /\ sock'[s] = Free
        /\ \A q \in Sockets : q # s => sock'[q] = HungUp(g)[q]
    BY <1>3, <2>1, <2>2
  <2>4. \A q \in Sockets : q # s => sock'[q].of = sock[q].of /\ (sock'[q].is = "free" <=> sock[q].is = "free")
    BY <2>2, <2>3
  <2>5. GamesRun'
    <3>1. games'[g].ready <=> games'[g].listening BY <2>2
    <3>. QED BY <1>0, <1>3, <2>2, <2>3, <2>4, <3>1, GoneKeeps
  <2>6. \A q \in Sockets : q # s /\ sock[q].is \in {"connecting", "closing"} => sock'[q].is \in {"connecting", "closing"}
    BY <2>2, <2>3
  <2>7. ~hist.again /\ out = "no" =>
          (\A q \in Sockets : sock'[q].is = "free") /\ \A h \in Games : ~games'[h].listening
    BY <1>3, <1>5, <2>2, <2>3, <2>4
  <2>. QED BY <1>1, <1>2, <1>4, <1>7, <2>1, <2>2, <2>3, <2>5, <2>6, <2>7, StartEnds
<1>. QED BY <1>6, <1>7

LEMMA SClosed == ASSUME SessionInvariant, NEW s \in Sockets, Closes(s) PROVE SessionInvariant'
<1>0. SessionTypes /\ CallsWait /\ GamesRun /\ StartsOnce /\ HasUser
      /\ OneOfEach /\ NothingRemains /\ DialogIsTrue /\ NoDeadScene
  BY DEF SessionInvariant
<1> DEFINE g == sock[s].of
           f == games'[g]
           Tries == games[g].listening /\ WantsConnection
<1>1. /\ sock[s].is \in {"open", "closing"} /\ \A c \in Calls : ~Waits(c, s)
      /\ sock' = [sock EXCEPT ![s] = Free]
      /\ UNCHANGED <<user, pending, joinedRoom, shown, calls, game, gameStarted, reconnecting, out, hist>>
  BY DEF Closes, app, started
<1>2. g \in Games /\ Free \in SocketRecords /\ Free.is = "free" BY <1>0, <1>1 DEF GamesRun, Free, SocketRecords
<1>3. /\ games' \in [Games -> GameRecords]
      /\ \A h \in Games : h # g => games'[h] = games[h]
      /\ f \in {Forgets(s), [Forgets(s) EXCEPT !.connected = FALSE]}
      /\ ~games[g].listening => f = Forgets(s)
  BY <1>0, <1>2, ForgetShape DEF Closes, SessionTypes
<1>4. /\ f.ready = games[g].ready /\ f.listening = games[g].listening
      /\ f.socket # s
      /\ games[g].socket # s => f.socket = games[g].socket
      /\ f.socket # NoSocket => f.socket = games[g].socket
      /\ ~games[g].listening => f.connected = games[g].connected
  BY <1>0, <1>2, <1>3, ForgetShape
<1>5. /\ Tries => timers' = 1 /\ dialog' = "countdown"
      /\ ~Tries => timers' = timers /\ dialog' = dialog
  BY DEF Closes, ScheduleReconnect, ClearReconnectSchedule
<1>6. /\ sock' \in [Sockets -> SocketRecords] /\ sock'[s] = Free
      /\ \A q \in Sockets : q # s => sock'[q] = sock[q]
  BY <1>0, <1>1, <1>2 DEF SessionTypes
<1>7. Tries => user /\ gameStarted BY DEF WantsConnection
\* Until a game is started again, it was the only socket, and nothing is under way.
<1>8. ASSUME ~hist.again, out = "no"
      PROVE  /\ gameStarted /\ game \in Games /\ games[game].listening
             /\ \A h \in Games : games[h].listening => h = game
             /\ \A q \in Sockets : q # s => sock[q].is = "free"
             /\ \A c \in Calls : calls[c] = NoCall
             /\ timers = 0 /\ dialog # "countdown" /\ ~reconnecting
  <2>1. \A q \in Sockets : sock[q].is # "free" => sock[q].is # "closing" /\ sock[q].of = game /\ games[game].socket = q
    BY <1>0, <1>8 DEF OneOfEach
  <2>2. \A q \in Sockets : q # s => sock[q].is = "free" BY <1>1, <2>1
  <2>3. sock[s].is = "open" BY <1>1, <2>1
  <2>4. ~Connecting
    <3> SUFFICES ASSUME NEW c \in Calls, Awaits(c, "connect") PROVE FALSE BY DEF Connecting
    <3>1. calls[c].socket \in Sockets /\ sock[calls[c].socket].is \in {"connecting", "closing"}
      BY <1>0 DEF CallsWait, Awaits
    <3>. QED BY <2>2, <2>3, <3>1
  <2>5. gameStarted BY <1>0, <1>8, <2>3, <2>4 DEF OneOfEach
  <2>6. game \in Games /\ games[game].listening /\ \A h \in Games : games[h].listening => h = game
    BY <1>0, <1>8, <2>5 DEF OneOfEach
  <2>7. \A c \in Calls : calls[c] = NoCall
    <3> SUFFICES ASSUME NEW c \in Calls, calls[c] # NoCall PROVE FALSE OBVIOUS
    <3>1. IsRetry(c) BY <1>0, <1>8, <2>5 DEF StartsOnce
    <3>2. calls[c].step = "connect" BY <1>0, <1>8, <3>1 DEF OneOfEach
    <3>. QED BY <2>4, <3>2 DEF Connecting, Awaits
  <2>8. ~reconnecting BY <1>0, <2>7 DEF CallsWait, IsRetry
  <2>9. timers # 1 /\ dialog # "countdown" BY <1>0, <1>8, <2>3 DEF OneOfEach
  <2>10. timers = 0 BY <1>0, <2>9 DEF SessionTypes
  <2>. QED BY <2>2, <2>5, <2>6, <2>7, <2>8, <2>9, <2>10
<1> HIDE DEF g, f, Tries
<1>9. SessionTypes' BY <1>0, <1>1, <1>3, <1>5, <1>6 DEF SessionTypes
<1>10. CallsWait'
  <2>1. \A c \in Calls : Awaits(c, "connect") => calls[c].socket \in Sockets \ {s}
    BY <1>0, <1>1 DEF CallsWait, Awaits, Waits
  <2>2. \A c \in Calls : calls[c] # NoCall /\ calls[c].step = "connect" =>
          calls[c].socket \in Sockets /\ sock'[calls[c].socket].is \in {"connecting", "closing"}
    BY <1>0, <1>6, <2>1 DEF CallsWait, Awaits
  <2>. QED BY <1>0, <1>1, <2>2 DEF CallsWait, Awaits, IsRetry
<1>11. GamesRun'
  <2>1. f.ready <=> f.listening BY <1>0, <1>2, <1>4 DEF GamesRun
  <2>2. f.socket # NoSocket => f.socket # s /\ f.socket = games[g].socket BY <1>4
  <2>3. \A q \in Sockets : q # s => sock'[q].of = sock[q].of /\ (sock'[q].is = "free" <=> sock[q].is = "free")
    BY <1>6
  <2>. QED BY <1>0, <1>2, <1>3, <1>6, <2>1, <2>2, <2>3, GoneKeeps DEF f, g
<1>12. StartsOnce' BY <1>0, <1>1, <1>5, <1>7 DEF StartsOnce, IsRetry
<1>13. HasUser'
  <2>1. \A q \in Sockets : sock'[q].is = "open" => sock[q].is = "open" BY <1>2, <1>6
  <2>. QED BY <1>0, <1>1, <1>5, <1>7, <2>1 DEF HasUser, RestoreCall
<1>14. OneOfEach'
  <2> SUFFICES ASSUME ~hist.again, out = "no" PROVE OneOfEach' BY <1>1 DEF OneOfEach
  <2>1. \A q \in Sockets : sock'[q].is = "free" BY <1>2, <1>6, <1>8
  <2>2. \A h \in Games : games'[h].listening = games[h].listening BY <1>3, <1>4 DEF f
  <2>3. \A c \in Calls : calls'[c] = NoCall BY <1>1, <1>8
  <2>4. gameStarted' /\ game' \in Games /\ games'[game'].listening
        /\ \A h \in Games : games'[h].listening => h = game'
    BY <1>1, <1>8, <2>2
  <2>. QED BY <2>1, <2>3, <2>4 DEF OneOfEach, Connecting, Awaits, IsRetry
<1>15. NothingRemains'
  <2> SUFFICES ASSUME out # "no", ~hist.again, ~hist.late PROVE NothingRemains' BY <1>1 DEF NothingRemains
  <2>1. /\ \A c \in Calls : calls[c] = NoCall
        /\ timers = 0 /\ ~reconnecting
        /\ \A h \in Games : ~games[h].listening
        /\ \A q \in Sockets : sock[q].is \in {"free", "closing"}
    BY <1>0 DEF NothingRemains
  <2>2. ~Tries BY <1>2, <2>1 DEF Tries
  <2>3. \A h \in Games : ~games'[h].listening BY <1>2, <1>3, <1>4, <2>1 DEF f
  <2>4. \A q \in Sockets : sock'[q].is \in {"free", "closing"} BY <1>2, <1>6, <2>1
  <2>. QED BY <1>1, <1>5, <2>1, <2>2, <2>3, <2>4 DEF NothingRemains
<1>16. DialogIsTrue'
  <2> SUFFICES ASSUME out = "no", ~hist.mixed PROVE DialogIsTrue' BY <1>1 DEF DialogIsTrue
  <2>1. CASE Tries
    <3>1. ~hist.again => ~reconnecting BY <1>8
    <3>. QED BY <1>1, <1>5, <2>1, <3>1 DEF DialogIsTrue
  <2>2. CASE ~Tries BY <1>0, <1>1, <1>5, <2>2 DEF DialogIsTrue
  <2>. QED BY <2>1, <2>2
<1>17. NoDeadScene'
  <2> SUFFICES ASSUME gameStarted, out = "no", ~hist.mixed, ~reconnecting, timers' # 1 PROVE NoDeadScene'
    BY <1>1 DEF NoDeadScene
  <2>1. user BY <1>0 DEF HasUser
  <2>2. ~games[g].listening /\ timers # 1 BY <1>5, <2>1 DEF Tries, WantsConnection
  <2>3. PICK q \in Sockets : Heard(q) /\ (Current(q) \/ hist.again) BY <1>0, <2>2 DEF NoDeadScene
  <2>4. q # s /\ sock[q].of # g BY <2>2, <2>3 DEF Heard, g
  <2>5. sock[q].of \in Games BY <1>0, <2>3 DEF Heard, GamesRun
  <2>6. games'[sock[q].of] = games[sock[q].of] /\ sock'[q] = sock[q] BY <1>3, <1>6, <2>4, <2>5
  <2>7. Heard(q)' BY <2>3, <2>6 DEF Heard
  <2>8. Current(q) => Current(q)' BY <1>1, <2>6 DEF Current
  <2>. QED BY <1>1, <2>3, <2>7, <2>8 DEF NoDeadScene
<1>. QED BY <1>9, <1>10, <1>11, <1>12, <1>13, <1>14, <1>15, <1>16, <1>17 DEF SessionInvariant

LEMMA SSignedOut == ASSUME SessionInvariant, SignOut PROVE SessionInvariant'
<1>0. SessionTypes /\ CallsWait /\ GamesRun /\ StartsOnce /\ HasUser /\ OneOfEach
  BY DEF SessionInvariant
<1>1. /\ out = "no" /\ out' = "leaving" /\ timers' = 0
      /\ UNCHANGED <<user, pending, joinedRoom, shown, calls, game, gameStarted, reconnecting, dialog>>
  BY DEF SignOut, app, started, ClearReconnectSchedule
<1>2. /\ hist' \in Histories /\ hist'.mixed = hist.mixed /\ hist'.again = hist.again
      /\ hist'.late <=> hist.late \/ AnyCall
  <2>1. ASSUME NEW b \in BOOLEAN, b = AnyCall
        PROVE  /\ hist' \in Histories /\ hist'.mixed = hist.mixed /\ hist'.again = hist.again
               /\ (hist'.late <=> hist.late \/ b)
    <3>1. hist' = [hist EXCEPT !.late = @ \/ b] BY <2>1 DEF SignOut
    <3>2. hist \in Histories BY <1>0 DEF SessionTypes
    <3>3. /\ hist.mixed \in BOOLEAN /\ hist.again \in BOOLEAN /\ hist.lost \in BOOLEAN
          /\ (hist.late \/ b) \in BOOLEAN
      BY <3>2 DEF Histories
    <3>. QED BY <3>1, <3>2, <3>3 DEF Histories
  <2>2. AnyCall \in BOOLEAN BY DEF AnyCall
  <2>. QED BY <2>1, <2>2
<1> DEFINE Stops == gameStarted /\ game # NoGame
<1>3. /\ games' \in [Games -> GameRecords] /\ sock' \in [Sockets -> SocketRecords]
      /\ \A h \in Games : (games'[h].ready <=> games'[h].listening) /\ (games'[h].listening => games[h].listening)
      /\ \A h \in Games : games'[h].socket # NoSocket => games'[h].socket = games[h].socket
      /\ \A q \in Sockets : sock'[q].of = sock[q].of
      /\ \A q \in Sockets : sock[q].is \in {"connecting", "closing"} => sock'[q].is \in {"connecting", "closing"}
      /\ \A q \in Sockets : sock[q].is = "free" <=> sock'[q].is = "free"
      /\ \A q \in Sockets : sock'[q].is = "open" => sock[q].is = "open"
      /\ Stops => /\ game \in Games /\ ~games'[game].listening
                  /\ \A q \in Sockets : q = games[game].socket => sock'[q].is = "closing"
  <2>1. CASE Stops
    <3>1. game \in Games /\ games' = StoppedGames(game) /\ sock' = HungUp(game)
      BY <1>0, <2>1 DEF SignOut, SessionTypes
    <3>2. /\ games' \in [Games -> GameRecords] /\ sock' \in [Sockets -> SocketRecords]
          /\ ~games'[game].ready /\ ~games'[game].listening /\ games'[game].socket = NoSocket
          /\ \A h \in Games : h # game => games'[h] = games[h]
          /\ \A q \in Sockets : q # games[game].socket => sock'[q] = sock[q]
          /\ \A q \in Sockets : q = games[game].socket => sock'[q].is = "closing"
          /\ \A q \in Sockets : sock'[q].of = sock[q].of
          /\ \A q \in Sockets : sock[q].is \in {"connecting", "closing"} => sock'[q].is \in {"connecting", "closing"}
          /\ \A q \in Sockets : sock[q].is = "free" <=> sock'[q].is = "free"
      BY <1>0, <3>1, StopShape
    <3>. QED BY <1>0, <3>1, <3>2 DEF GamesRun
  <2>2. CASE ~Stops
    <3>1. games' = games /\ sock' = sock BY <2>2 DEF SignOut, net
    <3>. QED BY <1>0, <2>2, <3>1 DEF SessionTypes, GamesRun
  <2>. QED BY <2>1, <2>2
<1> HIDE DEF Stops
<1>4. SessionTypes' BY <1>0, <1>1, <1>2, <1>3 DEF SessionTypes
<1>5. CallsWait'
  <2>1. \A c \in Calls : calls[c] # NoCall /\ calls[c].step = "connect" =>
          calls[c].socket \in Sockets /\ sock'[calls[c].socket].is \in {"connecting", "closing"}
    BY <1>0, <1>3 DEF CallsWait
  <2>. QED BY <1>0, <1>1, <2>1 DEF CallsWait, Awaits, IsRetry
<1>6. GamesRun'
  <2>1. \A h \in Games : games[h].socket # NoSocket => games[h].socket \in Sockets /\ sock[games[h].socket].of = h
    BY <1>0 DEF SessionTypes, GameRecords, GamesRun
  <2>2. \A h \in Games : games'[h].socket # NoSocket => sock'[games'[h].socket].of = h BY <1>3, <2>1
  <2>3. /\ \A q \in Sockets : sock'[q].is = "free" => sock'[q].of = NoGame
        /\ \A q \in Sockets : sock'[q].is # "free" => sock'[q].of \in Games
    BY <1>0, <1>3 DEF GamesRun
  <2>. QED BY <1>3, <2>2, <2>3 DEF GamesRun
<1>7. StartsOnce' BY <1>0, <1>1, <1>2 DEF StartsOnce, IsRetry
<1>8. HasUser' BY <1>0, <1>1, <1>2, <1>3 DEF HasUser, RestoreCall
<1>9. OneOfEach' BY <1>1 DEF OneOfEach
<1>10. NothingRemains'
  <2> SUFFICES ASSUME ~hist.again, ~hist'.late PROVE NothingRemains' BY <1>2 DEF NothingRemains
  <2>1. \A c \in Calls : calls[c] = NoCall BY <1>2 DEF AnyCall
  <2>2. ~reconnecting BY <1>0, <2>1 DEF CallsWait, IsRetry
  <2>3. /\ \A q \in Sockets : sock[q].is # "free" => games[game].socket = q
        /\ \A h \in Games : games[h].listening => h = game
        /\ gameStarted => game \in Games
        /\ ~gameStarted => /\ \A q \in Sockets : sock[q].is = "free"
                           /\ \A h \in Games : ~games[h].listening
    BY <1>0, <1>1, <2>1 DEF OneOfEach, Connecting, Awaits
  <2>4. gameStarted => Stops BY <2>3, ClientSessionAssumption DEF Stops
  <2>5. \A h \in Games : ~games'[h].listening BY <1>3, <2>3, <2>4
  <2>6. \A q \in Sockets : sock'[q].is \in {"free", "closing"} BY <1>3, <2>3, <2>4
  <2>. QED BY <1>1, <2>1, <2>2, <2>5, <2>6 DEF NothingRemains
<1>11. DialogIsTrue' /\ NoDeadScene' BY <1>1 DEF DialogIsTrue, NoDeadScene
<1>. QED BY <1>4, <1>5, <1>6, <1>7, <1>8, <1>9, <1>10, <1>11 DEF SessionInvariant

---------------------------------------------------------------------------

\* The invariant holds throughout: it is kept by every answer, click, timer,
\* start, attempt and socket of the client.
THEOREM SessionInvariantHolds == SessionSpec => []SessionInvariant
<1>1. SessionInvariant /\ [SessionNext]_sessionVars => SessionInvariant'
  <2> SUFFICES ASSUME SessionInvariant, [SessionNext]_sessionVars PROVE SessionInvariant' OBVIOUS
  <2>1. CASE Answers
    BY <2>1, SRestored, SNoSession, SAccepted, SRefused, SSaved, SCreated, SNotSaved, SLoggedOut DEF Answers
  <2>2. CASE Clicks
    BY <2>2, SSubmits, SEdits, SSubmitsLook, SCancels, SSubmitsRoom, SRetryNow, SSignedOut DEF Clicks
  <2>3. CASE RetryTimer BY <2>3, STimer
  <2>4. CASE RoomJoined BY <2>4, SJoined
  <2>5. ASSUME NEW c \in Calls, Proceeds(c) PROVE SessionInvariant'
    BY <2>5, SLoaded, SInitialized DEF Proceeds
  <2>6. ASSUME NEW s \in Sockets, Opens(s) PROVE SessionInvariant'
    BY <2>6, SOpened, SThrew DEF Opens
  <2>7. ASSUME NEW s \in Sockets, Fails(s) PROVE SessionInvariant' BY <2>7, SFailed
  <2>8. ASSUME NEW s \in Sockets, Closes(s) PROVE SessionInvariant' BY <2>8, SClosed
  <2>9. CASE UNCHANGED sessionVars BY <2>9, SessionStutters
  <2>. QED BY <2>1, <2>2, <2>3, <2>4, <2>5, <2>6, <2>7, <2>8, <2>9 DEF SessionNext, Settles
<1>. QED BY <1>1, SessionBegins, PTL DEF SessionSpec

\* The reconnect dialog and its timer: there is never a second timer, the
\* dialog is not left standing and says nothing untrue; and until a game is
\* started again it tells exactly what will happen.
THEOREM DialogTells == SessionSpec => []OneTimerAndDialog
<1>1. SessionInvariant => OneTimerAndDialog BY SessionTypesAre DEF SessionInvariant, OneTimerAndDialog
<1>. QED BY <1>1, SessionInvariantHolds, PTL

\* No started game is without an open socket that somebody listens to, a
\* timer or an attempt, whichever starts and sockets overlap.
THEOREM NoGameIsDead == SessionSpec => []NoDeadScene
<1>1. SessionInvariant => NoDeadScene BY DEF SessionInvariant
<1>. QED BY <1>1, SessionInvariantHolds, PTL

\* Until a game is started again no second socket and no second listening Game
\* are left beside the current ones, and after the sign-out none at all.
THEOREM NothingIsLeft == SessionSpec => []NothingLeaks
<1>1. SessionInvariant => NothingLeaks
  <2> SUFFICES ASSUME SessionInvariant, ~hist.late, ~hist.again PROVE NothingLeaks BY DEF NothingLeaks
  <2>1. CASE out = "no" BY <2>1 DEF SessionInvariant, OneOfEach, NothingLeaks, Live
  <2>2. CASE out # "no" BY <2>2 DEF SessionInvariant, NothingRemains, NothingLeaks, Live
  <2>. QED BY <2>1, <2>2
<1>. QED BY <1>1, SessionInvariantHolds, PTL
=============================================================================
