--------------------------- MODULE Stores_proofs ---------------------------
(***************************************************************************)
(* What the requests on two tables leave in them, whatever overlaps.       *)
(*                                                                         *)
(* LastRoom, for any number of sockets, rooms and joins: a row written by  *)
(* the first save of an older join is corrected, unless a statement        *)
(* failed.                                                                 *)
(*                                                                         *)
(* DirectMessages, for any messages and requests in flight: nobody writes  *)
(* who is cut off, nothing is announced twice and what is deleted stays as *)
(* it is.  What has to be kept for this, MessagesInvariant, is that a      *)
(* message is known to clients, events and requests only once it is in the *)
(* table, but for the one request that sends it; that a request has met    *)
(* the checks it has passed; and that whoever is about to announce a mark  *)
(* wrote it, alone.                                                        *)
(*                                                                         *)
(* And what a panel and a badge come to show.  PanelInvariant and          *)
(* BadgeInvariant say how far each is behind the table in terms of what is *)
(* still due to the user: events that wait, and requests that have written *)
(* and not published.  The invariants are kept by five kinds of steps:     *)
(* those that write and announce nothing (QuietStep), those that write     *)
(* (Wrote), the publication (Announced), and what takes events out of an   *)
(* inbox, received (Hears) or lost (Takes).  OneEach says that a message   *)
(* stands on a panel twice only if a history brought it before its event.  *)
(***************************************************************************)
EXTENDS LastRoom, DirectMessages, FiniteSetTheorems, SequenceTheorems, TLAPS

\* The save of the newest numbered join is the save of the target.
NewestSavesTarget ==
  /\ version <= decisions
  /\ \A w \in writes : /\ w.id <= decisions
                       /\ w.kind = "join" /\ w.id = version => w.room = target

\* While an older join's save leaves the row stale, a statement is still to
\* be applied, or the answer that will trigger the correction is still out.
CorrectionComes ==
  (wroteRow = "join" /\ target # NoRoom /\ row # target) =>
    \/ failed
    \/ \E w \in writes : ~w.applied \/ (w.kind = "join" /\ w.room = row)

LInv == TypeOK /\ NewestSavesTarget /\ CorrectionComes

USE LastRoomAssumption

---------------------------------------------------------------------------
\* What Decide adds to writes.
LEMMA DecideFacts ==
  ASSUME LInv, NEW kind \in Kinds, NEW r \in Rooms \cup {NoRoom},
         r = NoRoom => kind = "clear", Decide(kind, r, r)
  PROVE  /\ decisions' \in Nat /\ decisions' = decisions + 1
         /\ writes' \in SUBSET Writes
         /\ wanted' \in Rooms \cup {NoRoom}
         /\ overlapped' \in BOOLEAN
         /\ \E w \in writes' : ~w.applied
         /\ \A w \in writes' : w \in writes \/ (w.id = decisions + 1 /\ w.room = r)
<1> DEFINE new == [id |-> decisions + 1, kind |-> kind, room |-> r,
                   applied |-> FALSE]
<1>1. new \in Writes /\ ~new.applied /\ new.id = decisions + 1 /\ new.room = r
  BY DEF LInv, TypeOK, Writes
<1>2. writes' = writes \cup {new}
  BY DEF Decide
<1> HIDE DEF new
<1> QED
  BY <1>1, <1>2 DEF Decide, LInv, TypeOK

LEMMA EnterRoomInv ==
  ASSUME LInv, NEW s \in Sockets, NEW r \in Rooms, NEW kind \in {"join", "resume"},
         EnterRoom(s, r, kind),
         conn' \in [Sockets -> {"closed", "upgrading", "open"}],
         UNCHANGED <<resume, resumes>>
  PROVE  LInv'
<1>1. Decide(kind, r, r)
  BY DEF EnterRoom, SaveLastRoomId
<1>2. /\ decisions' \in Nat /\ decisions' = decisions + 1
      /\ writes' \in SUBSET Writes
      /\ wanted' \in Rooms \cup {NoRoom}
      /\ overlapped' \in BOOLEAN
      /\ \E w \in writes' : ~w.applied
      /\ \A w \in writes' : w \in writes \/ (w.id = decisions + 1 /\ w.room = r)
  <2>1. kind \in Kinds /\ r \in Rooms \cup {NoRoom} /\ r # NoRoom
    BY DEF Kinds
  <2> HIDE DEF Decide
  <2> QED
    BY <1>1, <2>1, DecideFacts
<1>3. TypeOK'
  <2>1. roomOf' \in [Sockets -> Rooms \cup {NoRoom}]
    BY DEF EnterRoom, LInv, TypeOK
  <2>2. version' \in Nat /\ target' \in Rooms \cup {NoRoom}
    BY DEF EnterRoom, NextJoinVersion, joinVars, LInv, TypeOK
  <2> QED
    BY <1>2, <2>1, <2>2 DEF EnterRoom, LInv, TypeOK
<1>4. NewestSavesTarget'
  <2>1. version' <= decisions'
    BY <1>2 DEF EnterRoom, NextJoinVersion, joinVars, LInv, TypeOK, NewestSavesTarget
  <2>2. ASSUME NEW w \in writes'
        PROVE  /\ w.id <= decisions'
               /\ w.kind = "join" /\ w.id = version' => w.room = target'
    <3>1. CASE w \in writes
      <4>1. w.id \in Nat /\ w.id <= decisions /\ decisions \in Nat
        BY <3>1 DEF LInv, TypeOK, Writes, NewestSavesTarget
      <4>2. w.id # decisions + 1 /\ w.id <= decisions'
        BY <1>2, <4>1
      <4> QED
        BY <3>1, <4>2 DEF EnterRoom, NextJoinVersion, joinVars, LInv,
                          NewestSavesTarget
    <3>2. CASE w.id = decisions + 1 /\ w.room = r
      <4>1. version \in Nat /\ decisions \in Nat /\ version <= decisions
        BY DEF LInv, TypeOK, NewestSavesTarget
      <4>2. version # decisions + 1
        BY <4>1
      <4> QED
        BY <1>2, <3>2, <4>1, <4>2 DEF EnterRoom, NextJoinVersion, joinVars
    <3> QED
      BY <1>2, <3>1, <3>2
  <2> QED
    BY <2>1, <2>2 DEF NewestSavesTarget
<1>5. CorrectionComes'
  BY <1>2 DEF CorrectionComes
<1> QED
  BY <1>3, <1>4, <1>5 DEF LInv

LEMMA RejectInv ==
  ASSUME LInv, RejectAndClear,
         conn' \in [Sockets -> {"closed", "upgrading", "open"}],
         UNCHANGED <<resume, resumes>>
  PROVE  LInv'
<1>1. /\ decisions' \in Nat /\ decisions' = decisions + 1
      /\ writes' \in SUBSET Writes
      /\ wanted' \in Rooms \cup {NoRoom}
      /\ overlapped' \in BOOLEAN
      /\ \E w \in writes' : ~w.applied
      /\ \A w \in writes' : w \in writes \/ (w.id = decisions + 1 /\ w.room = NoRoom)
  <2>1. Decide("clear", NoRoom, NoRoom) /\ "clear" \in Kinds /\ NoRoom \in Rooms \cup {NoRoom}
    BY DEF RejectAndClear, Kinds
  <2> QED
    BY <2>1, DecideFacts
<1>2. TypeOK'
  BY <1>1 DEF RejectAndClear, joinVars, LInv, TypeOK
<1>3. NewestSavesTarget'
  <2>1. version' <= decisions'
    BY <1>1 DEF RejectAndClear, joinVars, LInv, TypeOK, NewestSavesTarget
  <2>2. ASSUME NEW w \in writes'
        PROVE  /\ w.id <= decisions'
               /\ w.kind = "join" /\ w.id = version' => w.room = target'
    <3>1. version \in Nat /\ decisions \in Nat /\ version <= decisions
      BY DEF LInv, TypeOK, NewestSavesTarget
    <3>2. CASE w \in writes
      <4>1. w.id \in Nat /\ w.id <= decisions
        BY <3>2 DEF LInv, TypeOK, Writes, NewestSavesTarget
      <4> QED
        BY <1>1, <3>1, <3>2, <4>1 DEF RejectAndClear, joinVars, LInv,
                                      NewestSavesTarget
    <3>3. CASE w.id = decisions + 1 /\ w.room = NoRoom
      BY <1>1, <3>1, <3>3 DEF RejectAndClear, joinVars
    <3> QED
      BY <1>1, <3>2, <3>3
  <2> QED
    BY <2>1, <2>2 DEF NewestSavesTarget
<1>4. CorrectionComes'
  BY <1>1 DEF CorrectionComes
<1> QED
  BY <1>2, <1>3, <1>4 DEF LInv

---------------------------------------------------------------------------
\* Steps that touch neither the statements nor the row.
LEMMA QuietInv ==
  ASSUME LInv, TypeOK', UNCHANGED <<joinVars, writes, row, wroteRow, failed, decisions>>
  PROVE  LInv'
BY DEF LInv, joinVars, NewestSavesTarget, CorrectionComes

LEMMA ApplyInv ==
  ASSUME LInv, NEW w \in writes, Apply(w)
  PROVE  LInv'
<1> DEFINE done == [w EXCEPT !.applied = TRUE]
<1>1. w \in Writes
  BY DEF LInv, TypeOK
<1>2. /\ done \in Writes /\ done.id = w.id /\ done.kind = w.kind
      /\ done.room = w.room
  BY <1>1 DEF Writes
<1>3. writes' = (writes \ {w}) \cup {done}
  BY DEF Apply
<1> HIDE DEF done
<1>4. TypeOK'
  BY <1>1, <1>2, <1>3 DEF Apply, joinVars, history, LInv, TypeOK, Writes
<1>5. NewestSavesTarget'
  BY <1>2, <1>3 DEF Apply, joinVars, LInv, NewestSavesTarget
<1>6. CorrectionComes'
  BY <1>2, <1>3 DEF Apply, CorrectionComes
<1> QED
  BY <1>4, <1>5, <1>6 DEF LInv

LEMMA ReturnInv ==
  ASSUME LInv, NEW w \in writes, Return(w)
  PROVE  LInv'
<1> DEFINE fix == [id |-> w.id, kind |-> "correct", room |-> target,
                   applied |-> FALSE]
<1>1. w \in Writes /\ w.id <= decisions
  BY DEF LInv, TypeOK, NewestSavesTarget
<1>2. /\ target # NoRoom => fix \in Writes
      /\ fix.id = w.id /\ fix.kind = "correct" /\ ~fix.applied
  BY <1>1 DEF LInv, TypeOK, Writes, Kinds
<1>3. Correction(w) \in SUBSET {fix} /\ (Correction(w) # {} => target # NoRoom)
  BY DEF Correction
<1>4. writes' = (writes \ {w}) \cup Correction(w)
  BY DEF Return
<1>5. /\ w.kind = "join" /\ w.room = row /\ row # target /\ target # NoRoom
      => fix \in writes'
  <2>1. w.kind = "join" /\ w.room # target => version # w.id
    BY DEF LInv, NewestSavesTarget
  <2> QED
    BY <1>4, <2>1 DEF Correction
<1> HIDE DEF fix
<1>6. TypeOK'
  BY <1>2, <1>3, <1>4 DEF Return, joinVars, history, LInv, TypeOK
<1>7. NewestSavesTarget'
  BY <1>1, <1>2, <1>3, <1>4 DEF Return, joinVars, LInv, NewestSavesTarget
<1>8. CorrectionComes'
  <2>1. SUFFICES ASSUME wroteRow = "join", target # NoRoom, row # target, ~failed
                 PROVE  \E x \in writes' : ~x.applied \/ (x.kind = "join" /\ x.room = row)
    BY DEF Return, joinVars, CorrectionComes
  <2>2. PICK x \in writes : ~x.applied \/ (x.kind = "join" /\ x.room = row)
    BY <2>1 DEF LInv, CorrectionComes
  <2>3. CASE x # w
    BY <1>4, <2>2, <2>3
  <2>4. CASE x = w
    BY <1>2, <1>5, <2>1, <2>2, <2>4 DEF Return
  <2> QED
    BY <2>3, <2>4
<1> QED
  BY <1>6, <1>7, <1>8 DEF LInv

LEMMA FailInv ==
  ASSUME LInv, NEW w \in writes, Fail(w)
  PROVE  LInv'
<1>1. TypeOK'
  BY DEF Fail, joinVars, history, LInv, TypeOK
<1>2. NewestSavesTarget' /\ CorrectionComes'
  BY DEF Fail, joinVars, LInv, NewestSavesTarget, CorrectionComes
<1> QED
  BY <1>1, <1>2 DEF LInv

---------------------------------------------------------------------------
\* The inductive invariant behind both theorems below.
THEOREM LastRoomInvariant == Spec => []LInv
<1>1. Init => LInv
  <2> SUFFICES ASSUME Init PROVE LInv
    OBVIOUS
  <2>1. TypeOK
    BY DEF Init, TypeOK
  <2>2. NewestSavesTarget /\ CorrectionComes
    BY DEF Init, NewestSavesTarget, CorrectionComes
  <2> QED
    BY <2>1, <2>2 DEF LInv
<1>2. LInv /\ [Next]_vars => LInv'
  <2> SUFFICES ASSUME LInv, [Next]_vars PROVE LInv'
    OBVIOUS
  <2>1. ASSUME NEW s \in Sockets, NEW ok \in BOOLEAN, Upgrade(s, ok) PROVE LInv'
    <3>1. conn' \in [Sockets -> {"closed", "upgrading", "open"}]
          /\ resume' \in [Sockets -> Rooms \cup {NoRoom}] /\ resumes' \in Nat
      BY <2>1 DEF Upgrade, LInv, TypeOK
    <3>2. TypeOK'
      BY <2>1, <3>1 DEF Upgrade, joinVars, history, LInv, TypeOK
    <3> QED
      BY <2>1, <3>2, QuietInv DEF Upgrade
  <2>2. ASSUME NEW s \in Sockets, HandleOpen(s) PROVE LInv'
    <3>1. conn' \in [Sockets -> {"closed", "upgrading", "open"}]
          /\ UNCHANGED <<resume, resumes>>
      BY <2>2 DEF HandleOpen, LInv, TypeOK
    <3>2. CASE resume[s] # NoRoom /\ EnterRoom(s, resume[s], "resume")
      <4>1. resume[s] \in Rooms
        BY <3>2 DEF LInv, TypeOK
      <4> QED
        BY <3>1, <3>2, <4>1, EnterRoomInv
    <3>3. CASE RejectAndClear
      BY <3>1, <3>3, RejectInv
    <3>4. CASE UNCHANGED <<roomOf, here, driver, joinVars, writes, row, wroteRow,
                           history, failed, decisions, rejects>>
      <4>1. TypeOK'
        BY <3>1, <3>4 DEF joinVars, history, LInv, TypeOK
      <4> QED
        BY <3>4, <4>1, QuietInv
    <3> QED
      BY <2>2, <3>2, <3>3, <3>4 DEF HandleOpen
  <2>3. ASSUME NEW s \in Sockets, NEW r \in Rooms, HandleJoin(s, r) PROVE LInv'
    <3>1. conn' \in [Sockets -> {"closed", "upgrading", "open"}]
          /\ UNCHANGED <<resume, resumes>> /\ EnterRoom(s, r, "join")
      BY <2>3 DEF HandleJoin, LInv, TypeOK
    <3> QED
      BY <3>1, EnterRoomInv
  <2>4. ASSUME NEW s \in Sockets, HandleUnknownJoin(s) PROVE LInv'
    <3>1. conn' \in [Sockets -> {"closed", "upgrading", "open"}]
          /\ UNCHANGED <<resume, resumes>> /\ RejectAndClear
      BY <2>4 DEF HandleUnknownJoin, LInv, TypeOK
    <3> QED
      BY <3>1, RejectInv
  <2>5. ASSUME NEW s \in Sockets, HandleClose(s) PROVE LInv'
    <3>1. TypeOK'
      BY <2>5 DEF HandleClose, joinVars, history, LInv, TypeOK
    <3> QED
      BY <2>5, <3>1, QuietInv DEF HandleClose
  <2>6. ASSUME NEW w \in writes, Answer(w) PROVE LInv'
    BY <2>6, ApplyInv, ReturnInv, FailInv DEF Answer
  <2>7. CASE Restart
    <3>1. TypeOK'
      BY <2>7 DEF Restart, history, LInv, TypeOK
    <3>2. NewestSavesTarget' /\ CorrectionComes'
      BY <2>7 DEF Restart, LInv, TypeOK, NewestSavesTarget, CorrectionComes
    <3> QED
      BY <3>1, <3>2 DEF LInv
  <2>8. CASE UNCHANGED vars
    <3>1. TypeOK'
      BY <2>8 DEF vars, joinVars, history, LInv, TypeOK
    <3> QED
      BY <2>8, <3>1, QuietInv DEF vars
  <2> QED
    BY <2>1, <2>2, <2>3, <2>4, <2>5, <2>6, <2>7, <2>8 DEF Next
<1> QED
  BY <1>1, <1>2, PTL DEF Spec

\* Once all statements have answered and none failed, the first save of an
\* older join is never what the row is left with.
THEOREM StaleSavesAreCorrected == Spec => []StaleSaveCorrected
<1>1. LInv => StaleSaveCorrected
  BY DEF LInv, CorrectionComes, StaleSaveCorrected, Settled
<1> QED
  BY <1>1, LastRoomInvariant, PTL
---------------------------------------------------------------------------
\* As long as decisions do not overlap, at most one statement is out, it is
\* the newest decision's, and nothing will be corrected.
OneAtATime ==
  (~failed /\ ~overlapped) =>
    \/ writes = {} /\ row = wanted
    \/ \E w \in writes : /\ writes = {w}
                         /\ w.kind = "join" => w.id = version
                         /\ IF w.applied THEN row = wanted ELSE w.room = wanted

LEMMA DecideAlone ==
  ASSUME OneAtATime, NEW kind \in Kinds, NEW r \in Rooms \cup {NoRoom},
         Decide(kind, r, r), kind = "join" => version' = decisions + 1,
         UNCHANGED failed
  PROVE  OneAtATime'
<1> DEFINE new == [id |-> decisions + 1, kind |-> kind, room |-> r,
                   applied |-> FALSE]
<1>1. /\ new.id = decisions + 1 /\ new.kind = kind /\ new.room = r
      /\ new.applied = FALSE
  OBVIOUS
<1>2. /\ writes' = writes \cup {new} /\ wanted' = r
      /\ overlapped' = (overlapped \/ writes # {})
  BY DEF Decide
<1> HIDE DEF new
<1>3. SUFFICES ASSUME ~failed', ~overlapped'
               PROVE  \E w \in writes' : /\ writes' = {w}
                                         /\ w.kind = "join" => w.id = version'
                                         /\ ~w.applied /\ w.room = wanted'
  BY DEF OneAtATime
<1>4. writes' = {new}
  BY <1>2, <1>3
<1> QED
  BY <1>1, <1>2, <1>4

LEMMA AnswerAlone ==
  ASSUME OneAtATime, TypeOK, NEW w \in writes, Answer(w)
  PROVE  OneAtATime'
<1>1. CASE failed \/ overlapped
  BY <1>1 DEF OneAtATime, Answer, Apply, Return, Fail, history
<1>2. CASE ~failed /\ ~overlapped
  <2>1. /\ writes = {w}
        /\ w.kind = "join" => w.id = version
        /\ IF w.applied THEN row = wanted ELSE w.room = wanted
    BY <1>2 DEF OneAtATime
  <2>2. CASE Apply(w)
    <3> DEFINE done == [w EXCEPT !.applied = TRUE]
    <3>1. w \in Writes
      BY DEF TypeOK
    <3>2. done.kind = w.kind /\ done.id = w.id /\ done.applied
      BY <3>1 DEF Writes
    <3>3. writes' = (writes \ {w}) \cup {done}
      BY <2>2 DEF Apply
    <3> HIDE DEF done
    <3>4. writes' = {done}
      BY <2>1, <3>3
    <3>5. row' = wanted' /\ version' = version
      BY <2>1, <2>2 DEF Apply, history, joinVars
    <3> QED
      BY <2>1, <3>2, <3>4, <3>5 DEF OneAtATime
  <2>3. CASE Return(w)
    <3>1. Correction(w) = {}
      BY <2>1 DEF Correction
    <3>2. writes' = {} /\ row' = wanted'
      BY <2>1, <2>3, <3>1 DEF Return, history
    <3> QED
      BY <3>2 DEF OneAtATime
  <2>4. CASE Fail(w)
    BY <2>4 DEF Fail, OneAtATime
  <2> QED
    BY <2>2, <2>3, <2>4 DEF Answer
<1> QED
  BY <1>1, <1>2

\* When no decision is made while a statement is out, the row ends up as the
\* newest decision wants it.
THEOREM SequentialDecisionsArePersisted == Spec => []SequentialDecisionsPersist
<1>1. Init => OneAtATime
  BY DEF Init, OneAtATime
<1>2. LInv /\ OneAtATime /\ [Next]_vars => OneAtATime'
  <2> SUFFICES ASSUME LInv, OneAtATime, [Next]_vars PROVE OneAtATime'
    OBVIOUS
  <2>1. ASSUME NEW s \in Sockets, NEW r \in Rooms, NEW kind \in {"join", "resume"},
               EnterRoom(s, r, kind)
        PROVE  OneAtATime'
    <3>1. /\ Decide(kind, r, r) /\ kind \in Kinds /\ UNCHANGED failed
          /\ kind = "join" => version' = decisions + 1
      BY <2>1 DEF EnterRoom, SaveLastRoomId, NextJoinVersion, Kinds
    <3> QED
      BY <3>1, DecideAlone
  <2>2. CASE RejectAndClear
    <3>1. Decide("clear", NoRoom, NoRoom) /\ "clear" \in Kinds /\ UNCHANGED failed
      BY <2>2 DEF RejectAndClear, Kinds
    <3> QED
      BY <3>1, DecideAlone
  <2>3. CASE UNCHANGED <<joinVars, writes, row, history, failed>>
    BY <2>3 DEF OneAtATime, joinVars, history
  <2>4. ASSUME NEW s \in Sockets, HandleOpen(s) PROVE OneAtATime'
    <3>1. resume[s] \in Rooms \cup {NoRoom}
      BY DEF LInv, TypeOK
    <3> QED
      BY <2>1, <2>2, <2>3, <2>4, <3>1 DEF HandleOpen
  <2>5. ASSUME NEW s \in Sockets, NEW r \in Rooms, HandleJoin(s, r)
        PROVE  OneAtATime'
    BY <2>1, <2>5 DEF HandleJoin
  <2>6. ASSUME NEW s \in Sockets, HandleUnknownJoin(s) PROVE OneAtATime'
    BY <2>2, <2>6 DEF HandleUnknownJoin
  <2>7. CASE \E s \in Sockets : HandleClose(s) \/ \E ok \in BOOLEAN : Upgrade(s, ok)
    BY <2>3, <2>7 DEF HandleClose, Upgrade
  <2>8. ASSUME NEW w \in writes, Answer(w) PROVE OneAtATime'
    BY <2>8, AnswerAlone DEF LInv
  <2>9. CASE Restart
    BY <2>9 DEF Restart, history, OneAtATime
  <2>10. CASE UNCHANGED vars
    BY <2>3, <2>10 DEF vars
  <2> QED
    BY <2>4, <2>5, <2>6, <2>7, <2>8, <2>9, <2>10 DEF Next
<1>3. OneAtATime => SequentialDecisionsPersist
  BY DEF OneAtATime, SequentialDecisionsPersist, Settled
<1> QED
  BY <1>1, <1>2, <1>3, LastRoomInvariant, PTL DEF Spec

\* The property of the run: types, corrected saves, and decisions one at a time.
THEOREM DecisionsArePersisted == Spec => []DecisionsPersist
<1>1. LInv => TypeOK
  BY DEF LInv
<1> QED
  BY <1>1, LastRoomInvariant, StaleSavesAreCorrected, SequentialDecisionsArePersisted, PTL
     DEF DecisionsPersist

---------------------------------------------------------------------------
(* Direct messages.                                                        *)

Counts == [Msgs -> Nat]

MessageTypes ==
  /\ messages \in [Msgs -> Rows]
  /\ later \in [Msgs -> SUBSET Msgs]
  /\ linked \subseteq Checks
  /\ ops \in [Ops -> Requests \cup {NoOp}]
  /\ inbox \in [Users -> Seq(Events)]
  /\ panel \in [Users -> {"open", "hidden"}]
  /\ view \in [Users -> [Msgs -> Rows]]
  /\ unread \in [Users -> Nat]
  /\ asked \in 0..MaxRequests
  /\ hist.early \in [Users -> SUBSET Msgs]
  /\ hist.deleted \in Counts /\ hist.read \in Counts
  /\ hist = [raced |-> hist.raced, opened |-> hist.opened, doubt |-> hist.doubt,
             crossed |-> hist.crossed, early |-> hist.early, deleted |-> hist.deleted, read |-> hist.read]

\* A message that was not sent has no mark; what is announced is in the table.
RowsMarked ==
  \A m \in Msgs :
    /\ messages[m].text = 0 => messages[m] = NoRow
    /\ hist.deleted[m] <= 1 /\ hist.read[m] <= 1
    /\ ~messages[m].deleted => hist.deleted[m] = 0
    /\ ~messages[m].read => hist.read[m] = 0

\* What a client still shows of a message that it shows again was sent.
LeftElements(f) ==
  /\ f \in [Users -> [Msgs -> SUBSET Rows]]
  /\ \A u \in Users : \A m \in Msgs : \A e \in f[u][m] : e.text # 0 => Saved(m)

\* Whatever a client knows of was sent, and sent once at a time.
OnlySent ==
  /\ LeftElements(left)
  /\ \A u \in Users : \A m \in Msgs : view[u][m].text # 0 => Saved(m)
  /\ \A u \in Users : \A i \in DOMAIN inbox[u] : \A m \in inbox[u][i].about : Saved(m)
  /\ \A u \in Users : \A i \in DOMAIN inbox[u] :
       inbox[u][i].type = "send" => \E m \in Msgs : inbox[u][i].about = {m}

\* What a request has seen hold, and what it is about.
Sending(r) == r.kind = "send" /\ r.step # "publish"

Allowed(r) ==
  /\ linked \subseteq r.met
  /\ r.step = "blocked" => "friends" \in r.met
  /\ (r.step \in {"write", "publish", "show"} /\ r.kind # "count") => r.met = Checks

About(r) ==
  /\ r.kind \in {"send", "edit", "delete"} => \E m \in Msgs : r.about = {m}
  /\ r.kind \in {"send", "edit"} => r.text \in Texts
  /\ r.step = "publish" => r.kind \in {"send", "edit", "delete", "read"}
  /\ \A m \in r.about : Saved(m) <=> ~Sending(r)
  /\ \A m \in Msgs : r.got[m].text # 0 => Saved(m)

Unannounced(r) ==
  \A m \in r.about :
    /\ (r.step = "publish" /\ r.kind = "delete") =>
         (messages[m].deleted /\ hist.deleted[m] = 0)
    /\ (r.step = "publish" /\ r.kind = "read") =>
         (messages[m].read /\ hist.read[m] = 0)

Sound(r) == Allowed(r) /\ About(r) /\ Unannounced(r)

\* No two requests send, or announce the deletion or the reading of, a message.
Apart(r, q) ==
  /\ Sending(r) => r.about \cap q.about = {}
  /\ (r.step = "publish" /\ q.step = "publish" /\ r.kind = q.kind /\ r.kind \in {"delete", "read"})
       => r.about \cap q.about = {}

RequestsSound ==
  /\ \A o \in Busy : Sound(ops[o])
  /\ \A o, p \in Busy : o # p => Apart(ops[o], ops[p])

MessagesInvariant == MessageTypes /\ RowsMarked /\ OnlySent /\ RequestsSound

LEMMA MessagesBegin == ASSUME MessagesInit PROVE MessagesInvariant
<1> USE DirectMessagesAssumption DEF MessagesInit
<1>0. NoRow \in Rows BY DEF NoRow, Rows
<1>1. MessageTypes
  <2>1. [u \in Users |-> <<>>] \in [Users -> Seq(Events)] OBVIOUS
  <2>2. [m \in Msgs |-> 0] \in Counts BY DEF Counts
  <2>3. 0 \in 0..MaxRequests OBVIOUS
  <2>4. [u \in Users |-> {}] \in [Users -> SUBSET Msgs] OBVIOUS
  <2>. QED BY <1>0, <2>1, <2>2, <2>3, <2>4 DEF MessageTypes
<1>2. RowsMarked BY DEF RowsMarked, NoRow
<1>3. OnlySent
  <2>1. \A u \in Users : inbox[u] = <<>> OBVIOUS
  <2>2. \A u \in Users : DOMAIN inbox[u] = {} BY <2>1
  <2>3. \A u \in Users : \A m \in Msgs : view[u][m].text = 0 BY DEF NoRow
  <2>4. LeftElements(left) BY DEF LeftElements
  <2>. QED BY <2>2, <2>3, <2>4 DEF OnlySent
<1>4. Busy = {} BY DEF Busy
<1>. QED BY <1>1, <1>2, <1>3, <1>4 DEF MessagesInvariant, RequestsSound

LEMMA MessagesStutter == ASSUME MessagesInvariant, UNCHANGED messagesVars PROVE MessagesInvariant'
<1> USE DEF messagesVars, MessagesInvariant
<1>1. MessageTypes' BY DEF MessageTypes
<1>2. RowsMarked' /\ OnlySent' BY DEF RowsMarked, OnlySent, LeftElements, Saved
<1>3. RequestsSound'
  BY DEF RequestsSound, Sound, Allowed, About, Unannounced, Apart, Sending, Busy, Saved
<1>. QED BY <1>1, <1>2, <1>3

LEMMA OpIs == ASSUME MessageTypes, NEW o \in Busy PROVE o \in Ops /\ ops[o] \in Requests /\ ops[o] # NoOp
  BY DEF MessageTypes, Busy

\* Changing one field of a request changes nothing else of it.
LEMMA RequestFields ==
  ASSUME NEW r \in Requests
  PROVE  /\ r.kind \in {"send", "edit", "delete", "read", "history", "count"} /\ r.user \in Users
         /\ r.about \subseteq Msgs /\ r.text \in Texts \cup {0} /\ r.met \subseteq Checks
         /\ r.step \in {"find", "count", "friends", "blocked", "write", "publish", "show"}
         /\ r.got \in [Msgs -> Rows] /\ r.missed \in BOOLEAN
  BY DEF Requests

LEMMA SetStep ==
  ASSUME NEW r \in Requests,
         NEW s \in {"find", "count", "friends", "blocked", "write", "publish", "show"},
         NEW q, q = [r EXCEPT !.step = s]
  PROVE  /\ q \in Requests /\ q.step = s /\ q.kind = r.kind /\ q.user = r.user /\ q.about = r.about
         /\ q.text = r.text /\ q.met = r.met /\ q.got = r.got /\ q.missed = r.missed
  BY DEF Requests

LEMMA SetMissed ==
  ASSUME NEW r \in Requests
  PROVE  LET q == [r EXCEPT !.missed = TRUE]
         IN  /\ q \in Requests /\ q.step = r.step /\ q.kind = r.kind /\ q.user = r.user /\ q.about = r.about
             /\ q.text = r.text /\ q.met = r.met /\ q.got = r.got
  BY DEF Requests

LEMMA SetMet ==
  ASSUME NEW r \in Requests, NEW S, S \subseteq Checks
  PROVE  LET q == [r EXCEPT !.met = @ \cup S]
         IN  /\ q \in Requests /\ q.step = r.step /\ q.kind = r.kind /\ q.user = r.user /\ q.about = r.about
             /\ q.text = r.text /\ q.met = r.met \cup S /\ q.got = r.got
  BY DEF Requests

\* One request goes on, ends or begins, and nothing it is about changes.
LEMMA OneRequest ==
  ASSUME RequestsSound, MessageTypes, NEW o \in Ops, NEW r,
         ops' = [ops EXCEPT ![o] = r],
         UNCHANGED <<messages, linked, hist>>,
         r # NoOp => /\ Sound(r)
                     /\ \A p \in Busy \ {o} : Apart(r, ops[p]) /\ Apart(ops[p], r)
  PROVE  RequestsSound'
<1>1. \A p \in Ops : ops'[p] = IF p = o THEN r ELSE ops[p] BY DEF MessageTypes
<1>2. \A q : Sound(q) => Sound(q)'
  BY DEF Sound, Allowed, About, Unannounced, Saved, Sending
<1>3. \A q, s : Apart(q, s) => Apart(q, s)'
  BY DEF Apart, Sending
<1>4. ASSUME NEW p \in Busy' PROVE Sound(ops[p])'
  <2>1. CASE p = o BY <1>1, <1>4, <2>1 DEF Busy, Sound, Allowed, About, Unannounced, Saved, Sending
  <2>2. CASE p # o BY <1>1, <1>4, <2>2 DEF RequestsSound, Busy, Sound, Allowed, About, Unannounced, Saved, Sending
  <2>. QED BY <2>1, <2>2
<1>5. ASSUME NEW p \in Busy', NEW q \in Busy', p # q PROVE Apart(ops[p], ops[q])'
  BY <1>1, <1>5 DEF RequestsSound, Busy, Apart, Sending
<1>. QED BY <1>4, <1>5 DEF RequestsSound

LEMMA OnlyRequests ==
  ASSUME MessagesInvariant, NEW o \in Ops, NEW r, r # NoOp => r \in Requests,
         ops' = [ops EXCEPT ![o] = r],
         UNCHANGED <<messages, later, linked, inbox, panel, view, left, unread, hist>>,
         asked' \in 0..MaxRequests,
         r # NoOp => /\ Sound(r)
                     /\ \A p \in Busy \ {o} : Apart(r, ops[p]) /\ Apart(ops[p], r)
  PROVE  MessagesInvariant'
<1>1. RequestsSound' BY OneRequest DEF MessagesInvariant
<1>2. MessageTypes' BY DEF MessagesInvariant, MessageTypes
<1>3. RowsMarked' /\ OnlySent' BY DEF MessagesInvariant, RowsMarked, OnlySent, LeftElements, Saved
<1>. QED BY <1>1, <1>2, <1>3 DEF MessagesInvariant

LEMMA Ends ==
  ASSUME MessagesInvariant, NEW o \in Ops, End(o),
         UNCHANGED <<messages, later, linked, inbox, panel, view, left, unread, asked, hist>>
  PROVE  MessagesInvariant'
<1>1. asked' \in 0..MaxRequests BY DEF MessagesInvariant, MessageTypes
<1>2. ops' = [ops EXCEPT ![o] = NoOp] BY DEF End
<1>. QED BY <1>1, <1>2, OnlyRequests

\* A request goes to a step that is no write's end.
LEMMA GoesOn ==
  ASSUME MessagesInvariant, NEW o \in Busy,
         NEW s \in {"friends", "blocked", "write", "show"}, Goto(o, s), ops[o].step # "publish",
         s = "blocked" => "friends" \in linked,
         (s \in {"write", "show"} /\ ops[o].kind # "count") =>
            ("friends" \in ops[o].met /\ "unblocked" \in ops[o].met),
         UNCHANGED <<messages, later, linked, inbox, panel, view, left, unread, asked, hist>>
  PROVE  MessagesInvariant'
<1> DEFINE r == [ops[o] EXCEPT !.step = s]
<1>1. o \in Ops /\ ops[o] \in Requests BY OpIs DEF MessagesInvariant
<1>r. r = [ops[o] EXCEPT !.step = s] OBVIOUS
<1>3. ops' = [ops EXCEPT ![o] = r] BY DEF Goto
<1> HIDE DEF r
<1>2. /\ r \in Requests /\ r.step = s /\ r.kind = ops[o].kind /\ r.about = ops[o].about
      /\ r.text = ops[o].text /\ r.met = ops[o].met /\ r.got = ops[o].got
  <2>1. s \in {"find", "count", "friends", "blocked", "write", "publish", "show"} OBVIOUS
  <2>. QED BY <1>1, <1>r, <2>1, SetStep
<1>4. Sound(ops[o]) BY DEF MessagesInvariant, RequestsSound
<1>5. ops[o].met \subseteq Checks /\ ops[o].kind \in {"send", "edit", "delete", "read", "history", "count"}
  BY <1>1, RequestFields
<1>6. Allowed(r) BY <1>2, <1>4, <1>5 DEF Sound, Allowed, Checks
<1>7. About(r) BY <1>2, <1>4 DEF Sound, About, Sending
<1>8. Unannounced(r) BY <1>2 DEF Unannounced
<1>9. ASSUME NEW p \in Busy \ {o} PROVE Apart(r, ops[p]) /\ Apart(ops[p], r)
  <2>1. Apart(ops[o], ops[p]) /\ Apart(ops[p], ops[o]) BY <1>9 DEF MessagesInvariant, RequestsSound
  <2>. QED BY <2>1, <1>2 DEF Apart, Sending
<1>10. asked' \in 0..MaxRequests BY DEF MessagesInvariant, MessageTypes
<1>. QED BY <1>1, <1>2, <1>3, <1>6, <1>7, <1>8, <1>9, <1>10, OnlyRequests DEF Sound

LEMMA Finds == ASSUME MessagesInvariant, NEW o \in Ops, FindMessage(o) PROVE MessagesInvariant'
<1>1. CASE End(o) BY <1>1, Ends DEF FindMessage
<1>2. CASE Goto(o, "friends") BY <1>2, GoesOn DEF FindMessage
<1>. QED BY <1>1, <1>2 DEF FindMessage

LEMMA Refuses ==
  ASSUME MessagesInvariant, NEW o \in Busy, Refused(o), ops[o].step # "publish",
         UNCHANGED <<messages, later, linked, inbox, panel, view, left, unread, asked, hist>>
  PROVE  MessagesInvariant'
<1>0. o \in Ops /\ ops[o] \in Requests BY OpIs DEF MessagesInvariant
<1>1. CASE ops[o].kind = "count"
  <2> DEFINE r == [ops[o] EXCEPT !.step = "show", !.about = {}, !.missed = TRUE]
  <2>1. /\ r \in Requests /\ r.step = "show" /\ r.kind = "count" /\ r.about = {}
        /\ r.text = ops[o].text /\ r.met = ops[o].met /\ r.got = ops[o].got
    BY <1>0, <1>1 DEF Requests
  <2>2. ops' = [ops EXCEPT ![o] = r] BY <1>0, <1>1 DEF Refused, MessagesInvariant, MessageTypes
  <2>3. Sound(ops[o]) BY DEF MessagesInvariant, RequestsSound
  <2> HIDE DEF r
  <2>4. Sound(r)
    BY <2>1, <2>3 DEF Sound, Allowed, About, Unannounced, Sending
  <2>5. \A p \in Busy \ {o} : Apart(r, ops[p]) /\ Apart(ops[p], r)
    BY <2>1 DEF Apart
  <2>6. asked' \in 0..MaxRequests BY DEF MessagesInvariant, MessageTypes
  <2>. QED BY <1>0, <2>1, <2>2, <2>4, <2>5, <2>6, OnlyRequests
<1>2. CASE ops[o].kind # "count"
  <2>1. End(o) BY <1>2 DEF Refused
  <2>. QED BY <1>0, <2>1, Ends
<1>. QED BY <1>1, <1>2

LEMMA ChecksFriends == ASSUME MessagesInvariant, NEW o \in Ops, AreFriends(o) PROVE MessagesInvariant'
<1>1. o \in Busy /\ ops[o].step = "friends" BY DEF AreFriends
<1>2. CASE "friends" \in linked
  <2>1. Goto(o, "blocked") BY <1>2 DEF AreFriends
  <2>. QED BY <1>1, <1>2, <2>1, GoesOn DEF AreFriends
<1>3. CASE "friends" \notin linked
  <2>1. Refused(o) BY <1>3 DEF AreFriends
  <2>. QED BY <1>1, <2>1, Refuses DEF AreFriends
<1>. QED BY <1>2, <1>3

LEMMA ChecksBlocks == ASSUME MessagesInvariant, NEW o \in Ops, IsBlockedEitherDirection(o) PROVE MessagesInvariant'
<1>1. o \in Busy /\ ops[o].step = "blocked" BY DEF IsBlockedEitherDirection
<1>2. CASE "unblocked" \in linked
  <2>1. Goto(o, IF ops[o].kind = "count" THEN "show" ELSE "write")
    BY <1>2 DEF IsBlockedEitherDirection
  <2>2. "friends" \in ops[o].met /\ "unblocked" \in ops[o].met
    BY <1>1, <1>2 DEF MessagesInvariant, RequestsSound, Sound, Allowed
  <2>3. CASE ops[o].kind = "count"
    <3>1. Goto(o, "show") BY <2>1, <2>3
    <3>. QED BY <1>1, <2>2, <3>1, GoesOn DEF IsBlockedEitherDirection
  <2>4. CASE ops[o].kind # "count"
    <3>1. Goto(o, "write") BY <2>1, <2>4
    <3>. QED BY <1>1, <2>2, <3>1, GoesOn DEF IsBlockedEitherDirection
  <2>. QED BY <2>3, <2>4
<1>3. CASE "unblocked" \notin linked
  <2>1. Refused(o) BY <1>3 DEF IsBlockedEitherDirection
  <2>. QED BY <1>1, <2>1, Refuses DEF IsBlockedEitherDirection
<1>. QED BY <1>2, <1>3

LEMMA FailsOrFindsNone ==
  ASSUME MessagesInvariant, NEW o \in Ops, Fails(o) \/ FindsNoRow(o) PROVE MessagesInvariant'
  BY Ends DEF Fails, FindsNoRow

LEMMA PageIs ==
  ASSUME MessageTypes
  PROVE  /\ Page \in [Msgs -> Rows]
         /\ \A m \in Msgs : /\ m \in Newest => Page[m] = messages[m]
                            /\ m \notin Newest => Page[m] = NoRow
                            /\ Page[m].text # 0 => (m \in Newest /\ Saved(m))
<1>1. NoRow \in Rows /\ NoRow.text = 0 BY DEF NoRow, Rows
<1>. QED BY <1>1 DEF Page, Saved, MessageTypes

LEMMA Lists == ASSUME MessagesInvariant, NEW o \in Ops, ListConversation(o) PROVE MessagesInvariant'
<1> DEFINE r == [ops[o] EXCEPT !.step = "show", !.got = Page, !.missed = FALSE]
<1>0. o \in Busy /\ ops[o].kind = "history" /\ ops[o].step = "write" BY DEF ListConversation, At
<1>1. o \in Ops /\ ops[o] \in Requests BY <1>0, OpIs DEF MessagesInvariant
<1>2. /\ r \in Requests /\ r.step = "show" /\ r.kind = "history" /\ r.about = ops[o].about
      /\ r.text = ops[o].text /\ r.met = ops[o].met /\ r.got = Page
  BY <1>0, <1>1, PageIs DEF Requests, MessagesInvariant
<1>3. ops' = [ops EXCEPT ![o] = r] BY <1>1 DEF ListConversation, MessagesInvariant, MessageTypes
<1>4. Sound(ops[o]) BY <1>0 DEF MessagesInvariant, RequestsSound
<1> HIDE DEF r
<1>5. Sound(r)
  <2>1. \A m \in Msgs : r.got[m].text # 0 => Saved(m) BY <1>2, PageIs DEF MessagesInvariant
  <2>. QED BY <1>0, <1>2, <1>4, <2>1 DEF Sound, Allowed, About, Unannounced, Sending
<1>6. ASSUME NEW p \in Busy \ {o} PROVE Apart(r, ops[p]) /\ Apart(ops[p], r)
  <2>1. Apart(ops[p], ops[o]) BY <1>0, <1>6 DEF MessagesInvariant, RequestsSound
  <2>. QED BY <2>1, <1>2 DEF Apart, Sending
<1>7. asked' \in 0..MaxRequests BY DEF ListConversation, MessagesInvariant, MessageTypes
<1>8. UNCHANGED <<messages, later, linked, inbox, panel, view, left, unread, hist>> BY DEF ListConversation
<1>. QED BY <1>1, <1>2, <1>3, <1>5, <1>6, <1>7, <1>8, OnlyRequests

LEMMA UnreadSaved == ASSUME NEW u PROVE Unread(u) \subseteq Msgs /\ \A m \in Unread(u) : Saved(m) /\ ~messages[m].read /\ ~messages[m].deleted
  BY DEF Unread, Mine

LEMMA CountsUnread == ASSUME MessagesInvariant, NEW o \in Ops, ListUnreadCounts(o) PROVE MessagesInvariant'
<1>0. o \in Busy /\ ops[o].kind = "count" /\ ops[o].step = "count" BY DEF ListUnreadCounts, At
<1>1. ops[o] \in Requests /\ ops[o].user \in Users BY <1>0, OpIs DEF MessagesInvariant, Requests
<1>2. PICK b \in BOOLEAN : ops' = [ops EXCEPT ![o].step = "friends", ![o].about = Unread(ops[o].user), ![o].missed = b]
  BY DEF ListUnreadCounts
<1> DEFINE r == [ops[o] EXCEPT !.step = "friends", !.about = Unread(ops[o].user), !.missed = b]
<1>3. Unread(ops[o].user) \subseteq Msgs /\ \A m \in Unread(ops[o].user) : Saved(m)
  BY UnreadSaved
<1>4. /\ r \in Requests /\ r.step = "friends" /\ r.kind = "count" /\ r.about = Unread(ops[o].user)
      /\ r.text = ops[o].text /\ r.met = ops[o].met /\ r.got = ops[o].got
  BY <1>0, <1>1, <1>3 DEF Requests
<1>5. ops' = [ops EXCEPT ![o] = r] BY <1>1, <1>2 DEF MessagesInvariant, MessageTypes
<1>6. Sound(ops[o]) BY <1>0 DEF MessagesInvariant, RequestsSound
<1> HIDE DEF r
<1>7. Sound(r)
  BY <1>3, <1>4, <1>6 DEF Sound, Allowed, About, Unannounced, Sending
<1>8. ASSUME NEW p \in Busy \ {o} PROVE Apart(r, ops[p]) /\ Apart(ops[p], r)
  <2>1. Sound(ops[p]) BY <1>8 DEF MessagesInvariant, RequestsSound
  <2>2. Sending(ops[p]) => \A m \in ops[p].about : ~Saved(m) BY <2>1 DEF Sound, About
  <2>. QED BY <2>2, <1>3, <1>4 DEF Apart, Sending
<1>9. asked' \in 0..MaxRequests BY DEF ListUnreadCounts, MessagesInvariant, MessageTypes
<1>10. UNCHANGED <<messages, later, linked, inbox, panel, view, left, unread, hist>> BY DEF ListUnreadCounts
<1>. QED BY <1>1, <1>4, <1>5, <1>7, <1>8, <1>9, <1>10, OnlyRequests

RequestKinds == {"send", "edit", "delete", "read", "history", "count"}

LEMMA RequestIs ==
  ASSUME MessageTypes, NEW u \in Users, NEW kind \in RequestKinds, NEW ms, ms \subseteq Msgs, NEW t \in Texts \cup {0}
  PROVE  LET r == Request(u, kind, ms, t)
         IN  /\ r \in Requests /\ r.kind = kind /\ r.user = u /\ r.about = ms /\ r.text = t
             /\ r.met = linked /\ r.step \in {"find", "count", "friends"} /\ r.got = Empty
<1>1. Empty \in [Msgs -> Rows] BY DEF Empty, NoRow, Rows
<1>2. (CASE kind \in {"edit", "delete"} -> "find"
         [] kind = "count" -> "count"
         [] OTHER -> "friends") \in {"find", "count", "friends"}
  BY DEF RequestKinds
<1>3. linked \subseteq Checks BY DEF MessageTypes
<1>. QED BY <1>1, <1>2, <1>3 DEF Request, Requests, RequestKinds

\* A new request, whose messages no request that sends is about.
LEMMA NewRequest ==
  ASSUME MessagesInvariant, NEW u \in Users, NEW kind \in RequestKinds, NEW ms, ms \subseteq Msgs, NEW t \in Texts \cup {0},
         kind \in {"send", "edit", "delete"} => \E m \in Msgs : ms = {m},
         kind \in {"send", "edit"} => t \in Texts,
         \A m \in ms : Saved(m) <=> kind # "send",
         kind = "send" => \A o \in Busy : ms \cap ops[o].about = {},
         AskFor(u, kind, ms, t)
  PROVE  MessagesInvariant'
<1> DEFINE r == Request(u, kind, ms, t)
           q == CHOOSE p \in Free : TRUE
<1>1. q \in Free /\ q \in Ops /\ ops' = [ops EXCEPT ![q] = r]
  BY DEF AskFor, Started, Free
<1>2. /\ r \in Requests /\ r.kind = kind /\ r.about = ms /\ r.text = t
      /\ r.met = linked /\ r.step \in {"find", "count", "friends"} /\ r.got = Empty
  BY RequestIs DEF MessagesInvariant
<1>3. UNCHANGED <<messages, later, linked, inbox, panel, view, left, unread, hist>> BY DEF AskFor
<1>4. asked' \in 0..MaxRequests
  BY DirectMessagesAssumption DEF AskFor, Ask, MessagesInvariant, MessageTypes
<1> HIDE DEF r, q
<1>5. \A m \in Msgs : Empty[m].text = 0 BY DEF Empty, NoRow
<1>6. Sound(r)
  <2>1. Allowed(r) BY <1>2 DEF Allowed
  <2>2. About(r) BY <1>2, <1>5 DEF About, Sending
  <2>3. Unannounced(r) BY <1>2 DEF Unannounced
  <2>. QED BY <2>1, <2>2, <2>3 DEF Sound
<1>7. ASSUME NEW p \in Busy PROVE Apart(r, ops[p]) /\ Apart(ops[p], r)
  <2>1. Sound(ops[p]) BY DEF MessagesInvariant, RequestsSound
  <2>2. Sending(ops[p]) => \A m \in ops[p].about : ~Saved(m) BY <2>1 DEF Sound, About
  <2>3. Sending(ops[p]) => ops[p].about \cap ms = {}
    <3>1. CASE kind = "send" BY <3>1
    <3>2. CASE kind # "send" BY <2>2, <3>2
    <3>. QED BY <3>1, <3>2
  <2>4. Sending(r) => ms \cap ops[p].about = {} BY <1>2 DEF Sending
  <2>. QED BY <1>2, <2>3, <2>4 DEF Apart
<1>. QED BY <1>1, <1>2, <1>3, <1>4, <1>6, <1>7, OnlyRequests

LEMMA Sends == ASSUME MessagesInvariant, NEW u \in Users, Send(u) PROVE MessagesInvariant'
<1>1. PICK m \in Mine(u) : /\ ~Saved(m) /\ \A o \in Busy : m \notin ops[o].about
                           /\ AskFor(u, "send", {m}, 1)
  BY DEF Send
<1>2. m \in Msgs BY DEF Mine
<1>3. 1 \in Texts BY DirectMessagesAssumption
<1>4. \A o \in Busy : {m} \cap ops[o].about = {} BY <1>1
<1>. QED BY <1>1, <1>2, <1>3, <1>4, NewRequest DEF RequestKinds

LEMMA OfferedSaved ==
  ASSUME MessagesInvariant, NEW u \in Users, NEW m \in Msgs, Offered(u, m) PROVE Saved(m)
<1>1. \A e \in left[u][m] \cup {view[u][m]} : e.text # 0 => Saved(m)
  BY DEF MessagesInvariant, OnlySent, LeftElements
<1>. QED BY <1>1 DEF Offered

LEMMA AsksToEdit ==
  ASSUME MessagesInvariant, NEW u \in Users, NEW m \in Msgs, NEW t \in Texts, Edit(u, m, t) PROVE MessagesInvariant'
<1>1. Saved(m) /\ AskFor(u, "edit", {m}, t) BY OfferedSaved DEF Edit
<1>. QED BY <1>1, NewRequest DEF RequestKinds

LEMMA AsksToDelete ==
  ASSUME MessagesInvariant, NEW u \in Users, NEW m \in Msgs, Delete(u, m) PROVE MessagesInvariant'
<1>1. Saved(m) /\ AskFor(u, "delete", {m}, 0) BY OfferedSaved DEF Delete
<1>. QED BY <1>1, NewRequest DEF RequestKinds

LEMMA AsksForMessages ==
  ASSUME MessagesInvariant, NEW u \in Users, OpenConversation(u) \/ RefreshFriends(u) PROVE MessagesInvariant'
<1>1. PICK kind \in {"history", "count"} : AskFor(u, kind, {}, 0) BY DEF OpenConversation, RefreshFriends
<1>. QED BY <1>1, NewRequest DEF RequestKinds

LEMMA Hides == ASSUME MessagesInvariant, NEW u \in Users, Hide(u) PROVE MessagesInvariant'
<1>1. RequestsSound'
  BY DEF Hide, MessagesInvariant, RequestsSound, Sound, Allowed, About, Unannounced, Apart, Sending, Busy, Saved
<1>2. MessageTypes' BY DirectMessagesAssumption DEF Hide, Ask, MessagesInvariant, MessageTypes
<1>3. RowsMarked' /\ OnlySent' BY DEF Hide, MessagesInvariant, RowsMarked, OnlySent, LeftElements, Saved
<1>. QED BY <1>1, <1>2, <1>3 DEF MessagesInvariant

\* Only what the requests have met changes.
LEMMA Relinks == ASSUME MessagesInvariant, NEW c \in Checks, Relink(c) PROVE MessagesInvariant'
<1>0. linked' \subseteq Checks BY DEF Relink, MessagesInvariant, MessageTypes
<1>1. \A o \in Ops \ Busy : ops'[o] = NoOp BY DEF Relink
<1>2. ASSUME NEW o \in Busy
      PROVE  LET q == ops'[o] IN
               /\ q \in Requests /\ q.step = ops[o].step /\ q.kind = ops[o].kind /\ q.user = ops[o].user
               /\ q.about = ops[o].about /\ q.text = ops[o].text /\ q.met = ops[o].met \cup linked'
               /\ q.got = ops[o].got
  <2>1. o \in Ops /\ ops[o] \in Requests BY OpIs DEF MessagesInvariant
  <2>2. ops'[o] = [ops[o] EXCEPT !.met = @ \cup linked'] BY <2>1 DEF Relink
  <2>. QED BY <1>0, <2>1, <2>2, SetMet
<1>3. ops' \in [Ops -> Requests \cup {NoOp}]
  <2>1. \A o \in Ops : ops'[o] \in Requests \cup {NoOp} BY <1>1, <1>2
  <2>2. ops' = [o \in Ops |-> ops'[o]] BY DEF Relink
  <2>. QED BY <2>1, <2>2
<1>4. Busy' \subseteq Busy BY <1>1 DEF Busy
<1>5. MessageTypes'
  <2>1. UNCHANGED <<messages, later, inbox, panel, view, left, unread, hist>> BY DEF Relink
  <2>2. asked' \in 0..MaxRequests
    BY DirectMessagesAssumption DEF Relink, Ask, MessagesInvariant, MessageTypes
  <2>. QED BY <1>0, <1>3, <2>1, <2>2 DEF MessagesInvariant, MessageTypes
<1>6. RowsMarked' /\ OnlySent' BY DEF Relink, MessagesInvariant, RowsMarked, OnlySent, LeftElements, Saved
<1>7. ASSUME NEW o \in Busy' PROVE Sound(ops[o])'
  <2>1. o \in Busy /\ Sound(ops[o]) BY <1>4 DEF MessagesInvariant, RequestsSound
  <2>2. ops[o].met \subseteq Checks BY <2>1, OpIs, RequestFields DEF MessagesInvariant
  <2>3. UNCHANGED <<messages, hist>> BY DEF Relink
  <2>4. Allowed(ops[o])' BY <1>0, <1>2, <2>1, <2>2 DEF Sound, Allowed
  <2>5. About(ops[o])' BY <1>2, <2>1, <2>3 DEF Sound, About, Sending, Saved
  <2>6. Unannounced(ops[o])' BY <1>2, <2>1, <2>3 DEF Sound, Unannounced
  <2>. QED BY <2>4, <2>5, <2>6 DEF Sound
<1>8. ASSUME NEW o \in Busy', NEW p \in Busy', o # p PROVE Apart(ops[o], ops[p])'
  <2>1. o \in Busy /\ p \in Busy /\ Apart(ops[o], ops[p]) BY <1>4, <1>8 DEF MessagesInvariant, RequestsSound
  <2>. QED BY <1>2, <2>1 DEF Apart, Sending
<1>. QED BY <1>5, <1>6, <1>7, <1>8 DEF MessagesInvariant, RequestsSound

LEMMA EventsAre ==
  ASSUME MessageTypes, NEW u \in Users, NEW i \in DOMAIN inbox[u]
  PROVE  inbox[u][i] \in Events /\ inbox[u][i].about \subseteq Msgs
<1>1. inbox[u][i] \in Events BY DEF MessageTypes
<1>. QED BY <1>1 DEF Events

\* What stays true of a request when messages are only sent, edited and marked.
LEMMA SoundAfterWrite ==
  ASSUME NEW r, Sound(r), UNCHANGED <<linked, hist>>,
         \A m \in Msgs : Saved(m) => Saved(m)',
         \A m \in Msgs : /\ messages[m].deleted => messages'[m].deleted
                         /\ messages[m].read => messages'[m].read,
         r.about \subseteq Msgs,
         Sending(r) => \A m \in r.about : ~Saved(m)'
  PROVE  Sound(r)'
<1>1. Allowed(r)' BY DEF Sound, Allowed
<1>2. About(r)'
  <2>1. ASSUME NEW m \in r.about PROVE Saved(m)' <=> ~Sending(r)
    <3>1. Saved(m) <=> ~Sending(r) BY DEF Sound, About
    <3>. QED BY <3>1
  <2>2. \A m \in r.about : Saved(m)' <=> ~Sending(r)' BY <2>1 DEF Sending
  <2>3. \A m \in Msgs : r.got[m].text # 0 => Saved(m)' BY DEF Sound, About
  <2>. QED BY <2>2, <2>3 DEF Sound, About
<1>3. Unannounced(r)' BY DEF Sound, Unannounced
<1>. QED BY <1>1, <1>2, <1>3 DEF Sound

\* A statement writes the row its request is about, which is announced next.
LEMMA WritesRow ==
  ASSUME MessagesInvariant, NEW o \in Busy, NEW m \in Msgs, ops[o].about = {m},
         ops[o].kind \in {"send", "edit", "delete"}, ops[o].step = "write",
         NEW written \in Rows, written.text # 0,
         messages[m].deleted => written.deleted, messages[m].read => written.read,
         ops[o].kind = "send" => (written.deleted = FALSE /\ written.read = FALSE),
         ops[o].kind = "edit" => (written.deleted = messages[m].deleted /\ written.read = messages[m].read),
         ops[o].kind = "delete" => (written.deleted /\ ~messages[m].deleted /\ written.read = messages[m].read),
         messages' = [messages EXCEPT ![m] = written],
         Goto(o, "publish"), later' \in [Msgs -> SUBSET Msgs],
         UNCHANGED <<linked, inbox, panel, view, left, unread, asked, hist>>
  PROVE  MessagesInvariant'
<1> DEFINE r == [ops[o] EXCEPT !.step = "publish"]
<1>1. o \in Ops /\ ops[o] \in Requests BY OpIs DEF MessagesInvariant
<1>r. r = [ops[o] EXCEPT !.step = "publish"] OBVIOUS
<1>3. ops' = [ops EXCEPT ![o] = r] BY DEF Goto
<1> HIDE DEF r
<1>2. /\ r \in Requests /\ r.step = "publish" /\ r.kind = ops[o].kind /\ r.about = {m}
      /\ r.text = ops[o].text /\ r.met = ops[o].met /\ r.got = ops[o].got
  BY <1>1, <1>r, SetStep
<1>4. \A p \in Ops : ops'[p] = IF p = o THEN r ELSE ops[p] BY <1>3 DEF MessagesInvariant, MessageTypes
<1>5. messages' \in [Msgs -> Rows] /\ \A n \in Msgs : messages'[n] = IF n = m THEN written ELSE messages[n]
  BY DEF MessagesInvariant, MessageTypes
<1>6. \A n \in Msgs : Saved(n)' <=> (n = m \/ Saved(n)) BY <1>5 DEF Saved
<1>7. Sound(ops[o]) BY DEF MessagesInvariant, RequestsSound
<1>8. MessageTypes'
  <2>1. ops' \in [Ops -> Requests \cup {NoOp}] BY <1>2, <1>3 DEF MessagesInvariant, MessageTypes
  <2>. QED BY <1>5, <2>1 DEF MessagesInvariant, MessageTypes
<1>9. RowsMarked'
  <2>1. ASSUME NEW n \in Msgs
        PROVE  /\ messages'[n].text = 0 => messages'[n] = NoRow
               /\ hist.deleted[n] <= 1 /\ hist.read[n] <= 1
               /\ ~messages'[n].deleted => hist.deleted[n] = 0
               /\ ~messages'[n].read => hist.read[n] = 0
    BY <1>5 DEF MessagesInvariant, RowsMarked
  <2>. QED BY <2>1 DEF RowsMarked
<1>10. OnlySent'
  <2>1. \A u \in Users : \A n \in Msgs : view'[u][n].text # 0 => Saved(n)'
    BY <1>6 DEF MessagesInvariant, OnlySent
  <2>2. ASSUME NEW u \in Users, NEW i \in DOMAIN inbox[u], NEW n \in inbox[u][i].about PROVE Saved(n)'
    <3>1. n \in Msgs BY EventsAre DEF MessagesInvariant
    <3>2. Saved(n) BY DEF MessagesInvariant, OnlySent
    <3>. QED BY <1>6, <3>1, <3>2
  <2>3. inbox' = inbox OBVIOUS
  <2>4. \A u \in Users : \A i \in DOMAIN inbox[u] :
          inbox[u][i].type = "send" => \E n \in Msgs : inbox[u][i].about = {n}
    BY DEF MessagesInvariant, OnlySent
  <2>5. LeftElements(left)' BY <1>6 DEF MessagesInvariant, OnlySent, LeftElements
  <2>. QED BY <2>1, <2>2, <2>3, <2>4, <2>5 DEF OnlySent
<1>11. Sending(r) = FALSE BY <1>2 DEF Sending
<1>12. ops[o].kind = "send" => ~Saved(m) BY <1>7 DEF Sound, About, Sending
<1>13. ASSUME NEW p \in Busy' PROVE Sound(ops[p])'
  <2>1. p \in Ops /\ (p # o => p \in Busy) BY <1>4, <1>13 DEF Busy
  <2>2. \A n \in Msgs : /\ Saved(n) => Saved(n)'
                        /\ messages[n].deleted => messages'[n].deleted
                        /\ messages[n].read => messages'[n].read
    BY <1>5, <1>6
  <2>3. CASE p # o
    <3>1. Sound(ops[p]) /\ Apart(ops[p], ops[o]) /\ ops[p] \in Requests
      BY <2>1, <2>3, OpIs DEF MessagesInvariant, RequestsSound
    <3>2. ops[p].about \subseteq Msgs BY <3>1, RequestFields
    <3>3. Sending(ops[p]) => \A n \in ops[p].about : ~Saved(n)'
      BY <1>6, <3>1, <3>2 DEF Apart, Sound, About
    <3>4. \A q : q = ops[p] => Sound(q)'
      BY <2>2, <3>1, <3>2, <3>3, SoundAfterWrite
    <3>5. ops'[p] = ops[p] BY <1>4, <2>1, <2>3
    <3>6. PICK q : q = ops[p] OBVIOUS
    <3>7. Sound(q)' BY <3>4, <3>6
    <3>. QED BY <3>5, <3>6, <3>7 DEF Sound, Allowed, About, Unannounced, Sending
  <2>4. CASE p = o
    <3>1. ops'[p] = r BY <1>4, <2>1, <2>4
    <3>2. Allowed(ops[p])' BY <1>2, <1>7, <3>1 DEF Sound, Allowed
    <3>3. About(ops[p])'
      <4>1. \A n \in Msgs : ops[o].got[n].text # 0 => Saved(n)' BY <1>7, <2>2 DEF Sound, About
      <4>2. Saved(m)' BY <1>6
      <4>3. ops[o].kind \in {"send", "edit"} => ops[o].text \in Texts BY <1>7 DEF Sound, About
      <4>. QED BY <1>2, <1>11, <3>1, <4>1, <4>2, <4>3 DEF About, Sending
    <3>4. Unannounced(ops[p])'
      <4>1. ops[o].kind = "delete" => (messages'[m].deleted /\ hist.deleted[m] = 0)
        BY <1>5 DEF MessagesInvariant, RowsMarked
      <4>2. ops[o].kind # "read" OBVIOUS
      <4>. QED BY <1>2, <3>1, <4>1, <4>2 DEF Unannounced
    <3>. QED BY <3>2, <3>3, <3>4 DEF Sound
  <2>. QED BY <2>3, <2>4
<1>14. ASSUME NEW p \in Busy' \ {o}
       PROVE  Apart(r, ops[p]) /\ Apart(ops[p], r) /\ p \in Busy /\ ops'[p] = ops[p]
  <2>1. p \in Busy /\ ops'[p] = ops[p] BY <1>4, <1>14 DEF Busy
  <2>2. Apart(ops[o], ops[p]) /\ Apart(ops[p], ops[o]) /\ Sound(ops[p])
    BY <1>14, <2>1 DEF MessagesInvariant, RequestsSound
  <2>3. Sending(ops[p]) => ops[p].about \cap {m} = {} BY <2>2 DEF Apart
  <2>4. (ops[p].step = "publish" /\ ops[p].kind = "delete" /\ ops[o].kind = "delete") => m \notin ops[p].about
    BY <2>2 DEF Sound, Unannounced
  <2>. QED BY <1>2, <1>11, <2>1, <2>3, <2>4 DEF Apart
<1>15. ASSUME NEW p \in Busy', NEW q \in Busy', p # q PROVE Apart(ops[p], ops[q])'
  <2>1. p \in Ops /\ q \in Ops BY DEF Busy
  <2>2. CASE p = o BY <1>4, <1>14, <1>15, <2>1, <2>2 DEF Apart, Sending
  <2>3. CASE q = o BY <1>4, <1>14, <1>15, <2>1, <2>3 DEF Apart, Sending
  <2>4. CASE p # o /\ q # o
    <3>1. Apart(ops[p], ops[q]) BY <1>14, <1>15, <2>4 DEF MessagesInvariant, RequestsSound
    <3>. QED BY <1>14, <2>4, <3>1 DEF Apart, Sending
  <2>. QED BY <2>2, <2>3, <2>4
<1>. QED BY <1>8, <1>9, <1>10, <1>13, <1>15 DEF MessagesInvariant, RequestsSound

LEMMA MsgIs ==
  ASSUME MessagesInvariant, NEW o \in Busy, ops[o].kind \in {"send", "edit", "delete"}
  PROVE  Msg(o) \in Msgs /\ ops[o].about = {Msg(o)}
<1>1. PICK m \in Msgs : ops[o].about = {m}
  BY DEF MessagesInvariant, RequestsSound, Sound, About
<1>2. Msg(o) = m BY <1>1 DEF Msg
<1>. QED BY <1>1, <1>2

LEMMA SavesMessage == ASSUME MessagesInvariant, NEW o \in Ops, Save(o) PROVE MessagesInvariant'
<1> DEFINE m == Msg(o)
           written == [NoRow EXCEPT !.text = 1]
<1>1. o \in Busy /\ ops[o].kind = "send" /\ ops[o].step = "write" BY DEF Save, At
<1>2. m \in Msgs /\ ops[o].about = {m} BY <1>1, MsgIs
<1>3. written \in Rows /\ written.text # 0 /\ written.deleted = FALSE /\ written.read = FALSE
  BY DirectMessagesAssumption DEF NoRow, Rows
<1>4. ~Saved(m)
  BY <1>1, <1>2 DEF MessagesInvariant, RequestsSound, Sound, About, Sending
<1>5. messages[m] = NoRow BY <1>2, <1>4 DEF MessagesInvariant, RowsMarked, Saved
<1>6. ~messages[m].deleted /\ ~messages[m].read BY <1>5 DEF NoRow
<1>7. Written(o, written) BY DEF Save
<1> HIDE DEF m, written
<1>8. messages' = [messages EXCEPT ![m] = written] /\ Goto(o, "publish")
      /\ UNCHANGED <<linked, inbox, panel, view, left, unread, asked, hist>>
  BY <1>7 DEF Written, m
<1>9. later' \in [Msgs -> SUBSET Msgs]
  BY <1>2 DEF Save, MessagesInvariant, MessageTypes
<1>. QED BY <1>1, <1>2, <1>3, <1>6, <1>8, <1>9, WritesRow

LEMMA EditsMessage == ASSUME MessagesInvariant, NEW o \in Ops, EditMessage(o) PROVE MessagesInvariant'
<1> DEFINE m == Msg(o)
           written == [messages[m] EXCEPT !.text = ops[o].text]
<1>1. o \in Busy /\ ops[o].kind = "edit" /\ ops[o].step = "write" BY DEF EditMessage, At
<1>2. m \in Msgs /\ ops[o].about = {m} BY <1>1, MsgIs
<1>3. ops[o].text \in Texts /\ messages[m] \in Rows
  BY <1>1, <1>2 DEF MessagesInvariant, MessageTypes, RequestsSound, Sound, About
<1>4. /\ written \in Rows /\ written.text # 0
      /\ written.deleted = messages[m].deleted /\ written.read = messages[m].read
  BY <1>3, DirectMessagesAssumption DEF Rows
<1>5. Written(o, written) BY DEF EditMessage
<1> HIDE DEF m, written
<1>6. messages' = [messages EXCEPT ![m] = written] /\ Goto(o, "publish")
      /\ UNCHANGED <<linked, inbox, panel, view, left, unread, asked, hist>>
  BY <1>5 DEF Written, m
<1>7. later' \in [Msgs -> SUBSET Msgs] BY DEF EditMessage, MessagesInvariant, MessageTypes
<1>. QED BY <1>1, <1>2, <1>4, <1>6, <1>7, WritesRow

LEMMA DeletesMessage == ASSUME MessagesInvariant, NEW o \in Ops, DeleteMessage(o) PROVE MessagesInvariant'
<1> DEFINE m == Msg(o)
           written == [messages[m] EXCEPT !.deleted = TRUE]
<1>1. o \in Busy /\ ops[o].kind = "delete" /\ ops[o].step = "write" BY DEF DeleteMessage, At
<1>2. m \in Msgs /\ ops[o].about = {m} BY <1>1, MsgIs
<1>3. Saved(m) /\ messages[m] \in Rows /\ ~messages[m].deleted
  BY <1>1, <1>2 DEF MessagesInvariant, MessageTypes, RequestsSound, Sound, About, Sending, DeleteMessage, NotDeleted
<1>4. /\ written \in Rows /\ written.text # 0
      /\ written.deleted = TRUE /\ written.read = messages[m].read
  BY <1>3 DEF Rows, Saved
<1>5. Written(o, written) BY DEF DeleteMessage
<1> HIDE DEF m, written
<1>6. messages' = [messages EXCEPT ![m] = written] /\ Goto(o, "publish")
      /\ UNCHANGED <<linked, inbox, panel, view, left, unread, asked, hist>>
  BY <1>5 DEF Written, m
<1>7. later' \in [Msgs -> SUBSET Msgs] BY DEF DeleteMessage, MessagesInvariant, MessageTypes
<1>. QED BY <1>1, <1>2, <1>3, <1>4, <1>6, <1>7, WritesRow

LEMMA MarksRead == ASSUME MessagesInvariant, NEW o \in Ops, MarkConversationRead(o) PROVE MessagesInvariant'
<1> DEFINE ids == Unread(ops[o].user)
           r == [ops[o] EXCEPT !.step = "publish", !.about = ids]
<1>1. o \in Busy /\ ops[o].kind = "read" /\ ops[o].step = "write" BY DEF MarkConversationRead, At
<1>2. /\ ids \subseteq Msgs
      /\ \A m \in ids : Saved(m) /\ ~messages[m].read /\ ~messages[m].deleted
  BY UnreadSaved
<1>3. UNCHANGED <<later, linked, inbox, panel, view, left, unread, asked, hist>> BY DEF MarkConversationRead
<1>4. messages' = [m \in Msgs |-> IF m \in ids THEN [messages[m] EXCEPT !.read = TRUE] ELSE messages[m]]
  BY DEF MarkConversationRead
<1>5. \A m \in Msgs : /\ messages'[m] \in Rows /\ messages'[m].text = messages[m].text
                      /\ messages'[m].deleted = messages[m].deleted
                      /\ messages'[m].read = (m \in ids \/ messages[m].read)
  <2> SUFFICES ASSUME NEW m \in Msgs
               PROVE  /\ messages'[m] \in Rows /\ messages'[m].text = messages[m].text
                      /\ messages'[m].deleted = messages[m].deleted
                      /\ messages'[m].read = (m \in ids \/ messages[m].read)
    OBVIOUS
  <2>1. messages[m] \in Rows BY DEF MessagesInvariant, MessageTypes
  <2> HIDE DEF ids
  <2>2. CASE m \in ids
    <3>1. messages'[m] = [messages[m] EXCEPT !.read = TRUE] BY <1>4, <2>2
    <3>. QED BY <2>1, <2>2, <3>1 DEF Rows
  <2>3. CASE m \notin ids
    <3>1. messages'[m] = messages[m] BY <1>4, <2>3
    <3>. QED BY <2>1, <2>3, <3>1 DEF Rows
  <2>. QED BY <2>2, <2>3
<1>6. messages' \in [Msgs -> Rows] BY <1>4, <1>5
<1>7. \A m \in Msgs : m \notin ids => messages'[m] = messages[m] BY <1>4
<1>8. \A m \in Msgs : Saved(m)' <=> Saved(m) BY <1>5 DEF Saved
<1>9. o \in Ops /\ ops[o] \in Requests /\ Sound(ops[o]) BY <1>1, OpIs DEF MessagesInvariant, RequestsSound
<1>10. /\ r \in Requests /\ r.step = "publish" /\ r.kind = "read" /\ r.about = ids
       /\ r.text = ops[o].text /\ r.met = ops[o].met /\ r.got = ops[o].got
  BY <1>1, <1>2, <1>9 DEF Requests
<1>11. ops' = IF ids = {} THEN [ops EXCEPT ![o] = NoOp] ELSE [ops EXCEPT ![o] = r]
  BY <1>9 DEF MarkConversationRead, End, MessagesInvariant, MessageTypes
<1> HIDE DEF ids, r
<1>12. \A p \in Ops : p # o => ops'[p] = ops[p] BY <1>11 DEF MessagesInvariant, MessageTypes
<1>13. ids = {} => ops'[o] = NoOp BY <1>9, <1>11 DEF MessagesInvariant, MessageTypes
<1>14. ids # {} => ops'[o] = r BY <1>9, <1>11 DEF MessagesInvariant, MessageTypes
<1>15. MessageTypes'
  <2>1. ops' \in [Ops -> Requests \cup {NoOp}] BY <1>10, <1>11 DEF MessagesInvariant, MessageTypes
  <2>. QED BY <1>3, <1>6, <2>1 DEF MessagesInvariant, MessageTypes
<1>16. RowsMarked'
  <2>1. ASSUME NEW n \in Msgs
        PROVE  /\ messages'[n].text = 0 => messages'[n] = NoRow
               /\ hist.deleted[n] <= 1 /\ hist.read[n] <= 1
               /\ ~messages'[n].deleted => hist.deleted[n] = 0
               /\ ~messages'[n].read => hist.read[n] = 0
    BY <1>2, <1>5, <1>7 DEF MessagesInvariant, RowsMarked, Saved
  <2>. QED BY <1>3, <2>1 DEF RowsMarked
<1>17. OnlySent'
  <2>1. \A u \in Users : \A n \in Msgs : view'[u][n].text # 0 => Saved(n)'
    BY <1>3, <1>8 DEF MessagesInvariant, OnlySent
  <2>2. ASSUME NEW u \in Users, NEW i \in DOMAIN inbox[u], NEW n \in inbox[u][i].about PROVE Saved(n)'
    <3>1. n \in Msgs BY EventsAre DEF MessagesInvariant
    <3>2. Saved(n) BY DEF MessagesInvariant, OnlySent
    <3>. QED BY <1>8, <3>1, <3>2
  <2>3. inbox' = inbox BY <1>3
  <2>4. \A u \in Users : \A i \in DOMAIN inbox[u] :
          inbox[u][i].type = "send" => \E n \in Msgs : inbox[u][i].about = {n}
    BY DEF MessagesInvariant, OnlySent
  <2>5. LeftElements(left)' BY <1>3, <1>8 DEF MessagesInvariant, OnlySent, LeftElements
  <2>. QED BY <2>1, <2>2, <2>3, <2>4, <2>5 DEF OnlySent
<1>18. ASSUME NEW p \in Busy' PROVE Sound(ops[p])'
  <2>1. p \in Ops /\ (p # o => p \in Busy) BY <1>12, <1>18 DEF Busy
  <2>2. CASE p # o
    <3>1. Sound(ops[p]) /\ ops[p] \in Requests /\ ops'[p] = ops[p]
      BY <1>12, <2>1, <2>2, OpIs DEF MessagesInvariant, RequestsSound
    <3>2. ops[p].about \subseteq Msgs BY <3>1, RequestFields
    <3>3. Sending(ops[p]) => \A n \in ops[p].about : ~Saved(n)'
      BY <1>8, <3>1, <3>2 DEF Sound, About
    <3>4. \A q : q = ops[p] => Sound(q)'
      BY <1>3, <1>5, <1>8, <3>1, <3>2, <3>3, SoundAfterWrite
    <3>5. PICK q : q = ops[p] OBVIOUS
    <3>6. Sound(q)' BY <3>4, <3>5
    <3>. QED BY <3>1, <3>5, <3>6 DEF Sound, Allowed, About, Unannounced, Sending
  <2>3. CASE p = o
    <3>1. ops'[p] = r BY <1>13, <1>14, <1>18, <2>3 DEF Busy
    <3>2. Allowed(ops[p])' BY <1>1, <1>3, <1>9, <1>10, <3>1 DEF Sound, Allowed
    <3>3. About(ops[p])'
      <4>1. \A n \in Msgs : ops[o].got[n].text # 0 => Saved(n)' BY <1>8, <1>9 DEF Sound, About
      <4>2. \A n \in ids : Saved(n)' BY <1>2, <1>8
      <4>. QED BY <1>10, <3>1, <4>1, <4>2 DEF About, Sending
    <3>4. Unannounced(ops[p])'
      <4>1. \A n \in ids : messages'[n].read /\ hist'.read[n] = 0
        BY <1>2, <1>3, <1>5 DEF MessagesInvariant, RowsMarked
      <4>. QED BY <1>10, <3>1, <4>1 DEF Unannounced
    <3>. QED BY <3>2, <3>3, <3>4 DEF Sound
  <2>. QED BY <2>2, <2>3
<1>19. ASSUME NEW p \in Busy', p # o
       PROVE  Apart(r, ops[p]) /\ Apart(ops[p], r) /\ p \in Busy /\ ops'[p] = ops[p]
  <2>1. p \in Busy /\ ops'[p] = ops[p] BY <1>12, <1>19 DEF Busy
  <2>2. Sound(ops[p]) BY <2>1 DEF MessagesInvariant, RequestsSound
  <2>3. Sending(ops[p]) => ops[p].about \cap ids = {} BY <1>2, <2>2 DEF Sound, About
  <2>4. (ops[p].step = "publish" /\ ops[p].kind = "read") => ops[p].about \cap ids = {}
    BY <1>2, <2>2 DEF Sound, Unannounced
  <2>. QED BY <1>10, <2>1, <2>3, <2>4 DEF Apart, Sending
<1>20. ASSUME NEW p \in Busy', NEW q \in Busy', p # q PROVE Apart(ops[p], ops[q])'
  <2>1. p \in Ops /\ q \in Ops /\ (o \in Busy' => ops'[o] = r) BY <1>13, <1>14 DEF Busy
  <2>2. CASE p = o BY <1>19, <1>20, <2>1, <2>2 DEF Apart, Sending
  <2>3. CASE q = o BY <1>19, <1>20, <2>1, <2>3 DEF Apart, Sending
  <2>4. CASE p # o /\ q # o
    <3>1. Apart(ops[p], ops[q]) /\ ops'[p] = ops[p] /\ ops'[q] = ops[q]
      BY <1>19, <1>20, <2>4 DEF MessagesInvariant, RequestsSound
    <3>. QED BY <3>1 DEF Apart, Sending
  <2>. QED BY <2>2, <2>3, <2>4
<1>. QED BY <1>15, <1>16, <1>17, <1>18, <1>20 DEF MessagesInvariant, RequestsSound

LEMMA CountedIs ==
  ASSUME NEW f \in Counts, NEW ms
  PROVE  Counted(f, ms) \in Counts /\ \A m \in Msgs : Counted(f, ms)[m] = IF m \in ms THEN f[m] + 1 ELSE f[m]
  BY DEF Counted, Counts

LEMMA Publishes == ASSUME MessagesInvariant, NEW o \in Ops, Publish(o) PROVE MessagesInvariant'
<1> DEFINE e == [type |-> ops[o].kind, by |-> ops[o].user, about |-> ops[o].about, text |-> ops[o].text]
<1>1. o \in Busy /\ ops[o].step = "publish" BY DEF Publish
<1>2. ops[o] \in Requests /\ Sound(ops[o]) BY <1>1, OpIs DEF MessagesInvariant, RequestsSound
<1>3. UNCHANGED <<messages, later, linked, panel, view, left, unread, asked>> BY DEF Publish
<1>4. ops' = [ops EXCEPT ![o] = NoOp] BY DEF Publish, End
<1>5. e \in Events /\ e.about = ops[o].about
  BY <1>1, <1>2, RequestFields DEF Events, Sound, About
<1>6. inbox' = [u \in Users |-> Append(inbox[u], e)] BY DEF Publish, Announce
<1>7. /\ hist'.early = hist.early
      /\ hist'.deleted = IF ops[o].kind = "delete" THEN Counted(hist.deleted, ops[o].about) ELSE hist.deleted
      /\ hist'.read = IF ops[o].kind = "read" THEN Counted(hist.read, ops[o].about) ELSE hist.read
      /\ hist' = [raced |-> hist'.raced, opened |-> hist'.opened, doubt |-> hist'.doubt,
                  crossed |-> hist'.crossed, early |-> hist'.early,
                  deleted |-> hist'.deleted, read |-> hist'.read]
  <2>1. hist = [raced |-> hist.raced, opened |-> hist.opened, doubt |-> hist.doubt,
                crossed |-> hist.crossed, early |-> hist.early, deleted |-> hist.deleted, read |-> hist.read]
    BY DEF MessagesInvariant, MessageTypes
  <2>2. PICK c, d, f :
          /\ hist' = [hist EXCEPT !.crossed = c, !.deleted = d, !.read = f]
          /\ d = IF ops[o].kind = "delete" THEN Counted(hist.deleted, ops[o].about) ELSE hist.deleted
          /\ f = IF ops[o].kind = "read" THEN Counted(hist.read, ops[o].about) ELSE hist.read
    BY DEF Publish
  <2>3. hist' = [raced |-> hist.raced, opened |-> hist.opened, doubt |-> hist.doubt,
                 crossed |-> c, early |-> hist.early, deleted |-> d, read |-> f]
    BY <2>1, <2>2
  <2>. QED BY <2>2, <2>3
<1>8. hist.deleted \in Counts /\ hist.read \in Counts BY DEF MessagesInvariant, MessageTypes
<1>9. hist'.deleted \in Counts /\ hist'.read \in Counts BY <1>7, <1>8, CountedIs
<1>10. \A m \in Msgs : m \notin ops[o].about => (hist'.deleted[m] = hist.deleted[m] /\ hist'.read[m] = hist.read[m])
  BY <1>7, <1>8, CountedIs
<1>11. \A m \in Msgs :
         /\ hist'.deleted[m] = IF ops[o].kind = "delete" /\ m \in ops[o].about THEN hist.deleted[m] + 1 ELSE hist.deleted[m]
         /\ hist'.read[m] = IF ops[o].kind = "read" /\ m \in ops[o].about THEN hist.read[m] + 1 ELSE hist.read[m]
  BY <1>7, <1>8, CountedIs
<1> HIDE DEF e
<1>12. MessageTypes'
  <2>1. ops' \in [Ops -> Requests \cup {NoOp}] BY <1>4 DEF MessagesInvariant, MessageTypes
  <2>2. \A u \in Users : Append(inbox[u], e) \in Seq(Events)
    BY <1>5 DEF MessagesInvariant, MessageTypes
  <2>3. inbox' \in [Users -> Seq(Events)] BY <1>6, <2>2
  <2>. QED BY <1>3, <1>7, <1>9, <2>1, <2>3 DEF MessagesInvariant, MessageTypes
<1>13. RowsMarked'
  <2>1. ASSUME NEW m \in Msgs
        PROVE  /\ messages[m].text = 0 => messages[m] = NoRow
               /\ hist'.deleted[m] <= 1 /\ hist'.read[m] <= 1
               /\ ~messages[m].deleted => hist'.deleted[m] = 0
               /\ ~messages[m].read => hist'.read[m] = 0
    <3>1. CASE m \in ops[o].about
      BY <1>1, <1>2, <1>11, <3>1 DEF Sound, Unannounced, MessagesInvariant, RowsMarked
    <3>2. CASE m \notin ops[o].about
      BY <1>10, <3>2 DEF MessagesInvariant, RowsMarked
    <3>. QED BY <3>1, <3>2
  <2>. QED BY <1>3, <2>1 DEF RowsMarked
<1>14. OnlySent'
  <2>1. ASSUME NEW u \in Users, NEW i \in DOMAIN inbox'[u], NEW m \in inbox'[u][i].about PROVE Saved(m)
    <3>1. inbox[u] \in Seq(Events) /\ inbox'[u] = Append(inbox[u], e)
      BY <1>6 DEF MessagesInvariant, MessageTypes
    <3>2. CASE i \in DOMAIN inbox[u]
      <4>1. inbox'[u][i] = inbox[u][i] BY <3>1, <3>2
      <4>. QED BY <2>1, <3>2, <4>1 DEF MessagesInvariant, OnlySent
    <3>3. CASE i \notin DOMAIN inbox[u]
      <4>1. inbox'[u][i] = e BY <2>1, <3>1, <3>3
      <4>. QED BY <1>1, <1>2, <1>5, <2>1, <4>1 DEF Sound, About, Sending
    <3>. QED BY <3>2, <3>3
  <2>2. \A u \in Users : \A m \in Msgs : view[u][m].text # 0 => Saved(m) BY DEF MessagesInvariant, OnlySent
  <2>3. ASSUME NEW u \in Users, NEW i \in DOMAIN inbox'[u], inbox'[u][i].type = "send"
        PROVE  \E m \in Msgs : inbox'[u][i].about = {m}
    <3>1. inbox[u] \in Seq(Events) /\ inbox'[u] = Append(inbox[u], e)
      BY <1>6 DEF MessagesInvariant, MessageTypes
    <3>2. CASE i \in DOMAIN inbox[u]
      <4>1. inbox'[u][i] = inbox[u][i] BY <3>1, <3>2
      <4>. QED BY <2>3, <3>2, <4>1 DEF MessagesInvariant, OnlySent
    <3>3. CASE i \notin DOMAIN inbox[u]
      <4>1. inbox'[u][i] = e BY <2>3, <3>1, <3>3
      <4>2. ops[o].kind = "send" BY <2>3, <4>1 DEF e
      <4>. QED BY <1>2, <1>5, <4>1, <4>2 DEF Sound, About
    <3>. QED BY <3>2, <3>3
  <2>4. LeftElements(left)' BY <1>3 DEF MessagesInvariant, OnlySent, LeftElements, Saved
  <2>. QED BY <1>3, <2>1, <2>2, <2>3, <2>4 DEF OnlySent, Saved
<1>15. ASSUME NEW p \in Busy' PROVE p \in Busy /\ p # o /\ ops'[p] = ops[p]
  BY <1>4, <1>15 DEF Busy, MessagesInvariant, MessageTypes
<1>16. ASSUME NEW p \in Busy' PROVE Sound(ops[p])'
  <2>1. p \in Busy /\ p # o /\ ops'[p] = ops[p] BY <1>15
  <2>2. Sound(ops[p]) /\ Apart(ops[o], ops[p]) /\ ops[p] \in Requests
    BY <1>1, <2>1, OpIs DEF MessagesInvariant, RequestsSound
  <2>3. ops[p].about \subseteq Msgs BY <2>2, RequestFields
  <2>4. Allowed(ops[p])' /\ About(ops[p])' BY <1>3, <2>1, <2>2 DEF Sound, Allowed, About, Sending, Saved
  <2>5. Unannounced(ops[p])'
    <3>1. ASSUME NEW m \in ops[p].about
          PROVE  /\ (ops[p].step = "publish" /\ ops[p].kind = "delete") => (messages[m].deleted /\ hist'.deleted[m] = 0)
                 /\ (ops[p].step = "publish" /\ ops[p].kind = "read") => (messages[m].read /\ hist'.read[m] = 0)
      <4>1. CASE m \in ops[o].about
        <5>1. (ops[p].step = "publish" /\ ops[p].kind \in {"delete", "read"}) => ops[p].kind # ops[o].kind
          BY <1>1, <2>2, <4>1 DEF Apart
        <5>. QED BY <1>11, <2>2, <2>3, <5>1 DEF Sound, Unannounced
      <4>2. CASE m \notin ops[o].about BY <1>10, <2>2, <2>3, <4>2 DEF Sound, Unannounced
      <4>. QED BY <4>1, <4>2
    <3>. QED BY <1>3, <2>1, <3>1 DEF Unannounced
  <2>. QED BY <2>4, <2>5 DEF Sound
<1>17. ASSUME NEW p \in Busy', NEW q \in Busy', p # q PROVE Apart(ops[p], ops[q])'
  <2>1. Apart(ops[p], ops[q]) /\ ops'[p] = ops[p] /\ ops'[q] = ops[q]
    BY <1>15, <1>17 DEF MessagesInvariant, RequestsSound
  <2>. QED BY <2>1 DEF Apart, Sending
<1>. QED BY <1>12, <1>13, <1>14, <1>16, <1>17 DEF MessagesInvariant, RequestsSound

SameRequest(q, r) ==
  /\ q.kind = r.kind /\ q.about = r.about /\ q.step = r.step
  /\ q.text = r.text /\ q.met = r.met /\ q.got = r.got

FreshRead(q) ==
  q.kind = "read" /\ q.about = {} /\ q.step = "friends" /\ q.met = linked /\ q.got = Empty

\* What a client does changes what its requests may have missed, and asks for
\* the messages to be marked read.
LEMMA ClientRequests ==
  ASSUME MessagesInvariant, UNCHANGED <<messages, linked>>,
         hist'.deleted = hist.deleted, hist'.read = hist.read,
         \A p \in Ops : \/ ops'[p] = NoOp
                        \/ p \in Busy /\ SameRequest(ops'[p], ops[p])
                        \/ FreshRead(ops'[p])
  PROVE  RequestsSound'
<1>0. \A m \in Msgs : Empty[m].text = 0 BY DEF Empty, NoRow
<1>1. ASSUME NEW p \in Busy' PROVE Sound(ops[p])'
  <2>1. p \in Ops /\ ops'[p] # NoOp BY DEF Busy
  <2>2. CASE FreshRead(ops'[p])
    BY <1>0, <2>2 DEF FreshRead, Sound, Allowed, About, Unannounced, Sending
  <2>3. CASE p \in Busy /\ SameRequest(ops'[p], ops[p])
    <3>1. Sound(ops[p]) BY <2>3 DEF MessagesInvariant, RequestsSound
    <3>2. Allowed(ops[p])' BY <2>3, <3>1 DEF SameRequest, Sound, Allowed
    <3>3. About(ops[p])' BY <2>3, <3>1 DEF SameRequest, Sound, About, Sending, Saved
    <3>4. Unannounced(ops[p])' BY <2>3, <3>1 DEF SameRequest, Sound, Unannounced
    <3>. QED BY <3>2, <3>3, <3>4 DEF Sound
  <2>. QED BY <2>1, <2>2, <2>3
<1>2. ASSUME NEW p \in Busy', NEW q \in Busy', p # q PROVE Apart(ops[p], ops[q])'
  <2>1. p \in Ops /\ ops'[p] # NoOp /\ q \in Ops /\ ops'[q] # NoOp BY DEF Busy
  <2>2. CASE FreshRead(ops'[p]) BY <2>2 DEF FreshRead, Apart, Sending
  <2>3. CASE FreshRead(ops'[q]) BY <2>3 DEF FreshRead, Apart, Sending
  <2>4. CASE p \in Busy /\ q \in Busy /\ SameRequest(ops'[p], ops[p]) /\ SameRequest(ops'[q], ops[q])
    <3>1. Apart(ops[p], ops[q]) BY <1>2, <2>4 DEF MessagesInvariant, RequestsSound
    <3>. QED BY <2>4, <3>1 DEF SameRequest, Apart, Sending
  <2>. QED BY <2>1, <2>2, <2>3, <2>4
<1>. QED BY <1>1, <1>2 DEF RequestsSound

LEMMA MissingIs ==
  ASSUME MessageTypes, NEW u
  PROVE  /\ Missing(ops, u) \in [Ops -> Requests \cup {NoOp}]
         /\ \A p \in Ops : p \notin Busy => Missing(ops, u)[p] = NoOp
         /\ \A p \in Busy : SameRequest(Missing(ops, u)[p], ops[p])
<1>1. ASSUME NEW p \in Ops PROVE Missing(ops, u)[p] \in Requests \cup {NoOp}
  <2>1. CASE p \in Busy
    <3>1. ops[p] \in Requests BY <2>1, OpIs
    <3>2. [ops[p] EXCEPT !.missed = TRUE] \in Requests BY <3>1, SetMissed
    <3>. QED BY <3>1, <3>2 DEF Missing
  <2>2. CASE p \notin Busy BY <2>2 DEF Missing, Busy
  <2>. QED BY <2>1, <2>2
<1>2. Missing(ops, u) \in [Ops -> Requests \cup {NoOp}]
  <2>1. Missing(ops, u) = [p \in Ops |-> Missing(ops, u)[p]] BY DEF Missing
  <2>. QED BY <1>1, <2>1
<1>3. \A p \in Ops : p \notin Busy => Missing(ops, u)[p] = NoOp BY DEF Missing, Busy
<1>4. ASSUME NEW p \in Busy PROVE SameRequest(Missing(ops, u)[p], ops[p])
  <2>1. p \in Ops /\ ops[p] \in Requests BY OpIs
  <2> DEFINE q == [ops[p] EXCEPT !.missed = TRUE]
  <2>2. SameRequest(q, ops[p]) BY <2>1, SetMissed DEF SameRequest
  <2>3. SameRequest(ops[p], ops[p]) BY DEF SameRequest
  <2>4. Missing(ops, u)[p] = q \/ Missing(ops, u)[p] = ops[p] BY <2>1 DEF Missing
  <2>. QED BY <2>2, <2>3, <2>4
<1>. QED BY <1>2, <1>3, <1>4

LEMMA StartedIs ==
  ASSUME MessageTypes, NEW u \in Users, Free # {}
  PROVE  LET t == Started(Missing(ops, u), Request(u, "read", {}, 0)) IN
           /\ t \in [Ops -> Requests \cup {NoOp}]
           /\ \A p \in Ops : \/ t[p] = NoOp
                             \/ p \in Busy /\ SameRequest(t[p], ops[p])
                             \/ FreshRead(t[p])
<1> DEFINE r == Request(u, "read", {}, 0)
           q == CHOOSE p \in Free : TRUE
           M == Missing(ops, u)
           t == Started(M, r)
<1>1. r \in Requests /\ FreshRead(r)
  <2>1. "read" \in RequestKinds /\ {} \subseteq Msgs /\ 0 \in Texts \cup {0} BY DEF RequestKinds
  <2>2. /\ r \in Requests /\ r.kind = "read" /\ r.about = {} /\ r.met = linked /\ r.got = Empty
    BY <2>1, RequestIs
  <2>3. r.step = "friends" BY DEF Request
  <2>. QED BY <2>2, <2>3 DEF FreshRead
<1>2. q \in Ops BY DEF Free
<1>3. t = [M EXCEPT ![q] = r] BY DEF Started
<1>4. /\ M \in [Ops -> Requests \cup {NoOp}]
      /\ \A p \in Ops : p \notin Busy => M[p] = NoOp
      /\ \A p \in Busy : SameRequest(M[p], ops[p])
  BY MissingIs
<1> HIDE DEF r, q, M, t
<1>5. t \in [Ops -> Requests \cup {NoOp}] BY <1>1, <1>2, <1>3, <1>4
<1>6. \A p \in Ops : t[p] = IF p = q THEN r ELSE M[p] BY <1>2, <1>3, <1>4
<1>7. ASSUME NEW p \in Ops
      PROVE  t[p] = NoOp \/ (p \in Busy /\ SameRequest(t[p], ops[p])) \/ FreshRead(t[p])
  BY <1>1, <1>4, <1>6
<1>8. t = Started(Missing(ops, u), Request(u, "read", {}, 0)) BY DEF t, M, r
<1>. QED BY <1>5, <1>7, <1>8

\* The invariant after a step of a client, part by part.
LEMMA AfterClient ==
  ASSUME MessagesInvariant, UNCHANGED <<messages, later, linked>>,
         hist'.early \in [Users -> SUBSET Msgs], hist'.deleted = hist.deleted, hist'.read = hist.read,
         hist' = [raced |-> hist'.raced, opened |-> hist'.opened, doubt |-> hist'.doubt,
                  crossed |-> hist'.crossed, early |-> hist'.early,
                  deleted |-> hist'.deleted, read |-> hist'.read],
         ops' \in [Ops -> Requests \cup {NoOp}],
         \A p \in Ops : \/ ops'[p] = NoOp
                        \/ p \in Busy /\ SameRequest(ops'[p], ops[p])
                        \/ FreshRead(ops'[p]),
         inbox' \in [Users -> Seq(Events)],
         \A u \in Users : inbox'[u] = inbox[u] \/ inbox'[u] = <<>> \/ (inbox[u] # <<>> /\ inbox'[u] = Tail(inbox[u])),
         panel' \in [Users -> {"open", "hidden"}],
         view' \in [Users -> [Msgs -> Rows]],
         \A u \in Users : \A m \in Msgs : view'[u][m].text # 0 => Saved(m), LeftElements(left'),
         unread' \in [Users -> Nat],
         asked' \in 0..MaxRequests
  PROVE  MessagesInvariant'
<1>1. MessageTypes' BY DEF MessagesInvariant, MessageTypes
<1>2. RowsMarked' BY DEF MessagesInvariant, RowsMarked
<1>3. RequestsSound' BY ClientRequests
<1>4. ASSUME NEW u \in Users, NEW i \in DOMAIN inbox'[u] PROVE \E j \in DOMAIN inbox[u] : inbox'[u][i] = inbox[u][j]
  <2>1. inbox[u] \in Seq(Events) BY DEF MessagesInvariant, MessageTypes
  <2>2. CASE inbox'[u] = inbox[u] BY <1>4, <2>2
  <2>3. CASE inbox'[u] = <<>>
    <3>1. DOMAIN inbox'[u] = {} BY <2>3
    <3>. QED BY <1>4, <3>1
  <2>4. CASE inbox[u] # <<>> /\ inbox'[u] = Tail(inbox[u])
    <3>1. i \in 1..Len(Tail(inbox[u])) BY <1>4, <2>1, <2>4
    <3>2. i + 1 \in DOMAIN inbox[u] /\ Tail(inbox[u])[i] = inbox[u][i + 1] BY <2>1, <2>4, <3>1
    <3>. QED BY <2>4, <3>2
  <2>. QED BY <2>2, <2>3, <2>4
<1>5. OnlySent'
  <2>1. ASSUME NEW u \in Users, NEW i \in DOMAIN inbox'[u]
        PROVE  /\ \A m \in inbox'[u][i].about : Saved(m)
               /\ inbox'[u][i].type = "send" => \E m \in Msgs : inbox'[u][i].about = {m}
    <3>1. PICK j \in DOMAIN inbox[u] : inbox'[u][i] = inbox[u][j] BY <1>4
    <3>2. /\ \A m \in inbox[u][j].about : Saved(m)
          /\ inbox[u][j].type = "send" => \E m \in Msgs : inbox[u][j].about = {m}
      BY DEF MessagesInvariant, OnlySent
    <3>. QED BY <3>1, <3>2
  <2>2. \A u \in Users : \A m \in Msgs : view'[u][m].text # 0 => Saved(m)' BY DEF Saved
  <2>3. LeftElements(left)' BY DEF LeftElements, Saved
  <2>. QED BY <2>1, <2>2, <2>3 DEF OnlySent, Saved
<1>. QED BY <1>1, <1>2, <1>3, <1>5 DEF MessagesInvariant

LEMMA ViewSaved == MessagesInvariant => \A u \in Users : \A m \in Msgs : view[u][m].text # 0 => Saved(m)
  BY DEF MessagesInvariant, OnlySent

LEMMA LeftSaved == ASSUME MessagesInvariant PROVE LeftElements(left)
  BY DEF MessagesInvariant, OnlySent

LEMMA Drops == ASSUME MessagesInvariant, NEW u \in Users, Drop(u) PROVE MessagesInvariant'
<1>1. MessageTypes BY DEF MessagesInvariant
<1>2. UNCHANGED <<messages, later, linked, panel, view, left, unread>> BY DEF Drop
<1>3. ops' = Missing(ops, u) BY DEF Drop
<1>4. /\ hist'.early = hist.early /\ hist'.deleted = hist.deleted /\ hist'.read = hist.read
      /\ hist' = [raced |-> hist'.raced, opened |-> hist'.opened, doubt |-> hist'.doubt,
                  crossed |-> hist'.crossed, early |-> hist'.early,
                  deleted |-> hist'.deleted, read |-> hist'.read]
  <2>1. hist' = [hist EXCEPT !.raced = hist.raced \cup {u}, !.doubt = hist.doubt \cup {u}] BY DEF Drop
  <2>2. PICK a, b, c, d, g, e, f :
          hist = [raced |-> a, opened |-> b, doubt |-> c, crossed |-> d, early |-> g, deleted |-> e, read |-> f]
    BY <1>1 DEF MessageTypes
  <2>. QED BY <2>1, <2>2
<1>5. inbox' = [inbox EXCEPT ![u] = <<>>] BY DEF Drop
<1>6. inbox' \in [Users -> Seq(Events)] /\ \A v \in Users : inbox'[v] = inbox[v] \/ inbox'[v] = <<>>
  <2>1. <<>> \in Seq(Events) OBVIOUS
  <2>. QED BY <1>1, <1>5, <2>1 DEF MessageTypes
<1>7. asked' \in 0..MaxRequests BY DirectMessagesAssumption DEF Drop, Ask, MessagesInvariant, MessageTypes
<1>8. /\ ops' \in [Ops -> Requests \cup {NoOp}]
      /\ \A p \in Ops : ops'[p] = NoOp \/ (p \in Busy /\ SameRequest(ops'[p], ops[p]))
  BY <1>1, <1>3, MissingIs
<1>9. /\ hist'.early \in [Users -> SUBSET Msgs]
      /\ panel' \in [Users -> {"open", "hidden"}] /\ view' \in [Users -> [Msgs -> Rows]]
      /\ unread' \in [Users -> Nat]
  BY <1>1, <1>2, <1>4 DEF MessageTypes
<1>. QED BY <1>2, <1>4, <1>6, <1>7, <1>8, <1>9, ViewSaved, LeftSaved, AfterClient

LEMMA ShownIs ==
  ASSUME NEW u \in Users, NEW rows \in [Msgs -> Rows]
  PROVE  /\ Shown(u, rows) \in [Msgs -> Rows]
         /\ \A m \in Msgs : Shown(u, rows)[m].text # 0 => rows[m].text # 0
<1>1. ASSUME NEW m \in Msgs
      PROVE  Render(u, m, rows[m]) \in Rows /\ (Render(u, m, rows[m]).text # 0 => rows[m].text # 0)
  <2>1. NoRow \in Rows /\ NoRow.text = 0 BY DEF NoRow, Rows
  <2>2. rows[m] \in Rows OBVIOUS
  <2>3. (rows[m].read /\ From[m] = u) \in BOOLEAN OBVIOUS
  <2>4. [rows[m] EXCEPT !.read = @ /\ From[m] = u] \in Rows BY <2>2, <2>3 DEF Rows
  <2>. QED BY <2>1, <2>4 DEF Render
<1>. QED BY <1>1 DEF Shown

LEMMA OpensPanel == ASSUME MessagesInvariant, NEW o \in Ops, OpenPanel(o) PROVE MessagesInvariant'
<1> DEFINE u == ops[o].user
           r == Request(u, "read", {}, 0)
<1>1. MessageTypes BY DEF MessagesInvariant
<1>2. o \in Busy BY DEF OpenPanel, At
<1>3. ops[o] \in Requests /\ Sound(ops[o]) BY <1>1, <1>2, OpIs DEF MessagesInvariant, RequestsSound
<1>4. u \in Users /\ ops[o].got \in [Msgs -> Rows] BY <1>3, RequestFields
<1>5. r \in Requests /\ FreshRead(r)
  <2>1. "read" \in RequestKinds /\ {} \subseteq Msgs /\ 0 \in Texts \cup {0} BY DEF RequestKinds
  <2>2. /\ r \in Requests /\ r.kind = "read" /\ r.about = {} /\ r.met = linked /\ r.got = Empty
    BY <1>1, <1>4, <2>1, RequestIs
  <2>3. r.step = "friends" BY DEF Request
  <2>. QED BY <2>2, <2>3 DEF FreshRead
<1>6. ops' = [ops EXCEPT ![o] = r] BY DEF OpenPanel
<1>7. UNCHANGED <<messages, later, linked, inbox, asked>> BY DEF OpenPanel
<1>8. /\ hist'.early \in [Users -> SUBSET Msgs] /\ hist'.deleted = hist.deleted /\ hist'.read = hist.read
      /\ hist' = [raced |-> hist'.raced, opened |-> hist'.opened, doubt |-> hist'.doubt,
                  crossed |-> hist'.crossed, early |-> hist'.early,
                  deleted |-> hist'.deleted, read |-> hist'.read]
  <2>1. PICK S, T, E : /\ hist' = [hist EXCEPT !.opened = S, !.early[ops[o].user] = E, !.raced = T]
                      /\ E \subseteq Msgs
    <3>1. {m \in Msgs : ops[o].got[m].text # 0 /\ SendDue(ops[o].user, m)} \subseteq Msgs OBVIOUS
    <3>. QED BY <3>1 DEF OpenPanel
  <2>2. PICK a, b, c, d, g, e, f :
          hist = [raced |-> a, opened |-> b, doubt |-> c, crossed |-> d, early |-> g, deleted |-> e, read |-> f]
    BY <1>1 DEF MessageTypes
  <2>3. g \in [Users -> SUBSET Msgs] BY <1>1, <2>2 DEF MessageTypes
  <2>4. hist' = [raced |-> T, opened |-> S, doubt |-> c, crossed |-> d,
                 early |-> [g EXCEPT ![ops[o].user] = E], deleted |-> e, read |-> f]
    BY <2>1, <2>2
  <2>5. [g EXCEPT ![ops[o].user] = E] \in [Users -> SUBSET Msgs] BY <2>1, <2>3
  <2>. QED BY <2>2, <2>4, <2>5
<1>9. view' = [view EXCEPT ![u] = Shown(u, ops[o].got)] BY DEF OpenPanel
<1>10. /\ panel' = [panel EXCEPT ![u] = "open"] /\ unread' = [unread EXCEPT ![u] = 0] BY DEF OpenPanel
<1> HIDE DEF u, r
<1>11. /\ view' \in [Users -> [Msgs -> Rows]]
       /\ \A v \in Users : \A m \in Msgs : view'[v][m].text # 0 => Saved(m)
  <2>1. /\ Shown(u, ops[o].got) \in [Msgs -> Rows]
        /\ \A m \in Msgs : Shown(u, ops[o].got)[m].text # 0 => ops[o].got[m].text # 0
    BY <1>4, ShownIs
  <2>2. \A m \in Msgs : ops[o].got[m].text # 0 => Saved(m) BY <1>3 DEF Sound, About
  <2>3. view' \in [Users -> [Msgs -> Rows]] BY <1>1, <1>9, <2>1 DEF MessageTypes
  <2>4. ASSUME NEW v \in Users, NEW m \in Msgs, view'[v][m].text # 0 PROVE Saved(m)
    <3>1. view'[v] = IF v = u THEN Shown(u, ops[o].got) ELSE view[v] BY <1>1, <1>9 DEF MessageTypes
    <3>. QED BY <2>1, <2>2, <2>4, <3>1, ViewSaved
  <2>. QED BY <2>3, <2>4
<1>12. /\ ops' \in [Ops -> Requests \cup {NoOp}]
       /\ \A p \in Ops : \/ ops'[p] = NoOp
                         \/ p \in Busy /\ SameRequest(ops'[p], ops[p])
                         \/ FreshRead(ops'[p])
  <2>1. ops' \in [Ops -> Requests \cup {NoOp}] BY <1>1, <1>5, <1>6 DEF MessageTypes
  <2>2. \A p \in Ops : ops'[p] = IF p = o THEN r ELSE ops[p] BY <1>1, <1>6 DEF MessageTypes
  <2>. QED BY <1>5, <2>1, <2>2 DEF SameRequest, Busy
<1>13. /\ inbox' \in [Users -> Seq(Events)] /\ asked' \in 0..MaxRequests
       /\ panel' \in [Users -> {"open", "hidden"}] /\ unread' \in [Users -> Nat]
  BY <1>1, <1>4, <1>7, <1>10 DEF MessageTypes
<1>14. LeftElements(left')
  <2>1. left' = [left EXCEPT ![u] = [m \in Msgs |-> {}]] BY DEF OpenPanel, u
  <2>2. LeftElements(left) BY LeftSaved
  <2>. QED BY <2>1, <2>2 DEF LeftElements
<1>. QED BY <1>7, <1>8, <1>11, <1>12, <1>13, <1>14, AfterClient

LEMMA ShowsCounts == ASSUME MessagesInvariant, NEW o \in Ops, ShowUnreadCounts(o) PROVE MessagesInvariant'
<1>1. MessageTypes BY DEF MessagesInvariant
<1>2. o \in Busy BY DEF ShowUnreadCounts, At
<1>3. ops[o] \in Requests BY <1>1, <1>2, OpIs
<1>4. ops[o].user \in Users /\ ops[o].about \subseteq Msgs BY <1>3, RequestFields
<1>5. ops' = [ops EXCEPT ![o] = NoOp] BY DEF ShowUnreadCounts, End
<1>6. UNCHANGED <<messages, later, linked, inbox, panel, view, left, asked>> BY DEF ShowUnreadCounts
<1>7. Cardinality(ops[o].about) \in Nat
  BY <1>4, DirectMessagesAssumption, FS_Subset, FS_CardinalityType
<1>8. unread' \in [Users -> Nat]
  <2>1. unread' = [unread EXCEPT ![ops[o].user] = Cardinality(ops[o].about)] BY DEF ShowUnreadCounts
  <2>. QED BY <1>1, <1>7, <2>1 DEF MessageTypes
<1>9. /\ hist'.early = hist.early /\ hist'.deleted = hist.deleted /\ hist'.read = hist.read
      /\ hist' = [raced |-> hist'.raced, opened |-> hist'.opened, doubt |-> hist'.doubt,
                  crossed |-> hist'.crossed, early |-> hist'.early,
                  deleted |-> hist'.deleted, read |-> hist'.read]
  <2>1. PICK S : hist' = [hist EXCEPT !.doubt = S] BY DEF ShowUnreadCounts
  <2>2. PICK a, b, c, d, g, e, f :
          hist = [raced |-> a, opened |-> b, doubt |-> c, crossed |-> d, early |-> g, deleted |-> e, read |-> f]
    BY <1>1 DEF MessageTypes
  <2>. QED BY <2>1, <2>2
<1>10. /\ ops' \in [Ops -> Requests \cup {NoOp}]
       /\ \A p \in Ops : ops'[p] = NoOp \/ (p \in Busy /\ SameRequest(ops'[p], ops[p]))
  BY <1>1, <1>5 DEF MessageTypes, SameRequest, Busy
<1>11. /\ hist'.early \in [Users -> SUBSET Msgs]
       /\ inbox' \in [Users -> Seq(Events)] /\ asked' \in 0..MaxRequests
       /\ panel' \in [Users -> {"open", "hidden"}] /\ view' \in [Users -> [Msgs -> Rows]]
  BY <1>1, <1>6, <1>9 DEF MessageTypes
<1>. QED BY <1>6, <1>8, <1>9, <1>10, <1>11, ViewSaved, LeftSaved, AfterClient

\* What every event's handler has in common.
LEMMA ReceivesIs ==
  ASSUME MessagesInvariant, NEW u \in Users, NEW type, Receives(u, type)
  PROVE  /\ Head(inbox[u]) \in Events /\ Head(inbox[u]).type = type
         /\ \A m \in Head(inbox[u]).about : Saved(m)
         /\ type = "send" => (Subject(u) \in Msgs /\ Subject(u) \in Head(inbox[u]).about)
         /\ inbox' \in [Users -> Seq(Events)]
         /\ \A v \in Users : inbox'[v] = inbox[v] \/ (inbox[v] # <<>> /\ inbox'[v] = Tail(inbox[v]))
         /\ UNCHANGED <<messages, later, linked, panel, asked, hist>>
<1>1. inbox[u] \in Seq(Events) /\ inbox[u] # <<>> /\ Head(inbox[u]).type = type
  BY DEF Receives, MessagesInvariant, MessageTypes
<1>2. 1 \in DOMAIN inbox[u] /\ Head(inbox[u]) = inbox[u][1] BY <1>1
<1>3. Head(inbox[u]) \in Events /\ Tail(inbox[u]) \in Seq(Events) BY <1>1
<1>4. /\ \A m \in inbox[u][1].about : Saved(m)
      /\ inbox[u][1].type = "send" => \E m \in Msgs : inbox[u][1].about = {m}
  BY <1>2 DEF MessagesInvariant, OnlySent
<1>5. type = "send" => (Subject(u) \in Msgs /\ Subject(u) \in Head(inbox[u]).about)
  BY <1>1, <1>2, <1>4 DEF Subject
<1>6. inbox' = [inbox EXCEPT ![u] = Tail(inbox[u])] BY DEF Receives
<1>7. inbox' \in [Users -> Seq(Events)] BY <1>3, <1>6 DEF MessagesInvariant, MessageTypes
<1>8. \A v \in Users : inbox'[v] = inbox[v] \/ (inbox[v] # <<>> /\ inbox'[v] = Tail(inbox[v]))
  BY <1>1, <1>6 DEF MessagesInvariant, MessageTypes
<1>9. UNCHANGED <<messages, later, linked, panel, asked, hist>> BY DEF Receives
<1>. QED BY <1>1, <1>2, <1>3, <1>4, <1>5, <1>7, <1>8, <1>9

\* It is left to say what happens to the requests, the view and the badge.
LEMMA AfterEvent ==
  ASSUME MessagesInvariant, NEW u \in Users, NEW type, Receives(u, type),
         ops' \in [Ops -> Requests \cup {NoOp}],
         \A p \in Ops : \/ ops'[p] = NoOp
                        \/ p \in Busy /\ SameRequest(ops'[p], ops[p])
                        \/ FreshRead(ops'[p]),
         view' \in [Users -> [Msgs -> Rows]],
         \A v \in Users : \A m \in Msgs : view'[v][m].text # 0 => Saved(m), LeftElements(left'),
         unread' \in [Users -> Nat]
  PROVE  MessagesInvariant'
<1>1. /\ inbox' \in [Users -> Seq(Events)]
      /\ \A v \in Users : inbox'[v] = inbox[v] \/ (inbox[v] # <<>> /\ inbox'[v] = Tail(inbox[v]))
      /\ UNCHANGED <<messages, later, linked, panel, asked, hist>>
  BY ReceivesIs
<1>2. /\ panel' \in [Users -> {"open", "hidden"}] /\ asked' \in 0..MaxRequests
      /\ hist'.early \in [Users -> SUBSET Msgs] /\ hist'.deleted = hist.deleted /\ hist'.read = hist.read
      /\ hist' = [raced |-> hist'.raced, opened |-> hist'.opened, doubt |-> hist'.doubt,
                  crossed |-> hist'.crossed, early |-> hist'.early,
                  deleted |-> hist'.deleted, read |-> hist'.read]
  BY <1>1 DEF MessagesInvariant, MessageTypes
<1>. QED BY <1>1, <1>2, AfterClient

\* One element of a view changes.
LEMMA OneElement ==
  ASSUME MessagesInvariant, NEW u \in Users, NEW m, NEW r \in Rows,
         view' = [view EXCEPT ![u][m] = r],
         (m \in Msgs /\ r.text # 0) => Saved(m)
  PROVE  /\ view' \in [Users -> [Msgs -> Rows]]
         /\ \A v \in Users : \A n \in Msgs : view'[v][n].text # 0 => Saved(n)
<1>1. view \in [Users -> [Msgs -> Rows]] BY DEF MessagesInvariant, MessageTypes
<1>2. view' \in [Users -> [Msgs -> Rows]] BY <1>1
<1>3. \A v \in Users : \A n \in Msgs : view'[v][n] = IF v = u /\ n = m THEN r ELSE view[v][n] BY <1>1
<1>. QED BY <1>2, <1>3, ViewSaved

LEMMA HearsMessage == ASSUME MessagesInvariant, NEW u \in Users, OnDirectMessage(u) PROVE MessagesInvariant'
<1> DEFINE e == Head(inbox[u])
           m == Subject(u)
           r == [NoRow EXCEPT !.text = e.text]
<1>1. Receives(u, "send") /\ MessageTypes BY DEF OnDirectMessage, MessagesInvariant
<1>2. e \in Events /\ m \in Msgs /\ Saved(m) BY <1>1, ReceivesIs
<1>3. r \in Rows BY <1>2 DEF Events, NoRow, Rows
<1>4. ASSUME panel[u] = "open", AppendMessage(u, m)
      PROVE  view' = [view EXCEPT ![u][m] = r] /\ (From[m] # u => Free # {})
             /\ ops' = IF From[m] = u THEN Missing(ops, u)
                       ELSE Started(Missing(ops, u), Request(u, "read", {}, 0))
  BY <1>4 DEF AppendMessage
<1>5. /\ ops' \in [Ops -> Requests \cup {NoOp}]
      /\ \A p \in Ops : \/ ops'[p] = NoOp
                        \/ p \in Busy /\ SameRequest(ops'[p], ops[p])
                        \/ FreshRead(ops'[p])
  <2>1. CASE ops' = Missing(ops, u) BY <1>1, <2>1, MissingIs
  <2>2. CASE Free # {} /\ ops' = Started(Missing(ops, u), Request(u, "read", {}, 0))
    BY <1>1, <2>2, StartedIs
  <2>. QED BY <1>4, <2>1, <2>2 DEF OnDirectMessage
<1>6. unread' \in [Users -> Nat]
  <2>1. CASE From[m] = u BY <1>1, <2>1 DEF OnDirectMessage, MessageTypes
  <2>2. CASE From[m] # u
    <3>1. unread' = [unread EXCEPT ![u] = IF panel[u] = "open" THEN 0 ELSE unread[u] + 1]
      BY <2>2 DEF OnDirectMessage
    <3>. QED BY <1>1, <3>1 DEF MessageTypes
  <2>. QED BY <2>1, <2>2
<1>7. view' = [view EXCEPT ![u][m] = r] \/ view' = view BY <1>4 DEF OnDirectMessage
<1>9. LeftElements(left')
  <2>1. left' = left \/ left' = [left EXCEPT ![u][m] = left[u][m] \cup ({view[u][m]} \ {NoRow})]
    BY DEF OnDirectMessage, AppendMessage
  <2>2. LeftElements(left) BY LeftSaved
  <2>3. view[u][m] \in Rows BY <1>1, <1>2 DEF MessageTypes
  <2> HIDE DEF m
  <2>4. CASE left' = left BY <2>2, <2>4
  <2>5. CASE left' = [left EXCEPT ![u][m] = left[u][m] \cup ({view[u][m]} \ {NoRow})]
    <3>1. \A v \in Users : \A n \in Msgs : left'[v][n] =
            IF v = u /\ n = m THEN left[u][m] \cup ({view[u][m]} \ {NoRow}) ELSE left[v][n]
      BY <2>2, <2>5 DEF LeftElements
    <3>2. left' \in [Users -> [Msgs -> SUBSET Rows]] BY <1>2, <2>2, <2>3, <2>5 DEF LeftElements
    <3>. QED BY <1>2, <2>2, <3>1, <3>2 DEF LeftElements
  <2>. QED BY <2>1, <2>4, <2>5
<1> HIDE DEF m, r, e
<1>8. /\ view' \in [Users -> [Msgs -> Rows]]
      /\ \A v \in Users : \A n \in Msgs : view'[v][n].text # 0 => Saved(n)
  <2>1. CASE view' = [view EXCEPT ![u][m] = r] BY <1>2, <1>3, <2>1, OneElement
  <2>2. CASE view' = view BY <1>1, <2>2, ViewSaved DEF MessageTypes
  <2>. QED BY <1>7, <2>1, <2>2
<1>. QED BY <1>1, <1>5, <1>6, <1>8, <1>9, AfterEvent

LEMMA HearsEdit == ASSUME MessagesInvariant, NEW u \in Users, OnDirectEdited(u) PROVE MessagesInvariant'
<1> DEFINE e == Head(inbox[u])
           m == Subject(u)
           r == UpdateEdited(u, m, e.text)
<1>1. Receives(u, "edit") /\ MessageTypes BY DEF OnDirectEdited, MessagesInvariant
<1>2. e \in Events BY <1>1, ReceivesIs
<1>3. ops' = Missing(ops, u) /\ unread' = unread /\ left' = left /\ view' = [view EXCEPT ![u][m] = r] BY DEF OnDirectEdited
<1>4. m \in Msgs => (r \in Rows /\ (r.text # 0 => view[u][m].text # 0))
  <2> SUFFICES ASSUME m \in Msgs PROVE r \in Rows /\ (r.text # 0 => view[u][m].text # 0) OBVIOUS
  <2>1. view[u][m] \in Rows /\ e.text \in Texts \cup {0} BY <1>1, <1>2 DEF MessageTypes, Events
  <2>2. [view[u][m] EXCEPT !.text = e.text] \in Rows BY <2>1 DEF Rows
  <2>. QED BY <2>1, <2>2 DEF UpdateEdited
<1> HIDE DEF m, r, e
<1>5. /\ view' \in [Users -> [Msgs -> Rows]]
      /\ \A v \in Users : \A n \in Msgs : view'[v][n].text # 0 => Saved(n)
  <2>1. CASE m \in Msgs
    <3>1. r.text # 0 => Saved(m) BY <1>4, <2>1, ViewSaved
    <3>. QED BY <1>3, <1>4, <2>1, <3>1, OneElement
  <2>2. CASE m \notin Msgs
    <3>1. view' = view BY <1>1, <1>3, <2>2 DEF MessageTypes
    <3>. QED BY <1>1, <3>1, ViewSaved DEF MessageTypes
  <2>. QED BY <2>1, <2>2
<1>6. /\ ops' \in [Ops -> Requests \cup {NoOp}]
      /\ \A p \in Ops : ops'[p] = NoOp \/ (p \in Busy /\ SameRequest(ops'[p], ops[p]))
  BY <1>1, <1>3, MissingIs
<1>7. unread' \in [Users -> Nat] BY <1>1, <1>3 DEF MessageTypes
<1>8. LeftElements(left') BY <1>3, LeftSaved
<1>. QED BY <1>1, <1>5, <1>6, <1>7, <1>8, AfterEvent

LEMMA HearsDelete == ASSUME MessagesInvariant, NEW u \in Users, OnDirectDeleted(u) PROVE MessagesInvariant'
<1> DEFINE m == Subject(u)
           r == [view[u][m] EXCEPT !.deleted = view[u][m].text # 0]
<1>1. Receives(u, "delete") /\ MessageTypes BY DEF OnDirectDeleted, MessagesInvariant
<1>2. ops' = Missing(ops, u) /\ unread' = Discounted(u, m)
      /\ view' = [view EXCEPT ![u][m].deleted = view[u][m].text # 0] BY DEF OnDirectDeleted
<1>3. view \in [Users -> [Msgs -> Rows]] BY <1>1 DEF MessageTypes
<1>4. unread' \in [Users -> Nat] BY <1>1, <1>2 DEF Discounted, MessageTypes
<1>5. m \in Msgs => (r \in Rows /\ (r.text # 0 => view[u][m].text # 0))
  <2> SUFFICES ASSUME m \in Msgs PROVE r \in Rows /\ (r.text # 0 => view[u][m].text # 0) OBVIOUS
  <2>1. view[u][m] \in Rows /\ (view[u][m].text # 0) \in BOOLEAN BY <1>3
  <2>2. r \in Rows /\ r.text = view[u][m].text BY <2>1 DEF Rows
  <2>. QED BY <2>2
<1>6. m \in Msgs => view' = [view EXCEPT ![u][m] = r] BY <1>2, <1>3
<1> HIDE DEF r
<1>7. m \notin Msgs => view' = view BY <1>2, <1>3
<1> HIDE DEF m
<1>8. /\ view' \in [Users -> [Msgs -> Rows]]
      /\ \A v \in Users : \A n \in Msgs : view'[v][n].text # 0 => Saved(n)
  <2>1. CASE m \in Msgs
    <3>1. view' = [view EXCEPT ![u][m] = r] /\ r \in Rows BY <1>5, <1>6, <2>1
    <3>2. r.text # 0 => Saved(m) BY <1>5, <2>1, ViewSaved
    <3>. QED BY <3>1, <3>2, OneElement
  <2>2. CASE m \notin Msgs BY <1>3, <1>7, <2>2, ViewSaved
  <2>. QED BY <2>1, <2>2
<1>9. /\ ops' \in [Ops -> Requests \cup {NoOp}]
      /\ \A p \in Ops : ops'[p] = NoOp \/ (p \in Busy /\ SameRequest(ops'[p], ops[p]))
  BY <1>1, <1>2, MissingIs
<1>10. LeftElements(left')
  <2>1. left' = left BY DEF OnDirectDeleted
  <2>. QED BY <2>1, LeftSaved
<1>. QED BY <1>1, <1>4, <1>8, <1>9, <1>10, AfterEvent

LEMMA HearsReceipt == ASSUME MessagesInvariant, NEW u \in Users, OnDirectRead(u) PROVE MessagesInvariant'
<1> DEFINE e == Head(inbox[u])
           f == [m \in Msgs |-> [view[u][m] EXCEPT !.read = @ \/ (m \in e.about /\ view[u][m].text # 0)]]
<1>1. Receives(u, "read") /\ MessageTypes BY DEF OnDirectRead, MessagesInvariant
<1>2. ops' = Missing(ops, u) /\ (view' = view \/ view' = [view EXCEPT ![u] = f]) BY DEF OnDirectRead
<1>3. view \in [Users -> [Msgs -> Rows]] BY <1>1 DEF MessageTypes
<1>4. unread' \in [Users -> Nat] BY <1>1 DEF OnDirectRead, MessageTypes
<1>5. f \in [Msgs -> Rows] /\ \A m \in Msgs : f[m].text = view[u][m].text
  <2>1. ASSUME NEW m \in Msgs, NEW b \in BOOLEAN
        PROVE  [view[u][m] EXCEPT !.read = b] \in Rows /\ [view[u][m] EXCEPT !.read = b].text = view[u][m].text
    <3>1. view[u][m] \in Rows BY <1>3
    <3>. QED BY <3>1 DEF Rows
  <2>2. \A m \in Msgs : (view[u][m].read \/ (m \in e.about /\ view[u][m].text # 0)) \in BOOLEAN
    BY <1>3 DEF Rows
  <2>3. ASSUME NEW m \in Msgs PROVE f[m] \in Rows /\ f[m].text = view[u][m].text
    <3>1. PICK b \in BOOLEAN : f[m] = [view[u][m] EXCEPT !.read = b] BY <2>2
    <3>. QED BY <2>1, <3>1
  <2>. QED BY <2>3
<1> HIDE DEF f
<1>6. /\ view' \in [Users -> [Msgs -> Rows]]
      /\ \A v \in Users : \A n \in Msgs : view'[v][n].text # 0 => Saved(n)
  BY <1>2, <1>3, <1>5, ViewSaved
<1>7. /\ ops' \in [Ops -> Requests \cup {NoOp}]
      /\ \A p \in Ops : ops'[p] = NoOp \/ (p \in Busy /\ SameRequest(ops'[p], ops[p]))
  BY <1>1, <1>2, MissingIs
<1>8. LeftElements(left')
  <2>1. left' = left BY DEF OnDirectRead
  <2>. QED BY <2>1, LeftSaved
<1>. QED BY <1>1, <1>4, <1>6, <1>7, <1>8, AfterEvent

\* The invariant behind both theorems.
THEOREM MessagesInvariantHolds == MessagesSpec => []MessagesInvariant
<1>1. MessagesInit => MessagesInvariant BY MessagesBegin
<1>2. MessagesInvariant /\ [MessagesNext]_messagesVars => MessagesInvariant'
  <2> SUFFICES ASSUME MessagesInvariant, [MessagesNext]_messagesVars PROVE MessagesInvariant'
    OBVIOUS
  <2>1. ASSUME NEW u \in Users, UserStep(u) PROVE MessagesInvariant'
    BY <2>1, Sends, AsksForMessages, Hides, Drops, AsksToDelete, AsksToEdit DEF UserStep
  <2>2. ASSUME NEW u \in Users, ClientStep(u) PROVE MessagesInvariant'
    BY <2>2, HearsMessage, HearsEdit, HearsDelete, HearsReceipt DEF ClientStep
  <2>3. ASSUME NEW o \in Ops, ServerStep(o) PROVE MessagesInvariant'
    BY <2>3, Finds, ChecksFriends, ChecksBlocks, FailsOrFindsNone, SavesMessage, EditsMessage,
       DeletesMessage, MarksRead, Lists, CountsUnread, Publishes DEF ServerStep
  <2>4. ASSUME NEW o \in Ops, OpenPanel(o) \/ ShowUnreadCounts(o) PROVE MessagesInvariant'
    BY <2>4, OpensPanel, ShowsCounts
  <2>5. ASSUME NEW c \in Checks, Relink(c) PROVE MessagesInvariant' BY <2>5, Relinks
  <2>6. CASE UNCHANGED messagesVars BY <2>6, MessagesStutter
  <2>. QED BY <2>1, <2>2, <2>3, <2>4, <2>5, <2>6 DEF MessagesNext
<1>. QED BY <1>1, <1>2, PTL DEF MessagesSpec

\* A message is announced deleted, and read, once at most, and who is cut off
\* for as long as a request is on its way gets nothing past assertCanMessage,
\* for any messages, however many requests overlap (DirectMessageService).
THEOREM MessagesAreKept == MessagesSpec => []MessagesKept
<1>1. MessagesInvariant => MessagesKept
  <2> SUFFICES ASSUME MessagesInvariant PROVE MessagesKept OBVIOUS
  <2>1. MessagesTypeOK
    <3>1. ASSUME NEW u \in Users
          PROVE  /\ \A i \in DOMAIN inbox[u] : inbox[u][i] \in Events
                 /\ view[u] \in [Msgs -> Rows] /\ left[u] \in [Msgs -> SUBSET Rows]
      BY EventsAre, LeftSaved DEF MessagesInvariant, MessageTypes, LeftElements
    <3>2. \A o \in Ops : ops[o] = NoOp \/ ops[o] \in Requests BY DEF MessagesInvariant, MessageTypes
    <3>. QED BY <3>1, <3>2 DEF MessagesTypeOK, MessagesInvariant, MessageTypes
  <2>2. AnnouncedOnce BY DEF AnnouncedOnce, MessagesInvariant, RowsMarked
  <2>3. CutOffStaysOut BY DEF CutOffStaysOut, MessagesInvariant, RequestsSound, Sound, Allowed
  <2>. QED BY <2>1, <2>2, <2>3 DEF MessagesKept
<1>. QED BY <1>1, MessagesInvariantHolds, PTL

\* Once the row of a message is marked deleted no statement changes it, though
\* its request was checked before the deletion (the updates' WHERE clauses).
THEOREM DeletionIsFinal == MessagesSpec => DeletedIsFinal
<1> DEFINE Stays == \A m \in Msgs : messages[m].deleted => messages'[m] = messages[m]
<1>1. MessagesInvariant /\ [MessagesNext]_messagesVars => [Stays]_messages
  <2> SUFFICES ASSUME MessagesInvariant, MessagesNext, messages' # messages PROVE Stays
    BY DEF messagesVars
  <2>1. PICK o \in Ops : Save(o) \/ EditMessage(o) \/ DeleteMessage(o) \/ MarkConversationRead(o)
    <3>1. ASSUME NEW u \in Users, UserStep(u) PROVE FALSE
      BY <3>1 DEF UserStep, Send, OpenConversation, RefreshFriends, Hide, Drop, Delete, Edit, AskFor
    <3>2. ASSUME NEW u \in Users, ClientStep(u) PROVE FALSE
      BY <3>2 DEF ClientStep, OnDirectMessage, OnDirectEdited, OnDirectDeleted, OnDirectRead, Receives
    <3>3. ASSUME NEW o \in Ops, ServerStep(o)
          PROVE  Save(o) \/ EditMessage(o) \/ DeleteMessage(o) \/ MarkConversationRead(o)
      BY <3>3 DEF ServerStep, FindMessage, AreFriends, IsBlockedEitherDirection, Fails, FindsNoRow,
                  ListConversation, ListUnreadCounts, Publish
    <3>4. ASSUME NEW o \in Ops, OpenPanel(o) \/ ShowUnreadCounts(o) PROVE FALSE
      BY <3>4 DEF OpenPanel, ShowUnreadCounts
    <3>5. ASSUME NEW c \in Checks, Relink(c) PROVE FALSE BY <3>5 DEF Relink
    <3>. QED BY <3>1, <3>2, <3>3, <3>4, <3>5 DEF MessagesNext
  <2>2. messages \in [Msgs -> Rows] BY DEF MessagesInvariant, MessageTypes
  <2>3. ASSUME ~messages[Msg(o)].deleted, NEW r, messages' = [messages EXCEPT ![Msg(o)] = r] PROVE Stays
    BY <2>2, <2>3
  <2>4. CASE Save(o)
    <3>1. o \in Busy /\ ops[o].kind = "send" /\ ops[o].step = "write" BY <2>4 DEF Save, At
    <3>2. Msg(o) \in Msgs /\ ops[o].about = {Msg(o)} BY <3>1, MsgIs
    <3>3. ~Saved(Msg(o)) BY <3>1, <3>2 DEF MessagesInvariant, RequestsSound, Sound, About, Sending
    <3>4. messages[Msg(o)] = NoRow BY <3>2, <3>3 DEF MessagesInvariant, RowsMarked, Saved
    <3>5. ~messages[Msg(o)].deleted BY <3>4 DEF NoRow
    <3>. QED BY <2>3, <2>4, <3>5 DEF Save, Written
  <2>5. CASE EditMessage(o) BY <2>3, <2>5 DEF EditMessage, Written, NotDeleted
  <2>6. CASE DeleteMessage(o) BY <2>3, <2>6 DEF DeleteMessage, Written, NotDeleted
  <2>7. CASE MarkConversationRead(o)
    <3>1. \A m \in Unread(ops[o].user) : ~messages[m].deleted BY UnreadSaved
    <3>. QED BY <2>7, <3>1 DEF MarkConversationRead
  <2>. QED BY <2>1, <2>4, <2>5, <2>6, <2>7
<1>. QED BY <1>1, MessagesInvariantHolds, PTL DEF MessagesSpec, DeletedIsFinal

---------------------------------------------------------------------------
(* What the panels will show.                                              *)

\* The requests that wrote to the row of m and have not published it yet, the
\* events of m that wait for u, and the kinds of events of m u will still get.
Writers(m, k) == {o \in Busy : ops[o].step = "publish" /\ m \in ops[o].about /\ ops[o].kind = k}
IsAbout(e, m, k) == m \in e.about /\ e.type = k
Waits(u, m, k) == \E i \in DOMAIN inbox[u] : IsAbout(inbox[u][i], m, k)
Dues(u, m) == {k \in {"send", "edit", "delete", "read"} : Writers(m, k) # {} \/ Waits(u, m, k)}

\* What a request and an event say is so.
RequestTrue(r) ==
  /\ r.kind = "send" => r.text = 1
  /\ r.kind = "read" => \A m \in r.about : From[m] # r.user
EventTrue(e, table) ==
  /\ e.type \in {"edit", "delete"} => \E m \in Msgs : e.about = {m}
  /\ e.type \in {"send", "edit"} => e.text # 0
  /\ \A m \in e.about : /\ e.type = "delete" => table[m].deleted
                        /\ e.type = "read" => (table[m].read /\ From[m] # e.by)

\* Of a message whose events did not cross: nothing is published before it was,
\* or only what the row says and is still to come; and its text is the one of
\* the last request that wrote it.
SaysTrue ==
  /\ \A o \in Busy : RequestTrue(ops[o])
  /\ \A u \in Users : \A i \in DOMAIN inbox[u] : EventTrue(inbox[u][i], messages)

SendsFirst ==
  \A u \in Users : \A m \in Msgs \ hist.crossed : \A i \in DOMAIN inbox[u] :
    (m \in inbox[u][i].about /\ inbox[u][i].type # "send") =>
       /\ Writers(m, "send") = {}
       /\ \A j \in DOMAIN inbox[u] : j > i => ~IsAbout(inbox[u][j], m, "send")

RestFollows ==
  \A u \in Users : \A m \in Msgs \ hist.crossed : "send" \in Dues(u, m) =>
     /\ messages[m].deleted => "delete" \in Dues(u, m)
     /\ messages[m].read => "read" \in Dues(u, m)

TextOfWriter ==
  \A m \in Msgs \ hist.crossed : \A o \in Writers(m, "send") \cup Writers(m, "edit") :
     ops[o].text = messages[m].text \/ \E p \in Writers(m, "edit") : p # o

SetsText(e, m) == IsAbout(e, m, "send") \/ IsAbout(e, m, "edit")
TextOfLast ==
  \A u \in Users : \A m \in Msgs \ hist.crossed : \A i \in DOMAIN inbox[u] :
    (/\ Writers(m, "send") = {} /\ Writers(m, "edit") = {}
     /\ SetsText(inbox[u][i], m)
     /\ \A j \in DOMAIN inbox[u] : j > i => ~SetsText(inbox[u][j], m))
    => inbox[u][i].text = messages[m].text

\* An element s shows the row r, but for what is due.
Follows(s, r, due, own) ==
  /\ s.text = 0 => ~s.deleted /\ ~s.read
  /\ s.text # 0 => r.text # 0
  /\ s.deleted => r.deleted
  /\ s.read => r.read /\ own
  /\ r.text # 0 => s.text # 0 \/ "send" \in due
  /\ r.deleted => s.deleted \/ "delete" \in due
  /\ r.read /\ own => s.read \/ "read" \in due
  /\ "send" \notin due /\ "edit" \notin due => s.text = r.text \/ r.deleted

\* It does, or there is none, of a message that is older than the page.
Absent(s) == s.text = 0 /\ ~s.deleted /\ ~s.read
Tracked(s, r, due, own, new) == Follows(s, r, due, own) \/ (Absent(s) /\ ~new)

Tracks(u, rows) ==
  \A m \in Msgs \ hist.crossed : Tracked(rows[m], messages[m], Dues(u, m), From[m] = u, m \in Newest)
PanelsTrack == \A u \in Users \ hist.raced : panel[u] = "open" => Tracks(u, view[u])
Showing(r) == r.kind = "history" /\ r.step = "show" /\ ~r.missed
AnswersTrack ==
  \A o \in Busy : \A u \in Users :
    Showing(ops[o]) /\ ops[o].user = u => Tracks(u, Shown(u, ops[o].got))

InOrder == SaysTrue /\ SendsFirst /\ RestFollows /\ TextOfWriter /\ TextOfLast

---------------------------------------------------------------------------
(* Requests that go on, and requests that begin.                           *)

\* r has become q.
Kept(q, r) ==
  /\ q.kind = r.kind /\ q.user = r.user /\ q.text = r.text /\ q.got = r.got
  /\ q.about = r.about \/ (q.kind = "count" /\ q.missed)
  /\ r.missed => q.missed
  /\ q.step = "publish" <=> r.step = "publish"
  /\ (q.kind = "history" /\ q.step = "show") => r.step = "show"
  /\ (q.kind = "count" /\ q.step # "count") => r.step # "count"

\* A request that has read nothing yet.
Begins(q, opened) ==
  /\ q.user \in Users /\ q.step \notin {"publish", "show"}
  /\ q.kind = "send" => q.text = 1
  /\ q.kind = "count" => q.step = "count"
  /\ q.kind = "read" => (q.about = {} /\ q.user \in opened)

\* A request that has just read the history, or the counts.
ReadHistory(q) == q.user \in Users /\ q.kind = "history" /\ q.step = "show" /\ q.got = Page
ReadCounts(q) ==
  /\ q.user \in Users /\ q.kind = "count" /\ q.step = "friends" /\ q.about = Unread(q.user)
  /\ ~q.missed => (inbox[q.user] = <<>> /\ \A p \in Busy : ops[p].step # "publish")

GoOn ==
  /\ \A o \in Busy : ops[o].step = "publish" => o \in Busy' /\ Kept(ops'[o], ops[o])
  /\ \A o \in Busy' : \/ o \in Busy /\ Kept(ops'[o], ops[o])
                      \/ Begins(ops'[o], hist'.opened)
                      \/ ReadHistory(ops'[o])
                      \/ ReadCounts(ops'[o])

\* Nothing is written or announced.
QuietStep ==
  /\ UNCHANGED <<messages, later, inbox>> /\ hist'.crossed = hist.crossed
  /\ GoOn

LEMMA KeptSame == ASSUME NEW r PROVE Kept(r, r)
  BY DEF Kept

\* One request goes on, begins or ends.
LEMMA OneGoesOn ==
  ASSUME MessageTypes, NEW o \in Ops, NEW r, ops' = [ops EXCEPT ![o] = r],
         o \in Busy => ops[o].step # "publish",
         r # NoOp => \/ o \in Busy /\ Kept(r, ops[o])
                     \/ Begins(r, hist'.opened)
                     \/ ReadHistory(r)
                     \/ ReadCounts(r)
  PROVE  GoOn
<1>1. \A p \in Ops : ops'[p] = IF p = o THEN r ELSE ops[p] BY DEF MessageTypes
<1>2. ASSUME NEW p \in Busy, ops[p].step = "publish" PROVE p \in Busy' /\ Kept(ops'[p], ops[p])
  BY <1>1, <1>2, KeptSame DEF Busy
<1>3. ASSUME NEW p \in Busy'
      PROVE  \/ p \in Busy /\ Kept(ops'[p], ops[p])
             \/ Begins(ops'[p], hist'.opened)
             \/ ReadHistory(ops'[p])
             \/ ReadCounts(ops'[p])
  <2>1. CASE p = o BY <1>1, <1>3, <2>1 DEF Busy
  <2>2. CASE p # o
    <3>1. p \in Busy /\ ops'[p] = ops[p] BY <1>1, <1>3, <2>2 DEF Busy
    <3>. QED BY <3>1, KeptSame
  <2>. QED BY <2>1, <2>2
<1>. QED BY <1>2, <1>3 DEF GoOn

LEMMA EndGoesOn ==
  ASSUME MessageTypes, NEW o \in Busy, End(o), ops[o].step # "publish" PROVE GoOn
<1>1. o \in Ops /\ ops' = [ops EXCEPT ![o] = NoOp] BY DEF Busy, End
<1>. QED BY <1>1, OneGoesOn

LEMMA GotoGoesOn ==
  ASSUME MessageTypes, NEW o \in Busy, NEW s \in {"friends", "blocked", "write", "show"}, Goto(o, s),
         ops[o].step \notin {"publish", "count"}, s = "show" => ops[o].kind = "count"
  PROVE  GoOn
<1> DEFINE r == [ops[o] EXCEPT !.step = s]
<1>1. o \in Ops /\ ops[o] \in Requests BY OpIs
<1>r. r = [ops[o] EXCEPT !.step = s] OBVIOUS
<1>3. ops' = [ops EXCEPT ![o] = r] BY DEF Goto
<1> HIDE DEF r
<1>2. /\ r.step = s /\ r.kind = ops[o].kind /\ r.user = ops[o].user /\ r.about = ops[o].about
      /\ r.text = ops[o].text /\ r.got = ops[o].got /\ r.missed = ops[o].missed
  <2>1. s \in {"find", "count", "friends", "blocked", "write", "publish", "show"} OBVIOUS
  <2>. QED BY <1>1, <1>r, <2>1, SetStep
<1>4. Kept(r, ops[o]) BY <1>2 DEF Kept
<1>. QED BY <1>1, <1>3, <1>4, OneGoesOn

LEMMA AskGoesOn ==
  ASSUME MessageTypes, NEW u \in Users, NEW kind \in RequestKinds \ {"read"}, NEW ms, ms \subseteq Msgs,
         NEW t \in Texts \cup {0}, kind = "send" => t = 1, AskFor(u, kind, ms, t)
  PROVE  QuietStep
<1> DEFINE r == Request(u, kind, ms, t)
           q == CHOOSE p \in Free : TRUE
<1>1. q \in Free /\ q \in Ops /\ ops' = [ops EXCEPT ![q] = r] BY DEF AskFor, Started, Free
<1>2. UNCHANGED <<messages, later, inbox, hist>> BY DEF AskFor
<1>3. r.kind = kind /\ r.user = u /\ r.text = t BY RequestIs
<1>4. r.step \in {"find", "count", "friends"} BY RequestIs
<1>5. kind = "count" => r.step = "count" BY DEF Request
<1>6. q \notin Busy BY <1>1 DEF Free
<1> HIDE DEF r, q
<1>7. Begins(r, hist'.opened) BY <1>3, <1>4, <1>5 DEF Begins
<1>8. GoOn BY <1>1, <1>6, <1>7, OneGoesOn
<1>. QED BY <1>2, <1>8 DEF QuietStep

Silent == QuietStep /\ UNCHANGED <<panel, view, left, unread, hist>>

LEMMA UserAsks ==
  ASSUME MessagesInvariant, NEW u \in Users,
         \/ Send(u) \/ OpenConversation(u) \/ RefreshFriends(u)
         \/ \E m \in Msgs : Delete(u, m) \/ \E t \in Texts : Edit(u, m, t)
  PROVE  Silent
<1>1. PICK kind \in RequestKinds \ {"read"}, ms \in SUBSET Msgs, t \in Texts \cup {0} :
        (kind = "send" => t = 1) /\ AskFor(u, kind, ms, t)
  <2>1. CASE Send(u)
    <3>1. PICK m \in Mine(u) : AskFor(u, "send", {m}, 1) BY <2>1 DEF Send
    <3>2. {m} \in SUBSET Msgs /\ 1 \in Texts BY DirectMessagesAssumption DEF Mine
    <3>. QED BY <3>1, <3>2 DEF RequestKinds
  <2>2. CASE OpenConversation(u) \/ RefreshFriends(u)
    BY <2>2 DEF OpenConversation, RefreshFriends, RequestKinds
  <2>3. ASSUME NEW m \in Msgs, Delete(u, m)
        PROVE  \E kind \in RequestKinds \ {"read"}, ms \in SUBSET Msgs, t \in Texts \cup {0} :
                 (kind = "send" => t = 1) /\ AskFor(u, kind, ms, t)
    BY <2>3 DEF Delete, RequestKinds
  <2>4. ASSUME NEW m \in Msgs, NEW t \in Texts, Edit(u, m, t)
        PROVE  \E kind \in RequestKinds \ {"read"}, ms \in SUBSET Msgs, s \in Texts \cup {0} :
                 (kind = "send" => s = 1) /\ AskFor(u, kind, ms, s)
    BY <2>4 DEF Edit, RequestKinds
  <2>. QED BY <2>1, <2>2, <2>3, <2>4
<1>2. QuietStep BY <1>1, AskGoesOn DEF MessagesInvariant
<1>3. UNCHANGED <<panel, view, left, unread, hist>> BY <1>1 DEF AskFor
<1>. QED BY <1>2, <1>3 DEF Silent

LEMMA RefusedGoesOn ==
  ASSUME MessageTypes, NEW o \in Busy, Refused(o), ops[o].step \in {"friends", "blocked"} PROVE GoOn
<1>1. CASE ops[o].kind = "count"
  <2> DEFINE r == [ops[o] EXCEPT !.step = "show", !.about = {}, !.missed = TRUE]
  <2>1. o \in Ops /\ ops[o] \in Requests BY OpIs
  <2>2. /\ r.step = "show" /\ r.kind = "count" /\ r.user = ops[o].user /\ r.about = {}
        /\ r.text = ops[o].text /\ r.got = ops[o].got /\ r.missed = TRUE
    BY <1>1, <2>1 DEF Requests
  <2>3. ops' = [ops EXCEPT ![o] = r] BY <1>1, <2>1 DEF Refused, MessageTypes
  <2> HIDE DEF r
  <2>4. Kept(r, ops[o]) BY <1>1, <2>2 DEF Kept
  <2>. QED BY <2>1, <2>3, <2>4, OneGoesOn
<1>2. CASE ops[o].kind # "count" BY <1>2, EndGoesOn DEF Refused
<1>. QED BY <1>1, <1>2

\* The checks, the statements that only read, and those that find nothing.
LEMMA ServerReads ==
  ASSUME MessagesInvariant, NEW o \in Ops,
         \/ FindMessage(o) \/ AreFriends(o) \/ IsBlockedEitherDirection(o) \/ Fails(o) \/ FindsNoRow(o)
         \/ ListConversation(o) \/ ListUnreadCounts(o)
         \/ MarkConversationRead(o) /\ Unread(ops[o].user) = {}
  PROVE  Silent
<1>0. MessageTypes BY DEF MessagesInvariant
<1> SUFFICES ASSUME o \in Busy PROVE Silent
  BY DEF FindMessage, AreFriends, IsBlockedEitherDirection, Fails, FindsNoRow, ListConversation,
         ListUnreadCounts, MarkConversationRead, At
<1>1. ops[o] \in Requests /\ ops[o].user \in Users BY <1>0, OpIs, RequestFields
<1>2. CASE FindMessage(o)
  <2>1. GoOn BY <1>0, <1>2, EndGoesOn, GotoGoesOn DEF FindMessage
  <2>. QED BY <1>2, <2>1 DEF FindMessage, Silent, QuietStep
<1>3. CASE AreFriends(o)
  <2>1. ops[o].step = "friends" /\ (Goto(o, "blocked") \/ Refused(o)) BY <1>3 DEF AreFriends
  <2>2. GoOn BY <1>0, <2>1, GotoGoesOn, RefusedGoesOn
  <2>. QED BY <1>3, <2>2 DEF AreFriends, Silent, QuietStep
<1>4. CASE IsBlockedEitherDirection(o)
  <2>1. /\ ops[o].step = "blocked"
        /\ \/ Goto(o, "show") /\ ops[o].kind = "count"
           \/ Goto(o, "write")
           \/ Refused(o)
    BY <1>4 DEF IsBlockedEitherDirection
  <2>2. GoOn BY <1>0, <2>1, GotoGoesOn, RefusedGoesOn
  <2>. QED BY <1>4, <2>2 DEF IsBlockedEitherDirection, Silent, QuietStep
<1>5. CASE Fails(o)
  <2>1. GoOn BY <1>0, <1>5, EndGoesOn DEF Fails
  <2>. QED BY <1>5, <2>1 DEF Fails, Silent, QuietStep
<1>6. CASE FindsNoRow(o)
  <2>1. GoOn BY <1>0, <1>6, EndGoesOn DEF FindsNoRow, At
  <2>. QED BY <1>6, <2>1 DEF FindsNoRow, Silent, QuietStep
<1>7. CASE MarkConversationRead(o) /\ Unread(ops[o].user) = {}
  <2>1. End(o) /\ ops[o].step = "write" BY <1>7 DEF MarkConversationRead, At
  <2>2. GoOn BY <1>0, <2>1, EndGoesOn
  <2>3. messages' = [m \in Msgs |-> messages[m]] BY <1>7 DEF MarkConversationRead
  <2>4. messages' = messages BY <1>0, <2>3 DEF MessageTypes
  <2>. QED BY <1>7, <2>2, <2>4 DEF MarkConversationRead, Silent, QuietStep
<1>8. CASE ListConversation(o)
  <2> DEFINE r == [ops[o] EXCEPT !.step = "show", !.got = Page, !.missed = FALSE]
  <2>1. ops' = [ops EXCEPT ![o] = r] BY <1>0, <1>1, <1>8 DEF ListConversation, MessageTypes
  <2>2. ops[o].kind = "history" /\ ops[o].step = "write" BY <1>8 DEF ListConversation, At
  <2>3. /\ r.step = "show" /\ r.kind = "history" /\ r.user = ops[o].user /\ r.got = Page
    BY <1>1, <2>2 DEF Requests
  <2> HIDE DEF r
  <2>4. ReadHistory(r) BY <1>1, <2>3 DEF ReadHistory
  <2>5. GoOn BY <1>0, <2>1, <2>2, <2>4, OneGoesOn
  <2>. QED BY <1>8, <2>5 DEF ListConversation, Silent, QuietStep
<1>9. CASE ListUnreadCounts(o)
  <2> DEFINE u == ops[o].user
             announced == inbox[u] = <<>> /\ \A p \in Busy : ops[p].step # "publish"
             r == [ops[o] EXCEPT !.step = "friends", !.about = Unread(u), !.missed = ~announced]
  <2>1. ops' = [ops EXCEPT ![o] = r] BY <1>0, <1>1, <1>9 DEF ListUnreadCounts, MessageTypes
  <2>2. ops[o].kind = "count" /\ ops[o].step = "count" BY <1>9 DEF ListUnreadCounts, At
  <2>3. /\ r.step = "friends" /\ r.kind = "count" /\ r.user = u /\ r.about = Unread(u)
        /\ r.missed = ~announced
    BY <1>1, <2>2 DEF Requests
  <2>4. ReadCounts(r) BY <1>1, <2>3 DEF ReadCounts
  <2> HIDE DEF r
  <2>5. GoOn BY <1>0, <2>1, <2>2, <2>4, OneGoesOn
  <2>. QED BY <1>9, <2>5 DEF ListUnreadCounts, Silent, QuietStep
<1>. QED BY <1>2, <1>3, <1>4, <1>5, <1>6, <1>7, <1>8, <1>9

LEMMA RelinkIsSilent == ASSUME MessagesInvariant, NEW c \in Checks, Relink(c) PROVE Silent
<1>0. MessageTypes BY DEF MessagesInvariant
<1>1. linked' \subseteq Checks BY <1>0 DEF Relink, MessageTypes
<1>2. \A o \in Ops : o \notin Busy => ops'[o] = NoOp BY DEF Relink
<1>3. ASSUME NEW o \in Busy
      PROVE  Kept(ops'[o], ops[o]) /\ o \in Busy'
  <2> DEFINE q == [ops[o] EXCEPT !.met = @ \cup linked']
  <2>1. o \in Ops /\ ops[o] \in Requests BY <1>0, OpIs
  <2>2. ops'[o] = q BY <2>1 DEF Relink
  <2>3. /\ q.step = ops[o].step /\ q.kind = ops[o].kind /\ q.user = ops[o].user
        /\ q.about = ops[o].about /\ q.text = ops[o].text /\ q.got = ops[o].got
    BY <1>1, <2>1, SetMet
  <2>4. q.missed = ops[o].missed BY <2>1 DEF Requests
  <2>5. ops'[o] # NoOp BY <2>1, <2>2, SetMet, <1>1, DirectMessagesAssumption
  <2> HIDE DEF q
  <2>. QED BY <2>1, <2>2, <2>3, <2>4, <2>5 DEF Kept, Busy
<1>4. GoOn BY <1>2, <1>3 DEF GoOn, Busy
<1>. QED BY <1>4 DEF Relink, Silent, QuietStep

LEMMA StutterIsSilent == ASSUME UNCHANGED messagesVars PROVE Silent
<1>1. GoOn BY KeptSame DEF messagesVars, GoOn, Busy
<1>. QED BY <1>1 DEF messagesVars, Silent, QuietStep

---------------------------------------------------------------------------
(* What a step leaves true, given what it leaves due.                      *)

LEMMA TwoUsers ==
  /\ \A u, v, w \in Users : u # v /\ w # v => w = u
  /\ \A u \in Users : Other(u) \in Users /\ Other(u) # u
<1>1. PICK a \in Users : TRUE
  <2>1. Users # {} BY FS_EmptySet, DirectMessagesAssumption
  <2>. QED BY <2>1
<1>2. IsFiniteSet(Users \ {a}) /\ Cardinality(Users \ {a}) = 1
  <2>1. IsFiniteSet(Users) /\ Cardinality(Users) = 2 BY DirectMessagesAssumption
  <2>2. IsFiniteSet(Users \ {a}) /\ Cardinality(Users \ {a}) = Cardinality(Users) - 1
    BY <1>1, <2>1, FS_RemoveElement
  <2>. QED BY <2>1, <2>2
<1>3. PICK b \in Users \ {a} : TRUE
  <2>1. Users \ {a} # {} BY <1>2, FS_EmptySet
  <2>. QED BY <2>1
<1>4. IsFiniteSet((Users \ {a}) \ {b}) /\ Cardinality((Users \ {a}) \ {b}) = 0
  BY <1>2, <1>3, FS_RemoveElement
<1>5. (Users \ {a}) \ {b} = {} BY <1>4, FS_EmptySet
<1>6. Users = {a, b} /\ a # b BY <1>1, <1>3, <1>5
<1>7. ASSUME NEW u \in Users PROVE Other(u) \in Users /\ Other(u) # u
  <2>1. \E v \in Users : v # u BY <1>6
  <2>. QED BY <2>1 DEF Other
<1>. QED BY <1>6, <1>7

LEMMA WriterIs ==
  ASSUME MessagesInvariant, NEW m, NEW k, NEW o \in Writers(m, k)
  PROVE  /\ o \in Busy /\ ops[o] \in Requests /\ ops[o].step = "publish"
         /\ m \in Msgs /\ m \in ops[o].about /\ ops[o].kind = k
         /\ k \in {"send", "edit", "delete", "read"}
<1>1. o \in Busy /\ ops[o].step = "publish" /\ m \in ops[o].about /\ ops[o].kind = k BY DEF Writers
<1>2. ops[o] \in Requests /\ Sound(ops[o]) BY <1>1, OpIs DEF MessagesInvariant, RequestsSound
<1>. QED BY <1>1, <1>2, RequestFields DEF Sound, About

LEMMA InboxIs ==
  ASSUME MessagesInvariant, NEW u \in Users
  PROVE  inbox[u] \in Seq(Events) /\ DOMAIN inbox[u] = 1..Len(inbox[u]) /\ Len(inbox[u]) \in Nat
<1>1. inbox[u] \in Seq(Events) BY DEF MessagesInvariant, MessageTypes
<1>. QED BY <1>1

LEMMA QuietDues ==
  ASSUME MessagesInvariant, QuietStep
  PROVE  /\ \A m, k : Writers(m, k)' = Writers(m, k)
         /\ \A u, m, k : Waits(u, m, k)' = Waits(u, m, k)
         /\ \A u, m : Dues(u, m)' = Dues(u, m)
         /\ \A m, k : \A o \in Writers(m, k) : ops'[o].text = ops[o].text
<1>1. ASSUME NEW m, NEW k, NEW o \in Writers(m, k) PROVE o \in Writers(m, k)' /\ ops'[o].text = ops[o].text
  <2>1. o \in Busy /\ ops[o].step = "publish" /\ m \in ops[o].about /\ ops[o].kind = k
        /\ k \in {"send", "edit", "delete", "read"}
    BY WriterIs
  <2>2. o \in Busy' /\ Kept(ops'[o], ops[o]) BY <2>1 DEF QuietStep, GoOn
  <2>3. ops'[o].kind = k /\ ops'[o].about = ops[o].about /\ ops'[o].step = "publish" /\ ops'[o].text = ops[o].text
    BY <2>1, <2>2 DEF Kept
  <2>. QED BY <2>1, <2>2, <2>3 DEF Writers
<1>2. ASSUME NEW m, NEW k, NEW o \in Writers(m, k)' PROVE o \in Writers(m, k)
  <2>1. o \in Busy' /\ ops'[o].step = "publish" /\ m \in ops'[o].about /\ ops'[o].kind = k BY DEF Writers
  <2>2. o \in Busy /\ Kept(ops'[o], ops[o])
    BY <2>1 DEF QuietStep, GoOn, Begins, ReadHistory, ReadCounts
  <2>3. ops[o].step = "publish" /\ ops[o].kind = k BY <2>1, <2>2 DEF Kept
  <2>4. k # "count" BY <2>2, <2>3 DEF MessagesInvariant, RequestsSound, Sound, About
  <2>5. ops'[o].about = ops[o].about BY <2>1, <2>2, <2>4 DEF Kept
  <2>. QED BY <2>1, <2>2, <2>3, <2>5 DEF Writers
<1>3. ASSUME NEW m, NEW k PROVE Writers(m, k)' = Writers(m, k)
  <2>1. Writers(m, k)' \subseteq Writers(m, k) BY <1>2
  <2>2. Writers(m, k) \subseteq Writers(m, k)' BY <1>1
  <2>. QED BY <2>1, <2>2
<1>4. \A u, m, k : Waits(u, m, k)' = Waits(u, m, k) BY DEF QuietStep, Waits
<1>. QED BY <1>1, <1>3, <1>4 DEF Dues

\* What is in order stays so when nothing is written or announced.
LEMMA QuietRequests ==
  ASSUME MessagesInvariant, SaysTrue, GoOn PROVE \A o \in Busy' : RequestTrue(ops'[o])
<1> SUFFICES ASSUME NEW o \in Busy' PROVE RequestTrue(ops'[o]) OBVIOUS
<1>1. CASE o \in Busy /\ Kept(ops'[o], ops[o])
  BY <1>1 DEF Kept, SaysTrue, RequestTrue
<1>2. CASE Begins(ops'[o], hist'.opened) BY <1>2 DEF Begins, RequestTrue
<1>3. CASE ReadHistory(ops'[o]) BY <1>3 DEF ReadHistory, RequestTrue
<1>4. CASE ReadCounts(ops'[o]) BY <1>4 DEF ReadCounts, RequestTrue
<1>. QED BY <1>1, <1>2, <1>3, <1>4 DEF GoOn

LEMMA QuietInOrder == ASSUME MessagesInvariant, InOrder, QuietStep PROVE InOrder'
<1>1. /\ messages' = messages /\ inbox' = inbox /\ hist'.crossed = hist.crossed /\ GoOn
      BY DEF QuietStep
<1>2. /\ \A m, k : Writers(m, k)' = Writers(m, k)
      /\ \A u, m : Dues(u, m)' = Dues(u, m)
      /\ \A m, k : \A o \in Writers(m, k) : ops'[o].text = ops[o].text
  BY QuietDues
<1>3. SaysTrue'
  <2>1. \A o \in Busy' : RequestTrue(ops'[o]) BY <1>1, QuietRequests DEF InOrder
  <2>2. \A u \in Users : \A i \in DOMAIN inbox[u] : EventTrue(inbox[u][i], messages) BY DEF InOrder, SaysTrue
  <2>. QED BY <1>1, <2>1, <2>2 DEF SaysTrue
<1>4. SendsFirst' BY <1>1, <1>2 DEF InOrder, SendsFirst
<1>5. RestFollows' BY <1>1, <1>2 DEF InOrder, RestFollows
<1>6. TextOfWriter' BY <1>1, <1>2 DEF InOrder, TextOfWriter
<1>7. TextOfLast' BY <1>1, <1>2 DEF InOrder, TextOfLast
<1>. QED BY <1>3, <1>4, <1>5, <1>6, <1>7 DEF InOrder

\* What follows the table still does, for all but the users in X.
Keeps(u) ==
  \A m \in Msgs \ hist'.crossed : \A s : \A own \in BOOLEAN :
    Tracked(s, messages[m], Dues(u, m), own, m \in Newest)
      => Tracked(s, messages'[m], Dues(u, m)', own, m \in Newest')

LEMMA KeepsTrack ==
  ASSUME NEW u \in Users, Keeps(u), hist.crossed \subseteq hist'.crossed, NEW rows, Tracks(u, rows),
         NEW m \in Msgs \ hist'.crossed
  PROVE  Tracked(rows[m], messages'[m], Dues(u, m)', From[m] = u, m \in Newest')
<1>1. Tracked(rows[m], messages[m], Dues(u, m), From[m] = u, m \in Newest) BY DEF Tracks
<1>. QED BY <1>1 DEF Keeps

LEMMA StillTracks ==
  ASSUME PanelsTrack, AnswersTrack, hist.crossed \subseteq hist'.crossed,
         \A u \in Users : panel'[u] = "open" /\ u \notin hist'.raced =>
           \/ u \notin hist.raced /\ panel[u] = "open" /\ view'[u] = view[u] /\ Keeps(u)
           \/ Tracks(u, view[u])',
         \A o \in Busy' : \A u \in Users : Showing(ops'[o]) /\ ops'[o].user = u =>
           \/ /\ o \in Busy /\ Showing(ops[o]) /\ ops[o].user = u /\ ops'[o].got = ops[o].got
              /\ Keeps(u)
           \/ Tracks(u, Shown(u, ops[o].got))'
  PROVE  PanelsTrack' /\ AnswersTrack'
<1>1. ASSUME NEW u \in Users \ hist'.raced, panel'[u] = "open" PROVE Tracks(u, view[u])'
  <2>1. CASE u \notin hist.raced /\ panel[u] = "open" /\ view'[u] = view[u] /\ Keeps(u)
    <3>1. Tracks(u, view[u]) BY <2>1 DEF PanelsTrack
    <3>2. \A m \in Msgs \ hist'.crossed :
            Tracked(view[u][m], messages'[m], Dues(u, m)', From[m] = u, m \in Newest')
      BY <2>1, <3>1, KeepsTrack
    <3>. QED BY <2>1, <3>2 DEF Tracks
  <2>. QED BY <1>1, <2>1
<1>2. ASSUME NEW o \in Busy', NEW u \in Users, Showing(ops'[o]), ops'[o].user = u
      PROVE  Tracks(u, Shown(u, ops[o].got))'
  <2>1. CASE /\ o \in Busy /\ Showing(ops[o]) /\ ops[o].user = u /\ ops'[o].got = ops[o].got
             /\ Keeps(u)
    <3> DEFINE rows == Shown(u, ops[o].got)
    <3>1. Tracks(u, rows) BY <2>1 DEF AnswersTrack
    <3>2. \A m \in Msgs \ hist'.crossed : Tracked(rows[m], messages'[m], Dues(u, m)', From[m] = u, m \in Newest')
      BY <2>1, <3>1, KeepsTrack
    <3>3. Shown(u, ops'[o].got) = rows BY <2>1
    <3> HIDE DEF rows
    <3>. QED BY <3>2, <3>3 DEF Tracks
  <2>. QED BY <1>2, <2>1
<1>. QED BY <1>1, <1>2 DEF PanelsTrack, AnswersTrack

LEMMA QuietKeeps == ASSUME MessagesInvariant, QuietStep PROVE \A u : Keeps(u)
<1>1. messages' = messages /\ later' = later /\ hist'.crossed = hist.crossed BY DEF QuietStep
<1>2. Newest' = Newest BY <1>1 DEF Newest
<1>. QED BY <1>1, <1>2, QuietDues DEF Keeps

\* A history that was just read shows the table.
LEMMA HistoryTracks ==
  ASSUME MessagesInvariant, NEW u \in Users PROVE Tracks(u, Shown(u, Page))
<1> SUFFICES ASSUME NEW m \in Msgs
             PROVE  Tracked(Shown(u, Page)[m], messages[m], Dues(u, m), From[m] = u, m \in Newest)
  BY DEF Tracks
<1>0. MessageTypes BY DEF MessagesInvariant
<1>7. CASE m \notin Newest
  <2>1. Page[m] = NoRow BY <1>0, <1>7, PageIs
  <2>2. Shown(u, Page)[m] = NoRow BY <2>1 DEF Shown, Render, NoRow
  <2>. QED BY <1>7, <2>2 DEF Tracked, Absent, NoRow
<1> SUFFICES ASSUME m \in Newest PROVE Follows(Shown(u, Page)[m], messages[m], Dues(u, m), From[m] = u)
  BY <1>7 DEF Tracked
<1>8. Page[m] = messages[m] BY <1>0, PageIs
<1> DEFINE r == messages[m]
           s == Render(u, m, r)
<1>1. r \in Rows /\ (r.text = 0 => r = NoRow) BY DEF MessagesInvariant, MessageTypes, RowsMarked
<1>2. s.text = r.text /\ s.deleted = r.deleted /\ (s.read <=> r.read /\ From[m] = u)
  <2>1. CASE r.text = 0
    <3>1. s = NoRow /\ r = NoRow BY <1>1, <2>1 DEF Render
    <3>. QED BY <3>1 DEF NoRow
  <2>2. CASE r.text # 0
    <3> DEFINE b == r.read /\ From[m] = u
    <3>1. b \in BOOLEAN /\ (b <=> r.read /\ From[m] = u) OBVIOUS
    <3>2. s = [r EXCEPT !.read = b] BY <2>2 DEF Render
    <3> HIDE DEF b, s, r
    <3>3. s.text = r.text /\ s.deleted = r.deleted /\ s.read = b BY <1>1, <3>2 DEF Rows
    <3>. QED BY <3>1, <3>3
  <2>. QED BY <2>1, <2>2
<1>3. r.text = 0 => ~r.deleted /\ ~r.read BY <1>1 DEF NoRow
<1>4. Shown(u, Page)[m] = s BY <1>8 DEF Shown
<1>5. r.read \in BOOLEAN /\ r.deleted \in BOOLEAN BY <1>1 DEF Rows
<1> HIDE DEF r, s
<1>6. Follows(s, r, Dues(u, m), From[m] = u) BY <1>2, <1>3, <1>5 DEF Follows
<1>. QED BY <1>4, <1>6 DEF r

LEMMA QuietAnswers ==
  ASSUME MessagesInvariant, MessagesInvariant', QuietStep,
         NEW o \in Busy', NEW u \in Users, Showing(ops'[o]), ops'[o].user = u
  PROVE  \/ /\ o \in Busy /\ Showing(ops[o]) /\ ops[o].user = u /\ ops'[o].got = ops[o].got
            /\ Keeps(u)
         \/ Tracks(u, Shown(u, ops[o].got))'
<1>1. CASE o \in Busy /\ Kept(ops'[o], ops[o])
  <2>1. Showing(ops[o]) /\ ops[o].user = u /\ ops'[o].got = ops[o].got
    BY <1>1 DEF Showing, Kept
  <2>. QED BY <1>1, <2>1, QuietKeeps
<1>2. CASE ReadHistory(ops'[o])
  <2> DEFINE rows == Shown(u, Page)
  <2>1. Shown(u, ops'[o].got) = rows BY <1>2 DEF ReadHistory
  <2>2. Tracks(u, rows) /\ Keeps(u) /\ hist.crossed \subseteq hist'.crossed
    BY HistoryTracks, QuietKeeps DEF QuietStep
  <2> HIDE DEF rows
  <2>3. \A m \in Msgs \ hist'.crossed : Tracked(rows[m], messages'[m], Dues(u, m)', From[m] = u, m \in Newest')
    BY <2>2, KeepsTrack
  <2>. QED BY <2>1, <2>3 DEF Tracks
<1>3. ~Begins(ops'[o], hist'.opened) /\ ~ReadCounts(ops'[o]) BY DEF Showing, Begins, ReadCounts
<1>. QED BY <1>1, <1>2, <1>3 DEF QuietStep, GoOn

PanelInvariant == InOrder /\ PanelsTrack /\ AnswersTrack

LEMMA QuietPanels ==
  ASSUME MessagesInvariant, MessagesInvariant', PanelInvariant, QuietStep,
         \A u \in Users : panel'[u] = "open" /\ u \notin hist'.raced =>
           \/ u \notin hist.raced /\ panel[u] = "open" /\ view'[u] = view[u]
           \/ Tracks(u, view[u])'
  PROVE  PanelInvariant'
<1>1. InOrder' BY QuietInOrder DEF PanelInvariant
<1>2. hist.crossed \subseteq hist'.crossed BY DEF QuietStep
<1>3. \A u \in Users : panel'[u] = "open" /\ u \notin hist'.raced =>
        \/ u \notin hist.raced /\ panel[u] = "open" /\ view'[u] = view[u] /\ Keeps(u)
        \/ Tracks(u, view[u])'
  BY QuietKeeps
<1>4. \A o \in Busy' : \A u \in Users : Showing(ops'[o]) /\ ops'[o].user = u =>
        \/ /\ o \in Busy /\ Showing(ops[o]) /\ ops[o].user = u /\ ops'[o].got = ops[o].got
           /\ Keeps(u)
        \/ Tracks(u, Shown(u, ops[o].got))'
  BY QuietAnswers
<1>5. PanelsTrack' /\ AnswersTrack' BY <1>2, <1>3, <1>4, StillTracks DEF PanelInvariant
<1>. QED BY <1>1, <1>5 DEF PanelInvariant

LEMMA SilentPanels ==
  ASSUME MessagesInvariant, MessagesInvariant', PanelInvariant, Silent PROVE PanelInvariant'
  BY QuietPanels DEF Silent

LEMMA HidesIsQuiet ==
  ASSUME MessagesInvariant, NEW u \in Users, Hide(u)
  PROVE  QuietStep /\ UNCHANGED <<view, left, unread, hist>> /\ \A v \in Users : panel'[v] = IF v = u THEN "hidden" ELSE panel[v]
<1>1. UNCHANGED <<messages, later, ops, inbox, view, left, unread, hist>> BY DEF Hide
<1>2. GoOn BY <1>1, KeptSame DEF GoOn, Busy
<1>3. panel' = [panel EXCEPT ![u] = "hidden"] BY DEF Hide
<1>. QED BY <1>1, <1>2, <1>3 DEF QuietStep, MessagesInvariant, MessageTypes

LEMMA HidesPanel ==
  ASSUME MessagesInvariant, MessagesInvariant', PanelInvariant, NEW u \in Users, Hide(u) PROVE PanelInvariant'
  BY HidesIsQuiet, QuietPanels

LEMMA HistIs ==
  ASSUME MessageTypes
  PROVE  \A S, T, R, x, E :
           /\ [hist EXCEPT !.doubt = S].crossed = hist.crossed
           /\ [hist EXCEPT !.doubt = S].raced = hist.raced
           /\ [hist EXCEPT !.doubt = S].opened = hist.opened
           /\ [hist EXCEPT !.doubt = S].doubt = S
           /\ [hist EXCEPT !.doubt = S].early = hist.early
           /\ [hist EXCEPT !.opened = T, !.early[x] = E, !.raced = R].crossed = hist.crossed
           /\ [hist EXCEPT !.opened = T, !.early[x] = E, !.raced = R].opened = T
           /\ [hist EXCEPT !.opened = T, !.early[x] = E, !.raced = R].raced = R
           /\ [hist EXCEPT !.opened = T, !.early[x] = E, !.raced = R].doubt = hist.doubt
           /\ [hist EXCEPT !.opened = T, !.early[x] = E, !.raced = R].early = [hist.early EXCEPT ![x] = E]
           /\ [hist EXCEPT !.raced = R, !.doubt = S].crossed = hist.crossed
           /\ [hist EXCEPT !.raced = R, !.doubt = S].opened = hist.opened
           /\ [hist EXCEPT !.raced = R, !.doubt = S].raced = R
           /\ [hist EXCEPT !.raced = R, !.doubt = S].doubt = S
           /\ [hist EXCEPT !.raced = R, !.doubt = S].early = hist.early
<1>1. PICK a, b, c, d, g, e, f :
        hist = [raced |-> a, opened |-> b, doubt |-> c, crossed |-> d, early |-> g, deleted |-> e, read |-> f]
  BY DEF MessageTypes
<1>. QED BY <1>1

LEMMA ShowsIsQuiet ==
  ASSUME MessagesInvariant, NEW o \in Ops, ShowUnreadCounts(o)
  PROVE  /\ QuietStep /\ UNCHANGED <<view, left, panel>> /\ o \in Busy /\ ops[o].user \in Users
         /\ ops[o].kind = "count" /\ ops[o].step = "show"
         /\ hist'.raced = hist.raced /\ hist'.opened = hist.opened /\ hist'.early = hist.early
         /\ hist'.doubt = IF ops[o].missed THEN hist.doubt \cup {ops[o].user} ELSE hist.doubt \ {ops[o].user}
         /\ \A v \in Users : unread'[v] = IF v = ops[o].user THEN Cardinality(ops[o].about) ELSE unread[v]
<1>1. o \in Busy /\ ops[o].kind = "count" /\ ops[o].step = "show" BY DEF ShowUnreadCounts, At
<1>2. End(o) /\ UNCHANGED <<messages, later, inbox, view, left, panel>> BY DEF ShowUnreadCounts
<1>3. MessageTypes /\ GoOn BY <1>1, <1>2, EndGoesOn DEF MessagesInvariant
<1>4. ops[o].user \in Users BY <1>1, <1>3, OpIs, RequestFields
<1>5. hist' = [hist EXCEPT !.doubt = IF ops[o].missed THEN hist.doubt \cup {ops[o].user} ELSE hist.doubt \ {ops[o].user}]
  BY DEF ShowUnreadCounts
<1>6. /\ hist'.crossed = hist.crossed /\ hist'.raced = hist.raced /\ hist'.opened = hist.opened /\ hist'.early = hist.early
      /\ hist'.doubt = IF ops[o].missed THEN hist.doubt \cup {ops[o].user} ELSE hist.doubt \ {ops[o].user}
  BY <1>3, <1>5, HistIs
<1>7. unread' = [unread EXCEPT ![ops[o].user] = Cardinality(ops[o].about)] BY DEF ShowUnreadCounts
<1>8. \A v \in Users : unread'[v] = IF v = ops[o].user THEN Cardinality(ops[o].about) ELSE unread[v]
  BY <1>3, <1>7 DEF MessageTypes
<1>. QED BY <1>1, <1>2, <1>3, <1>4, <1>6, <1>8 DEF QuietStep

LEMMA ShowsPanel ==
  ASSUME MessagesInvariant, MessagesInvariant', PanelInvariant, NEW o \in Ops, ShowUnreadCounts(o) PROVE PanelInvariant'
  BY ShowsIsQuiet, QuietPanels

LEMMA OpensIsQuiet ==
  ASSUME MessagesInvariant, NEW o \in Ops, OpenPanel(o)
  PROVE  LET u == ops[o].user
         IN  /\ QuietStep /\ o \in Busy /\ u \in Users /\ ops[o].kind = "history" /\ ops[o].step = "show"
             /\ hist'.opened = hist.opened \cup {u} /\ hist'.doubt = hist.doubt
             /\ hist'.raced = IF ops[o].missed THEN hist.raced \cup {u} ELSE hist.raced \ {u}
             /\ \A v \in Users : /\ view'[v] = IF v = u THEN Shown(u, ops[o].got) ELSE view[v]
                                 /\ v # u => (panel'[v] = panel[v] /\ unread'[v] = unread[v])
<1> DEFINE u == ops[o].user
           r == Request(u, "read", {}, 0)
<1>1. o \in Busy /\ ops[o].kind = "history" /\ ops[o].step = "show" BY DEF OpenPanel, At
<1>2. MessageTypes BY DEF MessagesInvariant
<1>3. u \in Users BY <1>1, <1>2, OpIs, RequestFields
<1>4. ops' = [ops EXCEPT ![o] = r] BY DEF OpenPanel
<1>5. r.kind = "read" /\ r.user = u /\ r.about = {} /\ r.step = "friends" BY DEF Request
<1>6. hist' = [hist EXCEPT !.opened = hist.opened \cup {u},
                 !.early[u] = {m \in Msgs : ops[o].got[m].text # 0 /\ SendDue(u, m)},
                 !.raced = IF ops[o].missed THEN hist.raced \cup {u} ELSE hist.raced \ {u}]
  BY DEF OpenPanel
<1>7. /\ hist'.crossed = hist.crossed /\ hist'.opened = hist.opened \cup {u} /\ hist'.doubt = hist.doubt
      /\ hist'.raced = IF ops[o].missed THEN hist.raced \cup {u} ELSE hist.raced \ {u}
  BY <1>2, <1>6, HistIs
<1>8. view' = [view EXCEPT ![u] = Shown(u, ops[o].got)] /\ panel' = [panel EXCEPT ![u] = "open"]
      /\ unread' = [unread EXCEPT ![u] = 0] /\ UNCHANGED <<messages, later, inbox>>
  BY DEF OpenPanel
<1> HIDE DEF r, u
<1>9. Begins(r, hist'.opened) BY <1>3, <1>5, <1>7 DEF Begins
<1>10. GoOn BY <1>1, <1>2, <1>4, <1>9, OneGoesOn
<1>11. \A v \in Users : /\ view'[v] = IF v = u THEN Shown(u, ops[o].got) ELSE view[v]
                        /\ v # u => (panel'[v] = panel[v] /\ unread'[v] = unread[v])
  BY <1>2, <1>3, <1>8 DEF MessageTypes
<1>12. QuietStep BY <1>7, <1>8, <1>10 DEF QuietStep
<1>. QED BY <1>1, <1>3, <1>7, <1>11, <1>12 DEF u

\* Which messages were early is decided anew, and no element is left over.
LEMMA OpensAnew ==
  ASSUME MessagesInvariant, NEW o \in Ops, OpenPanel(o), NEW u \in Users, u = ops[o].user
  PROVE  /\ hist'.early[u] = {m \in Msgs : ops[o].got[m].text # 0 /\ SendDue(u, m)}
         /\ \A m \in Msgs : left'[u][m] = {}
         /\ \A v \in Users \ {u} : left'[v] = left[v] /\ hist'.early[v] = hist.early[v]
<1> DEFINE E == {m \in Msgs : ops[o].got[m].text # 0 /\ SendDue(u, m)}
<1>1. MessageTypes BY DEF MessagesInvariant
<1>2. PICK S, R : hist' = [hist EXCEPT !.opened = S, !.early[u] = E, !.raced = R] BY DEF OpenPanel
<1>3. left' = [left EXCEPT ![u] = [m \in Msgs |-> {}]] BY DEF OpenPanel
<1>4. left \in [Users -> [Msgs -> SUBSET Rows]] /\ hist.early \in [Users -> SUBSET Msgs]
  BY <1>1, LeftSaved DEF LeftElements, MessageTypes
<1> HIDE DEF E
<1>5. hist'.early = [hist.early EXCEPT ![u] = E] BY <1>1, <1>2, HistIs
<1>6. hist'.early[u] = E BY <1>4, <1>5
<1>. QED BY <1>3, <1>4, <1>5, <1>6 DEF E

LEMMA OpensTracking ==
  ASSUME MessagesInvariant, MessagesInvariant', PanelInvariant, NEW o \in Ops, OpenPanel(o) PROVE PanelInvariant'
<1>0. PICK u \in Users : u = ops[o].user BY OpensIsQuiet
<1>01. PICK rows : rows = Shown(u, ops[o].got) OBVIOUS
<1>1. /\ QuietStep /\ o \in Busy /\ ops[o].kind = "history" /\ ops[o].step = "show"
      /\ hist'.raced = IF ops[o].missed THEN hist.raced \cup {u} ELSE hist.raced \ {u}
      /\ \A v \in Users : /\ view'[v] = IF v = u THEN rows ELSE view[v]
                          /\ v # u => panel'[v] = panel[v]
  BY <1>0, <1>01, OpensIsQuiet
<1>2. ASSUME u \notin hist'.raced PROVE Tracks(u, view[u])'
  <2>1. Showing(ops[o]) /\ ops[o].user = u BY <1>0, <1>1, <1>2 DEF Showing
  <2>2. Tracks(u, rows) BY <1>0, <1>01, <1>1, <2>1 DEF PanelInvariant, AnswersTrack
  <2>3. Keeps(u) /\ hist.crossed \subseteq hist'.crossed BY <1>1, QuietKeeps DEF QuietStep
  <2>4. \A m \in Msgs \ hist'.crossed : Tracked(rows[m], messages'[m], Dues(u, m)', From[m] = u, m \in Newest')
    BY <1>1, <2>2, <2>3, KeepsTrack
  <2>5. view'[u] = rows BY <1>1
  <2>. QED BY <2>4, <2>5 DEF Tracks
<1>3. ASSUME NEW v \in Users, panel'[v] = "open", v \notin hist'.raced
      PROVE  \/ v \notin hist.raced /\ panel[v] = "open" /\ view'[v] = view[v]
             \/ Tracks(v, view[v])'
  <2>1. CASE v = u BY <1>2, <1>3, <2>1
  <2>2. CASE v # u BY <1>1, <1>3, <2>2
  <2>. QED BY <2>1, <2>2
<1>. QED BY <1>1, <1>3, QuietPanels

---------------------------------------------------------------------------
(* A statement writes: the event is due to both users.                     *)

RowWritten(k, t, old, new) ==
  /\ k = "send" => (old = NoRow /\ t = 1 /\ new.text = t /\ ~new.deleted /\ ~new.read)
  /\ k = "edit" => (old.text # 0 /\ t # 0 /\ new.text = t /\ new.deleted = old.deleted /\ new.read = old.read)
  /\ k = "delete" => (old.text # 0 /\ ~old.deleted /\ new.text = old.text /\ new.deleted /\ new.read = old.read)
  /\ k = "read" => (old.text # 0 /\ new.text = old.text /\ new.deleted = old.deleted /\ new.read)

Wrote(o, S, k) ==
  /\ o \in Busy /\ ops[o].step = "write" /\ ops[o].kind = k /\ k \in {"send", "edit", "delete", "read"}
  /\ S \subseteq Msgs
  /\ k = "read" => \A m \in S : From[m] # ops[o].user
  /\ k = "send" => \A p \in Busy \ {o} : S \cap ops[p].about = {}
  /\ o \in Busy' /\ ops'[o].step = "publish" /\ ops'[o].kind = k /\ ops'[o].about = S
  /\ ops'[o].text = ops[o].text /\ ops'[o].user = ops[o].user
  /\ \A p \in Ops \ {o} : ops'[p] = ops[p]
  /\ UNCHANGED <<inbox, panel, view, left, unread, hist>>
  /\ \A m \in Msgs \ S : messages'[m] = messages[m]
  /\ \A m \in S : RowWritten(k, ops[o].text, messages[m], messages'[m])
  /\ \A m \in Msgs : later'[m] \subseteq Msgs /\ later[m] \subseteq later'[m]

\* Save, EditMessage and DeleteMessage.
LEMMA WrittenIs ==
  ASSUME MessagesInvariant, NEW o \in Busy, NEW m, m = Msg(o), NEW r, Written(o, r),
         ops[o].kind \in {"send", "edit", "delete"}, ops[o].step = "write",
         RowWritten(ops[o].kind, ops[o].text, messages[m], r),
         \A n \in Msgs : later'[n] \subseteq Msgs /\ later[n] \subseteq later'[n]
  PROVE  Wrote(o, {m}, ops[o].kind)
<1>0. MessageTypes BY DEF MessagesInvariant
<1> DEFINE q == [ops[o] EXCEPT !.step = "publish"]
<1>1. o \in Ops /\ ops[o] \in Requests BY <1>0, OpIs
<1>2. m \in Msgs /\ ops[o].about = {m} BY MsgIs
<1>q. q = [ops[o] EXCEPT !.step = "publish"] OBVIOUS
<1>4. ops' = [ops EXCEPT ![o] = q] BY DEF Written, Goto
<1>5. messages' = [messages EXCEPT ![m] = r] BY DEF Written
<1> HIDE DEF q
<1>3. /\ q \in Requests /\ q.step = "publish" /\ q.kind = ops[o].kind /\ q.user = ops[o].user
      /\ q.about = {m} /\ q.text = ops[o].text
  BY <1>1, <1>2, <1>q, SetStep
<1>6. \A p \in Ops : ops'[p] = IF p = o THEN q ELSE ops[p] BY <1>0, <1>4 DEF MessageTypes
<1>7. o \in Busy' BY <1>1, <1>3, <1>6, DirectMessagesAssumption DEF Busy
<1>8. messages'[m] = r /\ \A n \in Msgs \ {m} : messages'[n] = messages[n]
  BY <1>0, <1>2, <1>5 DEF MessageTypes
<1>9. ASSUME ops[o].kind = "send", NEW p \in Busy \ {o} PROVE {m} \cap ops[p].about = {}
  <2>1. Apart(ops[o], ops[p]) BY DEF MessagesInvariant, RequestsSound
  <2>. QED BY <1>2, <1>9, <2>1 DEF Apart, Sending
<1>10. UNCHANGED <<inbox, panel, view, left, unread, hist>> BY DEF Written
<1>. QED BY <1>1, <1>2, <1>3, <1>6, <1>7, <1>8, <1>9, <1>10 DEF Wrote

LEMMA SaveWrites == ASSUME MessagesInvariant, SaysTrue, NEW o \in Ops, Save(o) PROVE \E S, k : Wrote(o, S, k)
<1> DEFINE m == Msg(o)
           r == [NoRow EXCEPT !.text = 1]
<1>1. o \in Busy /\ ops[o].kind = "send" /\ ops[o].step = "write" /\ Written(o, r) BY DEF Save, At
<1>2. m \in Msgs /\ ops[o].about = {m} BY <1>1, MsgIs
<1>3. ~Saved(m)
  BY <1>1, <1>2 DEF MessagesInvariant, RequestsSound, Sound, About, Sending
<1>4. messages[m] = NoRow BY <1>2, <1>3 DEF MessagesInvariant, RowsMarked, Saved
<1>5. ops[o].text = 1 BY <1>1 DEF SaysTrue, RequestTrue
<1>6. r.text = 1 /\ ~r.deleted /\ ~r.read BY DEF NoRow
<1>10. \A n \in Msgs : later'[n] \subseteq Msgs /\ later[n] \subseteq later'[n]
  BY <1>2 DEF Save, MessagesInvariant, MessageTypes
<1> HIDE DEF r, m
<1>7. RowWritten(ops[o].kind, ops[o].text, messages[m], r) BY <1>1, <1>4, <1>5, <1>6 DEF RowWritten
<1>8. m = Msg(o) BY DEF m
<1>9. Wrote(o, {m}, ops[o].kind) BY <1>1, <1>7, <1>8, <1>10, WrittenIs
<1>. QED BY <1>9

LEMMA EditWrites == ASSUME MessagesInvariant, NEW o \in Ops, EditMessage(o) PROVE \E S, k : Wrote(o, S, k)
<1> DEFINE m == Msg(o)
           r == [messages[m] EXCEPT !.text = ops[o].text]
<1>1. o \in Busy /\ ops[o].kind = "edit" /\ ops[o].step = "write" /\ Written(o, r) BY DEF EditMessage, At
<1>2. m \in Msgs /\ ops[o].about = {m} BY <1>1, MsgIs
<1>3. Saved(m)
  BY <1>1, <1>2 DEF MessagesInvariant, RequestsSound, Sound, About, Sending
<1>4. messages[m] \in Rows BY <1>2 DEF MessagesInvariant, MessageTypes
<1>5. ops[o].text # 0
  BY <1>1, DirectMessagesAssumption DEF MessagesInvariant, RequestsSound, Sound, About
<1>6. r.text = ops[o].text /\ r.deleted = messages[m].deleted /\ r.read = messages[m].read BY <1>4 DEF Rows
<1>10. \A n \in Msgs : later'[n] \subseteq Msgs /\ later[n] \subseteq later'[n]
  BY DEF EditMessage, MessagesInvariant, MessageTypes
<1> HIDE DEF r, m
<1>7. RowWritten(ops[o].kind, ops[o].text, messages[m], r) BY <1>1, <1>3, <1>5, <1>6 DEF RowWritten, Saved
<1>8. m = Msg(o) BY DEF m
<1>9. Wrote(o, {m}, ops[o].kind) BY <1>1, <1>7, <1>8, <1>10, WrittenIs
<1>. QED BY <1>9

LEMMA DeleteWrites == ASSUME MessagesInvariant, NEW o \in Ops, DeleteMessage(o) PROVE \E S, k : Wrote(o, S, k)
<1> DEFINE m == Msg(o)
           r == [messages[m] EXCEPT !.deleted = TRUE]
<1>1. o \in Busy /\ ops[o].kind = "delete" /\ ops[o].step = "write" /\ Written(o, r) /\ ~messages[m].deleted
  BY DEF DeleteMessage, At, NotDeleted
<1>2. m \in Msgs /\ ops[o].about = {m} BY <1>1, MsgIs
<1>3. Saved(m)
  BY <1>1, <1>2 DEF MessagesInvariant, RequestsSound, Sound, About, Sending
<1>4. messages[m] \in Rows BY <1>2 DEF MessagesInvariant, MessageTypes
<1>6. r.text = messages[m].text /\ r.deleted = TRUE /\ r.read = messages[m].read BY <1>4 DEF Rows
<1>10. \A n \in Msgs : later'[n] \subseteq Msgs /\ later[n] \subseteq later'[n]
  BY DEF DeleteMessage, MessagesInvariant, MessageTypes
<1> HIDE DEF r, m
<1>7. RowWritten(ops[o].kind, ops[o].text, messages[m], r) BY <1>1, <1>3, <1>6 DEF RowWritten, Saved
<1>8. m = Msg(o) BY DEF m
<1>9. Wrote(o, {m}, ops[o].kind) BY <1>1, <1>7, <1>8, <1>10, WrittenIs
<1>. QED BY <1>9

LEMMA ReadWrites ==
  ASSUME MessagesInvariant, NEW o \in Ops, MarkConversationRead(o), Unread(ops[o].user) # {}
  PROVE  \E S, k : Wrote(o, S, k)
<1> DEFINE ids == Unread(ops[o].user)
           q == [ops[o] EXCEPT !.step = "publish", !.about = ids]
<1>0. MessageTypes BY DEF MessagesInvariant
<1>1. o \in Busy /\ ops[o].kind = "read" /\ ops[o].step = "write" BY DEF MarkConversationRead, At
<1>2. o \in Ops /\ ops[o] \in Requests /\ ops[o].user \in Users BY <1>0, <1>1, OpIs, RequestFields
<1>3. ids \subseteq Msgs /\ \A m \in ids : Saved(m) BY UnreadSaved
<1>4. \A m \in ids : From[m] # ops[o].user BY <1>2, TwoUsers DEF Unread, Mine
<1>5. /\ q \in Requests /\ q.step = "publish" /\ q.kind = "read" /\ q.about = ids
      /\ q.text = ops[o].text /\ q.user = ops[o].user
  BY <1>1, <1>2, <1>3 DEF Requests
<1>6. ops' = [ops EXCEPT ![o] = q] BY <1>0, <1>2 DEF MarkConversationRead, MessageTypes
<1>7. \A m \in Msgs : messages'[m] = IF m \in ids THEN [messages[m] EXCEPT !.read = TRUE] ELSE messages[m]
  BY DEF MarkConversationRead
<1>8. UNCHANGED <<inbox, panel, view, left, unread, hist>> BY DEF MarkConversationRead
<1>13. \A n \in Msgs : later'[n] \subseteq Msgs /\ later[n] \subseteq later'[n]
  BY <1>0 DEF MarkConversationRead, MessageTypes
<1> HIDE DEF ids, q
<1>9. \A p \in Ops : ops'[p] = IF p = o THEN q ELSE ops[p] BY <1>0, <1>6 DEF MessageTypes
<1>10. o \in Busy' BY <1>2, <1>5, <1>9, DirectMessagesAssumption DEF Busy
<1>11. ASSUME NEW m \in ids PROVE RowWritten("read", ops[o].text, messages[m], messages'[m])
  <2>1. messages[m] \in Rows /\ m \in Msgs BY <1>0, <1>3 DEF MessageTypes
  <2>2. messages'[m] = [messages[m] EXCEPT !.read = TRUE] BY <1>7, <2>1
  <2>3. messages'[m].text = messages[m].text /\ messages'[m].deleted = messages[m].deleted /\ messages'[m].read = TRUE
    BY <2>1, <2>2 DEF Rows
  <2>4. messages[m].text # 0 BY <1>3 DEF Saved
  <2>. QED BY <2>3, <2>4 DEF RowWritten
<1>12. Wrote(o, ids, "read") BY <1>1, <1>2, <1>3, <1>4, <1>5, <1>7, <1>8, <1>9, <1>10, <1>11, <1>13 DEF Wrote
<1>. QED BY <1>12

LEMMA WroteDues ==
  ASSUME MessagesInvariant, NEW o, NEW S, NEW k, Wrote(o, S, k)
  PROVE  /\ \A m, j : Writers(m, j)' = IF m \in S /\ j = k THEN Writers(m, j) \cup {o} ELSE Writers(m, j)
         /\ \A m, j : \A p \in Writers(m, j) : p # o /\ ops'[p] = ops[p]
         /\ \A u, m, j : Waits(u, m, j)' = Waits(u, m, j)
         /\ \A u, m : Dues(u, m)' = IF m \in S THEN Dues(u, m) \cup {k} ELSE Dues(u, m)
<1>1. /\ o \in Busy /\ ops[o].step = "write" /\ k \in {"send", "edit", "delete", "read"}
      /\ o \in Busy' /\ ops'[o].step = "publish" /\ ops'[o].kind = k /\ ops'[o].about = S
      /\ \A p \in Ops \ {o} : ops'[p] = ops[p]
      /\ inbox' = inbox
  BY DEF Wrote
<1>2. ASSUME NEW m, NEW j, NEW p \in Writers(m, j) PROVE p # o /\ ops'[p] = ops[p]
  BY <1>1 DEF Writers, Busy
<1>3. ASSUME NEW m, NEW j
      PROVE  Writers(m, j)' = IF m \in S /\ j = k THEN Writers(m, j) \cup {o} ELSE Writers(m, j)
  <2>1. ASSUME NEW p PROVE p \in Writers(m, j)' <=> (p \in Writers(m, j) \/ (p = o /\ m \in S /\ j = k))
    <3>1. CASE p = o BY <1>1, <3>1 DEF Writers
    <3>2. CASE p # o BY <1>1, <3>2 DEF Writers, Busy
    <3>. QED BY <3>1, <3>2
  <2>. QED BY <2>1
<1>4. \A u, m, j : Waits(u, m, j)' = Waits(u, m, j) BY <1>1 DEF Waits
<1>5. ASSUME NEW u, NEW m PROVE Dues(u, m)' = IF m \in S THEN Dues(u, m) \cup {k} ELSE Dues(u, m)
  <2>1. ASSUME NEW j
        PROVE  j \in Dues(u, m)' <=> (j \in Dues(u, m) \/ (m \in S /\ j = k))
    <3>1. Writers(m, j)' # {} <=> (Writers(m, j) # {} \/ (m \in S /\ j = k)) BY <1>3
    <3>. QED BY <1>1, <1>4, <3>1 DEF Dues
  <2>. QED BY <2>1
<1>. QED BY <1>2, <1>3, <1>4, <1>5

LEMMA FollowsWrite ==
  ASSUME NEW s, NEW r, NEW new, NEW due, NEW own, NEW k, NEW t, Follows(s, r, due, own), RowWritten(k, t, r, new),
         k \in {"send", "edit", "delete", "read"}
  PROVE  Follows(s, new, due \cup {k}, own)
<1>1. NoRow.text = 0 /\ ~NoRow.deleted /\ ~NoRow.read BY DEF NoRow
<1>2. CASE k = "send" BY <1>1, <1>2 DEF Follows, RowWritten
<1>3. CASE k = "edit" BY <1>3 DEF Follows, RowWritten
<1>4. CASE k = "delete" BY <1>4 DEF Follows, RowWritten
<1>5. CASE k = "read" BY <1>5 DEF Follows, RowWritten
<1>. QED BY <1>2, <1>3, <1>4, <1>5

\* The page only goes on.
LEMMA PageGoesOn ==
  ASSUME NEW m \in Msgs, later'[m] \subseteq Msgs, later[m] \subseteq later'[m], m \in Newest' PROVE m \in Newest
<1>1. IsFiniteSet(later'[m]) BY FS_Subset, DirectMessagesAssumption
<1>2. /\ IsFiniteSet(later[m]) /\ Cardinality(later[m]) <= Cardinality(later'[m])
  BY <1>1, FS_Subset
<1>3. Cardinality(later[m]) \in Nat /\ Cardinality(later'[m]) \in Nat BY <1>1, <1>2, FS_CardinalityType
<1>4. Cardinality(later'[m]) < PageSize /\ PageSize \in Nat BY DirectMessagesAssumption DEF Newest
<1>5. Cardinality(later[m]) < PageSize BY <1>2, <1>3, <1>4
<1>. QED BY <1>5 DEF Newest

LEMMA WroteKeeps ==
  ASSUME MessagesInvariant, NEW o, NEW S, NEW k, Wrote(o, S, k), NEW u PROVE Keeps(u)
<1>0. ASSUME NEW m \in Msgs, m \in Newest' PROVE m \in Newest BY <1>0, PageGoesOn DEF Wrote
<1> SUFFICES ASSUME NEW m \in Msgs, NEW s, NEW own \in BOOLEAN, Follows(s, messages[m], Dues(u, m), own)
             PROVE  Follows(s, messages'[m], Dues(u, m)', own)
  BY <1>0 DEF Keeps, Tracked
<1>1. k \in {"send", "edit", "delete", "read"} BY DEF Wrote
<1>2. CASE m \in S
  <2>1. RowWritten(k, ops[o].text, messages[m], messages'[m]) BY <1>2 DEF Wrote
  <2>2. Follows(s, messages'[m], Dues(u, m) \cup {k}, own) BY <1>1, <2>1, FollowsWrite
  <2>. QED BY <1>2, <2>2, WroteDues
<1>3. CASE m \notin S
  <2>1. messages'[m] = messages[m] BY <1>3 DEF Wrote
  <2>. QED BY <1>3, <2>1, WroteDues
<1>. QED BY <1>2, <1>3

\* A message that is sent now is in no event.
LEMMA SentFirst ==
  ASSUME MessagesInvariant, NEW o, NEW S, Wrote(o, S, "send"), NEW m \in S
  PROVE  /\ \A u \in Users : \A i \in DOMAIN inbox[u] : m \notin inbox[u][i].about
         /\ \A j : Writers(m, j) = {}
<1>1. ~Saved(m) /\ o \in Busy /\ ops[o].step = "write" BY DEF Wrote, RowWritten, Saved, NoRow
<1>2. \A p \in Busy \ {o} : m \notin ops[p].about BY DEF Wrote
<1>3. \A u \in Users : \A i \in DOMAIN inbox[u] : m \notin inbox[u][i].about
  BY <1>1 DEF MessagesInvariant, OnlySent
<1>4. \A j : Writers(m, j) = {} BY <1>1, <1>2 DEF Writers
<1>. QED BY <1>3, <1>4

LEMMA WroteSaysTrue ==
  ASSUME MessagesInvariant, SaysTrue, NEW o, NEW S, NEW k, Wrote(o, S, k) PROVE SaysTrue'
<1>1. ASSUME NEW p \in Busy' PROVE RequestTrue(ops'[p])
  <2>1. CASE p = o
    <3>1. RequestTrue(ops[o]) BY DEF Wrote, SaysTrue
    <3>. QED BY <2>1, <3>1 DEF Wrote, RequestTrue
  <2>2. CASE p # o
    <3>1. p \in Busy /\ ops'[p] = ops[p] BY <1>1, <2>2 DEF Wrote, Busy
    <3>. QED BY <3>1 DEF SaysTrue
  <2>. QED BY <2>1, <2>2
<1>2. ASSUME NEW u \in Users, NEW i \in DOMAIN inbox[u] PROVE EventTrue(inbox[u][i], messages')
  <2> DEFINE e == inbox[u][i]
  <2>1. EventTrue(e, messages) BY DEF SaysTrue
  <2>2. e.about \subseteq Msgs /\ \A m \in e.about : Saved(m) BY EventsAre DEF MessagesInvariant, OnlySent
  <2> HIDE DEF e
  <2>3. ASSUME NEW m \in e.about
        PROVE  /\ messages[m].deleted => messages'[m].deleted
               /\ messages[m].read => messages'[m].read
    <3>1. CASE m \in S
      <4>1. RowWritten(k, ops[o].text, messages[m], messages'[m]) /\ k \in {"send", "edit", "delete", "read"}
        BY <3>1 DEF Wrote
      <4>2. messages[m] # NoRow BY <2>2 DEF Saved, NoRow
      <4>. QED BY <4>1, <4>2 DEF RowWritten
    <3>2. CASE m \notin S
      <4>1. messages'[m] = messages[m] BY <2>2, <3>2 DEF Wrote
      <4>. QED BY <4>1
    <3>. QED BY <3>1, <3>2
  <2>4. EventTrue(e, messages') BY <2>1, <2>3 DEF EventTrue
  <2>. QED BY <2>4 DEF e
<1>3. inbox' = inbox BY DEF Wrote
<1>. QED BY <1>1, <1>2, <1>3 DEF SaysTrue

LEMMA WroteInOrder ==
  ASSUME MessagesInvariant, InOrder, NEW o, NEW S, NEW k, Wrote(o, S, k) PROVE InOrder'
<1>1. /\ inbox' = inbox /\ hist'.crossed = hist.crossed /\ k \in {"send", "edit", "delete", "read"}
      /\ ops'[o].text = ops[o].text
      /\ \A m \in Msgs \ S : messages'[m] = messages[m]
      /\ \A m \in S : RowWritten(k, ops[o].text, messages[m], messages'[m])
  BY DEF Wrote
<1>2. /\ \A m, j : Writers(m, j)' = IF m \in S /\ j = k THEN Writers(m, j) \cup {o} ELSE Writers(m, j)
      /\ \A m, j : \A p \in Writers(m, j) : p # o /\ ops'[p] = ops[p]
      /\ \A u, m : Dues(u, m)' = IF m \in S THEN Dues(u, m) \cup {k} ELSE Dues(u, m)
  BY WroteDues
<1>3. SaysTrue' BY WroteSaysTrue DEF InOrder
<1>4. SendsFirst'
  <2> SUFFICES ASSUME NEW u \in Users, NEW m \in Msgs \ hist.crossed, NEW i \in DOMAIN inbox[u],
                      m \in inbox[u][i].about, inbox[u][i].type # "send"
               PROVE  /\ Writers(m, "send")' = {}
                      /\ \A j \in DOMAIN inbox[u] : j > i => ~IsAbout(inbox[u][j], m, "send")
    BY <1>1 DEF SendsFirst
  <2>1. /\ Writers(m, "send") = {}
        /\ \A j \in DOMAIN inbox[u] : j > i => ~IsAbout(inbox[u][j], m, "send")
    BY DEF InOrder, SendsFirst
  <2>2. ~(m \in S /\ k = "send") BY SentFirst
  <2>. QED BY <1>2, <2>1, <2>2
<1>5. RestFollows'
  <2> SUFFICES ASSUME NEW u \in Users, NEW m \in Msgs \ hist.crossed, "send" \in Dues(u, m)'
               PROVE  /\ messages'[m].deleted => "delete" \in Dues(u, m)'
                      /\ messages'[m].read => "read" \in Dues(u, m)'
    BY <1>1 DEF RestFollows
  <2>1. CASE m \in S /\ k = "send"
    BY <1>1, <2>1 DEF RowWritten
  <2>2. CASE ~(m \in S /\ k = "send")
    <3>1. "send" \in Dues(u, m) BY <1>2, <2>2
    <3>2. /\ messages[m].deleted => "delete" \in Dues(u, m)
          /\ messages[m].read => "read" \in Dues(u, m)
      BY <3>1 DEF InOrder, RestFollows
    <3>3. CASE m \in S
      <4>1. RowWritten(k, ops[o].text, messages[m], messages'[m]) BY <1>1, <3>3
      <4>2. Dues(u, m)' = Dues(u, m) \cup {k} BY <1>2, <3>3
      <4>. QED BY <1>1, <2>2, <3>2, <3>3, <4>1, <4>2 DEF RowWritten
    <3>4. CASE m \notin S BY <1>1, <1>2, <3>2, <3>4
    <3>. QED BY <3>3, <3>4
  <2>. QED BY <2>1, <2>2
<1>6. TextOfWriter'
  <2> SUFFICES ASSUME NEW m \in Msgs \ hist.crossed, NEW p \in Writers(m, "send")' \cup Writers(m, "edit")'
               PROVE  ops'[p].text = messages'[m].text \/ \E q \in Writers(m, "edit")' : q # p
    BY <1>1 DEF TextOfWriter
  <2>1. CASE m \in S /\ k = "send"
    <3>1. p = o BY <1>2, <2>1, SentFirst
    <3>. QED BY <1>1, <2>1, <3>1 DEF RowWritten
  <2>2. CASE m \in S /\ k = "edit"
    <3>1. o \in Writers(m, "edit")' BY <1>2, <2>2
    <3>2. ops'[o].text = messages'[m].text BY <1>1, <2>2 DEF RowWritten
    <3>. QED BY <3>1, <3>2
  <2>3. CASE m \notin S \/ k \in {"delete", "read"}
    <3>1. p \in Writers(m, "send") \cup Writers(m, "edit") /\ Writers(m, "edit")' = Writers(m, "edit")
      BY <1>2, <2>3
    <3>2. messages'[m].text = messages[m].text BY <1>1, <2>3 DEF RowWritten
    <3>3. ops[p].text = messages[m].text \/ \E q \in Writers(m, "edit") : q # p
      BY <3>1 DEF InOrder, TextOfWriter
    <3>4. ops'[p] = ops[p] BY <1>2, <3>1
    <3>. QED BY <3>1, <3>2, <3>3, <3>4
  <2>. QED BY <1>1, <2>1, <2>2, <2>3
<1>7. TextOfLast'
  <2> SUFFICES ASSUME NEW u \in Users, NEW m \in Msgs \ hist.crossed, NEW i \in DOMAIN inbox[u],
                      Writers(m, "send")' = {}, Writers(m, "edit")' = {}, SetsText(inbox[u][i], m),
                      \A j \in DOMAIN inbox[u] : j > i => ~SetsText(inbox[u][j], m)
               PROVE  inbox[u][i].text = messages'[m].text
    BY <1>1 DEF TextOfLast
  <2>1. ~(m \in S /\ k \in {"send", "edit"}) BY <1>2
  <2>2. Writers(m, "send") = {} /\ Writers(m, "edit") = {} BY <1>2, <2>1
  <2>3. inbox[u][i].text = messages[m].text BY <2>2 DEF InOrder, TextOfLast
  <2>4. messages'[m].text = messages[m].text BY <1>1, <2>1 DEF RowWritten
  <2>. QED BY <2>3, <2>4
<1>. QED BY <1>3, <1>4, <1>5, <1>6, <1>7 DEF InOrder

LEMMA WrotePanels ==
  ASSUME MessagesInvariant, PanelInvariant, NEW o, NEW S, NEW k, Wrote(o, S, k) PROVE PanelInvariant'
<1>1. InOrder' BY WroteInOrder DEF PanelInvariant
<1>2. hist' = hist /\ UNCHANGED <<panel, view>> BY DEF Wrote
<1>3. \A u \in Users : Keeps(u) BY WroteKeeps
<1>4. ASSUME NEW p \in Busy', NEW u \in Users, Showing(ops'[p]), ops'[p].user = u
      PROVE  p \in Busy /\ Showing(ops[p]) /\ ops[p].user = u /\ ops'[p].got = ops[p].got
  <2>1. p # o BY <1>4 DEF Wrote, Showing
  <2>2. ops'[p] = ops[p] /\ p \in Busy BY <1>4, <2>1 DEF Wrote, Busy
  <2>. QED BY <1>4, <2>2
<1>5. PanelsTrack' /\ AnswersTrack' BY <1>2, <1>3, <1>4, StillTracks DEF PanelInvariant
<1>. QED BY <1>1, <1>5 DEF PanelInvariant

---------------------------------------------------------------------------
(* An event is published: what was a writer's is in the inboxes.           *)

Announced(o, e) ==
  /\ o \in Busy /\ ops[o].step = "publish" /\ ops[o].kind \in {"send", "edit", "delete", "read"}
  /\ ops[o].about \subseteq Msgs
  /\ e.type = ops[o].kind /\ e.by = ops[o].user /\ e.about = ops[o].about /\ e.text = ops[o].text
  /\ \A p \in Ops : ops'[p] = IF p = o THEN NoOp ELSE ops[p]
  /\ \A u \in Users : inbox'[u] = Append(inbox[u], e)
  /\ hist'.crossed = hist.crossed \cup Crossing(o)
  /\ hist'.raced = hist.raced /\ hist'.opened = hist.opened /\ hist'.doubt = hist.doubt
  /\ hist'.early = hist.early
  /\ UNCHANGED <<messages, later, panel, view, left, unread>>

LEMMA PublishAnnounces ==
  ASSUME MessagesInvariant, NEW o \in Ops, Publish(o) PROVE \E e \in Events : Announced(o, e)
<1> DEFINE e == [type |-> ops[o].kind, by |-> ops[o].user, about |-> ops[o].about, text |-> ops[o].text]
<1>0. MessageTypes BY DEF MessagesInvariant
<1>1. o \in Busy /\ ops[o].step = "publish" BY DEF Publish
<1>2. ops[o] \in Requests /\ Sound(ops[o]) BY <1>0, <1>1, OpIs DEF MessagesInvariant, RequestsSound
<1>3. ops[o].kind \in {"send", "edit", "delete", "read"} BY <1>1, <1>2 DEF Sound, About
<1>4. ops[o].about \subseteq Msgs /\ ops[o].user \in Users /\ ops[o].text \in Texts \cup {0}
  BY <1>2, RequestFields
<1>5. /\ e \in Events /\ e.type = ops[o].kind /\ e.by = ops[o].user /\ e.about = ops[o].about
      /\ e.text = ops[o].text
  BY <1>3, <1>4 DEF Events
<1>6. ops' = [ops EXCEPT ![o] = NoOp] /\ UNCHANGED <<messages, later, panel, view, left, unread>> BY DEF Publish, End
<1>7. \A p \in Ops : ops'[p] = IF p = o THEN NoOp ELSE ops[p] BY <1>0, <1>6 DEF MessageTypes
<1>8. \A u \in Users : inbox'[u] = Append(inbox[u], e) BY DEF Publish, Announce
<1>9. /\ hist'.crossed = hist.crossed \cup Crossing(o)
      /\ hist'.raced = hist.raced /\ hist'.opened = hist.opened /\ hist'.doubt = hist.doubt
      /\ hist'.early = hist.early
  <2>1. PICK d, f : hist' = [hist EXCEPT !.crossed = hist.crossed \cup Crossing(o), !.deleted = d, !.read = f]
    BY DEF Publish
  <2>2. PICK a1, a2, a3, a4, a5, a6, a7 :
          hist = [raced |-> a1, opened |-> a2, doubt |-> a3, crossed |-> a4, early |-> a7,
                  deleted |-> a5, read |-> a6]
    BY <1>0 DEF MessageTypes
  <2>. QED BY <2>1, <2>2
<1> HIDE DEF e
<1>10. Announced(o, e) BY <1>1, <1>3, <1>4, <1>5, <1>6, <1>7, <1>8, <1>9 DEF Announced
<1>. QED BY <1>5, <1>10

LEMMA AppendIs ==
  ASSUME MessagesInvariant, NEW o, NEW e \in Events, Announced(o, e), NEW u \in Users
  PROVE  LET n == Len(inbox[u])
         IN  /\ n \in Nat /\ DOMAIN inbox[u] = 1..n /\ DOMAIN inbox'[u] = 1..(n + 1)
             /\ \A i \in 1..n : inbox'[u][i] = inbox[u][i]
             /\ inbox'[u][n + 1] = e
<1>1. inbox[u] \in Seq(Events) BY InboxIs
<1>2. inbox'[u] = Append(inbox[u], e) BY DEF Announced
<1>. QED BY <1>1, <1>2

LEMMA AnnouncedDues ==
  ASSUME MessagesInvariant, NEW o, NEW e \in Events, Announced(o, e)
  PROVE  /\ \A m, j : Writers(m, j)' = Writers(m, j) \ {o}
         /\ \A m, j : o \in Writers(m, j) <=> IsAbout(e, m, j)
         /\ \A m, j : \A p \in Writers(m, j)' : ops'[p] = ops[p]
         /\ \A u \in Users : \A m, j : Waits(u, m, j)' <=> (Waits(u, m, j) \/ IsAbout(e, m, j))
         /\ \A u \in Users : \A m : Dues(u, m)' = Dues(u, m)
<1>1. /\ o \in Busy /\ ops[o].step = "publish" /\ ops[o].kind \in {"send", "edit", "delete", "read"}
      /\ e.type = ops[o].kind /\ e.about = ops[o].about
      /\ \A p \in Ops : ops'[p] = IF p = o THEN NoOp ELSE ops[p]
  BY DEF Announced
<1>2. ASSUME NEW m, NEW j PROVE Writers(m, j)' = Writers(m, j) \ {o}
  <2>1. \A p : p \in Writers(m, j)' <=> (p \in Writers(m, j) /\ p # o) BY <1>1 DEF Writers, Busy
  <2>. QED BY <2>1
<1>3. ASSUME NEW m, NEW j PROVE o \in Writers(m, j) <=> IsAbout(e, m, j) BY <1>1 DEF Writers, IsAbout
<1>4. ASSUME NEW m, NEW j, NEW p \in Writers(m, j)' PROVE ops'[p] = ops[p]
  BY <1>1 DEF Writers, Busy
<1>5. ASSUME NEW u \in Users, NEW m, NEW j PROVE Waits(u, m, j)' <=> (Waits(u, m, j) \/ IsAbout(e, m, j))
  <2> DEFINE n == Len(inbox[u])
  <2>1. /\ n \in Nat /\ DOMAIN inbox[u] = 1..n /\ DOMAIN inbox'[u] = 1..(n + 1)
        /\ \A i \in 1..n : inbox'[u][i] = inbox[u][i]
        /\ inbox'[u][n + 1] = e
    BY AppendIs
  <2> HIDE DEF n
  <2>2. ASSUME Waits(u, m, j) PROVE Waits(u, m, j)'
    <3>1. PICK i \in 1..n : IsAbout(inbox[u][i], m, j) BY <2>1, <2>2 DEF Waits
    <3>2. i \in DOMAIN inbox'[u] /\ IsAbout(inbox'[u][i], m, j) BY <2>1, <3>1
    <3>. QED BY <3>2 DEF Waits
  <2>3. ASSUME IsAbout(e, m, j) PROVE Waits(u, m, j)'
    <3>1. n + 1 \in DOMAIN inbox'[u] /\ IsAbout(inbox'[u][n + 1], m, j) BY <2>1, <2>3
    <3>. QED BY <3>1 DEF Waits
  <2>4. ASSUME Waits(u, m, j)' PROVE Waits(u, m, j) \/ IsAbout(e, m, j)
    <3>1. PICK i \in DOMAIN inbox'[u] : IsAbout(inbox'[u][i], m, j) BY <2>4 DEF Waits
    <3>2. CASE i \in 1..n BY <2>1, <3>1, <3>2 DEF Waits
    <3>3. CASE i = n + 1 BY <2>1, <3>1, <3>3
    <3>. QED BY <2>1, <3>1, <3>2, <3>3
  <2>. QED BY <2>2, <2>3, <2>4
<1>6. ASSUME NEW u \in Users, NEW m PROVE Dues(u, m)' = Dues(u, m)
  <2>1. ASSUME NEW j PROVE j \in Dues(u, m)' <=> j \in Dues(u, m)
    <3>1. Writers(m, j)' = Writers(m, j) \ {o} BY <1>2
    <3>2. o \in Writers(m, j) <=> IsAbout(e, m, j) BY <1>3
    <3>3. Waits(u, m, j)' <=> (Waits(u, m, j) \/ IsAbout(e, m, j)) BY <1>5
    <3>4. (Writers(m, j)' # {} \/ Waits(u, m, j)') <=> (Writers(m, j) # {} \/ Waits(u, m, j))
      BY <3>1, <3>2, <3>3
    <3>. QED BY <3>4 DEF Dues
  <2>. QED BY <2>1
<1>. QED BY <1>2, <1>3, <1>4, <1>5, <1>6

\* Who is published now, of a message that did not cross.
LEMMA NotCrossing ==
  ASSUME MessagesInvariant, NEW o, NEW e \in Events, Announced(o, e), NEW m \in Msgs \ hist'.crossed
  PROVE  /\ m \notin hist.crossed
         /\ m \in e.about => Writers(m, "send") \ {o} = {}
         /\ IsAbout(e, m, "edit") => Writers(m, "edit") \ {o} = {}
<1>1. m \notin hist.crossed /\ m \notin Crossing(o) BY DEF Announced
<1>2. ASSUME m \in e.about, NEW p \in Writers(m, "send") \ {o} PROVE FALSE
  BY <1>1, <1>2 DEF Crossing, Writers, Announced
<1>3. ASSUME IsAbout(e, m, "edit"), NEW p \in Writers(m, "edit") \ {o} PROVE FALSE
  BY <1>1, <1>3 DEF Crossing, Writers, Announced, IsAbout
<1>. QED BY <1>1, <1>2, <1>3

LEMMA AnnouncedSaysTrue ==
  ASSUME MessagesInvariant, SaysTrue, NEW o, NEW e \in Events, Announced(o, e) PROVE SaysTrue'
<1>1. messages' = messages BY DEF Announced
<1>2. ASSUME NEW p \in Busy' PROVE RequestTrue(ops'[p])
  <2>1. p \in Busy /\ ops'[p] = ops[p] BY <1>2 DEF Announced, Busy
  <2>. QED BY <2>1 DEF SaysTrue
<1>3. EventTrue(e, messages)
  <2>1. /\ o \in Busy /\ ops[o].step = "publish" /\ e.type = ops[o].kind /\ e.about = ops[o].about
        /\ e.by = ops[o].user /\ e.text = ops[o].text
    BY DEF Announced
  <2>2. Sound(ops[o]) /\ RequestTrue(ops[o]) BY <2>1 DEF MessagesInvariant, RequestsSound, SaysTrue
  <2>3. e.type \in {"send", "edit"} => e.text # 0
    BY <2>1, <2>2, DirectMessagesAssumption DEF Sound, About
  <2>. QED BY <2>1, <2>2, <2>3 DEF Sound, About, Unannounced, RequestTrue, EventTrue
<1>4. ASSUME NEW u \in Users, NEW i \in DOMAIN inbox'[u] PROVE EventTrue(inbox'[u][i], messages)
  <2> DEFINE n == Len(inbox[u])
  <2>1. /\ n \in Nat /\ DOMAIN inbox[u] = 1..n /\ DOMAIN inbox'[u] = 1..(n + 1)
        /\ \A j \in 1..n : inbox'[u][j] = inbox[u][j]
        /\ inbox'[u][n + 1] = e
    BY AppendIs
  <2> HIDE DEF n
  <2>2. CASE i \in 1..n BY <2>1, <2>2 DEF SaysTrue
  <2>3. CASE i = n + 1 BY <1>3, <2>1, <2>3
  <2>. QED BY <1>4, <2>1, <2>2, <2>3
<1>. QED BY <1>1, <1>2, <1>4 DEF SaysTrue

LEMMA AnnouncedInOrder ==
  ASSUME MessagesInvariant, InOrder, NEW o, NEW e \in Events, Announced(o, e) PROVE InOrder'
<1>1. messages' = messages /\ e.type = ops[o].kind /\ e.text = ops[o].text BY DEF Announced
<1>2. /\ \A m, j : Writers(m, j)' = Writers(m, j) \ {o}
      /\ \A m, j : o \in Writers(m, j) <=> IsAbout(e, m, j)
      /\ \A m, j : \A p \in Writers(m, j)' : ops'[p] = ops[p]
      /\ \A u \in Users : \A m : Dues(u, m)' = Dues(u, m)
  BY AnnouncedDues
<1>3. \A m \in Msgs \ hist'.crossed :
        /\ m \in Msgs \ hist.crossed
        /\ m \in e.about => Writers(m, "send") \ {o} = {}
        /\ IsAbout(e, m, "edit") => Writers(m, "edit") \ {o} = {}
  BY NotCrossing
<1>4. SaysTrue' BY AnnouncedSaysTrue DEF InOrder
<1>5. SendsFirst'
  <2> SUFFICES ASSUME NEW u \in Users, NEW m \in Msgs \ hist'.crossed, NEW i \in DOMAIN inbox'[u],
                      m \in inbox'[u][i].about, inbox'[u][i].type # "send"
               PROVE  /\ Writers(m, "send")' = {}
                      /\ \A j \in DOMAIN inbox'[u] : j > i => ~IsAbout(inbox'[u][j], m, "send")
    BY DEF SendsFirst
  <2> DEFINE n == Len(inbox[u])
  <2>1. /\ n \in Nat /\ DOMAIN inbox[u] = 1..n /\ DOMAIN inbox'[u] = 1..(n + 1)
        /\ \A j \in 1..n : inbox'[u][j] = inbox[u][j]
        /\ inbox'[u][n + 1] = e
    BY AppendIs
  <2> HIDE DEF n
  <2>2. CASE i \in 1..n
    <3>1. /\ Writers(m, "send") = {}
          /\ \A j \in 1..n : j > i => ~IsAbout(inbox[u][j], m, "send")
      BY <1>3, <2>1, <2>2 DEF InOrder, SendsFirst
    <3>2. ~IsAbout(e, m, "send") BY <1>2, <3>1
    <3>3. ASSUME NEW j \in 1..(n + 1), j > i PROVE ~IsAbout(inbox'[u][j], m, "send")
      <4>1. CASE j \in 1..n BY <2>1, <3>1, <3>3, <4>1
      <4>2. CASE j = n + 1 BY <2>1, <3>2, <4>2
      <4>. QED BY <2>1, <4>1, <4>2
    <3>. QED BY <1>2, <2>1, <3>1, <3>3
  <2>3. CASE i = n + 1
    <3>1. m \in e.about BY <2>1, <2>3
    <3>2. Writers(m, "send")' = {} BY <1>2, <1>3, <3>1
    <3>3. \A j \in DOMAIN inbox'[u] : ~(j > i) BY <2>1, <2>3
    <3>. QED BY <3>2, <3>3
  <2>. QED BY <2>1, <2>2, <2>3
<1>6. RestFollows' BY <1>1, <1>2, <1>3 DEF InOrder, RestFollows
<1>7. TextOfWriter'
  <2> SUFFICES ASSUME NEW m \in Msgs \ hist'.crossed, NEW p \in Writers(m, "send")' \cup Writers(m, "edit")'
               PROVE  ops'[p].text = messages[m].text \/ \E q \in Writers(m, "edit")' : q # p
    BY <1>1 DEF TextOfWriter
  <2>1. p \in Writers(m, "send") \cup Writers(m, "edit") /\ p # o /\ ops'[p] = ops[p] BY <1>2
  <2>2. ops[p].text = messages[m].text \/ \E q \in Writers(m, "edit") : q # p
    BY <1>3, <2>1 DEF InOrder, TextOfWriter
  <2>3. ASSUME NEW q \in Writers(m, "edit"), q # p PROVE q \in Writers(m, "edit")'
    <3>1. CASE q # o BY <1>2, <2>3, <3>1
    <3>2. CASE q = o
      <4>1. IsAbout(e, m, "edit") /\ m \in e.about BY <1>2, <2>3, <3>2 DEF IsAbout
      <4>. QED BY <1>3, <2>1, <4>1
    <3>. QED BY <3>1, <3>2
  <2>. QED BY <2>1, <2>2, <2>3
<1>8. TextOfLast'
  <2> SUFFICES ASSUME NEW u \in Users, NEW m \in Msgs \ hist'.crossed, NEW i \in DOMAIN inbox'[u],
                      Writers(m, "send")' = {}, Writers(m, "edit")' = {}, SetsText(inbox'[u][i], m),
                      \A j \in DOMAIN inbox'[u] : j > i => ~SetsText(inbox'[u][j], m)
               PROVE  inbox'[u][i].text = messages[m].text
    BY <1>1 DEF TextOfLast
  <2> DEFINE n == Len(inbox[u])
  <2>1. /\ n \in Nat /\ DOMAIN inbox[u] = 1..n /\ DOMAIN inbox'[u] = 1..(n + 1)
        /\ \A j \in 1..n : inbox'[u][j] = inbox[u][j]
        /\ inbox'[u][n + 1] = e
    BY AppendIs
  <2> HIDE DEF n
  <2>2. CASE i \in 1..n
    <3>1. ~SetsText(e, m) BY <2>1, <2>2
    <3>2. Writers(m, "send") = {} /\ Writers(m, "edit") = {} BY <1>2, <3>1 DEF SetsText
    <3>3. \A j \in 1..n : j > i => ~SetsText(inbox[u][j], m) BY <2>1
    <3>4. SetsText(inbox[u][i], m) /\ inbox'[u][i] = inbox[u][i] BY <2>1, <2>2
    <3>. QED BY <1>3, <2>1, <2>2, <3>2, <3>3, <3>4 DEF InOrder, TextOfLast
  <2>3. CASE i = n + 1
    <3>1. SetsText(e, m) /\ inbox'[u][i] = e BY <2>1, <2>3
    <3>2. o \in Writers(m, "send") \cup Writers(m, "edit") BY <1>2, <3>1 DEF SetsText
    <3>3. ~\E q \in Writers(m, "edit") : q # o BY <1>2
    <3>4. ops[o].text = messages[m].text BY <1>3, <3>2, <3>3 DEF InOrder, TextOfWriter
    <3>. QED BY <1>1, <3>1, <3>4
  <2>. QED BY <2>1, <2>2, <2>3
<1>. QED BY <1>4, <1>5, <1>6, <1>7, <1>8 DEF InOrder

LEMMA AnnouncedPanels ==
  ASSUME MessagesInvariant, PanelInvariant, NEW o, NEW e \in Events, Announced(o, e) PROVE PanelInvariant'
<1>1. InOrder' BY AnnouncedInOrder DEF PanelInvariant
<1>2. /\ hist'.raced = hist.raced /\ UNCHANGED <<messages, later, panel, view>> /\ hist.crossed \subseteq hist'.crossed
  BY DEF Announced
<1>6. Newest' = Newest BY <1>2 DEF Newest
<1>3. \A u \in Users : Keeps(u) BY <1>2, <1>6, AnnouncedDues DEF Keeps
<1>4. ASSUME NEW p \in Busy', NEW u \in Users, Showing(ops'[p]), ops'[p].user = u
      PROVE  p \in Busy /\ Showing(ops[p]) /\ ops[p].user = u /\ ops'[p].got = ops[p].got
  <2>1. ops'[p] = ops[p] /\ p \in Busy BY <1>4 DEF Announced, Busy
  <2>. QED BY <1>4, <2>1
<1>5. PanelsTrack' /\ AnswersTrack' BY <1>2, <1>3, <1>4, StillTracks DEF PanelInvariant
<1>. QED BY <1>1, <1>5 DEF PanelInvariant

---------------------------------------------------------------------------
(* A client takes what is first in its inbox, or loses it all.             *)

\* r is still the same request, and knows of what u has not seen.
Unseen(q, r, u) ==
  /\ q.kind = r.kind /\ q.user = r.user /\ q.text = r.text /\ q.got = r.got
  /\ q.about = r.about /\ q.step = r.step
  /\ IF r.user = u /\ r.kind \in {"history", "count"} THEN q.missed ELSE q.missed = r.missed

\* A request that an open panel has just made.
ReadsAgain(q, u) ==
  panel[u] = "open" /\ q.kind = "read" /\ q.user = u /\ q.about = {} /\ q.step = "friends"

\* The first d of u's events are gone.
Takes(u, d) ==
  /\ UNCHANGED <<messages, later, panel>> /\ hist'.crossed = hist.crossed /\ hist'.opened = hist.opened
  /\ d \in 0..Len(inbox[u])
  /\ DOMAIN inbox'[u] = 1..(Len(inbox[u]) - d)
  /\ \A i \in DOMAIN inbox'[u] : inbox'[u][i] = inbox[u][i + d]
  /\ \A v \in Users \ {u} : /\ inbox'[v] = inbox[v] /\ view'[v] = view[v] /\ unread'[v] = unread[v]
                            /\ (v \in hist'.raced <=> v \in hist.raced)
                            /\ (v \in hist'.doubt <=> v \in hist.doubt)
  /\ \A o \in Busy : o \in Busy' /\ Unseen(ops'[o], ops[o], u)
  /\ \A o \in Busy' \ Busy : ReadsAgain(ops'[o], u)

LEMMA UnseenIs ==
  ASSUME MessagesInvariant, NEW u, NEW o \in Busy
  PROVE  Missing(ops, u)[o] # NoOp /\ Unseen(Missing(ops, u)[o], ops[o], u)
<1>1. o \in Ops /\ ops[o] \in Requests /\ ops[o] # NoOp BY OpIs DEF MessagesInvariant
<1>2. CASE ops[o].user = u /\ ops[o].kind \in {"history", "count"}
  <2> DEFINE q == [ops[o] EXCEPT !.missed = TRUE]
  <2>1. Missing(ops, u)[o] = q BY <1>1, <1>2 DEF Missing
  <2>2. /\ q \in Requests /\ q.step = ops[o].step /\ q.kind = ops[o].kind /\ q.user = ops[o].user
        /\ q.about = ops[o].about /\ q.text = ops[o].text /\ q.got = ops[o].got
    BY <1>1, SetMissed
  <2>3. q.missed = TRUE BY <1>1 DEF Requests
  <2> HIDE DEF q
  <2>. QED BY <1>2, <2>1, <2>2, <2>3, DirectMessagesAssumption DEF Unseen
<1>3. CASE ~(ops[o].user = u /\ ops[o].kind \in {"history", "count"})
  <2>1. Missing(ops, u)[o] = ops[o] BY <1>1, <1>3 DEF Missing
  <2>. QED BY <1>1, <1>3, <2>1 DEF Unseen
<1>. QED BY <1>2, <1>3

LEMMA MissingTakes ==
  ASSUME MessagesInvariant, NEW u, ops' = Missing(ops, u)
  PROVE  /\ \A o \in Busy : o \in Busy' /\ Unseen(ops'[o], ops[o], u)
         /\ \A o \in Busy' \ Busy : ReadsAgain(ops'[o], u)
<1>1. \A o \in Ops : o \notin Busy => ops'[o] = NoOp BY MissingIs DEF MessagesInvariant
<1>. QED BY <1>1, UnseenIs DEF Busy

LEMMA StartedTakes ==
  ASSUME MessagesInvariant, NEW u \in Users, Free # {}, panel[u] = "open",
         ops' = Started(Missing(ops, u), Request(u, "read", {}, 0))
  PROVE  /\ \A o \in Busy : o \in Busy' /\ Unseen(ops'[o], ops[o], u)
         /\ \A o \in Busy' \ Busy : ReadsAgain(ops'[o], u)
<1> DEFINE r == Request(u, "read", {}, 0)
           q == CHOOSE p \in Free : TRUE
           M == Missing(ops, u)
<1>1. ReadsAgain(r, u) BY DEF Request, ReadsAgain
<1>2. q \in Ops /\ q \notin Busy BY DEF Free
<1>3. ops' = [M EXCEPT ![q] = r] BY DEF Started
<1>4. M \in [Ops -> Requests \cup {NoOp}] /\ \A p \in Ops : p \notin Busy => M[p] = NoOp
  BY MissingIs DEF MessagesInvariant
<1>5. \A o \in Busy : M[o] # NoOp /\ Unseen(M[o], ops[o], u) BY UnseenIs
<1> HIDE DEF r, q, M
<1>6. \A p \in Ops : ops'[p] = IF p = q THEN r ELSE M[p] BY <1>2, <1>3, <1>4
<1>. QED BY <1>1, <1>2, <1>4, <1>5, <1>6 DEF Busy

LEMMA TakesDues ==
  ASSUME MessagesInvariant, NEW u \in Users, NEW d, Takes(u, d)
  PROVE  /\ \A m, k : Writers(m, k)' = Writers(m, k)
         /\ \A m, k : \A o \in Writers(m, k) : ops'[o].text = ops[o].text
         /\ \A v \in Users \ {u} : \A m, k : Waits(v, m, k)' <=> Waits(v, m, k)
         /\ \A v \in Users \ {u} : \A m : Dues(v, m)' = Dues(v, m)
         /\ \A m, k : Waits(u, m, k)' <=> \E i \in DOMAIN inbox[u] : i > d /\ IsAbout(inbox[u][i], m, k)
<1>0. DOMAIN inbox[u] = 1..Len(inbox[u]) /\ Len(inbox[u]) \in Nat BY InboxIs
<1>1. ASSUME NEW m, NEW k, NEW o PROVE o \in Writers(m, k)' <=> o \in Writers(m, k)
  <2>1. CASE o \in Busy BY <2>1 DEF Takes, Unseen, Writers
  <2>2. CASE o \notin Busy BY <2>2 DEF Takes, ReadsAgain, Writers
  <2>. QED BY <2>1, <2>2
<1>2. \A m, k : Writers(m, k)' = Writers(m, k) BY <1>1
<1>3. \A m, k : \A o \in Writers(m, k) : ops'[o].text = ops[o].text BY DEF Takes, Unseen, Writers
<1>4. \A v \in Users \ {u} : \A m, k : Waits(v, m, k)' <=> Waits(v, m, k) BY DEF Takes, Waits
<1>5. ASSUME NEW v \in Users \ {u}, NEW m PROVE Dues(v, m)' = Dues(v, m)
  <2>1. \A k : Writers(m, k)' = Writers(m, k) /\ (Waits(v, m, k)' <=> Waits(v, m, k)) BY <1>2, <1>4
  <2>2. \A k : k \in Dues(v, m)' <=> k \in Dues(v, m) BY <2>1 DEF Dues
  <2>. QED BY <2>2
<1>6. ASSUME NEW m, NEW k
      PROVE  Waits(u, m, k)' <=> \E i \in DOMAIN inbox[u] : i > d /\ IsAbout(inbox[u][i], m, k)
  <2>0. /\ d \in 0..Len(inbox[u]) /\ DOMAIN inbox'[u] = 1..(Len(inbox[u]) - d)
        /\ \A i \in DOMAIN inbox'[u] : inbox'[u][i] = inbox[u][i + d]
    BY DEF Takes
  <2>1. ASSUME NEW i \in DOMAIN inbox'[u], IsAbout(inbox'[u][i], m, k)
        PROVE  \E j \in DOMAIN inbox[u] : j > d /\ IsAbout(inbox[u][j], m, k)
    <3>1. i + d \in DOMAIN inbox[u] /\ i + d > d /\ IsAbout(inbox[u][i + d], m, k) BY <1>0, <2>0, <2>1
    <3>. QED BY <3>1
  <2>2. ASSUME NEW i \in DOMAIN inbox[u], i > d, IsAbout(inbox[u][i], m, k)
        PROVE  \E j \in DOMAIN inbox'[u] : IsAbout(inbox'[u][j], m, k)
    <3>1. i - d \in DOMAIN inbox'[u] /\ (i - d) + d = i BY <1>0, <2>0, <2>2
    <3>2. IsAbout(inbox'[u][i - d], m, k) BY <2>0, <2>2, <3>1
    <3>. QED BY <3>1, <3>2
  <2>. QED BY <2>1, <2>2 DEF Waits
<1>. QED BY <1>2, <1>3, <1>4, <1>5, <1>6

LEMMA TakesInOrder ==
  ASSUME MessagesInvariant, InOrder, NEW u \in Users, NEW d, Takes(u, d) PROVE InOrder'
<1>0. messages' = messages /\ hist'.crossed = hist.crossed BY DEF Takes
<1>1. /\ \A m, k : Writers(m, k)' = Writers(m, k)
      /\ \A m, k : \A o \in Writers(m, k) : ops'[o].text = ops[o].text
      /\ \A v \in Users \ {u} : \A m : Dues(v, m)' = Dues(v, m)
      /\ \A m, k : Waits(u, m, k)' <=> \E i \in DOMAIN inbox[u] : i > d /\ IsAbout(inbox[u][i], m, k)
  BY TakesDues
<1>2. \A v \in Users : DOMAIN inbox[v] = 1..Len(inbox[v]) /\ Len(inbox[v]) \in Nat BY InboxIs
<1>3. ASSUME NEW v \in Users
      PROVE  \E c \in 0..Len(inbox[v]) : /\ DOMAIN inbox'[v] = 1..(Len(inbox[v]) - c)
                                         /\ \A i \in DOMAIN inbox'[v] : inbox'[v][i] = inbox[v][i + c]
  <2>1. CASE v = u BY <2>1 DEF Takes
  <2>2. CASE v # u
    <3>1. inbox'[v] = inbox[v] BY <2>2 DEF Takes
    <3>2. 0 \in 0..Len(inbox[v]) /\ DOMAIN inbox'[v] = 1..(Len(inbox[v]) - 0) BY <1>2, <3>1
    <3>3. \A i \in DOMAIN inbox'[v] : inbox'[v][i] = inbox[v][i + 0] BY <1>2, <3>1
    <3>. QED BY <3>2, <3>3
  <2>. QED BY <2>1, <2>2
<1>4. SaysTrue'
  <2>1. ASSUME NEW o \in Busy' PROVE RequestTrue(ops'[o])
    <3>1. CASE o \in Busy
      <4>1. RequestTrue(ops[o]) /\ Unseen(ops'[o], ops[o], u) BY <3>1 DEF InOrder, SaysTrue, Takes
      <4>. QED BY <4>1 DEF RequestTrue, Unseen
    <3>2. CASE o \notin Busy
      <4>1. ReadsAgain(ops'[o], u) BY <2>1, <3>2 DEF Takes
      <4>. QED BY <4>1 DEF ReadsAgain, RequestTrue
    <3>. QED BY <3>1, <3>2
  <2>2. ASSUME NEW v \in Users, NEW i \in DOMAIN inbox'[v] PROVE EventTrue(inbox'[v][i], messages)
    <3>1. PICK c \in 0..Len(inbox[v]) : /\ DOMAIN inbox'[v] = 1..(Len(inbox[v]) - c)
                                        /\ \A j \in DOMAIN inbox'[v] : inbox'[v][j] = inbox[v][j + c]
      BY <1>3
    <3>2. i + c \in DOMAIN inbox[v] /\ inbox'[v][i] = inbox[v][i + c] BY <1>2, <2>2, <3>1
    <3>. QED BY <3>2 DEF InOrder, SaysTrue
  <2>. QED BY <1>0, <2>1, <2>2 DEF SaysTrue
<1>5. SendsFirst'
  <2> SUFFICES ASSUME NEW v \in Users, NEW m \in Msgs \ hist.crossed, NEW i \in DOMAIN inbox'[v],
                      m \in inbox'[v][i].about, inbox'[v][i].type # "send"
               PROVE  /\ Writers(m, "send")' = {}
                      /\ \A j \in DOMAIN inbox'[v] : j > i => ~IsAbout(inbox'[v][j], m, "send")
    BY <1>0 DEF SendsFirst
  <2>1. PICK c \in 0..Len(inbox[v]) : /\ DOMAIN inbox'[v] = 1..(Len(inbox[v]) - c)
                                      /\ \A j \in DOMAIN inbox'[v] : inbox'[v][j] = inbox[v][j + c]
    BY <1>3
  <2>2. i + c \in DOMAIN inbox[v] /\ inbox'[v][i] = inbox[v][i + c] BY <1>2, <2>1
  <2>3. /\ Writers(m, "send") = {}
        /\ \A j \in DOMAIN inbox[v] : j > i + c => ~IsAbout(inbox[v][j], m, "send")
    BY <2>2 DEF InOrder, SendsFirst
  <2>4. ASSUME NEW j \in DOMAIN inbox'[v], j > i PROVE ~IsAbout(inbox'[v][j], m, "send")
    <3>1. j + c \in DOMAIN inbox[v] /\ j + c > i + c /\ inbox'[v][j] = inbox[v][j + c] BY <1>2, <2>1, <2>4
    <3>. QED BY <2>3, <3>1
  <2>. QED BY <1>1, <2>3, <2>4
<1>6. RestFollows'
  <2> SUFFICES ASSUME NEW v \in Users, NEW m \in Msgs \ hist.crossed, "send" \in Dues(v, m)'
               PROVE  /\ messages[m].deleted => "delete" \in Dues(v, m)'
                      /\ messages[m].read => "read" \in Dues(v, m)'
    BY <1>0 DEF RestFollows
  <2>1. CASE v # u
    <3>1. Dues(v, m)' = Dues(v, m) BY <1>1, <2>1
    <3>. QED BY <3>1 DEF InOrder, RestFollows
  <2>2. CASE v = u
    <3>1. Writers(m, "send") # {} \/ \E i \in DOMAIN inbox[u] : i > d /\ IsAbout(inbox[u][i], m, "send")
      BY <1>1, <2>2 DEF Dues
    <3>2. "send" \in Dues(u, m) BY <3>1 DEF Dues, Waits
    <3>3. (messages[m].deleted => "delete" \in Dues(u, m)) /\ (messages[m].read => "read" \in Dues(u, m))
      BY <3>2 DEF InOrder, RestFollows
    <3>4. ASSUME NEW k \in {"delete", "read"}, k \in Dues(u, m) PROVE k \in Dues(u, m)'
      <4>1. CASE Writers(m, k) # {} BY <1>1, <4>1 DEF Dues
      <4>2. CASE Waits(u, m, k)
        <5>1. PICK i \in DOMAIN inbox[u] : IsAbout(inbox[u][i], m, k) BY <4>2 DEF Waits
        <5>2. m \in inbox[u][i].about /\ inbox[u][i].type # "send" BY <5>1 DEF IsAbout
        <5>3. /\ Writers(m, "send") = {}
              /\ \A j \in DOMAIN inbox[u] : j > i => ~IsAbout(inbox[u][j], m, "send")
          BY <5>2 DEF InOrder, SendsFirst
        <5>4. PICK j \in DOMAIN inbox[u] : j > d /\ IsAbout(inbox[u][j], m, "send") BY <3>1, <5>3
        <5>5. ~(j > i) BY <5>3, <5>4
        <5>6. i > d BY <1>2, <5>4, <5>5 DEF Takes
        <5>. QED BY <1>1, <5>1, <5>6 DEF Dues
      <4>. QED BY <3>4, <4>1, <4>2 DEF Dues
    <3>. QED BY <2>2, <3>3, <3>4
  <2>. QED BY <2>1, <2>2
<1>7. TextOfWriter'
  <2> SUFFICES ASSUME NEW m \in Msgs \ hist.crossed, NEW p \in Writers(m, "send") \cup Writers(m, "edit")
               PROVE  ops'[p].text = messages[m].text \/ \E q \in Writers(m, "edit") : q # p
    BY <1>0, <1>1 DEF TextOfWriter
  <2>. QED BY <1>1 DEF InOrder, TextOfWriter
<1>8. TextOfLast'
  <2> SUFFICES ASSUME NEW v \in Users, NEW m \in Msgs \ hist.crossed, NEW i \in DOMAIN inbox'[v],
                      Writers(m, "send") = {}, Writers(m, "edit") = {}, SetsText(inbox'[v][i], m),
                      \A j \in DOMAIN inbox'[v] : j > i => ~SetsText(inbox'[v][j], m)
               PROVE  inbox'[v][i].text = messages[m].text
    BY <1>0, <1>1 DEF TextOfLast
  <2>1. PICK c \in 0..Len(inbox[v]) : /\ DOMAIN inbox'[v] = 1..(Len(inbox[v]) - c)
                                      /\ \A j \in DOMAIN inbox'[v] : inbox'[v][j] = inbox[v][j + c]
    BY <1>3
  <2>2. i + c \in DOMAIN inbox[v] /\ inbox'[v][i] = inbox[v][i + c] BY <1>2, <2>1
  <2>3. ASSUME NEW j \in DOMAIN inbox[v], j > i + c PROVE ~SetsText(inbox[v][j], m)
    <3>1. j - c \in DOMAIN inbox'[v] /\ j - c > i /\ (j - c) + c = j BY <1>2, <2>1, <2>2, <2>3
    <3>2. inbox'[v][j - c] = inbox[v][j] BY <2>1, <3>1
    <3>. QED BY <3>1, <3>2
  <2>4. SetsText(inbox[v][i + c], m) BY <2>2
  <2>. QED BY <2>2, <2>3, <2>4 DEF InOrder, TextOfLast
<1>. QED BY <1>4, <1>5, <1>6, <1>7, <1>8 DEF InOrder

LEMMA TakesPanels ==
  ASSUME MessagesInvariant, PanelInvariant, NEW u \in Users, NEW d, Takes(u, d),
         u \notin hist'.raced /\ panel[u] = "open" => Tracks(u, view[u])'
  PROVE  PanelInvariant'
<1>1. InOrder' BY TakesInOrder DEF PanelInvariant
<1>2. messages' = messages /\ later' = later /\ hist'.crossed = hist.crossed /\ panel' = panel BY DEF Takes
<1>7. Newest' = Newest BY <1>2 DEF Newest
<1>3. \A v \in Users \ {u} : Keeps(v) BY <1>2, <1>7, TakesDues DEF Keeps
<1>4. \A v \in Users : panel'[v] = "open" /\ v \notin hist'.raced =>
        \/ v \notin hist.raced /\ panel[v] = "open" /\ view'[v] = view[v] /\ Keeps(v)
        \/ Tracks(v, view[v])'
  <2> SUFFICES ASSUME NEW v \in Users, panel[v] = "open", v \notin hist'.raced
               PROVE  \/ v \notin hist.raced /\ panel[v] = "open" /\ view'[v] = view[v] /\ Keeps(v)
                      \/ Tracks(v, view[v])'
    BY <1>2
  <2>1. CASE v = u BY <2>1
  <2>2. CASE v # u
    <3>1. view'[v] = view[v] /\ v \notin hist.raced BY <2>2 DEF Takes
    <3>. QED BY <1>3, <2>2, <3>1
  <2>. QED BY <2>1, <2>2
<1>5. ASSUME NEW o \in Busy', NEW v \in Users, Showing(ops'[o]), ops'[o].user = v
      PROVE  /\ o \in Busy /\ Showing(ops[o]) /\ ops[o].user = v /\ ops'[o].got = ops[o].got
             /\ Keeps(v)
  <2>1. o \in Busy BY <1>5 DEF Takes, ReadsAgain, Showing
  <2>2. Unseen(ops'[o], ops[o], u) BY <2>1 DEF Takes
  <2>3. v # u /\ Showing(ops[o]) /\ ops[o].user = v /\ ops'[o].got = ops[o].got
    BY <1>5, <2>2 DEF Unseen, Showing
  <2>. QED BY <1>3, <2>1, <2>3
<1>6. PanelsTrack' /\ AnswersTrack' BY <1>2, <1>4, <1>5, StillTracks DEF PanelInvariant
<1>. QED BY <1>1, <1>6 DEF PanelInvariant

LEMMA DropTakes == ASSUME MessagesInvariant, NEW u \in Users, Drop(u)
                   PROVE  /\ Takes(u, Len(inbox[u])) /\ u \in hist'.raced /\ u \in hist'.doubt
                          /\ UNCHANGED <<view, left, unread>>
<1>0. MessageTypes BY DEF MessagesInvariant
<1>1. UNCHANGED <<messages, later, panel, view, left, unread>> BY DEF Drop
<1>2. hist' = [hist EXCEPT !.raced = hist.raced \cup {u}, !.doubt = hist.doubt \cup {u}] BY DEF Drop
<1>3. /\ hist'.crossed = hist.crossed /\ hist'.opened = hist.opened
      /\ hist'.raced = hist.raced \cup {u} /\ hist'.doubt = hist.doubt \cup {u}
  BY <1>0, <1>2, HistIs
<1>4. inbox' = [inbox EXCEPT ![u] = <<>>] BY DEF Drop
<1>5. Len(inbox[u]) \in Nat BY InboxIs
<1>6. inbox'[u] = <<>> /\ \A v \in Users \ {u} : inbox'[v] = inbox[v] BY <1>0, <1>4 DEF MessageTypes
<1>7. DOMAIN inbox'[u] = 1..(Len(inbox[u]) - Len(inbox[u])) /\ DOMAIN inbox'[u] = {} BY <1>5, <1>6
<1>8. /\ \A o \in Busy : o \in Busy' /\ Unseen(ops'[o], ops[o], u)
      /\ \A o \in Busy' \ Busy : ReadsAgain(ops'[o], u)
  BY MissingTakes DEF Drop
<1>9. Len(inbox[u]) \in 0..Len(inbox[u]) BY <1>5
<1>. QED BY <1>1, <1>3, <1>6, <1>7, <1>8, <1>9 DEF Takes

LEMMA DropsPanel ==
  ASSUME MessagesInvariant, PanelInvariant, NEW u \in Users, Drop(u) PROVE PanelInvariant'
  BY DropTakes, TakesPanels

---------------------------------------------------------------------------
(* What an event that arrives does to its element of the panel.            *)

\* e is what u receives.
Hears(u, e) ==
  /\ Takes(u, 1) /\ inbox[u] # <<>> /\ e = inbox[u][1]
  /\ hist' = hist
  /\ view'[u] \in [Msgs -> Rows]

LEMMA HearsIs ==
  ASSUME MessagesInvariant, MessagesInvariant', SaysTrue, NEW u \in Users, NEW type, Receives(u, type),
         \A v \in Users \ {u} : view'[v] = view[v] /\ unread'[v] = unread[v],
         \A o \in Busy : o \in Busy' /\ Unseen(ops'[o], ops[o], u),
         \A o \in Busy' \ Busy : ReadsAgain(ops'[o], u)
  PROVE  \E e \in Events : /\ Hears(u, e) /\ e = Head(inbox[u]) /\ e.type = type
                           /\ 1 \in DOMAIN inbox[u] /\ EventTrue(e, messages)
                           /\ \A m \in e.about : Saved(m)
                           /\ type \in {"send", "edit", "delete"} => (Subject(u) \in Msgs /\ e.about = {Subject(u)})
<1>1. inbox[u] \in Seq(Events) /\ Len(inbox[u]) \in Nat BY InboxIs
<1>2. inbox[u] # <<>> /\ inbox' = [inbox EXCEPT ![u] = Tail(inbox[u])]
      /\ UNCHANGED <<messages, later, linked, panel, asked, hist>>
  BY DEF Receives
<1>3. 1 \in DOMAIN inbox[u] /\ Head(inbox[u]) = inbox[u][1] /\ 1 \in 0..Len(inbox[u]) BY <1>1, <1>2
<1>4. inbox'[u] = Tail(inbox[u]) /\ \A v \in Users \ {u} : inbox'[v] = inbox[v]
  BY <1>2 DEF MessagesInvariant, MessageTypes
<1>5. /\ DOMAIN inbox'[u] = 1..(Len(inbox[u]) - 1)
      /\ \A i \in DOMAIN inbox'[u] : inbox'[u][i] = inbox[u][i + 1]
  <2>1. Tail(inbox[u]) = [i \in 1..(Len(inbox[u]) - 1) |-> inbox[u][i + 1]] BY <1>1, <1>2, <1>3
  <2>. QED BY <1>4, <2>1
<1>6. PICK e \in Events : e = Head(inbox[u]) BY ReceivesIs
<1>7. e = inbox[u][1] /\ e.type = type /\ EventTrue(e, messages)
  BY <1>3, <1>6, ReceivesIs DEF SaysTrue
<1>8. \A m \in e.about : Saved(m) BY <1>6, ReceivesIs
<1>9. type \in {"send", "edit", "delete"} => \E m \in Msgs : e.about = {m}
  <2>1. type = "send" => \E m \in Msgs : e.about = {m} BY <1>3, <1>7 DEF MessagesInvariant, OnlySent
  <2>. QED BY <1>7, <2>1 DEF EventTrue
<1>10. ASSUME NEW m \in Msgs, e.about = {m} PROVE Subject(u) = m BY <1>6, <1>10 DEF Subject
<1>11. view'[u] \in [Msgs -> Rows] BY DEF MessagesInvariant, MessageTypes
<1>12. Takes(u, 1) BY <1>2, <1>3, <1>4, <1>5 DEF Takes
<1>13. Hears(u, e) BY <1>2, <1>7, <1>11, <1>12 DEF Hears
<1>. QED BY <1>3, <1>6, <1>7, <1>8, <1>9, <1>10, <1>13

\* What was due is due still, or arrives now.
LEMMA HeardDues ==
  ASSUME MessagesInvariant, NEW u \in Users, NEW e, Hears(u, e), NEW m
  PROVE  /\ \A k : k \in Dues(u, m)' => k \in Dues(u, m)
         /\ \A k : k \in Dues(u, m) /\ ~IsAbout(e, m, k) => k \in Dues(u, m)'
         /\ \A k \in {"send", "edit", "delete", "read"} : IsAbout(e, m, k) => k \in Dues(u, m)
<1>0. DOMAIN inbox[u] = 1..Len(inbox[u]) /\ Len(inbox[u]) \in Nat /\ e = inbox[u][1]
  BY InboxIs DEF Hears
<1>1. 1 \in DOMAIN inbox[u] BY <1>0, InboxIs DEF Hears
<1>2. Takes(u, 1) BY DEF Hears
<1>3. ASSUME NEW k
      PROVE  /\ Writers(m, k)' = Writers(m, k)
             /\ Waits(u, m, k)' <=> \E i \in DOMAIN inbox[u] : i > 1 /\ IsAbout(inbox[u][i], m, k)
  BY <1>2, TakesDues
<1>4. ASSUME NEW k PROVE Waits(u, m, k) <=> (IsAbout(e, m, k) \/ \E i \in DOMAIN inbox[u] : i > 1 /\ IsAbout(inbox[u][i], m, k))
  BY <1>0, <1>1 DEF Waits
<1>. QED BY <1>3, <1>4 DEF Dues

LEMMA HeardTracks ==
  ASSUME MessagesInvariant, NEW u \in Users, NEW e, Hears(u, e), Tracks(u, view[u]),
         \A m \in Msgs \ hist.crossed : m \in e.about =>
            Tracked(view'[u][m], messages[m], Dues(u, m)', From[m] = u, m \in Newest),
         \A m \in Msgs : m \notin e.about => view'[u][m] = view[u][m]
  PROVE  Tracks(u, view[u])'
<1>0. messages' = messages /\ later' = later /\ hist'.crossed = hist.crossed BY DEF Hears, Takes
<1>2. Newest' = Newest BY <1>0 DEF Newest
<1>1. ASSUME NEW m \in Msgs \ hist.crossed
      PROVE  Tracked(view'[u][m], messages[m], Dues(u, m)', From[m] = u, m \in Newest)
  <2>1. CASE m \in e.about BY <2>1
  <2>2. CASE m \notin e.about
    <3>1. Tracked(view[u][m], messages[m], Dues(u, m), From[m] = u, m \in Newest) BY DEF Tracks
    <3>2. \A k : k \in Dues(u, m)' <=> k \in Dues(u, m) BY <2>2, HeardDues DEF IsAbout
    <3>3. view'[u][m] = view[u][m] BY <2>2
    <3>4. Dues(u, m)' = Dues(u, m) BY <3>2
    <3>. QED BY <3>1, <3>3, <3>4
  <2>. QED BY <2>1, <2>2
<1>. QED BY <1>0, <1>1, <1>2 DEF Tracks

\* The text in an element when no more is to come is the last that was set.
LEMMA LastText ==
  ASSUME MessagesInvariant, InOrder, NEW u \in Users, NEW e, Hears(u, e), NEW m \in Msgs \ hist.crossed,
         SetsText(e, m), "send" \notin Dues(u, m)', "edit" \notin Dues(u, m)'
  PROVE  e.text = messages[m].text
<1>0. e = inbox[u][1] /\ 1 \in DOMAIN inbox[u] /\ DOMAIN inbox[u] = 1..Len(inbox[u]) BY InboxIs DEF Hears
<1>1. Takes(u, 1) BY DEF Hears
<1>2. ASSUME NEW k \in {"send", "edit"}
      PROVE  Writers(m, k) = {} /\ \A i \in DOMAIN inbox[u] : i > 1 => ~IsAbout(inbox[u][i], m, k)
  <2>1. k \notin Dues(u, m)' BY <1>2
  <2>2. /\ Writers(m, k)' = Writers(m, k)
        /\ Waits(u, m, k)' <=> \E i \in DOMAIN inbox[u] : i > 1 /\ IsAbout(inbox[u][i], m, k)
    BY <1>1, TakesDues
  <2>. QED BY <2>1, <2>2 DEF Dues
<1>3. Writers(m, "send") = {} /\ Writers(m, "edit") = {} BY <1>2
<1>4. \A i \in DOMAIN inbox[u] : i > 1 => ~SetsText(inbox[u][i], m) BY <1>2 DEF SetsText
<1>. QED BY <1>0, <1>3, <1>4 DEF InOrder, TextOfLast

LEMMA SendFollows ==
  ASSUME MessagesInvariant, InOrder, NEW u \in Users, NEW e, Hears(u, e), NEW m \in Msgs \ hist.crossed,
         IsAbout(e, m, "send"), EventTrue(e, messages), Saved(m),
         view'[u][m].text = e.text, ~view'[u][m].deleted, ~view'[u][m].read
  PROVE  Follows(view'[u][m], messages[m], Dues(u, m)', From[m] = u)
<1>1. "send" \in Dues(u, m) BY HeardDues
<1>2. /\ messages[m].deleted => "delete" \in Dues(u, m)
      /\ messages[m].read => "read" \in Dues(u, m)
  BY <1>1 DEF InOrder, RestFollows
<1>3. /\ messages[m].deleted => "delete" \in Dues(u, m)'
      /\ messages[m].read => "read" \in Dues(u, m)'
  BY <1>2, HeardDues DEF IsAbout
<1>4. e.text # 0 /\ messages[m].text # 0 BY DEF EventTrue, IsAbout, Saved
<1>5. "send" \notin Dues(u, m)' /\ "edit" \notin Dues(u, m)' => e.text = messages[m].text
  BY LastText DEF SetsText
<1>. QED BY <1>3, <1>4, <1>5 DEF Follows

\* An event about a message that was sent comes after the message.
LEMMA AfterSending ==
  ASSUME MessagesInvariant, InOrder, NEW u \in Users, NEW e, Hears(u, e), NEW m \in Msgs \ hist.crossed,
         m \in e.about, e.type # "send", Saved(m),
         Follows(view[u][m], messages[m], Dues(u, m), From[m] = u)
  PROVE  view[u][m].text # 0 /\ "send" \notin Dues(u, m) /\ "send" \notin Dues(u, m)'
<1>0. e = inbox[u][1] /\ 1 \in DOMAIN inbox[u] /\ DOMAIN inbox[u] = 1..Len(inbox[u]) BY InboxIs DEF Hears
<1>1. /\ Writers(m, "send") = {}
      /\ \A j \in DOMAIN inbox[u] : j > 1 => ~IsAbout(inbox[u][j], m, "send")
  BY <1>0 DEF InOrder, SendsFirst
<1>2. ~Waits(u, m, "send") BY <1>0, <1>1 DEF Waits, IsAbout
<1>3. "send" \notin Dues(u, m) BY <1>1, <1>2 DEF Dues
<1>. QED BY <1>3, HeardDues DEF Follows, Saved

LEMMA EditFollows ==
  ASSUME MessagesInvariant, InOrder, NEW u \in Users, NEW e, Hears(u, e), NEW m \in Msgs \ hist.crossed,
         IsAbout(e, m, "edit"), EventTrue(e, messages), Saved(m),
         Follows(view[u][m], messages[m], Dues(u, m), From[m] = u),
         view'[u][m].deleted = view[u][m].deleted, view'[u][m].read = view[u][m].read,
         view'[u][m].text = IF view[u][m].deleted THEN view[u][m].text ELSE e.text
  PROVE  Follows(view'[u][m], messages[m], Dues(u, m)', From[m] = u)
<1>1. view[u][m].text # 0 /\ "send" \notin Dues(u, m) BY AfterSending DEF IsAbout
<1>2. \A k \in {"delete", "read"} : k \in Dues(u, m) => k \in Dues(u, m)' BY HeardDues DEF IsAbout
<1>3. e.text # 0 /\ messages[m].text # 0 BY DEF EventTrue, IsAbout, Saved
<1>4. "send" \notin Dues(u, m)' /\ "edit" \notin Dues(u, m)' => e.text = messages[m].text
  BY LastText DEF SetsText
<1>. QED BY <1>1, <1>2, <1>3, <1>4 DEF Follows

LEMMA DeleteFollows ==
  ASSUME MessagesInvariant, InOrder, NEW u \in Users, NEW e, Hears(u, e), NEW m \in Msgs \ hist.crossed,
         IsAbout(e, m, "delete"), EventTrue(e, messages), Saved(m),
         Follows(view[u][m], messages[m], Dues(u, m), From[m] = u),
         view'[u][m].text = view[u][m].text, view'[u][m].read = view[u][m].read,
         view[u][m].text # 0 => view'[u][m].deleted
  PROVE  Follows(view'[u][m], messages[m], Dues(u, m)', From[m] = u)
<1>1. view[u][m].text # 0 /\ "send" \notin Dues(u, m) BY AfterSending DEF IsAbout
<1>2. \A k \in {"edit", "read"} : k \in Dues(u, m) => k \in Dues(u, m)' BY HeardDues DEF IsAbout
<1>3. messages[m].deleted BY DEF EventTrue, IsAbout
<1>. QED BY <1>1, <1>2, <1>3 DEF Follows

LEMMA ReadFollows ==
  ASSUME MessagesInvariant, InOrder, NEW u \in Users, NEW e \in Events, Hears(u, e), NEW m \in Msgs \ hist.crossed,
         IsAbout(e, m, "read"), EventTrue(e, messages), Saved(m),
         Follows(view[u][m], messages[m], Dues(u, m), From[m] = u),
         view'[u][m].text = view[u][m].text, view'[u][m].deleted = view[u][m].deleted,
         e.by = u => view'[u][m].read = view[u][m].read,
         e.by # u => (view'[u][m].read <=> (view[u][m].read \/ view[u][m].text # 0))
  PROVE  Follows(view'[u][m], messages[m], Dues(u, m)', From[m] = u)
<1>1. view[u][m].text # 0 /\ "send" \notin Dues(u, m) BY AfterSending DEF IsAbout
<1>2. \A k \in {"edit", "delete"} : k \in Dues(u, m) => k \in Dues(u, m)' BY HeardDues DEF IsAbout
<1>3. messages[m].read /\ From[m] # e.by BY DEF EventTrue, IsAbout
<1>4. e.by # u => From[m] = u
  <2>1. e.by \in Users /\ From[m] \in Users BY DirectMessagesAssumption DEF Events
  <2>. QED BY <1>3, <2>1, TwoUsers
<1>. QED BY <1>1, <1>2, <1>3, <1>4 DEF Follows

---------------------------------------------------------------------------
(* The four handlers of the client.                                        *)

\* An event of a kind about one message, as the handlers get it.
HearsOf(u, e, m, type) ==
  /\ Hears(u, e) /\ e.type = type /\ e.about = {m} /\ Saved(m) /\ EventTrue(e, messages)
  /\ \A n \in Msgs \ {m} : view'[u][n] = view[u][n]

LEMMA ElementIs ==
  ASSUME MessageTypes, NEW u \in Users, NEW m \in Msgs, NEW r, view' = [view EXCEPT ![u][m] = r]
  PROVE  /\ view'[u][m] = r
         /\ \A n \in Msgs \ {m} : view'[u][n] = view[u][n]
         /\ \A v \in Users \ {u} : view'[v] = view[v]
<1>1. view \in [Users -> [Msgs -> Rows]] BY DEF MessageTypes
<1>. QED BY <1>1

LEMMA MessageIs ==
  ASSUME MessagesInvariant, MessagesInvariant', SaysTrue, NEW u \in Users, OnDirectMessage(u)
  PROVE  \E e \in Events, m \in Msgs :
           /\ HearsOf(u, e, m, "send")
           /\ IF panel[u] = "open"
              THEN view'[u][m].text = e.text /\ ~view'[u][m].deleted /\ ~view'[u][m].read
              ELSE view'[u] = view[u]
           /\ unread'[u] = IF From[m] = u THEN unread[u] ELSE IF panel[u] = "open" THEN 0 ELSE unread[u] + 1
<1> DEFINE s == Subject(u)
           r == [NoRow EXCEPT !.text = Head(inbox[u]).text]
<1>0. MessageTypes BY DEF MessagesInvariant
<1>1. Receives(u, "send") BY DEF OnDirectMessage
<1>2. s \in Msgs BY <1>1, ReceivesIs
<1>3. IF panel[u] = "open" THEN view' = [view EXCEPT ![u][s] = r] ELSE view' = view
  BY DEF OnDirectMessage, AppendMessage
<1>4. r.text = Head(inbox[u]).text /\ ~r.deleted /\ ~r.read BY DEF NoRow
<1>5. unread' = IF From[s] = u THEN unread
                ELSE [unread EXCEPT ![u] = IF panel[u] = "open" THEN 0 ELSE @ + 1]
  BY DEF OnDirectMessage
<1>6. /\ \A o \in Busy : o \in Busy' /\ Unseen(ops'[o], ops[o], u)
      /\ \A o \in Busy' \ Busy : ReadsAgain(ops'[o], u)
  <2>1. \/ ops' = Missing(ops, u)
        \/ panel[u] = "open" /\ Free # {} /\ ops' = Started(Missing(ops, u), Request(u, "read", {}, 0))
    BY DEF OnDirectMessage, AppendMessage
  <2>. QED BY <2>1, MissingTakes, StartedTakes
<1> HIDE DEF s, r
<1>7. /\ \A n \in Msgs \ {s} : view'[u][n] = view[u][n]
      /\ \A v \in Users \ {u} : view'[v] = view[v]
      /\ IF panel[u] = "open" THEN view'[u][s] = r ELSE view'[u] = view[u]
  BY <1>0, <1>2, <1>3, ElementIs
<1>8. /\ \A v \in Users \ {u} : unread'[v] = unread[v]
      /\ unread'[u] = IF From[s] = u THEN unread[u] ELSE IF panel[u] = "open" THEN 0 ELSE unread[u] + 1
  BY <1>0, <1>5 DEF MessageTypes
<1>9. PICK e \in Events : /\ Hears(u, e) /\ e = Head(inbox[u]) /\ e.type = "send"
                          /\ EventTrue(e, messages) /\ e.about = {s}
                          /\ \A m \in e.about : Saved(m)
  BY <1>1, <1>6, <1>7, <1>8, HearsIs DEF s
<1>10. HearsOf(u, e, s, "send") BY <1>7, <1>9 DEF HearsOf
<1>. QED BY <1>2, <1>4, <1>7, <1>8, <1>9, <1>10

LEMMA EditIs ==
  ASSUME MessagesInvariant, MessagesInvariant', SaysTrue, NEW u \in Users, OnDirectEdited(u)
  PROVE  \E e \in Events, m \in Msgs :
           /\ HearsOf(u, e, m, "edit") /\ unread' = unread
           /\ view'[u][m].deleted = view[u][m].deleted /\ view'[u][m].read = view[u][m].read
           /\ view'[u][m].text = IF view[u][m].text = 0 \/ view[u][m].deleted THEN view[u][m].text ELSE e.text
<1> DEFINE s == Subject(u)
           r == UpdateEdited(u, s, Head(inbox[u]).text)
<1>0. MessageTypes BY DEF MessagesInvariant
<1>1. Receives(u, "edit") BY DEF OnDirectEdited
<1>2. view' = [view EXCEPT ![u][s] = r] /\ ops' = Missing(ops, u) /\ unread' = unread BY DEF OnDirectEdited
<1>3. /\ \A o \in Busy : o \in Busy' /\ Unseen(ops'[o], ops[o], u)
      /\ \A o \in Busy' \ Busy : ReadsAgain(ops'[o], u)
  BY <1>2, MissingTakes
<1>4. \A v \in Users \ {u} : view'[v] = view[v] BY <1>0, <1>2 DEF MessageTypes
<1>5. PICK e \in Events : /\ Hears(u, e) /\ e = Head(inbox[u]) /\ e.type = "edit"
                          /\ EventTrue(e, messages) /\ s \in Msgs /\ e.about = {s}
                          /\ \A m \in e.about : Saved(m)
  <2> HIDE DEF r, s
  <2>1. PICK e \in Events : /\ Hears(u, e) /\ e = Head(inbox[u]) /\ e.type = "edit"
                            /\ EventTrue(e, messages) /\ Subject(u) \in Msgs /\ e.about = {Subject(u)}
                            /\ \A m \in e.about : Saved(m)
    BY <1>1, <1>2, <1>3, <1>4, HearsIs
  <2>. QED BY <2>1 DEF s
<1>6. view[u][s] \in Rows BY <1>0, <1>5 DEF MessageTypes
<1>7. /\ r.deleted = view[u][s].deleted /\ r.read = view[u][s].read
      /\ r.text = IF view[u][s].text = 0 \/ view[u][s].deleted THEN view[u][s].text ELSE e.text
  <2>1. PICK t : t = view[u][s] OBVIOUS
  <2>2. r = IF t.text = 0 \/ t.deleted THEN t ELSE [t EXCEPT !.text = e.text]
    BY <1>5, <2>1 DEF UpdateEdited
  <2>3. t \in Rows BY <1>6, <2>1
  <2> HIDE DEF r
  <2>4. CASE t.text = 0 \/ t.deleted BY <2>1, <2>2, <2>4
  <2>5. CASE ~(t.text = 0 \/ t.deleted)
    <3>1. r = [t EXCEPT !.text = e.text] BY <2>2, <2>5
    <3>2. r.deleted = t.deleted /\ r.read = t.read /\ r.text = e.text BY <2>3, <3>1 DEF Rows
    <3>. QED BY <2>1, <2>5, <3>2
  <2>. QED BY <2>4, <2>5
<1> HIDE DEF r, s
<1>8. view'[u][s] = r /\ \A n \in Msgs \ {s} : view'[u][n] = view[u][n]
  <2>1. s \in Msgs BY <1>5
  <2>. QED BY <1>0, <1>2, <2>1, ElementIs
<1>9. HearsOf(u, e, s, "edit") BY <1>5, <1>8 DEF HearsOf
<1>. QED BY <1>2, <1>5, <1>7, <1>8, <1>9

LEMMA DeleteIs ==
  ASSUME MessagesInvariant, MessagesInvariant', SaysTrue, NEW u \in Users, OnDirectDeleted(u)
  PROVE  \E e \in Events, m \in Msgs :
           /\ HearsOf(u, e, m, "delete")
           /\ view'[u][m].text = view[u][m].text /\ view'[u][m].read = view[u][m].read
           /\ view[u][m].text # 0 <=> view'[u][m].deleted
           /\ unread'[u] = IF view[u][m].text = 0 /\ From[m] # u /\ unread[u] > 0 THEN unread[u] - 1 ELSE unread[u]
<1> DEFINE s == Subject(u)
           b == view[u][s].text # 0
           r == [view[u][s] EXCEPT !.deleted = b]
<1>0. MessageTypes BY DEF MessagesInvariant
<1>1. Receives(u, "delete") BY DEF OnDirectDeleted
<1>2. view' = [view EXCEPT ![u][s].deleted = b] /\ ops' = Missing(ops, u) /\ unread' = Discounted(u, s)
  BY DEF OnDirectDeleted
<1>3. /\ \A o \in Busy : o \in Busy' /\ Unseen(ops'[o], ops[o], u)
      /\ \A o \in Busy' \ Busy : ReadsAgain(ops'[o], u)
  BY <1>2, MissingTakes
<1>4. \A v \in Users \ {u} : view'[v] = view[v] BY <1>0, <1>2 DEF MessageTypes
<1>5. /\ \A v \in Users \ {u} : unread'[v] = unread[v]
      /\ unread'[u] = IF view[u][s].text = 0 /\ From[s] # u /\ unread[u] > 0 THEN unread[u] - 1 ELSE unread[u]
  BY <1>0, <1>2 DEF Discounted, MessageTypes
<1>6. PICK e \in Events : /\ Hears(u, e) /\ e.type = "delete"
                          /\ EventTrue(e, messages) /\ s \in Msgs /\ e.about = {s}
                          /\ \A m \in e.about : Saved(m)
  <2> HIDE DEF r, s, b
  <2>1. PICK e \in Events : /\ Hears(u, e) /\ e = Head(inbox[u]) /\ e.type = "delete"
                            /\ EventTrue(e, messages) /\ Subject(u) \in Msgs /\ e.about = {Subject(u)}
                            /\ \A m \in e.about : Saved(m)
    BY <1>1, <1>3, <1>4, <1>5, HearsIs
  <2>. QED BY <2>1 DEF s
<1>7. b \in BOOLEAN /\ (b <=> view[u][s].text # 0) OBVIOUS
<1> HIDE DEF s, b
<1>8. view[u][s] \in Rows /\ view \in [Users -> [Msgs -> Rows]] BY <1>0, <1>6 DEF MessageTypes
<1>9. r.text = view[u][s].text /\ r.read = view[u][s].read /\ r.deleted = b BY <1>8 DEF Rows
<1>10. view' = [view EXCEPT ![u][s] = r] BY <1>2, <1>6, <1>8
<1> HIDE DEF r
<1>11. view'[u][s] = r /\ \A n \in Msgs \ {s} : view'[u][n] = view[u][n]
  <2>1. s \in Msgs BY <1>6
  <2>. QED BY <1>0, <1>10, <2>1, ElementIs
<1>12. HearsOf(u, e, s, "delete") BY <1>6, <1>11 DEF HearsOf
<1>. QED BY <1>5, <1>6, <1>7, <1>9, <1>11, <1>12

LEMMA ReceiptIs ==
  ASSUME MessagesInvariant, MessagesInvariant', SaysTrue, NEW u \in Users, OnDirectRead(u)
  PROVE  \E e \in Events :
           /\ Hears(u, e) /\ e.type = "read" /\ EventTrue(e, messages) /\ \A m \in e.about : Saved(m)
           /\ unread'[u] = IF e.by = u THEN 0 ELSE unread[u]
           /\ e.by = u \/ panel[u] = "hidden" => view'[u] = view[u]
           /\ e.by # u /\ panel[u] # "hidden" => \A m \in Msgs :
                /\ view'[u][m].text = view[u][m].text /\ view'[u][m].deleted = view[u][m].deleted
                /\ view'[u][m].read <=> view[u][m].read \/ (m \in e.about /\ view[u][m].text # 0)
                /\ m \notin e.about => view'[u][m] = view[u][m]
<1> DEFINE h == Head(inbox[u])
           f == [m \in Msgs |-> [view[u][m] EXCEPT !.read = @ \/ (m \in h.about /\ view[u][m].text # 0)]]
<1>0. MessageTypes BY DEF MessagesInvariant
<1>1. Receives(u, "read") BY DEF OnDirectRead
<1>2. /\ ops' = Missing(ops, u)
      /\ view' = IF h.by = u \/ panel[u] = "hidden" THEN view ELSE [view EXCEPT ![u] = f]
      /\ unread' = IF h.by = u THEN [unread EXCEPT ![u] = 0] ELSE unread
  BY DEF OnDirectRead
<1>3. /\ \A o \in Busy : o \in Busy' /\ Unseen(ops'[o], ops[o], u)
      /\ \A o \in Busy' \ Busy : ReadsAgain(ops'[o], u)
  BY <1>2, MissingTakes
<1>4. ASSUME NEW m \in Msgs
      PROVE  /\ f[m].text = view[u][m].text /\ f[m].deleted = view[u][m].deleted
             /\ f[m].read <=> view[u][m].read \/ (m \in h.about /\ view[u][m].text # 0)
             /\ m \notin h.about => f[m] = view[u][m]
  <2> DEFINE s == view[u][m]
             b == s.read \/ (m \in h.about /\ s.text # 0)
  <2>1. s \in Rows BY <1>0 DEF MessageTypes
  <2>2. b \in BOOLEAN /\ (b <=> s.read \/ (m \in h.about /\ s.text # 0)) BY <2>1 DEF Rows
  <2>3. f[m] = [s EXCEPT !.read = b] OBVIOUS
  <2>4. m \notin h.about => b = s.read BY <2>1 DEF Rows
  <2> HIDE DEF s, b, f
  <2>5. f[m].text = s.text /\ f[m].deleted = s.deleted /\ f[m].read = b BY <2>1, <2>3 DEF Rows
  <2>6. m \notin h.about => f[m] = s BY <2>1, <2>3, <2>4 DEF Rows
  <2>. QED BY <2>2, <2>5, <2>6 DEF s
<1>5. view'[u] = (IF h.by = u \/ panel[u] = "hidden" THEN view[u] ELSE f) /\ \A v \in Users \ {u} : view'[v] = view[v]
  <2> HIDE DEF f, h
  <2>. QED BY <1>0, <1>2 DEF MessageTypes
<1>6. /\ \A v \in Users \ {u} : unread'[v] = unread[v]
      /\ unread'[u] = IF h.by = u THEN 0 ELSE unread[u]
  <2> HIDE DEF f, h
  <2>. QED BY <1>0, <1>2 DEF MessageTypes
<1>7. PICK e \in Events : /\ Hears(u, e) /\ e = h /\ e.type = "read"
                          /\ EventTrue(e, messages)
                          /\ \A m \in e.about : Saved(m)
  <2> HIDE DEF f
  <2>. QED BY <1>1, <1>3, <1>5, <1>6, HearsIs
<1> HIDE DEF f, h
<1>. QED BY <1>4, <1>5, <1>6, <1>7

\* The panel of who receives it tracks the table still.
LEMMA HearsPanel ==
  ASSUME MessagesInvariant, MessagesInvariant', PanelInvariant, NEW u \in Users, ClientStep(u)
  PROVE  PanelInvariant'
<1>0. InOrder /\ SaysTrue BY DEF PanelInvariant, InOrder
<1>1. ASSUME NEW e, Hears(u, e), u \notin hist.raced, panel[u] = "open",
             \A m \in Msgs \ hist.crossed :
                Tracked(view[u][m], messages[m], Dues(u, m), From[m] = u, m \in Newest) /\ m \in e.about =>
                  Tracked(view'[u][m], messages[m], Dues(u, m)', From[m] = u, m \in Newest),
             \A m \in Msgs : m \notin e.about => view'[u][m] = view[u][m]
      PROVE  Tracks(u, view[u])'
  <2>1. Tracks(u, view[u]) BY <1>1 DEF PanelInvariant, PanelsTrack
  <2>2. \A m \in Msgs \ hist.crossed :
          Tracked(view[u][m], messages[m], Dues(u, m), From[m] = u, m \in Newest)
    BY <2>1 DEF Tracks
  <2>. QED BY <1>1, <2>1, <2>2, HeardTracks
<1>2. ASSUME OnDirectMessage(u)
      PROVE  \E e : Hears(u, e) /\ (u \notin hist.raced /\ panel[u] = "open" => Tracks(u, view[u])')
  <2>1. PICK e \in Events, m \in Msgs :
          /\ HearsOf(u, e, m, "send")
          /\ panel[u] = "open" => (view'[u][m].text = e.text /\ ~view'[u][m].deleted /\ ~view'[u][m].read)
    BY <1>0, <1>2, MessageIs
  <2>2. ASSUME u \notin hist.raced, panel[u] = "open" PROVE Tracks(u, view[u])'
    <3>1. m \notin hist.crossed => Follows(view'[u][m], messages[m], Dues(u, m)', From[m] = u)
      BY <1>0, <2>1, <2>2, SendFollows DEF HearsOf, IsAbout
    <3>. QED BY <1>1, <2>1, <2>2, <3>1 DEF HearsOf, Tracked
  <2>. QED BY <2>1, <2>2 DEF HearsOf
<1>3. ASSUME OnDirectEdited(u)
      PROVE  \E e : Hears(u, e) /\ (u \notin hist.raced /\ panel[u] = "open" => Tracks(u, view[u])')
  <2>1. PICK e \in Events, m \in Msgs :
          /\ HearsOf(u, e, m, "edit")
          /\ view'[u][m].deleted = view[u][m].deleted /\ view'[u][m].read = view[u][m].read
          /\ view'[u][m].text = IF view[u][m].text = 0 \/ view[u][m].deleted THEN view[u][m].text ELSE e.text
    BY <1>0, <1>3, EditIs
  <2>2. ASSUME u \notin hist.raced, panel[u] = "open" PROVE Tracks(u, view[u])'
    <3>1. ASSUME m \notin hist.crossed, Follows(view[u][m], messages[m], Dues(u, m), From[m] = u)
          PROVE  Follows(view'[u][m], messages[m], Dues(u, m)', From[m] = u)
      <4>1. Hears(u, e) /\ IsAbout(e, m, "edit") /\ m \in e.about /\ e.type # "send" /\ Saved(m) /\ EventTrue(e, messages)
        BY <2>1 DEF HearsOf, IsAbout
      <4>2. view[u][m].text # 0 BY <1>0, <3>1, <4>1, AfterSending
      <4>3. view'[u][m].text = IF view[u][m].deleted THEN view[u][m].text ELSE e.text BY <2>1, <4>2
      <4>. QED BY <1>0, <2>1, <3>1, <4>1, <4>3, EditFollows
    <3>2. Absent(view[u][m]) => Absent(view'[u][m]) BY <2>1 DEF Absent
    <3>. QED BY <1>1, <2>1, <2>2, <3>1, <3>2 DEF HearsOf, Tracked
  <2>. QED BY <2>1, <2>2 DEF HearsOf
<1>4. ASSUME OnDirectDeleted(u)
      PROVE  \E e : Hears(u, e) /\ (u \notin hist.raced /\ panel[u] = "open" => Tracks(u, view[u])')
  <2>1. PICK e \in Events, m \in Msgs :
          /\ HearsOf(u, e, m, "delete")
          /\ view'[u][m].text = view[u][m].text /\ view'[u][m].read = view[u][m].read
          /\ view[u][m].text # 0 <=> view'[u][m].deleted
    BY <1>0, <1>4, DeleteIs
  <2>2. ASSUME u \notin hist.raced, panel[u] = "open" PROVE Tracks(u, view[u])'
    <3>1. ASSUME m \notin hist.crossed, Follows(view[u][m], messages[m], Dues(u, m), From[m] = u)
          PROVE  Follows(view'[u][m], messages[m], Dues(u, m)', From[m] = u)
      BY <1>0, <2>1, <3>1, DeleteFollows DEF HearsOf, IsAbout
    <3>2. Absent(view[u][m]) => Absent(view'[u][m]) BY <2>1 DEF Absent
    <3>. QED BY <1>1, <2>1, <2>2, <3>1, <3>2 DEF HearsOf, Tracked
  <2>. QED BY <2>1, <2>2 DEF HearsOf
<1>5. ASSUME OnDirectRead(u)
      PROVE  \E e : Hears(u, e) /\ (u \notin hist.raced /\ panel[u] = "open" => Tracks(u, view[u])')
  <2>1. PICK e \in Events :
           /\ Hears(u, e) /\ e.type = "read" /\ EventTrue(e, messages) /\ \A m \in e.about : Saved(m)
           /\ e.by = u \/ panel[u] = "hidden" => view'[u] = view[u]
           /\ e.by # u /\ panel[u] # "hidden" => \A m \in Msgs :
                /\ view'[u][m].text = view[u][m].text /\ view'[u][m].deleted = view[u][m].deleted
                /\ view'[u][m].read <=> view[u][m].read \/ (m \in e.about /\ view[u][m].text # 0)
                /\ m \notin e.about => view'[u][m] = view[u][m]
    BY <1>0, <1>5, ReceiptIs
  <2>2. ASSUME u \notin hist.raced, panel[u] = "open" PROVE Tracks(u, view[u])'
    <3>1. ASSUME NEW m \in Msgs \ hist.crossed, m \in e.about,
                 Follows(view[u][m], messages[m], Dues(u, m), From[m] = u)
          PROVE  Follows(view'[u][m], messages[m], Dues(u, m)', From[m] = u)
      <4>1. /\ view'[u][m].text = view[u][m].text /\ view'[u][m].deleted = view[u][m].deleted
            /\ e.by = u => view'[u][m].read = view[u][m].read
            /\ e.by # u => (view'[u][m].read <=> (view[u][m].read \/ view[u][m].text # 0))
        BY <2>1, <2>2, <3>1
      <4>2. IsAbout(e, m, "read") /\ Saved(m) BY <2>1, <3>1 DEF IsAbout
      <4>. QED BY <1>0, <2>1, <3>1, <4>1, <4>2, ReadFollows
    <3>2. \A m \in Msgs : m \notin e.about => view'[u][m] = view[u][m] BY <2>1, <2>2
    <3>3. ASSUME NEW m \in Msgs, Absent(view[u][m]) PROVE Absent(view'[u][m])
      BY <2>1, <2>2, <3>3 DEF Absent
    <3>. QED BY <1>1, <2>1, <2>2, <3>1, <3>2, <3>3 DEF Tracked
  <2>. QED BY <2>1, <2>2
<1>6. PICK e : Hears(u, e) /\ (u \notin hist.raced /\ panel[u] = "open" => Tracks(u, view[u])')
  BY <1>2, <1>3, <1>4, <1>5 DEF ClientStep
<1>7. Takes(u, 1) /\ hist' = hist BY <1>6 DEF Hears
<1>. QED BY <1>6, <1>7, TakesPanels

---------------------------------------------------------------------------
(* The panels converge.                                                    *)

LEMMA PanelBegins == ASSUME MessagesInit PROVE PanelInvariant
<1>1. Busy = {} /\ \A u \in Users : inbox[u] = <<>> BY DEF MessagesInit, Busy
<1>2. \A u \in Users : DOMAIN inbox[u] = {} BY <1>1
<1>3. \A m, k : Writers(m, k) = {} BY <1>1 DEF Writers
<1>4. \A u \in Users : \A m : Dues(u, m) = {} BY <1>2, <1>3 DEF Dues, Waits
<1>5. SaysTrue BY <1>1, <1>2 DEF SaysTrue
<1>6. SendsFirst BY <1>2 DEF SendsFirst
<1>7. RestFollows BY <1>4 DEF RestFollows
<1>8. TextOfWriter BY <1>3 DEF TextOfWriter
<1>9. TextOfLast BY <1>2 DEF TextOfLast
<1>10. PanelsTrack BY DEF PanelsTrack, MessagesInit
<1>11. AnswersTrack BY <1>1 DEF AnswersTrack
<1>. QED BY <1>5, <1>6, <1>7, <1>8, <1>9, <1>10, <1>11 DEF PanelInvariant, InOrder

\* The statements that write.
LEMMA ServerWrites ==
  ASSUME MessagesInvariant, SaysTrue, NEW o \in Ops,
         \/ Save(o) \/ EditMessage(o) \/ DeleteMessage(o)
         \/ MarkConversationRead(o) /\ Unread(ops[o].user) # {}
  PROVE  \E S, k : Wrote(o, S, k)
  BY SaveWrites, EditWrites, DeleteWrites, ReadWrites

LEMMA PanelStep ==
  ASSUME MessagesInvariant, MessagesInvariant', PanelInvariant, [MessagesNext]_messagesVars
  PROVE  PanelInvariant'
<1>0. SaysTrue BY DEF PanelInvariant, InOrder
<1>1. ASSUME NEW u \in Users, UserStep(u) PROVE PanelInvariant'
  <2>1. CASE Hide(u) BY <2>1, HidesPanel
  <2>2. CASE Drop(u) BY <2>2, DropsPanel
  <2>3. CASE \/ Send(u) \/ OpenConversation(u) \/ RefreshFriends(u)
             \/ \E m \in Msgs : Delete(u, m) \/ \E t \in Texts : Edit(u, m, t)
    BY <2>3, UserAsks, SilentPanels
  <2>. QED BY <1>1, <2>1, <2>2, <2>3 DEF UserStep
<1>2. ASSUME NEW u \in Users, ClientStep(u) PROVE PanelInvariant' BY <1>2, HearsPanel
<1>3. ASSUME NEW o \in Ops, ServerStep(o) PROVE PanelInvariant'
  <2>1. CASE \/ FindMessage(o) \/ AreFriends(o) \/ IsBlockedEitherDirection(o) \/ Fails(o) \/ FindsNoRow(o)
             \/ ListConversation(o) \/ ListUnreadCounts(o)
             \/ MarkConversationRead(o) /\ Unread(ops[o].user) = {}
    BY <2>1, ServerReads, SilentPanels
  <2>2. CASE \/ Save(o) \/ EditMessage(o) \/ DeleteMessage(o)
             \/ MarkConversationRead(o) /\ Unread(ops[o].user) # {}
    BY <1>0, <2>2, ServerWrites, WrotePanels
  <2>3. CASE Publish(o) BY <2>3, PublishAnnounces, AnnouncedPanels
  <2>. QED BY <1>3, <2>1, <2>2, <2>3 DEF ServerStep
<1>4. ASSUME NEW o \in Ops, OpenPanel(o) \/ ShowUnreadCounts(o) PROVE PanelInvariant'
  BY <1>4, OpensTracking, ShowsPanel
<1>5. ASSUME NEW c \in Checks, Relink(c) PROVE PanelInvariant' BY <1>5, RelinkIsSilent, SilentPanels
<1>6. CASE UNCHANGED messagesVars BY <1>6, StutterIsSilent, SilentPanels
<1>. QED BY <1>1, <1>2, <1>3, <1>4, <1>5, <1>6 DEF MessagesNext

\* An open panel, and a history about to be shown, follow the table but for
\* what is still to be announced or to be received.
THEOREM PanelsFollowTable == MessagesSpec => []PanelInvariant
<1>1. MessagesSpec => []MessagesInvariant BY MessagesInvariantHolds
<1>2. MessagesInit => PanelInvariant BY PanelBegins
<1>3. MessagesInvariant /\ MessagesInvariant' /\ PanelInvariant /\ [MessagesNext]_messagesVars => PanelInvariant'
  BY PanelStep
<1>. QED BY <1>1, <1>2, <1>3, PTL DEF MessagesSpec

LEMMA NothingIsDue ==
  ASSUME Quiet PROVE \A u \in Users : \A m : Dues(u, m) = {}
<1>1. Busy = {} /\ \A u \in Users : inbox[u] = <<>> BY DEF Quiet
<1>2. \A u \in Users : DOMAIN inbox[u] = {} BY <1>1
<1>. QED BY <1>1, <1>2 DEF Dues, Waits, Writers

---------------------------------------------------------------------------
(* What the badge counts.                                                  *)

\* What u was told of, not told deleted since.
InBadge(u) ==
  {m \in Mine(Other(u)) : /\ Saved(m) /\ "send" \notin Dues(u, m)
                          /\ messages[m].deleted => "delete" \in Dues(u, m)}

\* Who never opened the panel has read nothing.
NeverOpened ==
  \A u \in Users \ hist.opened :
    /\ panel[u] = "hidden" /\ \A m \in Msgs : view[u][m].text = 0
    /\ \A o \in Busy : ops[o].user = u => ops[o].kind # "read"
    /\ \A v \in Users : \A i \in DOMAIN inbox[v] : inbox[v][i].type = "read" => inbox[v][i].by # u
    /\ \A m \in Mine(Other(u)) : ~messages[m].read

InTurn(u) == Mine(Other(u)) \cap hist.crossed = {}
BadgeIsCount ==
  \A u \in Users \ (hist.opened \cup hist.doubt) : InTurn(u) => unread[u] = Cardinality(InBadge(u))

\* An answer with counts that no event has crossed says what the badge should.
Counting(r) == r.kind = "count" /\ r.step # "count" /\ ~r.missed
CountsTrack ==
  \A o \in Busy : \A u \in Users \ hist.opened :
    Counting(ops[o]) /\ ops[o].user = u /\ InTurn(u) => ops[o].about = InBadge(u)

\* A message is sent once and deleted once, and each is announced once.
Once ==
  \A m \in Msgs : \A k \in {"send", "delete"} :
    /\ \A o, p \in Writers(m, k) : o = p
    /\ \A u \in Users : \A i \in DOMAIN inbox[u] : IsAbout(inbox[u][i], m, k) =>
         /\ Writers(m, k) = {}
         /\ \A j \in DOMAIN inbox[u] : IsAbout(inbox[u][j], m, k) => i = j

BadgeInvariant == NeverOpened /\ BadgeIsCount /\ CountsTrack /\ Once

LEMMA BadgeBegins == ASSUME MessagesInit PROVE BadgeInvariant
<1>1. Busy = {} /\ \A u \in Users : inbox[u] = <<>> BY DEF MessagesInit, Busy
<1>2. \A u \in Users : DOMAIN inbox[u] = {} BY <1>1
<1>3. \A m, k : Writers(m, k) = {} BY <1>1 DEF Writers
<1>4. \A m \in Msgs : messages[m] = NoRow BY DEF MessagesInit
<1>5. \A u \in Users : InBadge(u) = {} BY <1>4 DEF InBadge, Mine, Saved, NoRow
<1>6. NeverOpened BY <1>1, <1>2, <1>4 DEF NeverOpened, MessagesInit, Mine, NoRow
<1>7. BadgeIsCount
  <2>1. Cardinality({}) = 0 BY FS_EmptySet
  <2>2. \A u \in Users : unread[u] = 0 BY DEF MessagesInit
  <2>. QED BY <1>5, <2>1, <2>2 DEF BadgeIsCount
<1>8. CountsTrack BY <1>1 DEF CountsTrack
<1>9. Once BY <1>2, <1>3 DEF Once
<1>. QED BY <1>6, <1>7, <1>8, <1>9 DEF BadgeInvariant

\* The badge after a step that leaves what it should count.
LEMMA StillCounts ==
  ASSUME BadgeIsCount, CountsTrack, hist.crossed \subseteq hist'.crossed, hist.opened \subseteq hist'.opened,
         \A u \in Users \ (hist'.opened \cup hist'.doubt) : InTurn(u) =>
           \/ u \notin hist.doubt /\ unread'[u] = unread[u] /\ InBadge(u)' = InBadge(u)
           \/ unread'[u] = Cardinality(InBadge(u)'),
         \A o \in Busy' : \A u \in Users \ hist'.opened :
           Counting(ops'[o]) /\ ops'[o].user = u /\ InTurn(u) =>
             \/ /\ o \in Busy /\ Counting(ops[o]) /\ ops[o].user = u /\ ops'[o].about = ops[o].about
                /\ InBadge(u)' = InBadge(u)
             \/ ops'[o].about = InBadge(u)'
  PROVE  BadgeIsCount' /\ CountsTrack'
<1>0. \A u : InTurn(u)' => InTurn(u) BY DEF InTurn, Mine, Other
<1>1. ASSUME NEW u \in Users \ (hist'.opened \cup hist'.doubt), InTurn(u)'
      PROVE  unread'[u] = Cardinality(InBadge(u)')
  <2>1. InTurn(u) /\ u \notin hist.opened BY <1>0, <1>1
  <2>2. CASE u \notin hist.doubt /\ unread'[u] = unread[u] /\ InBadge(u)' = InBadge(u)
    <3>1. unread[u] = Cardinality(InBadge(u)) BY <2>1, <2>2 DEF BadgeIsCount
    <3>. QED BY <2>2, <3>1
  <2>. QED BY <1>1, <2>1, <2>2
<1>2. ASSUME NEW o \in Busy', NEW u \in Users \ hist'.opened, Counting(ops'[o]), ops'[o].user = u, InTurn(u)'
      PROVE  ops'[o].about = InBadge(u)'
  <2>1. InTurn(u) /\ u \notin hist.opened BY <1>0, <1>2
  <2>2. CASE /\ o \in Busy /\ Counting(ops[o]) /\ ops[o].user = u /\ ops'[o].about = ops[o].about
             /\ InBadge(u)' = InBadge(u)
    <3>1. ops[o].about = InBadge(u) BY <2>1, <2>2 DEF CountsTrack
    <3>. QED BY <2>2, <3>1
  <2>. QED BY <1>2, <2>1, <2>2
<1>3. BadgeIsCount' BY <1>1 DEF BadgeIsCount
<1>4. CountsTrack' BY <1>2 DEF CountsTrack, Counting
<1>. QED BY <1>3, <1>4

\* Nobody reads in a quiet step who has not opened the panel.
LEMMA QuietNeverOpened ==
  ASSUME MessagesInvariant, NeverOpened, QuietStep, hist.opened \subseteq hist'.opened,
         \A u \in Users \ hist'.opened : panel'[u] \in {panel[u], "hidden"} /\ view'[u] = view[u]
  PROVE  NeverOpened'
<1>1. messages' = messages /\ inbox' = inbox BY DEF QuietStep
<1>2. ASSUME NEW u \in Users \ hist'.opened, NEW o \in Busy', ops'[o].user = u PROVE ops'[o].kind # "read"
  <2>1. CASE o \in Busy /\ Kept(ops'[o], ops[o]) BY <1>2, <2>1 DEF Kept, NeverOpened
  <2>2. CASE Begins(ops'[o], hist'.opened) BY <1>2, <2>2 DEF Begins
  <2>3. CASE ReadHistory(ops'[o]) \/ ReadCounts(ops'[o]) BY <2>3 DEF ReadHistory, ReadCounts
  <2>. QED BY <2>1, <2>2, <2>3 DEF QuietStep, GoOn
<1>3. ASSUME NEW u \in Users \ hist'.opened
      PROVE  /\ panel'[u] = "hidden" /\ \A m \in Msgs : view'[u][m].text = 0
             /\ \A v \in Users : \A i \in DOMAIN inbox[v] : inbox[v][i].type = "read" => inbox[v][i].by # u
             /\ \A m \in Mine(Other(u)) : ~messages[m].read
  BY DEF NeverOpened
<1>4. \A u : Mine(Other(u))' = Mine(Other(u)) BY DEF Mine, Other
<1>. QED BY <1>1, <1>2, <1>3, <1>4 DEF NeverOpened, Mine, Other

LEMMA QuietBadge ==
  ASSUME MessagesInvariant, QuietStep, NEW u PROVE InBadge(u)' = InBadge(u)
<1>1. messages' = messages BY DEF QuietStep
<1>2. \A m : Dues(u, m)' = Dues(u, m) BY QuietDues
<1>3. \A m : Saved(m)' <=> Saved(m) BY <1>1 DEF Saved
<1>4. Mine(Other(u))' = Mine(Other(u)) BY DEF Mine, Other
<1>5. \A m : m \in InBadge(u)' <=> m \in InBadge(u) BY <1>1, <1>2, <1>3, <1>4 DEF InBadge
<1>. QED BY <1>5

\* Counts that were just read, with nothing on its way to the user.
LEMMA CountsAreBadge ==
  ASSUME MessagesInvariant, NeverOpened, NEW u \in Users \ hist.opened,
         inbox[u] = <<>>, \A p \in Busy : ops[p].step # "publish"
  PROVE  Unread(u) = InBadge(u)
<1>1. DOMAIN inbox[u] = {} OBVIOUS
<1>2. \A m : Dues(u, m) = {} BY <1>1 DEF Dues, Waits, Writers
<1>3. \A m \in Mine(Other(u)) : ~messages[m].read BY DEF NeverOpened
<1>4. \A m : m \in Unread(u) <=> m \in InBadge(u) BY <1>2, <1>3 DEF Unread, InBadge
<1>. QED BY <1>4

LEMMA QuietOnce == ASSUME MessagesInvariant, Once, QuietStep PROVE Once'
<1>1. \A m, k : Writers(m, k)' = Writers(m, k) BY QuietDues
<1>2. inbox' = inbox BY DEF QuietStep
<1>. QED BY <1>1, <1>2 DEF Once

LEMMA QuietBadges ==
  ASSUME MessagesInvariant, BadgeInvariant, QuietStep, hist.opened \subseteq hist'.opened,
         \A u \in Users \ hist'.opened : panel'[u] \in {panel[u], "hidden"} /\ view'[u] = view[u],
         \A u \in Users \ (hist'.opened \cup hist'.doubt) : InTurn(u) =>
           \/ u \notin hist.doubt /\ unread'[u] = unread[u]
           \/ unread'[u] = Cardinality(InBadge(u))
  PROVE  BadgeInvariant'
<1>1. NeverOpened' BY QuietNeverOpened DEF BadgeInvariant
<1>2. Once' BY QuietOnce DEF BadgeInvariant
<1>3. \A u : InBadge(u)' = InBadge(u) BY QuietBadge
<1>4. hist.crossed \subseteq hist'.crossed BY DEF QuietStep
<1>5. \A u \in Users \ (hist'.opened \cup hist'.doubt) : InTurn(u) =>
           \/ u \notin hist.doubt /\ unread'[u] = unread[u] /\ InBadge(u)' = InBadge(u)
           \/ unread'[u] = Cardinality(InBadge(u)')
  BY <1>3
<1>6. ASSUME NEW o \in Busy', NEW u \in Users \ hist'.opened, Counting(ops'[o]), ops'[o].user = u, InTurn(u)
      PROVE  \/ /\ o \in Busy /\ Counting(ops[o]) /\ ops[o].user = u /\ ops'[o].about = ops[o].about
                /\ InBadge(u)' = InBadge(u)
             \/ ops'[o].about = InBadge(u)'
  <2>1. CASE o \in Busy /\ Kept(ops'[o], ops[o]) BY <1>3, <1>6, <2>1 DEF Kept, Counting
  <2>2. CASE Begins(ops'[o], hist'.opened) BY <1>6, <2>2 DEF Begins, Counting
  <2>3. CASE ReadHistory(ops'[o]) BY <1>6, <2>3 DEF ReadHistory, Counting
  <2>4. CASE ReadCounts(ops'[o])
    <3>1. ops'[o].about = Unread(u) /\ inbox[u] = <<>> /\ \A p \in Busy : ops[p].step # "publish"
      BY <1>6, <2>4 DEF ReadCounts, Counting
    <3>2. Unread(u) = InBadge(u) BY <3>1, CountsAreBadge DEF BadgeInvariant
    <3>. QED BY <1>3, <3>1, <3>2
  <2>. QED BY <2>1, <2>2, <2>3, <2>4 DEF QuietStep, GoOn
<1>7. BadgeIsCount' /\ CountsTrack' BY <1>4, <1>5, <1>6, StillCounts DEF BadgeInvariant
<1>. QED BY <1>1, <1>2, <1>7 DEF BadgeInvariant

LEMMA SilentBadges == ASSUME MessagesInvariant, BadgeInvariant, Silent PROVE BadgeInvariant'
  BY QuietBadges DEF Silent

LEMMA HidesBadge == ASSUME MessagesInvariant, BadgeInvariant, NEW u \in Users, Hide(u) PROVE BadgeInvariant'
<1>1. QuietStep /\ UNCHANGED <<view, left, unread, hist>> /\ \A v \in Users : panel'[v] = IF v = u THEN "hidden" ELSE panel[v]
  BY HidesIsQuiet
<1>. QED BY <1>1, QuietBadges

LEMMA ShowsBadge ==
  ASSUME MessagesInvariant, BadgeInvariant, NEW o \in Ops, ShowUnreadCounts(o) PROVE BadgeInvariant'
<1>0. PICK u \in Users : u = ops[o].user BY ShowsIsQuiet
<1>1. /\ QuietStep /\ UNCHANGED <<view, panel>> /\ o \in Busy
      /\ ops[o].kind = "count" /\ ops[o].step = "show" /\ hist'.opened = hist.opened
      /\ hist'.doubt = IF ops[o].missed THEN hist.doubt \cup {u} ELSE hist.doubt \ {u}
      /\ \A v \in Users : unread'[v] = IF v = u THEN Cardinality(ops[o].about) ELSE unread[v]
  BY <1>0, ShowsIsQuiet
<1>2. ASSUME NEW v \in Users \ (hist'.opened \cup hist'.doubt), InTurn(v)
      PROVE  \/ v \notin hist.doubt /\ unread'[v] = unread[v]
             \/ unread'[v] = Cardinality(InBadge(v))
  <2>1. CASE v # u BY <1>1, <1>2, <2>1
  <2>2. CASE v = u
    <3>1. Counting(ops[o]) BY <1>1, <2>2 DEF Counting
    <3>2. ops[o].about = InBadge(u) BY <1>0, <1>1, <1>2, <2>2, <3>1 DEF BadgeInvariant, CountsTrack
    <3>. QED BY <1>1, <2>2, <3>2
  <2>. QED BY <2>1, <2>2
<1>. QED BY <1>1, <1>2, QuietBadges

LEMMA OpensBadge ==
  ASSUME MessagesInvariant, BadgeInvariant, NEW o \in Ops, OpenPanel(o) PROVE BadgeInvariant'
<1>0. PICK u \in Users : u = ops[o].user BY OpensIsQuiet
<1>1. /\ QuietStep /\ hist'.opened = hist.opened \cup {u} /\ hist'.doubt = hist.doubt
      /\ \A v \in Users : v # u => (view'[v] = view[v] /\ panel'[v] = panel[v] /\ unread'[v] = unread[v])
  BY <1>0, OpensIsQuiet
<1>. QED BY <1>1, QuietBadges

\* A statement that writes changes no badge: its event is still due.
LEMMA WroteBadge ==
  ASSUME MessagesInvariant, NEW o, NEW S, NEW k, Wrote(o, S, k), NEW u PROVE InBadge(u)' = InBadge(u)
<1>0. \A m : Dues(u, m)' = IF m \in S THEN Dues(u, m) \cup {k} ELSE Dues(u, m) BY WroteDues
<1>1. Mine(Other(u))' = Mine(Other(u)) BY DEF Mine, Other
<1>2. k \in {"send", "edit", "delete", "read"} BY DEF Wrote
<1>3. ASSUME NEW m \in Mine(Other(u)) PROVE m \in InBadge(u)' <=> m \in InBadge(u)
  <2>0. m \in Msgs BY DEF Mine
  <2>1. CASE m \in S
    <3>1. RowWritten(k, ops[o].text, messages[m], messages'[m]) BY <2>1 DEF Wrote
    <3>2. Dues(u, m)' = Dues(u, m) \cup {k} BY <1>0, <2>1
    <3>3. NoRow.text = 0 BY DEF NoRow
    <3>4. CASE k = "send" BY <1>1, <3>1, <3>2, <3>3, <3>4 DEF InBadge, RowWritten, Saved
    <3>5. CASE k = "edit" BY <1>1, <3>1, <3>2, <3>5 DEF InBadge, RowWritten, Saved
    <3>6. CASE k = "delete" BY <1>1, <3>1, <3>2, <3>6 DEF InBadge, RowWritten, Saved
    <3>7. CASE k = "read" BY <1>1, <3>1, <3>2, <3>7 DEF InBadge, RowWritten, Saved
    <3>. QED BY <1>2, <3>4, <3>5, <3>6, <3>7
  <2>2. CASE m \notin S
    <3>1. messages'[m] = messages[m] /\ Dues(u, m)' = Dues(u, m) BY <1>0, <2>0, <2>2 DEF Wrote
    <3>. QED BY <1>1, <3>1 DEF InBadge, Saved
  <2>. QED BY <2>1, <2>2
<1>4. InBadge(u)' \subseteq InBadge(u) BY <1>1, <1>3 DEF InBadge
<1>5. InBadge(u) \subseteq InBadge(u)' BY <1>1, <1>3 DEF InBadge
<1>. QED BY <1>4, <1>5

LEMMA WroteNeverOpened ==
  ASSUME MessagesInvariant, NeverOpened, NEW o, NEW S, NEW k, Wrote(o, S, k) PROVE NeverOpened'
<1>1. /\ hist' = hist /\ inbox' = inbox /\ panel' = panel /\ view' = view /\ o \in Busy /\ ops[o].kind = k
      /\ k = "read" => \A m \in S : From[m] # ops[o].user
      /\ \A m \in Msgs \ S : messages'[m] = messages[m]
      /\ \A m \in S : RowWritten(k, ops[o].text, messages[m], messages'[m])
      /\ k \in {"send", "edit", "delete", "read"}
  BY DEF Wrote
<1>2. ASSUME NEW u \in Users \ hist.opened, NEW p \in Busy', ops'[p].user = u PROVE ops'[p].kind # "read"
  <2>1. CASE p = o BY <1>2, <2>1 DEF Wrote, NeverOpened
  <2>2. CASE p # o
    <3>1. p \in Busy /\ ops'[p] = ops[p] BY <1>2, <2>2 DEF Wrote, Busy
    <3>. QED BY <1>2, <3>1 DEF NeverOpened
  <2>. QED BY <2>1, <2>2
<1>3. ASSUME NEW u \in Users \ hist.opened, NEW m \in Mine(Other(u)) PROVE ~messages'[m].read
  <2>1. ~messages[m].read /\ m \in Msgs /\ From[m] = Other(u) BY DEF NeverOpened, Mine
  <2>2. CASE m \in S
    <3>1. RowWritten(k, ops[o].text, messages[m], messages'[m]) BY <1>1, <2>2
    <3>2. k # "read"
      <4> SUFFICES ASSUME k = "read" PROVE FALSE OBVIOUS
      <4>1. ops[o].user # u BY <1>1 DEF NeverOpened
      <4>2. ops[o].user \in Users BY <1>1, OpIs, RequestFields DEF MessagesInvariant
      <4>3. ops[o].user = Other(u) BY <4>1, <4>2, TwoUsers
      <4>. QED BY <1>1, <2>1, <2>2, <4>3
    <3>. QED BY <1>1, <2>1, <3>1, <3>2 DEF RowWritten
  <2>3. CASE m \notin S BY <1>1, <2>1, <2>3
  <2>. QED BY <2>2, <2>3
<1>4. \A u : Mine(Other(u))' = Mine(Other(u)) BY DEF Mine, Other
<1>5. ASSUME NEW u \in Users \ hist.opened
      PROVE  /\ panel[u] = "hidden" /\ \A m \in Msgs : view[u][m].text = 0
             /\ \A v \in Users : \A i \in DOMAIN inbox[v] : inbox[v][i].type = "read" => inbox[v][i].by # u
  BY DEF NeverOpened
<1>. QED BY <1>1, <1>2, <1>3, <1>4, <1>5 DEF NeverOpened

LEMMA WroteOnce ==
  ASSUME MessagesInvariant, SaysTrue, Once, NEW o, NEW S, NEW k, Wrote(o, S, k) PROVE Once'
<1>0. inbox' = inbox BY DEF Wrote
<1>1. \A m, j : Writers(m, j)' = IF m \in S /\ j = k THEN Writers(m, j) \cup {o} ELSE Writers(m, j)
  BY WroteDues
<1>2. ASSUME NEW m \in S, k \in {"send", "delete"}
      PROVE  Writers(m, k) = {} /\ \A u \in Users : \A i \in DOMAIN inbox[u] : ~IsAbout(inbox[u][i], m, k)
  <2>1. CASE k = "send" BY <2>1, SentFirst DEF IsAbout
  <2>2. CASE k = "delete"
    <3>1. ~messages[m].deleted BY <2>2 DEF Wrote, RowWritten
    <3>2. ASSUME NEW p \in Writers(m, k) PROVE FALSE
      <4>1. p \in Busy /\ ops[p].step = "publish" /\ ops[p].kind = "delete" /\ m \in ops[p].about
        BY <2>2 DEF Writers
      <4>2. Sound(ops[p]) BY <4>1 DEF MessagesInvariant, RequestsSound
      <4>. QED BY <3>1, <4>1, <4>2 DEF Sound, Unannounced
    <3>3. ASSUME NEW u \in Users, NEW i \in DOMAIN inbox[u], IsAbout(inbox[u][i], m, k) PROVE FALSE
      <4>1. EventTrue(inbox[u][i], messages) BY DEF SaysTrue
      <4>. QED BY <2>2, <3>1, <3>3, <4>1 DEF EventTrue, IsAbout
    <3>. QED BY <3>2, <3>3
  <2>. QED BY <1>2, <2>1, <2>2
<1>3. ASSUME NEW m \in Msgs, NEW j \in {"send", "delete"}
      PROVE  /\ \A p, q \in Writers(m, j)' : p = q
             /\ \A u \in Users : \A i \in DOMAIN inbox[u] : IsAbout(inbox[u][i], m, j) =>
                  /\ Writers(m, j)' = {}
                  /\ \A h \in DOMAIN inbox[u] : IsAbout(inbox[u][h], m, j) => i = h
  <2>1. CASE m \in S /\ j = k
    <3>1. Writers(m, j)' = {o} /\ \A u \in Users : \A i \in DOMAIN inbox[u] : ~IsAbout(inbox[u][i], m, j)
      BY <1>1, <1>2, <2>1
    <3>. QED BY <3>1
  <2>2. CASE ~(m \in S /\ j = k)
    <3>1. Writers(m, j)' = Writers(m, j) BY <1>1, <2>2
    <3>. QED BY <3>1 DEF Once
  <2>. QED BY <2>1, <2>2
<1>. QED BY <1>0, <1>3 DEF Once

LEMMA WroteBadges ==
  ASSUME MessagesInvariant, SaysTrue, BadgeInvariant, NEW o, NEW S, NEW k, Wrote(o, S, k) PROVE BadgeInvariant'
<1>1. NeverOpened' /\ Once' BY WroteNeverOpened, WroteOnce DEF BadgeInvariant
<1>2. \A u : InBadge(u)' = InBadge(u) BY WroteBadge
<1>3. hist' = hist /\ unread' = unread BY DEF Wrote
<1>4. ASSUME NEW p \in Busy', Counting(ops'[p]) PROVE p \in Busy /\ ops'[p] = ops[p]
  <2>1. p # o BY <1>4 DEF Wrote, Counting
  <2>. QED BY <1>4, <2>1 DEF Wrote, Busy
<1>5. BadgeIsCount' /\ CountsTrack' BY <1>2, <1>3, <1>4, StillCounts DEF BadgeInvariant
<1>. QED BY <1>1, <1>5 DEF BadgeInvariant

\* Nor does the publication, which leaves the same events due.
LEMMA AnnouncedOnly ==
  ASSUME MessagesInvariant, Once, NEW o, NEW e \in Events, Announced(o, e) PROVE Once'
<1>1. /\ \A m, j : Writers(m, j)' = Writers(m, j) \ {o}
      /\ \A m, j : o \in Writers(m, j) <=> IsAbout(e, m, j)
  BY AnnouncedDues
<1>2. ASSUME NEW m \in Msgs, NEW k \in {"send", "delete"}
      PROVE  /\ \A p, q \in Writers(m, k)' : p = q
             /\ \A u \in Users : \A i \in DOMAIN inbox'[u] : IsAbout(inbox'[u][i], m, k) =>
                  /\ Writers(m, k)' = {}
                  /\ \A j \in DOMAIN inbox'[u] : IsAbout(inbox'[u][j], m, k) => i = j
  <2>1. /\ \A p, q \in Writers(m, k) : p = q
        /\ \A u \in Users : \A i \in DOMAIN inbox[u] : IsAbout(inbox[u][i], m, k) =>
             /\ Writers(m, k) = {}
             /\ \A j \in DOMAIN inbox[u] : IsAbout(inbox[u][j], m, k) => i = j
    BY DEF Once
  <2>2. \A p, q \in Writers(m, k)' : p = q BY <1>1, <2>1
  <2>3. IsAbout(e, m, k) => Writers(m, k)' = {} BY <1>1, <2>1
  <2>4. ASSUME NEW u \in Users, NEW i \in DOMAIN inbox'[u], IsAbout(inbox'[u][i], m, k)
        PROVE  /\ Writers(m, k)' = {}
               /\ \A j \in DOMAIN inbox'[u] : IsAbout(inbox'[u][j], m, k) => i = j
    <3> DEFINE n == Len(inbox[u])
    <3>1. /\ n \in Nat /\ DOMAIN inbox[u] = 1..n /\ DOMAIN inbox'[u] = 1..(n + 1)
          /\ \A j \in 1..n : inbox'[u][j] = inbox[u][j]
          /\ inbox'[u][n + 1] = e
      BY AppendIs
    <3> HIDE DEF n
    <3>2. CASE IsAbout(e, m, k)
      <4>1. \A j \in 1..n : ~IsAbout(inbox[u][j], m, k) BY <1>1, <2>1, <3>1, <3>2
      <4>2. \A j \in DOMAIN inbox'[u] : IsAbout(inbox'[u][j], m, k) => j = n + 1 BY <3>1, <4>1
      <4>. QED BY <2>3, <2>4, <3>2, <4>2
    <3>3. CASE ~IsAbout(e, m, k)
      <4>1. \A j \in DOMAIN inbox'[u] : IsAbout(inbox'[u][j], m, k) => (j \in 1..n /\ IsAbout(inbox[u][j], m, k))
        BY <3>1, <3>3
      <4>2. i \in DOMAIN inbox[u] /\ IsAbout(inbox[u][i], m, k) BY <2>4, <3>1, <4>1
      <4>3. Writers(m, k) = {} BY <2>1, <4>2
      <4>. QED BY <1>1, <2>1, <3>1, <4>1, <4>2, <4>3
    <3>. QED BY <3>2, <3>3
  <2>. QED BY <2>2, <2>4
<1>. QED BY <1>2 DEF Once

LEMMA AnnouncedNeverOpened ==
  ASSUME MessagesInvariant, NeverOpened, NEW o, NEW e \in Events, Announced(o, e) PROVE NeverOpened'
<1>1. /\ messages' = messages /\ panel' = panel /\ view' = view /\ hist'.opened = hist.opened /\ o \in Busy
      /\ e.type = ops[o].kind /\ e.by = ops[o].user
  BY DEF Announced
<1>2. ASSUME NEW p \in Busy' PROVE p \in Busy /\ ops'[p] = ops[p] BY <1>2 DEF Announced, Busy
<1>3. ASSUME NEW u \in Users \ hist.opened, NEW v \in Users, NEW i \in DOMAIN inbox'[v], inbox'[v][i].type = "read"
      PROVE  inbox'[v][i].by # u
  <2> DEFINE n == Len(inbox[v])
  <2>1. /\ n \in Nat /\ DOMAIN inbox[v] = 1..n /\ DOMAIN inbox'[v] = 1..(n + 1)
        /\ \A j \in 1..n : inbox'[v][j] = inbox[v][j]
        /\ inbox'[v][n + 1] = e
    BY AppendIs
  <2> HIDE DEF n
  <2>2. CASE i \in 1..n BY <1>3, <2>1, <2>2 DEF NeverOpened
  <2>3. CASE i = n + 1 BY <1>1, <1>3, <2>1, <2>3 DEF NeverOpened
  <2>. QED BY <1>3, <2>1, <2>2, <2>3
<1>4. \A u : Mine(Other(u))' = Mine(Other(u)) BY DEF Mine, Other
<1>5. ASSUME NEW u \in Users \ hist.opened
      PROVE  /\ panel[u] = "hidden" /\ \A m \in Msgs : view[u][m].text = 0
             /\ \A p \in Busy : ops[p].user = u => ops[p].kind # "read"
             /\ \A m \in Mine(Other(u)) : ~messages[m].read
  BY DEF NeverOpened
<1>. QED BY <1>1, <1>2, <1>3, <1>4, <1>5 DEF NeverOpened

LEMMA AnnouncedBadges ==
  ASSUME MessagesInvariant, BadgeInvariant, NEW o, NEW e \in Events, Announced(o, e) PROVE BadgeInvariant'
<1>1. NeverOpened' /\ Once' BY AnnouncedNeverOpened, AnnouncedOnly DEF BadgeInvariant
<1>2. /\ messages' = messages /\ unread' = unread /\ hist.crossed \subseteq hist'.crossed
      /\ hist'.opened = hist.opened /\ hist'.doubt = hist.doubt
  BY DEF Announced
<1>3. ASSUME NEW u \in Users PROVE InBadge(u)' = InBadge(u)
  <2>1. \A m : Dues(u, m)' = Dues(u, m) BY AnnouncedDues
  <2>2. Mine(Other(u))' = Mine(Other(u)) BY DEF Mine, Other
  <2>3. \A m : m \in InBadge(u)' <=> m \in InBadge(u) BY <1>2, <2>1, <2>2 DEF InBadge, Saved
  <2>. QED BY <2>3
<1>4. \A p \in Busy' : p \in Busy /\ ops'[p] = ops[p] BY DEF Announced, Busy
<1>5. BadgeIsCount' /\ CountsTrack' BY <1>2, <1>3, <1>4, StillCounts DEF BadgeInvariant
<1>. QED BY <1>1, <1>5 DEF BadgeInvariant

\* What is taken out of an inbox.
LEMMA TakesOnce == ASSUME MessagesInvariant, Once, NEW u \in Users, NEW d, Takes(u, d) PROVE Once'
<1>0. \A v \in Users : DOMAIN inbox[v] = 1..Len(inbox[v]) /\ Len(inbox[v]) \in Nat BY InboxIs
<1>1. \A m, k : Writers(m, k)' = Writers(m, k) BY TakesDues
<1>2. ASSUME NEW m \in Msgs, NEW k \in {"send", "delete"}, NEW v \in Users, NEW i \in DOMAIN inbox'[v],
             IsAbout(inbox'[v][i], m, k)
      PROVE  /\ Writers(m, k) = {}
             /\ \A j \in DOMAIN inbox'[v] : IsAbout(inbox'[v][j], m, k) => i = j
  <2>1. CASE v # u
    <3>1. inbox'[v] = inbox[v] BY <2>1 DEF Takes
    <3>. QED BY <1>2, <3>1 DEF Once
  <2>2. CASE v = u
    <3>1. /\ d \in 0..Len(inbox[u]) /\ DOMAIN inbox'[u] = 1..(Len(inbox[u]) - d)
          /\ \A j \in DOMAIN inbox'[u] : inbox'[u][j] = inbox[u][j + d]
      BY DEF Takes
    <3>2. ASSUME NEW j \in DOMAIN inbox'[u] PROVE j + d \in DOMAIN inbox[u] /\ j \in Int BY <1>0, <3>1
    <3>3. i + d \in DOMAIN inbox[u] /\ IsAbout(inbox[u][i + d], m, k) BY <1>2, <2>2, <3>1, <3>2
    <3>4. Writers(m, k) = {} /\ \A j \in DOMAIN inbox[u] : IsAbout(inbox[u][j], m, k) => i + d = j
      BY <3>3 DEF Once
    <3>5. ASSUME NEW j \in DOMAIN inbox'[u], IsAbout(inbox'[u][j], m, k) PROVE i = j
      <4>1. j + d \in DOMAIN inbox[u] /\ IsAbout(inbox[u][j + d], m, k) BY <3>1, <3>2, <3>5
      <4>2. i + d = j + d BY <3>4, <4>1
      <4>3. i \in Int /\ j \in Int BY <2>2, <3>2
      <4>4. d \in Int BY <1>0, <3>1
      <4>. QED BY <4>2, <4>3, <4>4, SMTT(30)
    <3>. QED BY <2>2, <3>4, <3>5
  <2>. QED BY <2>1, <2>2
<1>3. \A m \in Msgs : \A k \in {"send", "delete"} : \A p, q \in Writers(m, k) : p = q BY DEF Once
<1>. QED BY <1>1, <1>2, <1>3 DEF Once

LEMMA TakesNeverOpened ==
  ASSUME MessagesInvariant, NeverOpened, NEW u \in Users, NEW d, Takes(u, d),
         u \notin hist.opened => \A m \in Msgs : view'[u][m].text = 0
  PROVE  NeverOpened'
<1>0. \A v \in Users : DOMAIN inbox[v] = 1..Len(inbox[v]) /\ Len(inbox[v]) \in Nat BY InboxIs
<1>1. messages' = messages /\ panel' = panel /\ hist'.opened = hist.opened BY DEF Takes
<1>2. ASSUME NEW v \in Users \ hist.opened
      PROVE  /\ panel[v] = "hidden" /\ \A m \in Msgs : view[v][m].text = 0
             /\ \A o \in Busy : ops[o].user = v => ops[o].kind # "read"
             /\ \A w \in Users : \A i \in DOMAIN inbox[w] : inbox[w][i].type = "read" => inbox[w][i].by # v
             /\ \A m \in Mine(Other(v)) : ~messages[m].read
  BY DEF NeverOpened
<1>3. ASSUME NEW v \in Users \ hist.opened PROVE \A m \in Msgs : view'[v][m].text = 0
  <2>1. CASE v = u BY <2>1
  <2>2. CASE v # u BY <1>2, <2>2 DEF Takes
  <2>. QED BY <2>1, <2>2
<1>4. ASSUME NEW v \in Users \ hist.opened, NEW o \in Busy', ops'[o].user = v PROVE ops'[o].kind # "read"
  <2>1. CASE o \in Busy
    <3>1. Unseen(ops'[o], ops[o], u) BY <2>1 DEF Takes
    <3>. QED BY <1>2, <1>4, <2>1, <3>1 DEF Unseen
  <2>2. CASE o \notin Busy
    <3>1. ReadsAgain(ops'[o], u) BY <1>4, <2>2 DEF Takes
    <3>2. v = u /\ panel[v] = "open" BY <1>4, <3>1 DEF ReadsAgain
    <3>. QED BY <1>2, <3>2
  <2>. QED BY <2>1, <2>2
<1>5. ASSUME NEW v \in Users \ hist.opened, NEW w \in Users, NEW i \in DOMAIN inbox'[w], inbox'[w][i].type = "read"
      PROVE  inbox'[w][i].by # v
  <2>1. CASE w # u
    <3>1. inbox'[w] = inbox[w] BY <2>1 DEF Takes
    <3>. QED BY <1>2, <1>5, <3>1
  <2>2. CASE w = u
    <3>0. /\ d \in 0..Len(inbox[u]) /\ DOMAIN inbox'[u] = 1..(Len(inbox[u]) - d)
          /\ \A j \in DOMAIN inbox'[u] : inbox'[u][j] = inbox[u][j + d]
      BY DEF Takes
    <3>1. i + d \in DOMAIN inbox[u] /\ inbox'[u][i] = inbox[u][i + d] BY <1>0, <1>5, <2>2, <3>0
    <3>. QED BY <1>2, <1>5, <2>2, <3>1
  <2>. QED BY <2>1, <2>2
<1>6. \A v : Mine(Other(v))' = Mine(Other(v)) BY DEF Mine, Other
<1>. QED BY <1>1, <1>2, <1>3, <1>4, <1>5, <1>6 DEF NeverOpened

LEMMA TakesBadges ==
  ASSUME MessagesInvariant, BadgeInvariant, NEW u \in Users, NEW d, Takes(u, d),
         u \notin hist.opened => \A m \in Msgs : view'[u][m].text = 0,
         u \notin hist.opened /\ u \notin hist'.doubt /\ InTurn(u) => unread'[u] = Cardinality(InBadge(u)')
  PROVE  BadgeInvariant'
<1>1. NeverOpened' /\ Once' BY TakesNeverOpened, TakesOnce DEF BadgeInvariant
<1>2. messages' = messages /\ hist'.crossed = hist.crossed /\ hist'.opened = hist.opened BY DEF Takes
<1>3. ASSUME NEW v \in Users \ {u} PROVE InBadge(v)' = InBadge(v)
  <2>1. \A m : Dues(v, m)' = Dues(v, m) BY TakesDues
  <2>2. Mine(Other(v))' = Mine(Other(v)) BY DEF Mine, Other
  <2>3. \A m : m \in InBadge(v)' <=> m \in InBadge(v) BY <1>2, <2>1, <2>2 DEF InBadge, Saved
  <2>. QED BY <2>3
<1>4. ASSUME NEW v \in Users \ (hist'.opened \cup hist'.doubt), InTurn(v)
      PROVE  \/ v \notin hist.doubt /\ unread'[v] = unread[v] /\ InBadge(v)' = InBadge(v)
             \/ unread'[v] = Cardinality(InBadge(v)')
  <2>1. CASE v = u BY <1>2, <1>4, <2>1
  <2>2. CASE v # u
    <3>1. v \notin hist.doubt /\ unread'[v] = unread[v] BY <1>4, <2>2 DEF Takes
    <3>. QED BY <1>3, <2>2, <3>1
  <2>. QED BY <2>1, <2>2
<1>5. ASSUME NEW o \in Busy', NEW v \in Users, Counting(ops'[o]), ops'[o].user = v
      PROVE  /\ o \in Busy /\ Counting(ops[o]) /\ ops[o].user = v /\ ops'[o].about = ops[o].about
             /\ InBadge(v)' = InBadge(v)
  <2>1. o \in Busy BY <1>5 DEF Takes, ReadsAgain, Counting
  <2>2. Unseen(ops'[o], ops[o], u) BY <2>1 DEF Takes
  <2>3. v # u /\ Counting(ops[o]) /\ ops[o].user = v /\ ops'[o].about = ops[o].about
    BY <1>5, <2>2 DEF Unseen, Counting
  <2>. QED BY <1>3, <2>1, <2>3
<1>6. BadgeIsCount' /\ CountsTrack' BY <1>2, <1>4, <1>5, StillCounts DEF BadgeInvariant
<1>. QED BY <1>1, <1>6 DEF BadgeInvariant

LEMMA DropsBadge == ASSUME MessagesInvariant, BadgeInvariant, NEW u \in Users, Drop(u) PROVE BadgeInvariant'
<1>1. Takes(u, Len(inbox[u])) /\ u \in hist'.doubt /\ view' = view BY DropTakes
<1>2. u \notin hist.opened => \A m \in Msgs : view'[u][m].text = 0
  BY <1>1 DEF BadgeInvariant, NeverOpened
<1>. QED BY <1>1, <1>2, TakesBadges

\* The badge of who receives an event.
LEMMA BadgeFinite ==
  ASSUME NEW u PROVE IsFiniteSet(InBadge(u)) /\ InBadge(u) \subseteq Msgs /\ Cardinality(InBadge(u)) \in Nat
<1>1. InBadge(u) \subseteq Msgs BY DEF InBadge, Mine
<1>2. IsFiniteSet(Msgs) BY DirectMessagesAssumption
<1>. QED BY <1>1, <1>2, FS_Subset, FS_CardinalityType

\* What is in a badge that an event is not about stays in it.
LEMMA HeardBadge ==
  ASSUME MessagesInvariant, NEW u \in Users, NEW e, Hears(u, e), NEW m,
         ~IsAbout(e, m, "send"), ~IsAbout(e, m, "delete")
  PROVE  m \in InBadge(u)' <=> m \in InBadge(u)
<1>1. messages' = messages BY DEF Hears, Takes
<1>2. /\ "send" \in Dues(u, m)' <=> "send" \in Dues(u, m)
      /\ "delete" \in Dues(u, m)' <=> "delete" \in Dues(u, m)
  BY HeardDues
<1>3. Mine(Other(u))' = Mine(Other(u)) BY DEF Mine, Other
<1>. QED BY <1>1, <1>2, <1>3 DEF InBadge, Saved

\* What is sent, or deleted, is so once: no other such event is due.
LEMMA HeardOnce ==
  ASSUME MessagesInvariant, Once, NEW u \in Users, NEW e, Hears(u, e), NEW m \in Msgs,
         NEW k \in {"send", "delete"}, IsAbout(e, m, k)
  PROVE  k \in Dues(u, m) /\ k \notin Dues(u, m)'
<1>0. e = inbox[u][1] /\ 1 \in DOMAIN inbox[u] /\ DOMAIN inbox[u] = 1..Len(inbox[u]) BY InboxIs DEF Hears
<1>1. Writers(m, k) = {} /\ \A j \in DOMAIN inbox[u] : IsAbout(inbox[u][j], m, k) => 1 = j
  BY <1>0 DEF Once
<1>2. Takes(u, 1) BY DEF Hears
<1>3. /\ Writers(m, k)' = Writers(m, k)
      /\ Waits(u, m, k)' <=> \E i \in DOMAIN inbox[u] : i > 1 /\ IsAbout(inbox[u][i], m, k)
  BY <1>2, TakesDues
<1>4. k \notin Dues(u, m)' BY <1>0, <1>1, <1>3 DEF Dues
<1>. QED BY <1>4, HeardDues

LEMMA HearsMessageBadge ==
  ASSUME MessagesInvariant, MessagesInvariant', InOrder, BadgeInvariant, NEW u \in Users, OnDirectMessage(u)
  PROVE  BadgeInvariant'
<1>0. SaysTrue /\ Once BY DEF InOrder, BadgeInvariant
<1>1. PICK e \in Events, m \in Msgs :
        /\ HearsOf(u, e, m, "send")
        /\ panel[u] # "open" => view'[u] = view[u]
        /\ unread'[u] = IF From[m] = u THEN unread[u] ELSE IF panel[u] = "open" THEN 0 ELSE unread[u] + 1
  BY <1>0, MessageIs
<1>2. Hears(u, e) /\ Takes(u, 1) /\ hist' = hist /\ e.type = "send" /\ e.about = {m} /\ Saved(m)
  BY <1>1 DEF HearsOf, Hears
<1>3. u \notin hist.opened => (panel[u] = "hidden" /\ \A n \in Msgs : view[u][n].text = 0)
  BY DEF BadgeInvariant, NeverOpened
<1>4. u \notin hist.opened => \A n \in Msgs : view'[u][n].text = 0 BY <1>1, <1>3
<1>5. ASSUME u \notin hist.opened, u \notin hist.doubt, InTurn(u) PROVE unread'[u] = Cardinality(InBadge(u)')
  <2>1. unread[u] = Cardinality(InBadge(u)) BY <1>5 DEF BadgeInvariant, BadgeIsCount
  <2>2. \A n : n # m => (n \in InBadge(u)' <=> n \in InBadge(u)) BY <1>2, HeardBadge DEF IsAbout
  <2>3. Mine(Other(u))' = Mine(Other(u)) BY DEF Mine, Other
  <2>4. CASE From[m] = u
    <3>1. m \notin Mine(Other(u)) BY <2>4, TwoUsers DEF Mine
    <3>2. m \notin InBadge(u) /\ m \notin InBadge(u)' BY <2>3, <3>1 DEF InBadge
    <3>3. InBadge(u)' \subseteq InBadge(u) BY <2>2, <3>2
    <3>4. InBadge(u) \subseteq InBadge(u)' BY <2>2, <3>2
    <3>5. InBadge(u)' = InBadge(u) BY <3>3, <3>4
    <3>. QED BY <1>1, <2>1, <2>4, <3>5
  <2>5. CASE From[m] # u
    <3>1. From[m] = Other(u) BY <2>5, TwoUsers, DirectMessagesAssumption
    <3>2. m \in Mine(Other(u)) /\ m \notin hist.crossed BY <1>5, <3>1 DEF Mine, InTurn
    <3>3. "send" \in Dues(u, m) /\ "send" \notin Dues(u, m)' BY <1>0, <1>2, HeardOnce DEF IsAbout
    <3>4. messages[m].deleted => "delete" \in Dues(u, m) BY <3>2, <3>3 DEF InOrder, RestFollows
    <3>5. messages[m].deleted => "delete" \in Dues(u, m)' BY <1>2, <3>4, HeardDues DEF IsAbout
    <3>6. m \notin InBadge(u) BY <3>3 DEF InBadge
    <3>7. messages' = messages BY <1>2 DEF Takes
    <3>8. m \in InBadge(u)' BY <1>2, <2>3, <3>2, <3>3, <3>5, <3>7 DEF InBadge, Saved
    <3>9. InBadge(u)' = InBadge(u) \cup {m}
      <4>1. InBadge(u)' \subseteq InBadge(u) \cup {m} BY <2>2
      <4>2. InBadge(u) \cup {m} \subseteq InBadge(u)' BY <2>2, <3>8
      <4>. QED BY <4>1, <4>2
    <3>10. Cardinality(InBadge(u) \cup {m}) = Cardinality(InBadge(u)) + 1
      BY <3>6, BadgeFinite, FS_AddElement
    <3>. QED BY <1>1, <1>3, <1>5, <2>1, <2>5, <3>9, <3>10
  <2>. QED BY <2>4, <2>5
<1>. QED BY <1>2, <1>4, <1>5, TakesBadges

LEMMA HearsEditBadge ==
  ASSUME MessagesInvariant, MessagesInvariant', InOrder, BadgeInvariant, NEW u \in Users, OnDirectEdited(u)
  PROVE  BadgeInvariant'
<1>0. SaysTrue BY DEF InOrder
<1>1. PICK e \in Events, m \in Msgs :
        /\ HearsOf(u, e, m, "edit") /\ unread' = unread
        /\ view'[u][m].text = IF view[u][m].text = 0 \/ view[u][m].deleted THEN view[u][m].text ELSE e.text
  BY <1>0, EditIs
<1>2. /\ Hears(u, e) /\ Takes(u, 1) /\ hist' = hist /\ e.type = "edit"
      /\ \A n \in Msgs \ {m} : view'[u][n] = view[u][n]
  BY <1>1 DEF HearsOf, Hears
<1>3. u \notin hist.opened => \A n \in Msgs : view[u][n].text = 0 BY DEF BadgeInvariant, NeverOpened
<1>4. u \notin hist.opened => \A n \in Msgs : view'[u][n].text = 0 BY <1>1, <1>2, <1>3
<1>5. ASSUME u \notin hist.opened, u \notin hist.doubt, InTurn(u) PROVE unread'[u] = Cardinality(InBadge(u)')
  <2>1. unread[u] = Cardinality(InBadge(u)) BY <1>5 DEF BadgeInvariant, BadgeIsCount
  <2>2. \A n : n \in InBadge(u)' <=> n \in InBadge(u) BY <1>2, HeardBadge DEF IsAbout
  <2>3. InBadge(u)' = InBadge(u) BY <2>2
  <2>. QED BY <1>1, <2>1, <2>3
<1>. QED BY <1>2, <1>4, <1>5, TakesBadges

LEMMA HearsDeleteBadge ==
  ASSUME MessagesInvariant, MessagesInvariant', InOrder, BadgeInvariant, NEW u \in Users, OnDirectDeleted(u)
  PROVE  BadgeInvariant'
<1>0. SaysTrue /\ Once BY DEF InOrder, BadgeInvariant
<1>1. PICK e \in Events, m \in Msgs :
        /\ HearsOf(u, e, m, "delete") /\ view'[u][m].text = view[u][m].text
        /\ unread'[u] = IF view[u][m].text = 0 /\ From[m] # u /\ unread[u] > 0 THEN unread[u] - 1 ELSE unread[u]
  BY <1>0, DeleteIs
<1>2. /\ Hears(u, e) /\ Takes(u, 1) /\ hist' = hist /\ e.type = "delete" /\ e.about = {m} /\ Saved(m)
      /\ EventTrue(e, messages) /\ \A n \in Msgs \ {m} : view'[u][n] = view[u][n]
  BY <1>1 DEF HearsOf, Hears
<1>3. u \notin hist.opened => \A n \in Msgs : view[u][n].text = 0 BY DEF BadgeInvariant, NeverOpened
<1>4. u \notin hist.opened => \A n \in Msgs : view'[u][n].text = 0 BY <1>1, <1>2, <1>3
<1>5. ASSUME u \notin hist.opened, u \notin hist.doubt, InTurn(u) PROVE unread'[u] = Cardinality(InBadge(u)')
  <2>1. unread[u] = Cardinality(InBadge(u)) BY <1>5 DEF BadgeInvariant, BadgeIsCount
  <2>2. \A n : n # m => (n \in InBadge(u)' <=> n \in InBadge(u)) BY <1>2, HeardBadge DEF IsAbout
  <2>3. Mine(Other(u))' = Mine(Other(u)) BY DEF Mine, Other
  <2>4. CASE From[m] = u
    <3>1. m \notin Mine(Other(u)) BY <2>4, TwoUsers DEF Mine
    <3>2. m \notin InBadge(u) /\ m \notin InBadge(u)' BY <2>3, <3>1 DEF InBadge
    <3>3. InBadge(u)' \subseteq InBadge(u) BY <2>2, <3>2
    <3>4. InBadge(u) \subseteq InBadge(u)' BY <2>2, <3>2
    <3>5. InBadge(u)' = InBadge(u) BY <3>3, <3>4
    <3>. QED BY <1>1, <2>1, <2>4, <3>5
  <2>5. CASE From[m] # u
    <3>1. From[m] = Other(u) BY <2>5, TwoUsers, DirectMessagesAssumption
    <3>2. m \in Mine(Other(u)) /\ m \notin hist.crossed BY <1>5, <3>1 DEF Mine, InTurn
    <3>3. messages[m].deleted /\ messages' = messages BY <1>2 DEF EventTrue, Takes
    <3>4. "delete" \in Dues(u, m) /\ "delete" \notin Dues(u, m)' BY <1>0, <1>2, HeardOnce DEF IsAbout
    <3>5. "send" \notin Dues(u, m)
      <4>1. e = inbox[u][1] /\ 1 \in DOMAIN inbox[u] /\ DOMAIN inbox[u] = 1..Len(inbox[u])
        BY <1>2, InboxIs DEF Hears
      <4>2. /\ Writers(m, "send") = {}
            /\ \A j \in DOMAIN inbox[u] : j > 1 => ~IsAbout(inbox[u][j], m, "send")
        BY <1>2, <3>2, <4>1 DEF InOrder, SendsFirst
      <4>3. ~Waits(u, m, "send") BY <1>2, <4>1, <4>2 DEF Waits, IsAbout
      <4>. QED BY <4>2, <4>3 DEF Dues
    <3>6. m \in InBadge(u) BY <1>2, <3>2, <3>4, <3>5 DEF InBadge
    <3>7. m \notin InBadge(u)' BY <3>3, <3>4 DEF InBadge
    <3>8. InBadge(u)' = InBadge(u) \ {m}
      <4>1. InBadge(u)' \subseteq InBadge(u) \ {m} BY <2>2, <3>7
      <4>2. InBadge(u) \ {m} \subseteq InBadge(u)' BY <2>2
      <4>. QED BY <4>1, <4>2
    <3>9. Cardinality(InBadge(u) \ {m}) = Cardinality(InBadge(u)) - 1
      BY <3>6, BadgeFinite, FS_RemoveElement
    <3>10. Cardinality(InBadge(u)) \in Nat /\ Cardinality(InBadge(u)) # 0 BY <3>6, BadgeFinite, FS_EmptySet
    <3>. QED BY <1>1, <1>3, <1>5, <2>1, <2>5, <3>8, <3>9, <3>10
  <2>. QED BY <2>4, <2>5
<1>. QED BY <1>2, <1>4, <1>5, TakesBadges

LEMMA HearsReceiptBadge ==
  ASSUME MessagesInvariant, MessagesInvariant', InOrder, BadgeInvariant, NEW u \in Users, OnDirectRead(u)
  PROVE  BadgeInvariant'
<1>0. SaysTrue BY DEF InOrder
<1>1. PICK e \in Events :
        /\ Hears(u, e) /\ e.type = "read"
        /\ unread'[u] = IF e.by = u THEN 0 ELSE unread[u]
        /\ panel[u] = "hidden" => view'[u] = view[u]
  BY <1>0, ReceiptIs
<1>2. Takes(u, 1) /\ hist' = hist /\ e = inbox[u][1] /\ 1 \in DOMAIN inbox[u] BY <1>1, InboxIs DEF Hears
<1>3. u \notin hist.opened => (panel[u] = "hidden" /\ e.by # u /\ \A n \in Msgs : view[u][n].text = 0)
  BY <1>1, <1>2 DEF BadgeInvariant, NeverOpened
<1>4. u \notin hist.opened => \A n \in Msgs : view'[u][n].text = 0 BY <1>1, <1>3
<1>5. ASSUME u \notin hist.opened, u \notin hist.doubt, InTurn(u) PROVE unread'[u] = Cardinality(InBadge(u)')
  <2>1. unread[u] = Cardinality(InBadge(u)) BY <1>5 DEF BadgeInvariant, BadgeIsCount
  <2>2. \A n : n \in InBadge(u)' <=> n \in InBadge(u) BY <1>1, HeardBadge DEF IsAbout
  <2>3. InBadge(u)' = InBadge(u) BY <2>2
  <2>. QED BY <1>1, <1>3, <1>5, <2>1, <2>3
<1>. QED BY <1>2, <1>4, <1>5, TakesBadges

LEMMA BadgeStep ==
  ASSUME MessagesInvariant, MessagesInvariant', InOrder, BadgeInvariant, [MessagesNext]_messagesVars
  PROVE  BadgeInvariant'
<1>0. SaysTrue BY DEF InOrder
<1>1. ASSUME NEW u \in Users, UserStep(u) PROVE BadgeInvariant'
  <2>1. CASE Hide(u) BY <2>1, HidesBadge
  <2>2. CASE Drop(u) BY <2>2, DropsBadge
  <2>3. CASE \/ Send(u) \/ OpenConversation(u) \/ RefreshFriends(u)
             \/ \E m \in Msgs : Delete(u, m) \/ \E t \in Texts : Edit(u, m, t)
    BY <2>3, UserAsks, SilentBadges
  <2>. QED BY <1>1, <2>1, <2>2, <2>3 DEF UserStep
<1>2. ASSUME NEW u \in Users, ClientStep(u) PROVE BadgeInvariant'
  BY <1>2, HearsMessageBadge, HearsEditBadge, HearsDeleteBadge, HearsReceiptBadge DEF ClientStep
<1>3. ASSUME NEW o \in Ops, ServerStep(o) PROVE BadgeInvariant'
  <2>1. CASE \/ FindMessage(o) \/ AreFriends(o) \/ IsBlockedEitherDirection(o) \/ Fails(o) \/ FindsNoRow(o)
             \/ ListConversation(o) \/ ListUnreadCounts(o)
             \/ MarkConversationRead(o) /\ Unread(ops[o].user) = {}
    BY <2>1, ServerReads, SilentBadges
  <2>2. CASE \/ Save(o) \/ EditMessage(o) \/ DeleteMessage(o)
             \/ MarkConversationRead(o) /\ Unread(ops[o].user) # {}
    BY <1>0, <2>2, ServerWrites, WroteBadges
  <2>3. CASE Publish(o) BY <2>3, PublishAnnounces, AnnouncedBadges
  <2>. QED BY <1>3, <2>1, <2>2, <2>3 DEF ServerStep
<1>4. ASSUME NEW o \in Ops, OpenPanel(o) \/ ShowUnreadCounts(o) PROVE BadgeInvariant'
  BY <1>4, OpensBadge, ShowsBadge
<1>5. ASSUME NEW c \in Checks, Relink(c) PROVE BadgeInvariant' BY <1>5, RelinkIsSilent, SilentBadges
<1>6. CASE UNCHANGED messagesVars BY <1>6, StutterIsSilent, SilentBadges
<1>. QED BY <1>1, <1>2, <1>3, <1>4, <1>5, <1>6 DEF MessagesNext

\* Until a user first opens the panel the badge is the number of messages that
\* wait, when nothing is on its way: a deletion takes its message out again and
\* a refresh that no event crossed repairs what a lost socket missed (createApp's
\* handlers, listUnreadCounts).
THEOREM BadgesCount == MessagesSpec => []BadgeCounts
<1>1. MessagesInit => BadgeInvariant BY BadgeBegins
<1>2. MessagesInvariant /\ MessagesInvariant' /\ PanelInvariant /\ BadgeInvariant /\ [MessagesNext]_messagesVars
        => BadgeInvariant'
  BY BadgeStep DEF PanelInvariant
<1>3. ASSUME MessagesInvariant, BadgeInvariant PROVE BadgeCounts
  <2> SUFFICES ASSUME Quiet, NEW u \in Users \ (hist.opened \cup hist.doubt), InTurn(u)
               PROVE  unread[u] = Cardinality(Unread(u))
    BY DEF BadgeCounts, InTurn
  <2>1. unread[u] = Cardinality(InBadge(u)) BY <1>3 DEF BadgeInvariant, BadgeIsCount
  <2>2. inbox[u] = <<>> /\ Busy = {} BY DEF Quiet
  <2>3. Unread(u) = InBadge(u) BY <1>3, <2>2, CountsAreBadge DEF BadgeInvariant
  <2>. QED BY <2>1, <2>3
<1>. QED BY <1>1, <1>2, <1>3, MessagesInvariantHolds, PanelsFollowTable, PTL DEF MessagesSpec

---------------------------------------------------------------------------
(* How often a panel shows a message.                                      *)

\* An element is left over, and a message is in view before its event, only if
\* the history brought it early.
Single(u) ==
  \A m \in Msgs :
    /\ view[u][m].text = 0 => Absent(view[u][m])
    /\ left[u][m] # {} => m \in hist.early[u]
    /\ view[u][m].text # 0 /\ "send" \in Dues(u, m) => m \in hist.early[u]
OneEach == \A u \in Users : Single(u)

LEMMA SingleStays ==
  ASSUME NEW u \in Users, Single(u), view'[u] = view[u], left'[u] = left[u], hist'.early[u] = hist.early[u],
         \A m \in Msgs : "send" \in Dues(u, m)' /\ view[u][m].text # 0 => "send" \in Dues(u, m)
  PROVE  Single(u)'
  BY DEF Single

LEMMA OneEachBegins == ASSUME MessagesInit PROVE OneEach
  BY DEF MessagesInit, OneEach, Single, Absent, NoRow

LEMMA QuietSingle ==
  ASSUME MessagesInvariant, OneEach, QuietStep, UNCHANGED <<view, left>>, hist'.early = hist.early
  PROVE  OneEach'
<1>1. \A u, m : Dues(u, m)' = Dues(u, m) BY QuietDues
<1>2. ASSUME NEW u \in Users PROVE Single(u)' BY <1>1, SingleStays DEF OneEach
<1>. QED BY <1>2 DEF OneEach

LEMMA SendDueIs == ASSUME NEW u, NEW m PROVE SendDue(u, m) <=> "send" \in Dues(u, m)
  BY DEF SendDue, Dues, Writers, Waits, IsAbout

LEMMA OpensSingle ==
  ASSUME MessagesInvariant, OneEach, NEW o \in Ops, OpenPanel(o) PROVE OneEach'
<1>1. PICK u \in Users : u = ops[o].user BY OpensIsQuiet
<1>2. PICK got : got = ops[o].got OBVIOUS
<1>3. /\ QuietStep /\ o \in Busy
      /\ \A v \in Users : view'[v] = IF v = u THEN Shown(u, got) ELSE view[v]
  BY <1>1, <1>2, OpensIsQuiet
<1>4. /\ hist'.early[u] = {m \in Msgs : got[m].text # 0 /\ SendDue(u, m)}
      /\ \A m \in Msgs : left'[u][m] = {}
      /\ \A v \in Users \ {u} : left'[v] = left[v] /\ hist'.early[v] = hist.early[v]
  BY <1>1, <1>2, OpensAnew
<1>5. \A v, m : Dues(v, m)' = Dues(v, m) BY <1>3, QuietDues
<1>6. got \in [Msgs -> Rows]
  <2>1. ops[o] \in Requests BY <1>3, OpIs DEF MessagesInvariant
  <2>. QED BY <1>2, <2>1 DEF Requests
<1>7. Single(u)'
  <2>1. \A m \in Msgs : Shown(u, got)[m].text # 0 => got[m].text # 0 BY <1>6, ShownIs
  <2>2. ASSUME NEW m \in Msgs, Shown(u, got)[m].text = 0 PROVE Absent(Shown(u, got)[m])
    <3>1. got[m] \in Rows BY <1>6
    <3>2. Shown(u, got)[m] = Render(u, m, got[m]) BY DEF Shown
    <3>3. CASE got[m].text = 0 BY <3>2, <3>3 DEF Render, Absent, NoRow
    <3>4. CASE got[m].text # 0
      <4>1. PICK b : Shown(u, got)[m] = [got[m] EXCEPT !.read = b] BY <3>2, <3>4 DEF Render
      <4>2. Shown(u, got)[m].text = got[m].text BY <3>1, <4>1 DEF Rows
      <4>. QED BY <2>2, <3>4, <4>2
    <3>. QED BY <3>3, <3>4
  <2>3. view'[u] = Shown(u, got) BY <1>3
  <2>4. \A m \in Msgs : got[m].text # 0 /\ "send" \in Dues(u, m)' => m \in hist'.early[u]
    BY <1>4, <1>5, SendDueIs
  <2>. QED BY <1>4, <2>1, <2>2, <2>3, <2>4 DEF Single
<1>8. ASSUME NEW v \in Users \ {u} PROVE Single(v)'
  BY <1>3, <1>4, <1>5, SingleStays DEF OneEach
<1>. QED BY <1>7, <1>8 DEF OneEach

LEMMA WroteSingle ==
  ASSUME MessagesInvariant, OneEach, NEW o, NEW S, NEW k, Wrote(o, S, k) PROVE OneEach'
<1> SUFFICES ASSUME NEW u \in Users PROVE Single(u)' BY DEF OneEach
<1>1. UNCHANGED <<view, left, hist>> BY DEF Wrote
<1>2. ASSUME NEW m \in Msgs, "send" \in Dues(u, m)', view[u][m].text # 0 PROVE "send" \in Dues(u, m)
  <2>1. Saved(m) BY <1>2, ViewSaved
  <2>2. m \in S /\ k = "send" => ~Saved(m) BY DEF Wrote, RowWritten, Saved, NoRow
  <2>3. Dues(u, m)' = IF m \in S THEN Dues(u, m) \cup {k} ELSE Dues(u, m) BY WroteDues
  <2>. QED BY <1>2, <2>1, <2>2, <2>3
<1>. QED BY <1>1, <1>2, SingleStays DEF OneEach

LEMMA AnnouncedSingle ==
  ASSUME MessagesInvariant, OneEach, NEW o, NEW e \in Events, Announced(o, e) PROVE OneEach'
<1> SUFFICES ASSUME NEW u \in Users PROVE Single(u)' BY DEF OneEach
<1>1. UNCHANGED <<view, left>> /\ hist'.early = hist.early BY DEF Announced
<1>2. \A m : Dues(u, m)' = Dues(u, m) BY AnnouncedDues
<1>. QED BY <1>1, <1>2, SingleStays DEF OneEach

LEMMA TakesSingle ==
  ASSUME MessagesInvariant, OneEach, NEW u \in Users, NEW d, Takes(u, d), hist'.early = hist.early,
         \A v \in Users \ {u} : left'[v] = left[v], Single(u)'
  PROVE  OneEach'
<1>1. ASSUME NEW v \in Users \ {u} PROVE Single(v)'
  <2>1. view'[v] = view[v] BY DEF Takes
  <2>2. \A m : Dues(v, m)' = Dues(v, m) BY TakesDues
  <2>. QED BY <2>1, <2>2, SingleStays DEF OneEach
<1>. QED BY <1>1 DEF OneEach

LEMMA DropsSingle == ASSUME MessagesInvariant, OneEach, NEW u \in Users, Drop(u) PROVE OneEach'
<1>1. Takes(u, Len(inbox[u])) /\ UNCHANGED <<view, left>> BY DropTakes
<1>2. hist'.early = hist.early BY HistIs DEF Drop, MessagesInvariant
<1>3. ASSUME NEW m \in Msgs, "send" \in Dues(u, m)' PROVE "send" \in Dues(u, m)
  <2>1. /\ Writers(m, "send")' = Writers(m, "send")
        /\ Waits(u, m, "send")' => Waits(u, m, "send")
    BY <1>1, TakesDues DEF Waits
  <2>. QED BY <1>3, <2>1 DEF Dues
<1>4. Single(u)' BY <1>1, <1>2, <1>3, SingleStays DEF OneEach
<1>. QED BY <1>1, <1>2, <1>4, TakesSingle

\* An event that adds no element.
LEMMA HeardSingle ==
  ASSUME MessagesInvariant, OneEach, NEW u \in Users, NEW e, Hears(u, e), left' = left,
         \A m \in Msgs : /\ view'[u][m].text # 0 => view[u][m].text # 0
                         /\ view'[u][m].text = 0 => Absent(view'[u][m])
  PROVE  OneEach'
<1>1. Takes(u, 1) /\ hist' = hist BY DEF Hears
<1>2. \A m \in Msgs : "send" \in Dues(u, m)' => "send" \in Dues(u, m) BY HeardDues
<1>3. Single(u) BY DEF OneEach
<1>4. Single(u)' BY <1>1, <1>2, <1>3 DEF Single
<1>. QED BY <1>1, <1>4, TakesSingle

LEMMA HearsMessageSingle ==
  ASSUME MessagesInvariant, MessagesInvariant', InOrder, Once, OneEach, NEW u \in Users, OnDirectMessage(u)
  PROVE  OneEach'
<1>0. SaysTrue /\ Single(u) BY DEF InOrder, OneEach
<1>1. PICK e \in Events, m \in Msgs :
        /\ HearsOf(u, e, m, "send")
        /\ IF panel[u] = "open"
           THEN view'[u][m].text = e.text /\ ~view'[u][m].deleted /\ ~view'[u][m].read
           ELSE view'[u] = view[u]
  BY <1>0, MessageIs
<1>2. /\ Hears(u, e) /\ Takes(u, 1) /\ hist' = hist /\ e = inbox[u][1] /\ e.about = {m} /\ e.text # 0
      /\ IsAbout(e, m, "send") /\ \A n \in Msgs \ {m} : view'[u][n] = view[u][n]
  BY <1>1 DEF HearsOf, Hears, EventTrue, IsAbout
<1>3. Subject(u) = m
  <2>1. inbox[u] \in Seq(Events) /\ inbox[u] # <<>> BY <1>2, InboxIs DEF Hears
  <2>2. Head(inbox[u]) = e BY <1>2, <2>1
  <2>. QED BY <1>2, <2>2 DEF Subject
<1>4. CASE panel[u] # "open"
  <2>1. left' = left BY <1>4 DEF OnDirectMessage
  <2>. QED BY <1>0, <1>1, <1>2, <1>4, <2>1, HeardSingle DEF Single
<1>5. CASE panel[u] = "open"
  <2>1. left' = [left EXCEPT ![u][m] = left[u][m] \cup ({view[u][m]} \ {NoRow})]
    BY <1>3, <1>5 DEF OnDirectMessage, AppendMessage
  <2>2. left \in [Users -> [Msgs -> SUBSET Rows]] BY LeftSaved DEF LeftElements
  <2>3. /\ \A v \in Users \ {u} : left'[v] = left[v]
        /\ \A n \in Msgs \ {m} : left'[u][n] = left[u][n]
        /\ left'[u][m] = left[u][m] \cup ({view[u][m]} \ {NoRow})
    BY <2>1, <2>2
  <2>4. view[u][m].text = 0 => view[u][m] = NoRow
    <3>1. view[u][m] \in Rows BY DEF MessagesInvariant, MessageTypes
    <3>2. view[u][m].text = 0 => Absent(view[u][m]) BY <1>0 DEF Single
    <3>. QED BY <3>1, <3>2 DEF Rows, Absent, NoRow
  <2>5. "send" \in Dues(u, m) /\ "send" \notin Dues(u, m)' BY <1>2, HeardOnce
  <2>6. left'[u][m] # {} => m \in hist.early[u] BY <1>0, <2>3, <2>4, <2>5 DEF Single
  <2>7. \A n \in Msgs : "send" \in Dues(u, n)' => "send" \in Dues(u, n) BY <1>2, HeardDues
  <2>8. view'[u][m].text # 0 BY <1>1, <1>2, <1>5
  <2>9. Single(u)'
    <3> SUFFICES ASSUME NEW n \in Msgs
                 PROVE  /\ view'[u][n].text = 0 => Absent(view'[u][n])
                        /\ left'[u][n] # {} => n \in hist'.early[u]
                        /\ view'[u][n].text # 0 /\ "send" \in Dues(u, n)' => n \in hist'.early[u]
      BY DEF Single
    <3>1. CASE n = m BY <1>2, <2>5, <2>6, <2>8, <3>1
    <3>2. CASE n # m BY <1>0, <1>2, <2>3, <2>7, <3>2 DEF Single
    <3>. QED BY <3>1, <3>2
  <2>. QED BY <1>2, <2>3, <2>9, TakesSingle
<1>. QED BY <1>4, <1>5

LEMMA HearsSingle ==
  ASSUME MessagesInvariant, MessagesInvariant', InOrder, Once, OneEach, NEW u \in Users, ClientStep(u)
  PROVE  OneEach'
<1>0. SaysTrue /\ Single(u) BY DEF InOrder, OneEach
<1>1. CASE OnDirectMessage(u) BY <1>1, HearsMessageSingle
<1>2. CASE OnDirectEdited(u)
  <2>1. PICK e \in Events, m \in Msgs :
          /\ HearsOf(u, e, m, "edit")
          /\ view'[u][m].deleted = view[u][m].deleted /\ view'[u][m].read = view[u][m].read
          /\ view'[u][m].text = IF view[u][m].text = 0 \/ view[u][m].deleted THEN view[u][m].text ELSE e.text
    BY <1>0, <1>2, EditIs
  <2>2. Hears(u, e) /\ e.text # 0 /\ \A n \in Msgs \ {m} : view'[u][n] = view[u][n]
    BY <2>1 DEF HearsOf, EventTrue
  <2>3. left' = left BY <1>2 DEF OnDirectEdited
  <2>4. ASSUME NEW n \in Msgs
        PROVE  /\ view'[u][n].text # 0 => view[u][n].text # 0
               /\ view'[u][n].text = 0 => Absent(view'[u][n])
    BY <1>0, <2>1, <2>2 DEF Single, Absent
  <2>. QED BY <2>2, <2>3, <2>4, HeardSingle
<1>3. CASE OnDirectDeleted(u)
  <2>1. PICK e \in Events, m \in Msgs :
          /\ HearsOf(u, e, m, "delete")
          /\ view'[u][m].text = view[u][m].text /\ view'[u][m].read = view[u][m].read
          /\ view[u][m].text # 0 <=> view'[u][m].deleted
    BY <1>0, <1>3, DeleteIs
  <2>2. Hears(u, e) /\ \A n \in Msgs \ {m} : view'[u][n] = view[u][n] BY <2>1 DEF HearsOf
  <2>3. left' = left BY <1>3 DEF OnDirectDeleted
  <2>4. ASSUME NEW n \in Msgs
        PROVE  /\ view'[u][n].text # 0 => view[u][n].text # 0
               /\ view'[u][n].text = 0 => Absent(view'[u][n])
    BY <1>0, <2>1, <2>2 DEF Single, Absent
  <2>. QED BY <2>2, <2>3, <2>4, HeardSingle
<1>4. CASE OnDirectRead(u)
  <2>1. PICK e \in Events :
          /\ Hears(u, e)
          /\ e.by = u \/ panel[u] = "hidden" => view'[u] = view[u]
          /\ e.by # u /\ panel[u] # "hidden" => \A m \in Msgs :
               /\ view'[u][m].text = view[u][m].text /\ view'[u][m].deleted = view[u][m].deleted
               /\ view'[u][m].read <=> view[u][m].read \/ (m \in e.about /\ view[u][m].text # 0)
    BY <1>0, <1>4, ReceiptIs
  <2>2. left' = left BY <1>4 DEF OnDirectRead
  <2>3. ASSUME NEW n \in Msgs
        PROVE  /\ view'[u][n].text # 0 => view[u][n].text # 0
               /\ view'[u][n].text = 0 => Absent(view'[u][n])
    BY <1>0, <2>1 DEF Single, Absent
  <2>. QED BY <2>1, <2>2, <2>3, HeardSingle
<1>. QED BY <1>1, <1>2, <1>3, <1>4 DEF ClientStep

LEMMA SingleStep ==
  ASSUME MessagesInvariant, MessagesInvariant', InOrder, Once, OneEach, [MessagesNext]_messagesVars
  PROVE  OneEach'
<1>0. SaysTrue BY DEF InOrder
<1>s. Silent => OneEach' BY QuietSingle DEF Silent
<1>1. ASSUME NEW u \in Users, UserStep(u) PROVE OneEach'
  <2>1. CASE Hide(u) BY <2>1, HidesIsQuiet, QuietSingle
  <2>2. CASE Drop(u) BY <2>2, DropsSingle
  <2>3. CASE \/ Send(u) \/ OpenConversation(u) \/ RefreshFriends(u)
             \/ \E m \in Msgs : Delete(u, m) \/ \E t \in Texts : Edit(u, m, t)
    BY <1>s, <2>3, UserAsks
  <2>. QED BY <1>1, <2>1, <2>2, <2>3 DEF UserStep
<1>2. ASSUME NEW u \in Users, ClientStep(u) PROVE OneEach' BY <1>2, HearsSingle
<1>3. ASSUME NEW o \in Ops, ServerStep(o) PROVE OneEach'
  <2>1. CASE \/ FindMessage(o) \/ AreFriends(o) \/ IsBlockedEitherDirection(o) \/ Fails(o) \/ FindsNoRow(o)
             \/ ListConversation(o) \/ ListUnreadCounts(o)
             \/ MarkConversationRead(o) /\ Unread(ops[o].user) = {}
    BY <1>s, <2>1, ServerReads
  <2>2. CASE \/ Save(o) \/ EditMessage(o) \/ DeleteMessage(o)
             \/ MarkConversationRead(o) /\ Unread(ops[o].user) # {}
    BY <1>0, <2>2, ServerWrites, WroteSingle
  <2>3. CASE Publish(o) BY <2>3, PublishAnnounces, AnnouncedSingle
  <2>. QED BY <1>3, <2>1, <2>2, <2>3 DEF ServerStep
<1>4. ASSUME NEW o \in Ops, OpenPanel(o) PROVE OneEach' BY <1>4, OpensSingle
<1>5. ASSUME NEW o \in Ops, ShowUnreadCounts(o) PROVE OneEach' BY <1>5, ShowsIsQuiet, QuietSingle
<1>6. ASSUME NEW c \in Checks, Relink(c) PROVE OneEach' BY <1>s, <1>6, RelinkIsSilent
<1>7. CASE UNCHANGED messagesVars BY <1>s, <1>7, StutterIsSilent
<1>. QED BY <1>1, <1>2, <1>3, <1>4, <1>5, <1>6, <1>7 DEF MessagesNext

\* A message is twice on a panel only if the history brought it before its event.
\* When nothing is on its way an open panel has every message of the page, and
\* those it has are as in the table, unless an event raced its history, the socket
\* was lost or events of the message crossed (DirectMessagePanel, createApp's
\* handlers, listConversation).
THEOREM PanelsConverge == MessagesSpec => []PanelConverges
<1>1. MessagesInit => BadgeInvariant /\ OneEach BY BadgeBegins, OneEachBegins
<1>2. MessagesInvariant /\ MessagesInvariant' /\ PanelInvariant /\ BadgeInvariant /\ OneEach /\ [MessagesNext]_messagesVars
        => BadgeInvariant' /\ OneEach'
  BY BadgeStep, SingleStep DEF PanelInvariant, BadgeInvariant
<1>3. ASSUME MessagesInvariant, PanelInvariant, OneEach PROVE PanelConverges
  <2>0. \A u \in Users : \A m \in Msgs : left[u][m] # {} => m \in hist.early[u] BY <1>3 DEF OneEach, Single
  <2> SUFFICES ASSUME Quiet, NEW u \in Users \ hist.raced, panel[u] = "open", NEW m \in Msgs \ hist.crossed
               PROVE  LET shown == view[u][m]
                          real == Render(u, m, messages[m])
                      IN  /\ shown.text = 0 => (real.text = 0 \/ m \notin Newest)
                          /\ shown.text # 0 => /\ real.text # 0
                                               /\ shown.deleted = real.deleted /\ shown.read = real.read
                                               /\ ~real.deleted => shown.text = real.text
    BY <2>0 DEF PanelConverges
  <2> DEFINE s == view[u][m]
             r == messages[m]
             q == Render(u, m, r)
  <2>1. Tracked(s, r, Dues(u, m), From[m] = u, m \in Newest)
    BY <1>3 DEF PanelInvariant, PanelsTrack, Tracks
  <2>2. Follows(s, r, {}, From[m] = u) \/ (s.text = 0 /\ m \notin Newest)
    BY <2>1, NothingIsDue DEF Tracked, Absent
  <2>3. s \in Rows /\ r \in Rows /\ (r.text = 0 => r = NoRow)
    BY <1>3 DEF MessagesInvariant, MessageTypes, RowsMarked
  <2>4. q.text = r.text /\ q.deleted = r.deleted /\ (q.read <=> r.read /\ From[m] = u) /\ q.read \in BOOLEAN
    <3> HIDE DEF r, s
    <3>1. CASE r.text = 0
      <4>1. q = NoRow /\ r = NoRow BY <2>3, <3>1 DEF Render
      <4>. QED BY <4>1 DEF NoRow
    <3>2. CASE r.text # 0
      <4> DEFINE b == r.read /\ From[m] = u
      <4>1. b \in BOOLEAN /\ (b <=> r.read /\ From[m] = u) OBVIOUS
      <4>2. q = [r EXCEPT !.read = b] BY <3>2 DEF Render
      <4> HIDE DEF b, q
      <4>3. q.text = r.text /\ q.deleted = r.deleted /\ q.read = b BY <2>3, <4>2 DEF Rows
      <4>. QED BY <4>1, <4>3
    <3>. QED BY <3>1, <3>2
  <2>5. s.deleted \in BOOLEAN /\ s.read \in BOOLEAN /\ r.deleted \in BOOLEAN BY <2>3 DEF Rows
  <2> HIDE DEF q, r, s
  <2>6. CASE s.text = 0 /\ m \notin Newest BY <2>6 DEF q, r, s
  <2>7. CASE Follows(s, r, {}, From[m] = u)
    <3>1. s.deleted <=> r.deleted BY <2>7 DEF Follows
    <3>2. s.read <=> q.read BY <2>4, <2>7 DEF Follows
    <3>3. (s.text = 0 <=> r.text = 0) /\ (~r.deleted => s.text = r.text) BY <2>7 DEF Follows
    <3>4. s.deleted = q.deleted /\ s.read = q.read BY <2>4, <2>5, <3>1, <3>2
    <3>5. /\ s.text = 0 <=> q.text = 0
          /\ s.deleted = q.deleted /\ s.read = q.read
          /\ ~q.deleted => s.text = q.text
      BY <2>4, <3>3, <3>4
    <3>. QED BY <3>5 DEF q, r, s
  <2>. QED BY <2>2, <2>6, <2>7
<1>. QED BY <1>1, <1>2, <1>3, MessagesInvariantHolds, PanelsFollowTable, PTL DEF MessagesSpec
=============================================================================
