------------------------------ MODULE LastRoom ------------------------------
(***************************************************************************)
(* The room a user is put back into on the next connection.                *)
(*                                                                         *)
(* Each accepted join upserts the user's row in user_room_sessions and     *)
(* some rejected ones delete it.  The statements run over a connection     *)
(* pool: they may be applied in any order, their answers arrive later, and *)
(* any may fail.  joinRoom numbers the joins a client asks for, and when   *)
(* the save of an older join answers it writes the newest target again.    *)
(* A join resumed from the row is not numbered: the open handler's context *)
(* has no joinVersions.                                                    *)
(*                                                                         *)
(* The module follows one user; rows and versions of users are disjoint.   *)
(***************************************************************************)
EXTENDS Naturals

CONSTANTS
  Sockets,       \* the user's connection slots
  Rooms,         \* rooms the user is allowed to join
  MaxDecisions,  \* bound: joins and rejections that write the row
  MaxResumes,    \* bound: connections opened with a resume room
  MaxRejects,    \* bound: joins that delete the row
  NoRoom, NoSocket

ASSUME LastRoomAssumption ==
  /\ NoRoom \notin Rooms /\ NoSocket \notin Sockets
  /\ MaxDecisions \in Nat /\ MaxResumes \in Nat /\ MaxRejects \in Nat

VARIABLES
  conn,        \* [Sockets -> {"closed", "upgrading", "open"}]
  resume,      \* ws.data.resumeRoomId
  roomOf,      \* ws.data.roomId
  here,        \* the room the user's avatar is in
  driver,      \* the socket that drives the avatar
  version,     \* joinVersions.get(userId), 0 when absent
  target,      \* joinTargets.get(userId)
  writes,      \* statements sent to the database and not yet answered
  row,         \* the user's row in user_room_sessions
  wroteRow,    \* history: the kind of statement that last changed the row
  wanted,      \* history: what the newest decision wants the row to be
  overlapped,  \* history: a decision was made while a statement was out
  failed,      \* history: a statement failed or was lost
  decisions, resumes, rejects

joinVars == <<version, target>>
history == <<wanted, overlapped>>
vars == <<conn, resume, roomOf, here, driver, joinVars, writes, row, wroteRow,
          history, failed, decisions, resumes, rejects>>

Kinds == {"join", "resume", "correct", "clear"}
Writes ==
  {w \in [id : Nat, kind : Kinds, room : Rooms \cup {NoRoom}, applied : BOOLEAN] :
     w.room = NoRoom => w.kind = "clear"}

---------------------------------------------------------------------------
(* Decisions: what joinRoom asks the database to write.  Join versions are *)
(* represented by the number of the decision, which also tells statements  *)
(* apart; a corrective save carries the number of the save it follows.     *)

\* r is what the user is to come back to, saved the room that is written.
Decide(kind, r, saved) ==
  /\ decisions < MaxDecisions
  /\ decisions' = decisions + 1
  /\ writes' = writes \cup {[id |-> decisions + 1, kind |-> kind, room |-> saved,
                             applied |-> FALSE]}
  /\ wanted' = r
  /\ overlapped' = (overlapped \/ writes # {})

\* nextJoinVersion; without joinVersions in the context it records nothing.
NextJoinVersion(kind, r) ==
  IF kind = "join"
  THEN version' = decisions + 1 /\ target' = r
  ELSE UNCHANGED joinVars

\* A socket that drives the avatar leaves its room; otherwise the avatar is
\* taken out of the room it was in and the sockets still joined there are
\* detached.  The first staleness test of saveLastRoomId follows the
\* numbering with no await between and cannot fail.
SaveTarget(kind, r) == IF target = NoRoom THEN r ELSE target     \* (mutant)
SaveLastRoomId(kind, r) == r

EnterRoom(s, r, kind) ==
  /\ roomOf[s] # r
  /\ Decide(kind, r, SaveLastRoomId(kind, r))
  /\ NextJoinVersion(kind, r)
  /\ roomOf' = [t \in Sockets |->
       IF t = s THEN r
       ELSE IF driver # s /\ here \notin {NoRoom, r} /\ roomOf[t] = here
            THEN NoRoom
       ELSE roomOf[t]]
  /\ here' = r
  /\ driver' = s
  /\ UNCHANGED <<row, wroteRow, failed, rejects>>

\* clearLastRoomId after a rejection.
RejectAndClear ==
  /\ rejects < MaxRejects
  /\ rejects' = rejects + 1
  /\ Decide("clear", NoRoom, NoRoom)
  /\ UNCHANGED <<roomOf, here, driver, joinVars, row, wroteRow, failed>>

---------------------------------------------------------------------------
\* The upgrade reads the row; a failing read resumes nowhere.
Upgrade(s, readOk) ==
  /\ conn[s] = "closed"
  /\ conn' = [conn EXCEPT ![s] = "upgrading"]
  /\ resume' = [resume EXCEPT ![s] = IF readOk THEN row ELSE NoRoom]
  /\ resumes' = IF resume'[s] # NoRoom THEN resumes + 1 ELSE resumes
  /\ resumes' <= MaxResumes
  /\ UNCHANGED <<roomOf, here, driver, joinVars, writes, row, wroteRow,
                 history, failed, decisions, rejects>>

\* A rejected resume clears the row, whatever the reason.
HandleOpen(s) ==
  /\ conn[s] = "upgrading"
  /\ conn' = [conn EXCEPT ![s] = "open"]
  /\ UNCHANGED <<resume, resumes>>
  /\ \/ /\ resume[s] = NoRoom
        /\ UNCHANGED <<roomOf, here, driver, joinVars, writes, row, wroteRow,
                       history, failed, decisions, rejects>>
     \/ resume[s] # NoRoom /\ EnterRoom(s, resume[s], "resume")
     \/ resume[s] # NoRoom /\ RejectAndClear

\* room.join of a room the socket is not in.  A full or knock-gated room is
\* refused without touching the row; an unknown one clears it.
HandleJoin(s, r) ==
  /\ conn[s] = "open"
  /\ EnterRoom(s, r, "join")
  /\ UNCHANGED <<conn, resume, resumes>>

HandleUnknownJoin(s) ==
  /\ conn[s] = "open"
  /\ RejectAndClear
  /\ UNCHANGED <<conn, resume, resumes>>

HandleClose(s) ==
  /\ conn[s] = "open"
  /\ conn' = [conn EXCEPT ![s] = "closed"]
  /\ roomOf' = [roomOf EXCEPT ![s] = NoRoom]
  /\ here' = IF driver = s THEN NoRoom ELSE here
  /\ driver' = IF driver = s THEN NoSocket ELSE driver
  /\ UNCHANGED <<resume, joinVars, writes, row, wroteRow, history, failed,
                 decisions, resumes, rejects>>

---------------------------------------------------------------------------
(* The database, and what the server does with its answers.                *)

Apply(w) ==
  /\ ~w.applied
  /\ writes' = (writes \ {w}) \cup {[w EXCEPT !.applied = TRUE]}
  /\ row' = w.room
  /\ wroteRow' = w.kind
  /\ UNCHANGED <<conn, resume, roomOf, here, driver, joinVars, history, failed,
                 decisions, resumes, rejects>>

\* saveLastRoomId after its await: a save that is no longer the newest
\* writes the newest target.  Unnumbered saves count as the newest.
NoCorrection(w) == {}                                            \* (mutant)
AlwaysCorrect(w) ==                                              \* (mutant)
  {[id |-> w.id, kind |-> "correct", room |-> target, applied |-> FALSE]}
Correction(w) ==
  IF w.kind = "join" /\ version # w.id /\ target \notin {NoRoom, w.room}
  THEN {[id |-> w.id, kind |-> "correct", room |-> target, applied |-> FALSE]}
  ELSE {}

Return(w) ==
  /\ w.applied
  /\ writes' = (writes \ {w}) \cup Correction(w)
  /\ UNCHANGED <<conn, resume, roomOf, here, driver, joinVars, row, wroteRow,
                 history, failed, decisions, resumes, rejects>>

\* The statement, or its answer, is lost; the error is only logged.
Fail(w) ==
  /\ writes' = writes \ {w}
  /\ failed' = TRUE
  /\ UNCHANGED <<conn, resume, roomOf, here, driver, joinVars, row, wroteRow,
                 history, decisions, resumes, rejects>>

\* The process stops and starts again, and forgets all but the row.
Restart ==
  /\ \E s \in Sockets : conn[s] # "closed"
  /\ conn' = [s \in Sockets |-> "closed"]
  /\ roomOf' = [s \in Sockets |-> NoRoom]
  /\ here' = NoRoom /\ driver' = NoSocket
  /\ version' = 0 /\ target' = NoRoom
  /\ writes' = {}
  /\ failed' = (failed \/ writes # {})
  /\ UNCHANGED <<resume, row, wroteRow, history, decisions, resumes, rejects>>

---------------------------------------------------------------------------
Init ==
  /\ conn = [s \in Sockets |-> "closed"]
  /\ resume = [s \in Sockets |-> NoRoom]
  /\ roomOf = [s \in Sockets |-> NoRoom]
  /\ here = NoRoom /\ driver = NoSocket
  /\ version = 0 /\ target = NoRoom
  /\ writes = {}
  /\ row \in Rooms \cup {NoRoom}       \* left by an earlier run of the server
  /\ wroteRow = "earlier"
  /\ wanted = row /\ overlapped = FALSE /\ failed = FALSE
  /\ decisions = 0 /\ resumes = 0 /\ rejects = 0

Answer(w) == Apply(w) \/ Return(w) \/ Fail(w)

Next ==
  \/ \E s \in Sockets :
       \/ \E ok \in BOOLEAN : Upgrade(s, ok)
       \/ HandleOpen(s)
       \/ \E r \in Rooms : HandleJoin(s, r)
       \/ HandleUnknownJoin(s)
       \/ HandleClose(s)
  \/ \E w \in writes : Answer(w)
  \/ Restart

Spec == Init /\ [][Next]_vars

\* The database answers every statement, or the driver reports an error.
AnswerOf(i) == \E w \in writes : w.id = i /\ Answer(w)
FairSpec == Spec /\ \A i \in 1..MaxDecisions : WF_vars(AnswerOf(i))

---------------------------------------------------------------------------
TypeOK ==
  /\ conn \in [Sockets -> {"closed", "upgrading", "open"}]
  /\ resume \in [Sockets -> Rooms \cup {NoRoom}]
  /\ roomOf \in [Sockets -> Rooms \cup {NoRoom}]
  /\ here \in Rooms \cup {NoRoom}
  /\ driver \in Sockets \cup {NoSocket}
  /\ version \in Nat
  /\ target \in Rooms \cup {NoRoom}
  /\ writes \in SUBSET Writes
  /\ row \in Rooms \cup {NoRoom}
  /\ wroteRow \in Kinds \cup {"earlier"}
  /\ wanted \in Rooms \cup {NoRoom}
  /\ overlapped \in BOOLEAN /\ failed \in BOOLEAN
  /\ decisions \in Nat /\ resumes \in Nat /\ rejects \in Nat

Settled == writes = {} /\ ~failed

\* However late the first save of an older join lands, it is not what the
\* row is left with: once every statement has answered, a row written by a
\* join's first save names the newest numbered join.
StaleSaveCorrected ==
  Settled /\ wroteRow = "join" /\ target # NoRoom => row = target

\* The versions only have to repair overlaps: when no decision was made
\* while a statement was out, the row is what the newest decision wants,
\* through resumes, rejections, supersessions, closes and restarts.
SequentialDecisionsPersist == Settled /\ ~overlapped => row = wanted

\* A row that an older join's save left stale does not stay so, as long as
\* the database answers.
StaleRowIsRepaired ==
  (wroteRow = "join" /\ target # NoRoom /\ row # target)
    ~> (row = target \/ target = NoRoom \/ wroteRow # "join" \/ failed)

\* The variables keep their types; a stale save is corrected, and decisions
\* that do not overlap persist.
DecisionsPersist == TypeOK /\ StaleSaveCorrected /\ SequentialDecisionsPersist
=============================================================================
