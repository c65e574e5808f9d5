-------------------------------- MODULE Auth --------------------------------
(***************************************************************************)
(* Accounts: registration, login and logout, cut at their awaits.  Every   *)
(* password is hashed or verified under the limiter, except the one hash   *)
(* that unknown names are compared with, which is computed at most once    *)
(* and kept, whether it was computed or failed.                            *)
(*                                                                         *)
(* A session token names a user and a token version.  It is accepted while *)
(* the user's row has that version; a logout increments it.  Expiry, the   *)
(* signature and the cookie are left out: tokens are those that were       *)
(* issued.  Rate limits in front of the handlers refuse requests before    *)
(* any of this and are left out.                                           *)
(***************************************************************************)
EXTENDS PasswordLimiter

CONSTANTS
  Users,       \* normalized user names
  MaxVersion,  \* bound: logouts per user
  NoReq, NoUser

VARIABLES
  req,        \* the handler in each request slot, or NoReq
  users,      \* [Users -> token version of the row, or NoUser]
  tokens,     \* tokens handed out
  dummyHash,  \* dummyPasswordHash
  revoked     \* history: tokens handed out before a logout of their user

vars == <<limiter, req, users, tokens, dummyHash, revoked>>
Requests == Tasks

Versions == 0 .. MaxVersion
Tokens == [user : Users, version : Versions]
Steps == {"lookup", "dummy", "password", "insert", "verify", "increment"}
\* version is what the handler read of the row, or found in its token.
Handlers == [user : Users, step : Steps, known : BOOLEAN, version : Versions,
             registers : BOOLEAN]

ASSUME AuthAssumption ==
  MaxVersion \in Nat /\ NoUser \notin Nat /\ NoReq \notin Handlers

Valid(tok) == users[tok.user] = tok.version

At(r, step) == req[r] # NoReq /\ req[r].step = step
Goto(r, step) == req' = [req EXCEPT ![r].step = step]
Answer(r) == req' = [req EXCEPT ![r] = NoReq]
CreateSession(u, v) == tokens' = tokens \cup {[user |-> u, version |-> v]}

Handler(u, step, v, registers) ==
  [user |-> u, step |-> step, known |-> FALSE, version |-> v, registers |-> registers]

\* runPasswordTask: h is the request's handler once it is let in.
RunPasswordTask(r, h) ==
  \/ (Grant(r) \/ Enqueue(r)) /\ req' = [req EXCEPT ![r] = [h EXCEPT !.step = "password"]]
  \/ Refused(r) /\ Answer(r)

---------------------------------------------------------------------------
(* Requests.  An ill-formed name or password is refused at once.           *)

Register(r, u) ==
  /\ req[r] = NoReq
  /\ RunPasswordTask(r, Handler(u, "password", 0, TRUE))
  /\ UNCHANGED <<users, tokens, dummyHash, revoked>>

Login(r, u) ==
  /\ req[r] = NoReq
  /\ req' = [req EXCEPT ![r] = Handler(u, "lookup", 0, FALSE)]
  /\ UNCHANGED <<limiter, users, tokens, dummyHash, revoked>>

\* A token whose signature does not match is no token here.
Logout(r, tok) ==
  /\ req[r] = NoReq
  /\ tok \in tokens
  /\ req' = [req EXCEPT ![r] = Handler(tok.user, "verify", tok.version, FALSE)]
  /\ UNCHANGED <<limiter, users, tokens, dummyHash, revoked>>

---------------------------------------------------------------------------
(* Login: the row is read before the password is verified.                 *)

AnyName(u) == TRUE                                               \* (mutant)
HasRow(u) == users[u] # NoUser

LookedUp(r) ==
  LET u == req[r].user IN
  /\ At(r, "lookup")
  /\ IF HasRow(u)
     THEN /\ RunPasswordTask(r, [req[r] EXCEPT !.known = TRUE, !.version = users[u]])
          /\ UNCHANGED dummyHash
     ELSE /\ Goto(r, "dummy")
          /\ dummyHash' = IF dummyHash = "unset" THEN "pending" ELSE dummyHash
          /\ UNCHANGED limiter
  /\ UNCHANGED <<users, tokens, revoked>>

DummyHashed(outcome) ==
  /\ dummyHash = "pending"
  /\ dummyHash' = outcome
  /\ UNCHANGED <<limiter, req, users, tokens, revoked>>

AfterDummyHash(r) ==
  /\ At(r, "dummy")
  /\ \/ dummyHash = "ready" /\ RunPasswordTask(r, req[r])
     \/ dummyHash = "failed" /\ Answer(r) /\ UNCHANGED limiter
  /\ UNCHANGED <<users, tokens, dummyHash, revoked>>

---------------------------------------------------------------------------
\* The hash is computed or compared; the slot is free whatever the outcome.
PasswordDone(r) ==
  /\ At(r, "password")
  /\ Release(r)
  /\ \/ req[r].registers /\ Goto(r, "insert") /\ UNCHANGED tokens
     \/ req[r].known /\ CreateSession(req[r].user, req[r].version) /\ Answer(r)
     \/ Answer(r) /\ UNCHANGED tokens
  /\ UNCHANGED <<users, dummyHash, revoked>>

PasswordTimeOut(r) ==
  /\ At(r, "password")
  /\ TimeOut(r)
  /\ Answer(r)
  /\ UNCHANGED <<users, tokens, dummyHash, revoked>>

---------------------------------------------------------------------------
(* Statements on the users table.  The name is unique.                     *)

Inserted(r) ==
  LET u == req[r].user IN
  /\ At(r, "insert")
  /\ IF HasRow(u)
     THEN UNCHANGED <<users, tokens>>
     ELSE users' = [users EXCEPT ![u] = 0] /\ CreateSession(u, 0)
  /\ Answer(r)
  /\ UNCHANGED <<limiter, dummyHash, revoked>>

\* verifyToken
Verified(r) ==
  LET accepted == users[req[r].user] = req[r].version IN
  /\ At(r, "verify")
  /\ IF accepted THEN Goto(r, "increment") ELSE Answer(r)
  /\ UNCHANGED <<limiter, users, tokens, dummyHash, revoked>>

\* set token_version = token_version + 1
VersionRead(r) == req[r].version + 1                             \* (mutant)
Incremented(r) == users[req[r].user] + 1

IncrementTokenVersion(r) ==
  LET u == req[r].user IN
  /\ At(r, "increment")
  /\ Incremented(r) <= MaxVersion
  /\ users' = [users EXCEPT ![u] = Incremented(r)]
  /\ revoked' = revoked \cup {tok \in tokens : tok.user = u}
  /\ Answer(r)
  /\ UNCHANGED <<limiter, tokens, dummyHash>>

\* Any statement may throw; the request is answered with an error.
StatementFails(r) ==
  /\ At(r, "lookup") \/ At(r, "insert") \/ At(r, "verify") \/ At(r, "increment")
  /\ Answer(r)
  /\ UNCHANGED <<limiter, users, tokens, dummyHash, revoked>>

---------------------------------------------------------------------------
Init ==
  /\ LimiterInit
  /\ req = [r \in Requests |-> NoReq]
  /\ users = [u \in Users |-> NoUser]
  /\ tokens = {} /\ revoked = {}
  /\ dummyHash = "unset"

Statement(r) ==
  LookedUp(r) \/ Inserted(r) \/ Verified(r) \/ IncrementTokenVersion(r) \/ StatementFails(r)

Next ==
  \/ \E r \in Requests :
       \/ \E u \in Users : Register(r, u) \/ Login(r, u)
       \/ \E tok \in tokens : Logout(r, tok)
       \/ AfterDummyHash(r) \/ PasswordDone(r) \/ PasswordTimeOut(r)
       \/ Statement(r)
  \/ \E outcome \in {"ready", "failed"} : DummyHashed(outcome)

Spec == Init /\ [][Next]_vars

\* Statements are answered and hashes end, one way or another; nothing is
\* assumed of clients or of the timers of the queue.
Fairness ==
  /\ \A r \in Requests :
       WF_vars(Statement(r)) /\ WF_vars(AfterDummyHash(r)) /\ WF_vars(PasswordDone(r))
  /\ WF_vars(\E outcome \in {"ready", "failed"} : DummyHashed(outcome))

FairSpec == Spec /\ Fairness

---------------------------------------------------------------------------
TypeOK ==
  /\ LimiterTypeOK
  /\ req \in [Requests -> Handlers \cup {NoReq}]
  /\ users \in [Users -> Versions \cup {NoUser}]
  /\ tokens \subseteq Tokens /\ revoked \subseteq Tokens
  /\ dummyHash \in {"unset", "pending", "ready", "failed"}

\* Every request that waits or runs in the limiter is a handler at its
\* password step, and the other way round: an answered request leaves
\* nothing behind in the limiter that a slot could be handed to.
LimiterServesHandlers ==
  \A r \in Requests : phase[r] # "out" <=> At(r, "password")

\* logout: "Invalidates all of a user's existing tokens", and for good:
\* logouts and logins that overlap, whatever versions they have read before,
\* leave no token valid that existed when a logout took effect.
LogoutRevokes == \A tok \in revoked : ~Valid(tok)

\* Nobody waits for ever: each request is answered although new ones keep
\* coming, waiters time out and statements fail.
EveryRequestAnswered == \A r \in Requests : req[r] # NoReq ~> req[r] = NoReq

\* The variables keep their types, slots are accounted for, and those who hold
\* or wait for one are the handlers at their password step.
SlotsServeHandlers == TypeOK /\ SlotsAccounted /\ LimiterServesHandlers
=============================================================================
