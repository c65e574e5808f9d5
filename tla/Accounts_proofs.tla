---------------------------- MODULE Accounts_proofs ---------------------------
(***************************************************************************)
(* Proofs about Auth and the limiter it uses, for any number of requests   *)
(* and users and any limits; and about the looks of an account's avatar    *)
(* (Appearance), for any number of looks, rooms, connections, requests and *)
(* updates.                                                                *)
(***************************************************************************)
EXTENDS Auth, Appearance, FiniteSetTheorems, SequenceTheorems, TLAPS

\* The inductive invariant of the limiter.
LInv == LimiterTypeOK /\ IsFiniteSet(Running) /\ SlotsAccounted

---------------------------------------------------------------------------
(* What each step of the limiter does to the sets it is about.             *)

LEMMA GrantSets ==
  ASSUME LimiterTypeOK, NEW t \in Tasks, Grant(t)
  PROVE  /\ t \notin Running /\ t \notin Waiting
         /\ Running' = Running \cup {t} /\ Waiting' = Waiting
  BY DEF LimiterTypeOK, Grant, Enter, Running, Waiting

LEMMA EnqueueSets ==
  ASSUME LimiterTypeOK, NEW t \in Tasks, Enqueue(t)
  PROVE  /\ t \notin Running /\ t \notin Waiting
         /\ Running' = Running /\ Waiting' = Waiting \cup {t}
  BY DEF LimiterTypeOK, Enqueue, Running, Waiting

LEMMA TimeOutSets ==
  ASSUME LimiterTypeOK, NEW t \in Tasks, TimeOut(t)
  PROVE  t \in Waiting /\ Running' = Running /\ Waiting' = Waiting \ {t}
  BY DEF LimiterTypeOK, TimeOut, Quit, Running, Waiting

LEMMA FreeSlotSets ==
  ASSUME LimiterTypeOK, NEW t \in Tasks, phase[t] = "running", FreeSlot(t)
  PROVE  t \in Running /\ Running' = Running \ {t} /\ Waiting' = Waiting
  BY DEF LimiterTypeOK, FreeSlot, Quit, Running, Waiting

\* The first of a queue that holds the waiters is one of them.
LEMMA FirstWaits ==
  ASSUME LimiterTypeOK, QueueIsWaiting, queue # <<>>
  PROVE  queue[1] = Head(queue) /\ Head(queue) \in Waiting /\ Len(queue) \in Nat \ {0}
  BY DEF LimiterTypeOK, QueueIsWaiting

LEMMA PassSlotSets ==
  ASSUME LimiterTypeOK, QueueIsWaiting, NEW t \in Tasks, phase[t] = "running", PassSlot(t)
  PROVE  /\ t \in Running /\ Head(queue) \in Waiting /\ Head(queue) \notin Running
         /\ Running' = (Running \ {t}) \cup {Head(queue)}
         /\ Waiting' = Waiting \ {Head(queue)}
<1>1. Head(queue) \in Waiting
  BY FirstWaits DEF PassSlot
<1>2. /\ Head(queue) \in Tasks /\ phase[Head(queue)] = "waiting" /\ Head(queue) # t
  BY <1>1 DEF Waiting
<1>3. phase' = [phase EXCEPT ![t] = "out", ![Head(queue)] = "running"]
  BY DEF PassSlot, InOrder
<1>4. \A u \in Tasks : phase'[u] = IF u = Head(queue) THEN "running"
                                   ELSE IF u = t THEN "out" ELSE phase[u]
  BY <1>2, <1>3 DEF LimiterTypeOK
<1> QED
  BY <1>1, <1>2, <1>4 DEF Running, Waiting

---------------------------------------------------------------------------
LEMMA LimiterInitInv == LimiterInit => LInv
<1> SUFFICES ASSUME LimiterInit PROVE LInv
  OBVIOUS
<1>1. Running = {} /\ Waiting = {}
  BY DEF LimiterInit, Running, Waiting
<1>2. LimiterTypeOK
  BY DEF LimiterInit, LimiterTypeOK
<1>3. QueueIsWaiting
  BY <1>1 DEF LimiterInit, QueueIsWaiting
<1> QED
  BY <1>1, <1>2, <1>3, FS_EmptySet, LimiterAssumption DEF LInv, SlotsAccounted, LimiterInit

LEMMA GrantInv == ASSUME LInv, NEW t \in Tasks, Grant(t) PROVE LInv'
<1> USE DEF LInv, SlotsAccounted
<1>1. /\ t \notin Running /\ Running' = Running \cup {t} /\ Waiting' = Waiting
  BY GrantSets
<1>2. LimiterTypeOK'
  BY DEF LimiterTypeOK, Grant, Enter
<1>3. queue' = queue /\ active' = active + 1 /\ active < Concurrency /\ queue = <<>>
  BY LimiterAssumption DEF Grant, SlotFree
<1>4. QueueIsWaiting'
  BY <1>1, <1>3 DEF QueueIsWaiting
<1>5. IsFiniteSet(Running') /\ Cardinality(Running') = Cardinality(Running) + 1
  BY <1>1, FS_AddElement
<1> QED
  BY <1>2, <1>3, <1>4, <1>5, LimiterAssumption DEF LimiterTypeOK

LEMMA EnqueueInv == ASSUME LInv, NEW t \in Tasks, Enqueue(t) PROVE LInv'
<1> USE DEF LInv, SlotsAccounted
<1>1. t \notin Waiting /\ Running' = Running /\ Waiting' = Waiting \cup {t}
  BY EnqueueSets
<1>2. LimiterTypeOK'
  BY DEF LimiterTypeOK, Enqueue
<1>3. queue' = Append(queue, t) /\ active' = active /\ active = Concurrency
  BY LimiterAssumption DEF Enqueue, SlotFree, LimiterTypeOK
<1>4. /\ Len(queue) \in Nat /\ Len(queue') = Len(queue) + 1
      /\ \A k \in 1 .. Len(queue) : queue'[k] = queue[k]
      /\ queue'[Len(queue) + 1] = t
  BY <1>3 DEF LimiterTypeOK
<1>5. QueueIsWaiting'
  BY <1>1, <1>4 DEF QueueIsWaiting
<1> QED
  BY <1>1, <1>2, <1>3, <1>5

LEMMA TimeOutInv == ASSUME LInv, NEW t \in Tasks, TimeOut(t) PROVE LInv'
<1> USE DEF LInv, SlotsAccounted
<1>1. t \in Waiting /\ Running' = Running /\ Waiting' = Waiting \ {t}
  BY TimeOutSets
<1>2. PICK k \in 1 .. Len(queue) : queue[k] = t /\ queue' = Spliced(queue, k)
  BY DEF TimeOut
<1>3. active' = active
  BY DEF TimeOut
<1>4. /\ Len(queue) \in Nat /\ Len(queue') = Len(queue) - 1
      /\ \A j \in 1 .. Len(queue) - 1 :
           queue'[j] = IF j < k THEN queue[j] ELSE queue[j + 1]
      /\ queue' \in Seq(Tasks)
  BY <1>2 DEF LimiterTypeOK, Spliced
<1>5. LimiterTypeOK'
  BY <1>4 DEF LimiterTypeOK, TimeOut, Quit
<1>6. QueueIsWaiting'
  <2>1. \A j \in 1 .. Len(queue') : queue'[j] \in Waiting'
    BY <1>1, <1>2, <1>4 DEF QueueIsWaiting
  <2>2. \A u \in Waiting' : \E j \in 1 .. Len(queue') : queue'[j] = u
    <3> SUFFICES ASSUME NEW u \in Waiting, u # t
                 PROVE  \E j \in 1 .. Len(queue') : queue'[j] = u
      BY <1>1
    <3>1. PICK j \in 1 .. Len(queue) : queue[j] = u
      BY DEF QueueIsWaiting
    <3>2. CASE j < k
      <4>1. j \in 1 .. Len(queue') /\ queue'[j] = u
        BY <1>4, <3>1, <3>2
      <4> QED BY <4>1
    <3>3. CASE j > k
      <4>1. j - 1 \in 1 .. Len(queue') /\ queue'[j - 1] = u
        BY <1>4, <3>1, <3>3
      <4> QED BY <4>1
    <3> QED
      BY <1>2, <1>4, <3>1, <3>2, <3>3
  <2>3. \A i, j \in 1 .. Len(queue') : queue'[i] = queue'[j] => i = j
    BY <1>4 DEF QueueIsWaiting
  <2> QED
    BY <2>1, <2>2, <2>3 DEF QueueIsWaiting
<1>7. queue' # <<>> => queue # <<>>
  BY <1>4
<1> QED
  BY <1>1, <1>3, <1>5, <1>6, <1>7

LEMMA FreeSlotInv ==
  ASSUME LInv, NEW t \in Tasks, phase[t] = "running", FreeSlot(t) PROVE LInv'
<1> USE DEF LInv, SlotsAccounted
<1>1. t \in Running /\ Running' = Running \ {t} /\ Waiting' = Waiting
  BY FreeSlotSets
<1>2. /\ IsFiniteSet(Running') /\ Cardinality(Running') = Cardinality(Running) - 1
      /\ Cardinality(Running) \in Nat /\ Cardinality(Running') \in Nat
  BY <1>1, FS_RemoveElement, FS_CardinalityType
<1>3. queue = <<>> /\ queue' = queue /\ active' = active - 1
  BY <1>2 DEF FreeSlot, LimiterTypeOK
<1>4. LimiterTypeOK'
  BY <1>2, <1>3 DEF FreeSlot, Quit, LimiterTypeOK
<1>5. QueueIsWaiting'
  BY <1>1, <1>3 DEF QueueIsWaiting
<1> QED
  BY <1>2, <1>3, <1>4, <1>5, LimiterAssumption DEF LimiterTypeOK

LEMMA PassSlotInv ==
  ASSUME LInv, NEW t \in Tasks, phase[t] = "running", PassSlot(t) PROVE LInv'
<1> USE DEF LInv, SlotsAccounted
<1> DEFINE h == Head(queue)
           rest == Running \ {t}
<1>1. /\ t \in Running /\ h \in Waiting /\ h \notin Running
      /\ Running' = (Running \ {t}) \cup {h} /\ Waiting' = Waiting \ {h}
  BY PassSlotSets
<1>2. /\ IsFiniteSet(rest) /\ Cardinality(rest) = Cardinality(Running) - 1
      /\ Cardinality(Running) \in Nat
  BY <1>1, FS_RemoveElement, FS_CardinalityType
<1>3. IsFiniteSet(Running') /\ Cardinality(Running') = Cardinality(Running)
  <2>1. h \notin rest
    BY <1>1
  <2> HIDE DEF h, rest
  <2>2. IsFiniteSet(rest \cup {h}) /\ Cardinality(rest \cup {h}) = Cardinality(rest) + 1
    BY <1>2, <2>1, FS_AddElement
  <2>3. Running' = rest \cup {h}
    BY <1>1 DEF rest, h
  <2> QED
    BY <1>2, <2>2, <2>3
<1>4. queue' = Tail(queue) /\ active' = active
  BY DEF PassSlot, InOrder
<1>5. /\ Len(queue) \in Nat \ {0} /\ queue[1] = h
      /\ Len(queue') = Len(queue) - 1 /\ queue' \in Seq(Tasks)
      /\ \A j \in 1 .. Len(queue) - 1 : queue'[j] = queue[j + 1]
  <2>1. queue # <<>> /\ queue \in Seq(Tasks)
    BY DEF PassSlot, LimiterTypeOK
  <2>2. Len(queue) \in Nat \ {0} /\ queue[1] = h
    BY <2>1, FirstWaits
  <2> HIDE DEF h
  <2> QED
    BY <1>4, <2>1, <2>2
<1>6. LimiterTypeOK'
  BY <1>1, <1>4, <1>5 DEF LimiterTypeOK, PassSlot, InOrder
<1>7. QueueIsWaiting'
  <2>1. \A j \in 1 .. Len(queue') : queue'[j] \in Waiting'
    BY <1>1, <1>5 DEF QueueIsWaiting
  <2>2. \A u \in Waiting' : \E j \in 1 .. Len(queue') : queue'[j] = u
    <3> SUFFICES ASSUME NEW u \in Waiting, u # h
                 PROVE  \E j \in 1 .. Len(queue') : queue'[j] = u
      BY <1>1
    <3>1. PICK j \in 1 .. Len(queue) : queue[j] = u
      BY DEF QueueIsWaiting
    <3>2. j - 1 \in 1 .. Len(queue') /\ queue'[j - 1] = u
      BY <1>5, <3>1
    <3> QED
      BY <3>2
  <2>3. \A i, j \in 1 .. Len(queue') : queue'[i] = queue'[j] => i = j
    BY <1>5 DEF QueueIsWaiting
  <2> QED
    BY <2>1, <2>2, <2>3 DEF QueueIsWaiting
<1> QED
  BY <1>3, <1>4, <1>6, <1>7 DEF PassSlot

LEMMA LimiterStepInv == LInv /\ [LimiterNext]_limiter => LInv'
<1> SUFFICES ASSUME LInv, [LimiterNext]_limiter PROVE LInv'
  OBVIOUS
<1>1. ASSUME NEW t \in Tasks, Release(t) PROVE LInv'
  BY <1>1, FreeSlotInv, PassSlotInv DEF Release
<1>2. CASE UNCHANGED limiter
  BY <1>2 DEF LInv, LimiterTypeOK, SlotsAccounted, QueueIsWaiting, Running, Waiting, limiter
<1>3. ASSUME NEW t \in Tasks, Refused(t) PROVE UNCHANGED limiter
  BY <1>3 DEF Refused
<1> QED
  BY <1>1, <1>2, <1>3, GrantInv, EnqueueInv, TimeOutInv DEF LimiterNext

\* A step of a request is a step of the limiter or leaves it alone.
LEMMA StepsOfLimiter == Next => [LimiterNext]_limiter
<1> USE DEF Requests
<1>1. ASSUME NEW r \in Tasks, NEW h, RunPasswordTask(r, h) PROVE [LimiterNext]_limiter
  BY <1>1 DEF RunPasswordTask, LimiterNext
<1>2. ASSUME NEW r \in Tasks, NEW u \in Users, Register(r, u) \/ Login(r, u)
      PROVE  [LimiterNext]_limiter
  BY <1>1, <1>2 DEF Register, Login
<1>3. ASSUME NEW r \in Tasks, LookedUp(r) \/ AfterDummyHash(r) PROVE [LimiterNext]_limiter
  BY <1>1, <1>3 DEF LookedUp, AfterDummyHash
<1>4. ASSUME NEW r \in Tasks, PasswordDone(r) \/ PasswordTimeOut(r)
      PROVE  [LimiterNext]_limiter
  BY <1>4 DEF PasswordDone, PasswordTimeOut, LimiterNext
<1>5. ASSUME NEW r \in Tasks, Inserted(r) \/ Verified(r) \/ IncrementTokenVersion(r)
                              \/ StatementFails(r) \/ (\E tok \in tokens : Logout(r, tok))
      PROVE  UNCHANGED limiter
  BY <1>5 DEF Inserted, Verified, IncrementTokenVersion, StatementFails, Logout
<1>6. ASSUME NEW outcome, DummyHashed(outcome) PROVE UNCHANGED limiter
  BY <1>6 DEF DummyHashed
<1> QED
  BY <1>2, <1>3, <1>4, <1>5, <1>6 DEF Next, Statement

LEMMA LimiterKept == LInv /\ [Next]_vars => LInv'
  BY StepsOfLimiter, LimiterStepInv DEF vars

\* However requests, timeouts and ends of hashes interleave, no slot is lost,
\* handed out twice or free while somebody waits.
THEOREM SlotsNeverLost == Spec => []SlotsAccounted
<1>1. Init => LInv
  BY LimiterInitInv DEF Init
<1>2. LInv => SlotsAccounted
  BY DEF LInv
<1> QED
  BY <1>1, <1>2, LimiterKept, PTL DEF Spec

---------------------------------------------------------------------------
(* The limiter implements the semaphore.                                   *)

LEMMA NobodyWaits == ASSUME LInv, queue = <<>> PROVE Waiting = {}
  BY DEF LInv, SlotsAccounted, QueueIsWaiting

LEMMA SameCardinality == Sem!Cardinality(Running) = Cardinality(Running)
  BY DEF Sem!Cardinality, Cardinality

LEMMA SemaphoreStep ==
  LInv /\ [LimiterNext]_limiter => [Sem!Next]_<<Running, Waiting>>
<1> SUFFICES ASSUME LInv, [LimiterNext]_limiter PROVE [Sem!Next]_<<Running, Waiting>>
  OBVIOUS
<1> USE DEF LInv, SlotsAccounted
<1>1. ASSUME NEW t \in Tasks, Grant(t) PROVE Sem!Enter(t)
  <2>1. Cardinality(Running) < Concurrency /\ queue = <<>>
    BY <1>1, LimiterAssumption DEF Grant, SlotFree
  <2>2. Waiting = {}
    BY <2>1, NobodyWaits
  <2>3. /\ t \notin Running /\ t \notin Waiting
        /\ Running' = Running \cup {t} /\ Waiting' = Waiting
    BY <1>1, GrantSets
  <2> QED
    BY <2>1, <2>2, <2>3, SameCardinality DEF Sem!Enter, Sem!Idle
<1>2. ASSUME NEW t \in Tasks, Enqueue(t) PROVE Sem!Wait(t)
  <2>1. Cardinality(Running) = Concurrency
    BY <1>2, LimiterAssumption DEF Enqueue, SlotFree, LimiterTypeOK
  <2>2. /\ t \notin Running /\ t \notin Waiting
        /\ Running' = Running /\ Waiting' = Waiting \cup {t}
    BY <1>2, EnqueueSets
  <2> QED
    BY <2>1, <2>2, SameCardinality DEF Sem!Wait, Sem!Idle
<1>3. ASSUME NEW t \in Tasks, TimeOut(t) PROVE Sem!GiveUp(t)
  BY <1>3, TimeOutSets DEF Sem!GiveUp
<1>4. ASSUME NEW t \in Tasks, phase[t] = "running", FreeSlot(t) PROVE Sem!Leave(t)
  BY <1>4, FreeSlotSets, NobodyWaits DEF Sem!Leave, FreeSlot
<1>5. ASSUME NEW t \in Tasks, phase[t] = "running", PassSlot(t)
      PROVE  \E w \in Waiting : Sem!HandOver(t, w)
  BY <1>5, PassSlotSets DEF Sem!HandOver
<1>6. CASE UNCHANGED limiter
  BY <1>6 DEF limiter, Running, Waiting
<1>7. CASE LimiterNext
  BY <1>1, <1>2, <1>3, <1>4, <1>5, <1>6, <1>7
     DEF LimiterNext, Release, Refused, Sem!Next
<1> QED
  BY <1>6, <1>7

\* The requests of Auth use a semaphore of Concurrency slots, for any number
\* of requests, any limits and every order of their steps.
THEOREM LimiterIsSemaphore == Spec => IsSemaphore
<1>1. Init => LInv /\ Sem!Init
  <2>1. Init => Running = {} /\ Waiting = {}
    BY DEF Init, LimiterInit, Running, Waiting
  <2> QED
    BY <2>1, LimiterInitInv DEF Init, Sem!Init
<1>2. LInv /\ [Next]_vars => [Sem!Next]_<<Running, Waiting>>
  BY StepsOfLimiter, SemaphoreStep DEF vars
<1> QED
  BY <1>1, <1>2, LimiterKept, PTL DEF Spec, IsSemaphore, Sem!Spec

---------------------------------------------------------------------------
(* Tokens.  A version that was read of a row, or given to a token, is      *)
(* never ahead of the row, and a revoked one is behind it.                 *)

Reached(u, v) == users[u] \in Versions /\ v <= users[u]

HandlersOK ==
  \A r \in Requests : req[r] # NoReq =>
    /\ req[r].known => Reached(req[r].user, req[r].version)
    /\ req[r].step = "increment" => users[req[r].user] \in Versions

TokensOK ==
  /\ \A tok \in tokens : Reached(tok.user, tok.version)
  /\ \A tok \in revoked : users[tok.user] \in Versions /\ tok.version < users[tok.user]

AInv == LInv /\ TypeOK /\ LimiterServesHandlers /\ HandlersOK /\ TokensOK

\* What runPasswordTask leaves behind: the request is at its password step
\* and in the limiter, or answered and not in it.
LEMMA RunPasswordTaskStep ==
  ASSUME AInv, NEW r \in Requests, NEW h \in Handlers, RunPasswordTask(r, h)
  PROVE  /\ req' = [req EXCEPT ![r] = [h EXCEPT !.step = "password"]] \/ Answer(r)
         /\ \A s \in Requests : s # r => phase'[s] = phase[s]
         /\ phase'[r] # "out" <=> At(r, "password")'
<1> USE DEF Requests
<1>1. phase \in [Tasks -> {"out", "waiting", "running"}] /\ req \in [Tasks -> Handlers \cup {NoReq}]
  BY DEF AInv, TypeOK, LimiterTypeOK
<1> DEFINE g == [h EXCEPT !.step = "password"]
<1>2. g \in Handlers /\ g # NoReq /\ g.step = "password"
  BY AuthAssumption DEF Handlers, Steps
<1>3. CASE (Grant(r) \/ Enqueue(r)) /\ req' = [req EXCEPT ![r] = g]
  <2>1. req'[r] = g
    BY <1>1, <1>3
  <2>2. At(r, "password")'
    BY <1>2, <2>1 DEF At
  <2>3. phase'[r] # "out" /\ \A s \in Requests : s # r => phase'[s] = phase[s]
    BY <1>1, <1>3 DEF Grant, Enqueue, Enter
  <2> QED
    BY <1>3, <2>2, <2>3
<1>4. CASE Refused(r) /\ Answer(r)
  <2>1. phase' = phase /\ phase[r] = "out"
    BY <1>4 DEF Refused, limiter
  <2>2. ~At(r, "password")'
    BY <1>1, <1>4 DEF At, Answer
  <2> QED
    BY <1>4, <2>1, <2>2
<1> QED
  BY <1>3, <1>4 DEF RunPasswordTask

---------------------------------------------------------------------------
(* An inductive step only has to look at the request that moves.           *)

LEMMA MoveOf ==
  ASSUME AInv, LInv', NEW r \in Requests, NEW h \in Handlers \cup {NoReq},
         req' = [req EXCEPT ![r] = h],
         \A s \in Requests : s # r => (phase'[s] # "out" <=> phase[s] # "out"),
         phase'[r] # "out" <=> (h # NoReq /\ h.step = "password"),
         users' = users,
         h # NoReq => /\ h.known => Reached(h.user, h.version)
                      /\ h.step = "increment" => users[h.user] \in Versions
  PROVE  req' \in [Requests -> Handlers \cup {NoReq}] /\ LimiterServesHandlers' /\ HandlersOK'
<1>1. req \in [Requests -> Handlers \cup {NoReq}]
  BY DEF AInv, TypeOK
<1>2. \A s \in Requests : req'[s] = IF s = r THEN h ELSE req[s]
  BY <1>1
<1>3. LimiterServesHandlers'
  BY <1>2 DEF AInv, LimiterServesHandlers, At
<1>4. HandlersOK'
  BY <1>2 DEF AInv, HandlersOK, Reached
<1> QED
  BY <1>1, <1>3, <1>4

LEMMA LetIn ==
  ASSUME AInv, LInv', NEW r \in Requests, NEW h \in Handlers, RunPasswordTask(r, h),
         users' = users, h.known => Reached(h.user, h.version)
  PROVE  req' \in [Requests -> Handlers \cup {NoReq}] /\ LimiterServesHandlers' /\ HandlersOK'
<1> DEFINE g == [h EXCEPT !.step = "password"]
<1>1. /\ g \in Handlers /\ g # NoReq /\ g.step = "password"
      /\ g.known = h.known /\ g.user = h.user /\ g.version = h.version
  BY AuthAssumption DEF Handlers, Steps
<1>2. req \in [Requests -> Handlers \cup {NoReq}]
  BY DEF AInv, TypeOK
<1>3. /\ req' = [req EXCEPT ![r] = g] \/ Answer(r)
      /\ \A s \in Requests : s # r => phase'[s] = phase[s]
      /\ phase'[r] # "out" <=> At(r, "password")'
  BY RunPasswordTaskStep
<1>4. CASE req' = [req EXCEPT ![r] = g]
  <2>1. req'[r] = g
    BY <1>2, <1>4
  <2>2. phase'[r] # "out" <=> (g # NoReq /\ g.step = "password")
    BY <1>3, <2>1 DEF At
  <2> HIDE DEF g
  <2> QED
    BY <1>1, <1>3, <1>4, <2>2, MoveOf
<1>5. CASE Answer(r)
  <2>1. req' = [req EXCEPT ![r] = NoReq] /\ req'[r] = NoReq
    BY <1>2, <1>5 DEF Answer
  <2>2. phase'[r] = "out"
    BY <1>3, <2>1 DEF At
  <2> QED
    BY <1>3, <2>1, <2>2, MoveOf
<1> QED
  BY <1>3, <1>4, <1>5

\* A handler that moves on outside the limiter, or is answered there.
LEMMA MoveOutside ==
  ASSUME AInv, LInv', NEW r \in Requests, NEW h \in Handlers \cup {NoReq},
         req' = [req EXCEPT ![r] = h], UNCHANGED limiter, ~At(r, "password"),
         h # NoReq => h.step # "password",
         users' = users,
         h # NoReq => /\ h.known => Reached(h.user, h.version)
                      /\ h.step = "increment" => users[h.user] \in Versions
  PROVE  req' \in [Requests -> Handlers \cup {NoReq}] /\ LimiterServesHandlers' /\ HandlersOK'
<1>1. phase' = phase /\ phase[r] = "out"
  BY DEF AInv, LimiterServesHandlers, limiter
<1> QED
  BY <1>1, MoveOf

\* What a step must show besides: the rows and the tokens.
LEMMA Kept ==
  ASSUME AInv, LInv', req' \in [Requests -> Handlers \cup {NoReq}],
         LimiterServesHandlers', HandlersOK',
         UNCHANGED <<users, revoked>>,
         dummyHash' \in {"unset", "pending", "ready", "failed"},
         \/ tokens' = tokens
         \/ \E u \in Users, v \in Versions : Reached(u, v) /\ CreateSession(u, v)
  PROVE  AInv'
<1>1. TokensOK' /\ tokens' \subseteq Tokens
  <2>1. CASE tokens' = tokens
    BY <2>1 DEF AInv, TypeOK, TokensOK, Reached
  <2>2. ASSUME NEW u \in Users, NEW v \in Versions, Reached(u, v), CreateSession(u, v)
        PROVE  TokensOK' /\ tokens' \subseteq Tokens
    BY <2>2 DEF AInv, TypeOK, TokensOK, Reached, CreateSession, Tokens
  <2> QED
    BY <2>1, <2>2
<1> QED
  BY <1>1 DEF AInv, TypeOK, LInv

---------------------------------------------------------------------------
(* One lemma per handler step.                                             *)

LEMMA HandlerTyped ==
  ASSUME AInv, NEW r \in Requests, req[r] # NoReq
  PROVE  /\ req[r] \in Handlers /\ req[r].user \in Users /\ req[r].version \in Versions
         /\ req[r].known => Reached(req[r].user, req[r].version)
         /\ req[r].step = "increment" => users[req[r].user] \in Versions
  BY DEF AInv, TypeOK, HandlersOK, Handlers

LEMMA NewHandler ==
  ASSUME NEW u \in Users, NEW s \in Steps, NEW v \in Versions, NEW b \in BOOLEAN
  PROVE  /\ Handler(u, s, v, b) \in Handlers /\ ~Handler(u, s, v, b).known
         /\ Handler(u, s, v, b).step = s
  BY DEF Handler, Handlers

LEMMA RegisterInv ==
  ASSUME AInv, LInv', NEW r \in Requests, NEW u \in Users, Register(r, u) PROVE AInv'
<1>1. 0 \in Versions /\ "password" \in Steps
  BY AuthAssumption DEF Versions, Steps
<1>2. /\ Handler(u, "password", 0, TRUE) \in Handlers
      /\ ~Handler(u, "password", 0, TRUE).known
  BY <1>1, NewHandler
<1>3. RunPasswordTask(r, Handler(u, "password", 0, TRUE))
      /\ UNCHANGED <<users, tokens, dummyHash, revoked>>
  BY DEF Register
<1>4. /\ req' \in [Requests -> Handlers \cup {NoReq}]
      /\ LimiterServesHandlers' /\ HandlersOK'
  BY <1>2, <1>3, LetIn
<1> QED
  BY <1>3, <1>4, Kept DEF AInv, TypeOK

LEMMA LoginInv ==
  ASSUME AInv, LInv', NEW r \in Requests, NEW u \in Users, Login(r, u) PROVE AInv'
<1>1. 0 \in Versions /\ "lookup" \in Steps
  BY AuthAssumption DEF Versions, Steps
<1>2. /\ Handler(u, "lookup", 0, FALSE) \in Handlers
      /\ ~Handler(u, "lookup", 0, FALSE).known
      /\ Handler(u, "lookup", 0, FALSE).step = "lookup"
  BY <1>1, NewHandler
<1>3. /\ req' \in [Requests -> Handlers \cup {NoReq}]
      /\ LimiterServesHandlers' /\ HandlersOK'
  BY <1>2, MoveOutside DEF Login, At
<1> QED
  BY <1>3, Kept DEF AInv, TypeOK, Login

LEMMA LogoutInv ==
  ASSUME AInv, LInv', NEW r \in Requests, NEW tok \in tokens, Logout(r, tok) PROVE AInv'
<1>1. tok.user \in Users /\ tok.version \in Versions /\ "verify" \in Steps
  BY DEF AInv, TypeOK, Tokens, Steps
<1>2. /\ Handler(tok.user, "verify", tok.version, FALSE) \in Handlers
      /\ ~Handler(tok.user, "verify", tok.version, FALSE).known
      /\ Handler(tok.user, "verify", tok.version, FALSE).step = "verify"
  BY <1>1, NewHandler
<1>3. /\ req' \in [Requests -> Handlers \cup {NoReq}]
      /\ LimiterServesHandlers' /\ HandlersOK'
  BY <1>2, MoveOutside DEF Logout, At
<1> QED
  BY <1>3, Kept DEF AInv, TypeOK, Logout

LEMMA LookedUpInv ==
  ASSUME AInv, LInv', NEW r \in Requests, LookedUp(r) PROVE AInv'
<1> DEFINE u == req[r].user
           found == [req[r] EXCEPT !.known = TRUE, !.version = users[u]]
           unknown == [req[r] EXCEPT !.step = "dummy"]
<1>1. At(r, "lookup") /\ req[r] # NoReq /\ req[r] \in Handlers /\ u \in Users
      /\ (req[r].known => Reached(req[r].user, req[r].version))
  BY HandlerTyped DEF LookedUp, At
<1>2. users' = users /\ tokens' = tokens /\ revoked' = revoked
  BY DEF LookedUp
<1>3. CASE HasRow(u)
  <2>1. users[u] \in Versions /\ Reached(u, users[u])
    BY <1>1, <1>3, AuthAssumption DEF HasRow, AInv, TypeOK, Reached, Versions
  <2>2. found \in Handlers /\ found.user = u /\ found.version = users[u]
    BY <1>1, <2>1 DEF Handlers
  <2>3. RunPasswordTask(r, found) /\ dummyHash' = dummyHash
    BY <1>3 DEF LookedUp
  <2>4. Reached(found.user, found.version)
    BY <2>1, <2>2
  <2> HIDE DEF found
  <2>5. /\ req' \in [Requests -> Handlers \cup {NoReq}]
        /\ LimiterServesHandlers' /\ HandlersOK'
    BY <1>2, <2>2, <2>3, <2>4, LetIn
  <2> QED
    BY <1>2, <2>3, <2>5, Kept DEF AInv, TypeOK
<1>4. CASE ~HasRow(u)
  <2>1. req' = [req EXCEPT ![r] = unknown] /\ UNCHANGED limiter
    BY <1>4 DEF LookedUp, Goto
  <2>2. dummyHash' \in {"unset", "pending", "ready", "failed"}
    BY <1>4 DEF LookedUp, AInv, TypeOK
  <2>3. /\ unknown \in Handlers /\ unknown.step = "dummy"
        /\ unknown.known = req[r].known /\ unknown.user = u
        /\ unknown.version = req[r].version
    BY <1>1 DEF Handlers, Steps
  <2> HIDE DEF unknown
  <2>4. /\ req' \in [Requests -> Handlers \cup {NoReq}]
        /\ LimiterServesHandlers' /\ HandlersOK'
    BY <1>1, <1>2, <2>1, <2>3, MoveOutside DEF At
  <2> QED
    BY <1>2, <2>2, <2>4, Kept
<1> QED
  BY <1>3, <1>4

LEMMA DummyHashedInv ==
  ASSUME AInv, LInv', NEW outcome \in {"ready", "failed"}, DummyHashed(outcome) PROVE AInv'
<1>1. /\ req' = req /\ phase' = phase /\ users' = users /\ tokens' = tokens
      /\ revoked' = revoked /\ dummyHash' \in {"unset", "pending", "ready", "failed"}
  BY DEF DummyHashed, limiter
<1>2. LimiterServesHandlers' /\ HandlersOK'
  BY <1>1 DEF AInv, LimiterServesHandlers, HandlersOK, At, Reached
<1> QED
  BY <1>1, <1>2, Kept DEF AInv, TypeOK

LEMMA AfterDummyHashInv ==
  ASSUME AInv, LInv', NEW r \in Requests, AfterDummyHash(r) PROVE AInv'
<1>1. /\ At(r, "dummy") /\ req[r] \in Handlers
      /\ (req[r].known => Reached(req[r].user, req[r].version))
  BY HandlerTyped DEF AfterDummyHash, At
<1>2. UNCHANGED <<users, tokens, dummyHash, revoked>>
  BY DEF AfterDummyHash
<1>3. /\ req' \in [Requests -> Handlers \cup {NoReq}]
      /\ LimiterServesHandlers' /\ HandlersOK'
  <2>1. CASE RunPasswordTask(r, req[r])
    BY <1>1, <1>2, <2>1, LetIn
  <2>2. CASE Answer(r) /\ UNCHANGED limiter
    BY <1>1, <1>2, <2>2, MoveOutside DEF Answer, At
  <2> QED
    BY <2>1, <2>2 DEF AfterDummyHash
<1> QED
  BY <1>2, <1>3, Kept DEF AInv, TypeOK

\* A release or a timeout takes r, and nobody else, out of the limiter.
LEMMA OnlyOneLeaves ==
  ASSUME LInv, NEW r \in Requests, Release(r) \/ TimeOut(r)
  PROVE  /\ phase'[r] = "out"
         /\ \A s \in Requests : s # r => (phase'[s] # "out" <=> phase[s] # "out")
<1> USE DEF Requests
<1>1. phase \in [Tasks -> {"out", "waiting", "running"}]
  BY DEF LInv, LimiterTypeOK
<1>2. CASE TimeOut(r)
  BY <1>1, <1>2 DEF TimeOut, Quit
<1>3. CASE phase[r] = "running" /\ FreeSlot(r)
  BY <1>1, <1>3 DEF FreeSlot, Quit
<1>4. CASE phase[r] = "running" /\ PassSlot(r)
  <2> DEFINE w == Head(queue)
  <2>1. w \in Tasks /\ phase[w] = "waiting" /\ w # r
    BY <1>4, FirstWaits DEF LInv, SlotsAccounted, PassSlot, Waiting
  <2>2. phase' = [phase EXCEPT ![r] = "out", ![w] = "running"]
    BY <1>4 DEF PassSlot, InOrder
  <2> HIDE DEF w
  <2> QED
    BY <1>1, <2>1, <2>2
<1> QED
  BY <1>2, <1>3, <1>4 DEF Release

LEMMA PasswordDoneInv ==
  ASSUME AInv, LInv', NEW r \in Requests, PasswordDone(r) PROVE AInv'
<1> DEFINE g == [req[r] EXCEPT !.step = "insert"]
           u == req[r].user
           v == req[r].version
<1>1. /\ At(r, "password") /\ req[r] \in Handlers /\ u \in Users /\ v \in Versions
      /\ (req[r].known => Reached(u, v))
  BY HandlerTyped DEF PasswordDone, At
<1>2. users' = users /\ dummyHash' = dummyHash /\ revoked' = revoked
  BY DEF PasswordDone
<1>3. /\ phase'[r] = "out"
      /\ \A s \in Requests : s # r => (phase'[s] # "out" <=> phase[s] # "out")
  BY OnlyOneLeaves DEF AInv, PasswordDone
<1>4. /\ req' \in [Requests -> Handlers \cup {NoReq}]
      /\ LimiterServesHandlers' /\ HandlersOK'
  <2>1. CASE Answer(r)
    <3>1. req' = [req EXCEPT ![r] = NoReq]
      BY <2>1 DEF Answer
    <3> QED
      BY <1>2, <1>3, <3>1, MoveOf
  <2>2. CASE Goto(r, "insert")
    <3>1. req' = [req EXCEPT ![r] = g]
      BY <2>2 DEF Goto
    <3>2. /\ g \in Handlers /\ g.step = "insert" /\ g.known = req[r].known
          /\ g.user = u /\ g.version = v
      BY <1>1 DEF Handlers, Steps
    <3> HIDE DEF g
    <3> QED
      BY <1>1, <1>2, <1>3, <3>1, <3>2, MoveOf
  <2> QED
    BY <2>1, <2>2 DEF PasswordDone
<1>5. \/ tokens' = tokens
      \/ Reached(u, v) /\ CreateSession(u, v)
  BY <1>1 DEF PasswordDone
<1> HIDE DEF u, v
<1> QED
  BY <1>1, <1>2, <1>4, <1>5, Kept DEF AInv, TypeOK

LEMMA PasswordTimeOutInv ==
  ASSUME AInv, LInv', NEW r \in Requests, PasswordTimeOut(r) PROVE AInv'
<1>1. /\ req' = [req EXCEPT ![r] = NoReq]
      /\ UNCHANGED <<users, tokens, dummyHash, revoked>>
  BY DEF PasswordTimeOut, Answer
<1>2. /\ phase'[r] = "out"
      /\ \A s \in Requests : s # r => (phase'[s] # "out" <=> phase[s] # "out")
  BY OnlyOneLeaves DEF AInv, PasswordTimeOut
<1>3. /\ req' \in [Requests -> Handlers \cup {NoReq}]
      /\ LimiterServesHandlers' /\ HandlersOK'
  BY <1>1, <1>2, MoveOf
<1> QED
  BY <1>1, <1>3, Kept DEF AInv, TypeOK

LEMMA VerifiedInv ==
  ASSUME AInv, LInv', NEW r \in Requests, Verified(r) PROVE AInv'
<1> DEFINE g == [req[r] EXCEPT !.step = "increment"]
<1>1. /\ At(r, "verify") /\ req[r] \in Handlers /\ req[r].version \in Versions
      /\ (req[r].known => Reached(req[r].user, req[r].version))
  BY HandlerTyped DEF Verified, At
<1>2. UNCHANGED <<limiter, users, tokens, dummyHash, revoked>>
  BY DEF Verified
<1>3. /\ req' \in [Requests -> Handlers \cup {NoReq}]
      /\ LimiterServesHandlers' /\ HandlersOK'
  <2>1. CASE Answer(r)
    BY <1>1, <1>2, <2>1, MoveOutside DEF Answer, At
  <2>2. CASE users[req[r].user] = req[r].version /\ Goto(r, "increment")
    <3>1. req' = [req EXCEPT ![r] = g]
      BY <2>2 DEF Goto
    <3>2. /\ g \in Handlers /\ g.step = "increment" /\ g.known = req[r].known
          /\ g.user = req[r].user /\ g.version = req[r].version
      BY <1>1 DEF Handlers, Steps
    <3> HIDE DEF g
    <3> QED
      BY <1>1, <1>2, <2>2, <3>1, <3>2, MoveOutside DEF At
  <2> QED
    BY <2>1, <2>2 DEF Verified
<1> QED
  BY <1>2, <1>3, Kept DEF AInv, TypeOK

LEMMA StatementFailsInv ==
  ASSUME AInv, LInv', NEW r \in Requests, StatementFails(r) PROVE AInv'
<1>1. /\ req' \in [Requests -> Handlers \cup {NoReq}]
      /\ LimiterServesHandlers' /\ HandlersOK'
  BY MoveOutside DEF StatementFails, Answer, At
<1> QED
  BY <1>1, Kept DEF AInv, TypeOK, StatementFails

\* The two statements that write a row.  Neither takes a row back to an
\* older version, so that what other handlers have read is still reached.
LEMMA VersionFacts ==
  0 \in Versions /\ NoUser \notin Versions /\ \A v \in Versions : v \in Nat
  BY AuthAssumption DEF Versions

LEMMA RowsGrow ==
  ASSUME AInv, NEW r \in Requests, req' = [req EXCEPT ![r] = NoReq],
         \A a \in Users : users[a] \in Versions =>
           users'[a] \in Versions /\ users[a] <= users'[a]
  PROVE  req' \in [Requests -> Handlers \cup {NoReq}] /\ HandlersOK'
<1>1. req \in [Requests -> Handlers \cup {NoReq}]
  BY DEF AInv, TypeOK
<1>2. \A s \in Requests : req'[s] = IF s = r THEN NoReq ELSE req[s]
  BY <1>1
<1>3. ASSUME NEW s \in Requests, req[s] # NoReq
      PROVE  /\ req[s].known => /\ users'[req[s].user] \in Versions
                                /\ req[s].version <= users'[req[s].user]
             /\ req[s].step = "increment" => users'[req[s].user] \in Versions
  <2>1. /\ req[s].user \in Users /\ req[s].version \in Versions
        /\ req[s].known => Reached(req[s].user, req[s].version)
        /\ req[s].step = "increment" => users[req[s].user] \in Versions
    BY <1>3, HandlerTyped
  <2>2. CASE req[s].known
    <3>1. /\ users[req[s].user] \in Versions /\ users'[req[s].user] \in Versions
          /\ req[s].version <= users[req[s].user]
          /\ users[req[s].user] <= users'[req[s].user]
      BY <2>1, <2>2 DEF Reached
    <3>2. /\ req[s].version \in Nat /\ users[req[s].user] \in Nat
          /\ users'[req[s].user] \in Nat
      BY <2>1, <3>1, VersionFacts
    <3> QED
      BY <3>1, <3>2
  <2> QED
    BY <2>1, <2>2
<1>4. HandlersOK'
  BY <1>2, <1>3 DEF HandlersOK, Reached
<1> QED
  BY <1>1, <1>4

LEMMA InsertedInv ==
  ASSUME AInv, LInv', NEW r \in Requests, Inserted(r) PROVE AInv'
<1> DEFINE u == req[r].user
<1>1. At(r, "insert") /\ req[r] # NoReq /\ u \in Users
  BY HandlerTyped DEF Inserted, At
<1>2. req' = [req EXCEPT ![r] = NoReq] /\ UNCHANGED <<limiter, dummyHash, revoked>>
  BY DEF Inserted, Answer
<1>3. CASE HasRow(u)
  <2>1. users' = users /\ tokens' = tokens
    BY <1>3 DEF Inserted
  <2>2. /\ req' \in [Requests -> Handlers \cup {NoReq}]
        /\ LimiterServesHandlers' /\ HandlersOK'
    BY <1>1, <1>2, <2>1, MoveOutside DEF At
  <2> QED
    BY <1>2, <2>1, <2>2, Kept DEF AInv, TypeOK
<1>4. CASE ~HasRow(u)
  <2>1. /\ users' = [users EXCEPT ![u] = 0]
        /\ tokens' = tokens \cup {[user |-> u, version |-> 0]}
        /\ users[u] = NoUser
    BY <1>4 DEF Inserted, CreateSession, HasRow
  <2>2. /\ users \in [Users -> Versions \cup {NoUser}] /\ 0 \in Versions
        /\ NoUser \notin Versions /\ users' \in [Users -> Versions \cup {NoUser}]
    BY <2>1, VersionFacts DEF AInv, TypeOK
  <2>3. \A a \in Users : users'[a] = IF a = u THEN 0 ELSE users[a]
    BY <2>1, <2>2
  <2>4. TokensOK' /\ tokens' \subseteq Tokens /\ revoked' \subseteq Tokens
    BY <1>1, <1>2, <2>1, <2>2, <2>3 DEF AInv, TypeOK, TokensOK, Reached, Tokens, Versions
  <2>5. req' \in [Requests -> Handlers \cup {NoReq}] /\ LimiterServesHandlers'
    BY <1>1, <1>2 DEF AInv, TypeOK, LimiterServesHandlers, At, limiter
  <2>6. HandlersOK'
    <3>1. ASSUME NEW a \in Users, users[a] \in Versions
          PROVE  users'[a] \in Versions /\ users[a] <= users'[a]
      <4>1. users[a] \in Nat /\ users'[a] = users[a]
        BY <2>1, <2>2, <2>3, <3>1, VersionFacts
      <4> QED
        BY <3>1, <4>1
    <3> QED
      BY <1>2, <3>1, RowsGrow
  <2> QED
    BY <1>2, <2>2, <2>4, <2>5, <2>6 DEF AInv, TypeOK, LInv
<1> QED
  BY <1>3, <1>4

LEMMA IncrementInv ==
  ASSUME AInv, LInv', NEW r \in Requests, IncrementTokenVersion(r) PROVE AInv'
<1> DEFINE u == req[r].user
<1>1. At(r, "increment") /\ req[r] # NoReq /\ u \in Users /\ users[u] \in Versions
  BY HandlerTyped DEF IncrementTokenVersion, At
<1>2. /\ req' = [req EXCEPT ![r] = NoReq] /\ UNCHANGED <<limiter, tokens, dummyHash>>
      /\ users' = [users EXCEPT ![u] = users[u] + 1] /\ users[u] + 1 <= MaxVersion
      /\ revoked' = revoked \cup {tok \in tokens : tok.user = u}
  BY DEF IncrementTokenVersion, Answer, Incremented
<1>3. /\ users \in [Users -> Versions \cup {NoUser}]
      /\ users[u] \in Nat /\ users[u] + 1 \in Versions
      /\ users' \in [Users -> Versions \cup {NoUser}]
  BY <1>1, <1>2, AuthAssumption DEF AInv, TypeOK, Versions
<1>4. \A a \in Users : users'[a] = IF a = u THEN users[u] + 1 ELSE users[a]
  BY <1>2, <1>3
<1>5. TokensOK' /\ tokens' \subseteq Tokens /\ revoked' \subseteq Tokens
  BY <1>1, <1>2, <1>3, <1>4 DEF AInv, TypeOK, TokensOK, Reached, Tokens, Versions
<1>6. req' \in [Requests -> Handlers \cup {NoReq}] /\ LimiterServesHandlers'
  BY <1>1, <1>2 DEF AInv, TypeOK, LimiterServesHandlers, At, limiter
<1>7. HandlersOK'
  <2>1. ASSUME NEW a \in Users, users[a] \in Versions
        PROVE  users'[a] \in Versions /\ users[a] <= users'[a]
    <3>1. users[a] \in Nat
      BY <2>1, VersionFacts
    <3> QED
      BY <1>3, <1>4, <2>1, <3>1
  <2> QED
    BY <1>2, <2>1, RowsGrow
<1> QED
  BY <1>2, <1>3, <1>5, <1>6, <1>7 DEF AInv, TypeOK, LInv

---------------------------------------------------------------------------
LEMMA AInvInit == Init => AInv
<1> SUFFICES ASSUME Init PROVE AInv
  OBVIOUS
<1>1. LInv
  BY LimiterInitInv DEF Init
<1>2. TypeOK
  BY <1>1 DEF Init, TypeOK, LInv
<1> QED
  BY <1>1, <1>2
     DEF Init, AInv, LimiterInit, LimiterServesHandlers, At, HandlersOK, TokensOK, Requests

LEMMA AInvStep == AInv /\ [Next]_vars => AInv'
<1> SUFFICES ASSUME AInv, [Next]_vars PROVE AInv'
  OBVIOUS
<1>1. LInv'
  BY LimiterKept DEF AInv
<1>2. CASE UNCHANGED vars
  BY <1>1, <1>2 DEF AInv, TypeOK, LInv, LimiterServesHandlers, HandlersOK, TokensOK,
                    Reached, At, vars, limiter
<1>3. ASSUME NEW r \in Requests, NEW u \in Users, Register(r, u) \/ Login(r, u)
      PROVE  AInv'
  BY <1>1, <1>3, RegisterInv, LoginInv
<1>4. ASSUME NEW r \in Requests, NEW tok \in tokens, Logout(r, tok) PROVE AInv'
  BY <1>1, <1>4, LogoutInv
<1>5. ASSUME NEW r \in Requests, AfterDummyHash(r) \/ PasswordDone(r) \/ PasswordTimeOut(r)
      PROVE  AInv'
  BY <1>1, <1>5, AfterDummyHashInv, PasswordDoneInv, PasswordTimeOutInv
<1>6. ASSUME NEW r \in Requests, Statement(r) PROVE AInv'
  BY <1>1, <1>6, LookedUpInv, InsertedInv, VerifiedInv, IncrementInv, StatementFailsInv
     DEF Statement
<1>7. ASSUME NEW outcome \in {"ready", "failed"}, DummyHashed(outcome) PROVE AInv'
  BY <1>1, <1>7, DummyHashedInv
<1> QED
  BY <1>2, <1>3, <1>4, <1>5, <1>6, <1>7 DEF Next

\* Each variable keeps its type.
THEOREM AuthTypeCorrect == Spec => []TypeOK
<1>1. AInv => TypeOK
  BY DEF AInv
<1> QED
  BY <1>1, AInvInit, AInvStep, PTL DEF Spec

\* A logout invalidates every token its user had been given when it took
\* effect, and no login, registration or other logout revives one.
THEOREM LogoutIsFinal == Spec => []LogoutRevokes
<1>1. AInv => LogoutRevokes
  BY AuthAssumption DEF AInv, TypeOK, TokensOK, LogoutRevokes, Valid, Tokens, Versions
<1> QED
  BY <1>1, AInvInit, AInvStep, PTL DEF Spec

\* An answered request is neither waiting nor running in the limiter: no
\* slot is ever passed to a request that nobody waits for.
THEOREM LimiterHoldsNoDead == Spec => []LimiterServesHandlers
<1>1. AInv => LimiterServesHandlers
  BY DEF AInv
<1> QED
  BY <1>1, AInvInit, AInvStep, PTL DEF Spec

\* The property of the run: types, slots accounted for, and held by handlers.
THEOREM SlotsServe == Spec => []SlotsServeHandlers
BY AuthTypeCorrect, SlotsNeverLost, LimiterHoldsNoDead, PTL DEF SlotsServeHandlers

---------------------------------------------------------------------------
(* Appearance: one look, from the stored row to the watcher of the room.    *)

\* The values of the variables, in the invariant's words.
Connections ==
  [state : {"free", "upgrading", "open", "closed"}, look : Looks \cup {None},
   room : Rooms \cup {None}, fresh : BOOLEAN]
Histories ==
  [writer : Puts \cup Saves \cup {None}, stored : SUBSET Looks,
   astray : BOOLEAN, silent : BOOLEAN, crowded : Nat]

LookTypes ==
  /\ row \in Looks \cup Retired
  /\ page \in [look : Looks, editor : BOOLEAN, started : BOOLEAN, joined : BOOLEAN,
               link : Conns \cup {None}]
  /\ puts \in [Puts -> Slot] /\ saves \in [Saves -> Slot]
  /\ conn \in [Conns -> Connections]
  /\ wire \in [Conns -> Seq(Looks)]
  /\ avatar \in AvatarStates \cup {None}
  /\ seen \in Looks \cup {None}
  /\ hist \in Histories

Connected(c) == conn[c].state \in {"upgrading", "open"}

\* A request in flight has a look, and an update the socket it came in on.
InFlight ==
  /\ \A p \in Puts : puts[p].step # "free" => puts[p].look \in Looks
  /\ \A s \in Saves : saves[s].step # "free" => (saves[s].look \in Looks /\ saves[s].conn \in Conns)

\* The look of a connection, of an answered statement and of the row was saved.
Stored ==
  /\ Sanitize(row) \in hist.stored
  /\ \A c \in Conns : Connected(c) =>
       (conn[c].look \in hist.stored /\ (conn[c].fresh => conn[c].look = Sanitize(row)))
  /\ \A s \in Saves : saves[s].step = "stored" =>
       (saves[s].look \in hist.stored /\ (hist.writer = s => row = saves[s].look))
  /\ avatar # None => avatar.look \in hist.stored
  /\ seen \in hist.stored \cup {None}

DriverIsThere ==
  avatar # None => (conn[avatar.driver].state = "open" /\ conn[avatar.driver].room = avatar.room)

\* Something is on its way that will set the look, or be seen to have failed.
UnderWay ==
  \/ \E p \in Puts : puts[p].step = "stored"
  \/ \E c \in Conns : wire[c] # <<>>
  \/ \E s \in Saves : saves[s].step # "free"

Follows == (avatar # None /\ ~hist.astray) => (avatar.look = Sanitize(row) \/ UnderWay)

Watched ==
  /\ seen # None <=> (avatar # None /\ avatar.room = Here)
  /\ WatcherSees

\* Sockets that are open or will be.
Crowd == Cardinality(Open \cup Upgrading) <= MaxSockets + hist.crowded

LooksInvariant ==
  LookTypes /\ InFlight /\ Stored /\ DriverIsThere /\ Follows /\ Watched /\ Crowd

\* Nobody connects: no more sockets than before.
LEMMA CrowdStays ==
  ASSUME Crowd, \A c \in Conns : conn'[c].state = conn[c].state, hist'.crowded = hist.crowded
  PROVE  Crowd'
<1>1. Open' = Open /\ Upgrading' = Upgrading BY DEF Open, Upgrading
<1>. QED BY <1>1 DEF Crowd

\* What a statement changes.
LEMMA WriteIs ==
  ASSUME LookTypes, NEW look \in Looks, NEW writer \in Puts \cup Saves, Write(look, writer)
  PROVE  /\ row' = look
         /\ conn' \in [Conns -> Connections]
         /\ \A c \in Conns : /\ conn'[c].state = conn[c].state /\ conn'[c].look = conn[c].look
                              /\ conn'[c].room = conn[c].room /\ conn'[c].fresh = FALSE
         /\ hist' \in Histories /\ hist'.writer = writer /\ hist'.stored = hist.stored \cup {look}
         /\ hist'.astray = hist.astray /\ hist'.silent = hist.silent /\ hist'.crowded = hist.crowded
<1>1. \A c \in Conns : LET k == [conn[c] EXCEPT !.fresh = FALSE] IN
        /\ k \in Connections /\ k.state = conn[c].state /\ k.look = conn[c].look
        /\ k.room = conn[c].room /\ k.fresh = FALSE
  BY DEF LookTypes, Connections
<1>2. \A c \in Conns : conn'[c] = [conn[c] EXCEPT !.fresh = FALSE] BY DEF Write
<1>3. conn' \in [Conns -> Connections] BY <1>1 DEF Write
<1>. QED BY <1>1, <1>2, <1>3 DEF Write, LookTypes, Histories

\* What changing one field of a slot changes.
LEMMA SlotIs ==
  ASSUME NEW slot \in Slot
  PROVE  LET k == [slot EXCEPT !.step = "stored"] IN
           k \in Slot /\ k.step = "stored" /\ k.conn = slot.conn /\ k.look = slot.look
  BY DEF Slot

\* What a join changes of the connections.
LEMMA JoinIs ==
  ASSUME LookTypes, NEW c \in Conns, NEW r \in Rooms, JoinRoom(c, r)
  PROVE  /\ conn' \in [Conns -> Connections]
         /\ conn'[c].room = r
         /\ \A d \in Conns : /\ conn'[d].state = conn[d].state /\ conn'[d].look = conn[d].look
                              /\ conn'[d].fresh = conn[d].fresh
<1>1. ASSUME NEW d \in Conns, NEW x \in Rooms \cup {None}
      PROVE  LET k == [conn[d] EXCEPT !.room = x] IN
               /\ k \in Connections /\ k.state = conn[d].state /\ k.look = conn[d].look
               /\ k.fresh = conn[d].fresh /\ k.room = x
  BY DEF LookTypes, Connections
<1>2. CASE avatar # None /\ avatar.room = r
  <2>1. conn' = [conn EXCEPT ![c] = [conn[c] EXCEPT !.room = r]] BY <1>2 DEF JoinRoom, LookTypes
  <2>2. [conn[c] EXCEPT !.room = r] \in Connections BY <1>1
  <2>3. \A d \in Conns : conn'[d] = IF d = c THEN [conn[c] EXCEPT !.room = r] ELSE conn[d]
    BY <2>1 DEF LookTypes
  <2>4. conn' \in [Conns -> Connections] BY <2>1, <2>2 DEF LookTypes
  <2> DEFINE k == [conn[c] EXCEPT !.room = r]
  <2>5. k.state = conn[c].state /\ k.look = conn[c].look /\ k.fresh = conn[c].fresh /\ k.room = r
    BY <1>1
  <2>6. \A d \in Conns : conn'[d] = IF d = c THEN k ELSE conn[d] BY <2>3
  <2> HIDE DEF k
  <2>. QED BY <2>4, <2>5, <2>6
<1>3. CASE ~(avatar # None /\ avatar.room = r)
  <2> DEFINE f(d) == IF d = c THEN [conn[d] EXCEPT !.room = r]
                     ELSE IF avatar # None /\ conn[d].room = avatar.room
                     THEN [conn[d] EXCEPT !.room = None] ELSE conn[d]
  <2>1. conn' = [d \in Conns |-> f(d)] BY <1>3 DEF JoinRoom
  <2>2. ASSUME NEW d \in Conns
        PROVE  /\ f(d) \in Connections /\ f(d).state = conn[d].state /\ f(d).look = conn[d].look
               /\ f(d).fresh = conn[d].fresh /\ (d = c => f(d).room = r)
    <3>1. conn[d] \in Connections BY DEF LookTypes
    <3>. QED BY <1>1, <3>1
  <2> HIDE DEF f
  <2>3. \A d \in Conns : conn'[d] = f(d) BY <2>1
  <2>4. conn' \in [Conns -> Connections] BY <2>1, <2>2
  <2>. QED BY <2>2, <2>3, <2>4
<1>. QED BY <1>2, <1>3

\* joinRoom, by the socket that takes the avatar over or by one that brings it.
LEMMA JoinsRoom == ASSUME LooksInvariant, NEW c \in Conns, NEW r \in Rooms, JoinRoom(c, r) PROVE LooksInvariant'
<1> USE AppearanceAssumption DEF LooksInvariant
<1>0. /\ conn' \in [Conns -> Connections] /\ conn'[c].room = r
      /\ \A d \in Conns : /\ conn'[d].state = conn[d].state /\ conn'[d].look = conn[d].look
                           /\ conn'[d].fresh = conn[d].fresh
  BY JoinIs
<1>a. /\ conn[c].state = "open" /\ conn[c].look \in hist.stored /\ conn[c].look \in Looks
      /\ conn[c].fresh => conn[c].look = Sanitize(row)
      /\ conn[c].fresh \in BOOLEAN /\ hist.stored \subseteq Looks
  BY DEF JoinRoom, Open, Stored, Connected, LookTypes, Histories, Connections
<1>b. UNCHANGED <<row, page, puts, wire, saves, edits>> BY DEF JoinRoom
<1>c. /\ avatar' \in AvatarStates /\ avatar'.room = r /\ avatar'.driver = c /\ avatar'.look = conn[c].look
      /\ avatar' # None
  <2>1. CASE avatar # None /\ avatar.room = r
    <3>1. avatar' = [avatar EXCEPT !.driver = c, !.look = conn[c].look]
      BY <2>1 DEF JoinRoom, ReattachedLook
    <3>2. avatar \in AvatarStates BY <2>1 DEF LookTypes
    <3>3. avatar' = [room |-> r, driver |-> c, look |-> conn[c].look]
      BY <2>1, <3>1, <3>2 DEF AvatarStates
    <3>. QED BY <1>a, <2>1, <3>3 DEF AvatarStates, JoinRoom, LookTypes
  <2>2. CASE ~(avatar # None /\ avatar.room = r)
    <3>1. avatar' = [room |-> r, driver |-> c, look |-> conn[c].look] BY <2>2 DEF JoinRoom
    <3>. QED BY <1>a, <3>1 DEF AvatarStates
  <2>. QED BY <2>1, <2>2
<1>d. /\ hist' \in Histories /\ hist'.writer = hist.writer /\ hist'.stored = hist.stored
      /\ hist'.crowded = hist.crowded /\ hist'.astray = ~conn[c].fresh
      /\ (avatar # None /\ avatar.room = r /\ ~hist'.silent) =>
           (~hist.silent /\ avatar.look = conn[c].look)
  <2>1. PICK b \in BOOLEAN :
          /\ hist' = [hist EXCEPT !.astray = ~conn[c].fresh, !.silent = b]
          /\ (avatar # None /\ avatar.room = r) => (b <=> hist.silent \/ avatar.look # conn[c].look)
    BY DEF JoinRoom, ReattachedLook, LookTypes, Histories
  <2>. QED BY <1>a, <2>1 DEF LookTypes, Histories
<1>e. seen' = IF avatar # None /\ avatar.room = r THEN seen
              ELSE IF avatar # None /\ avatar.room = Here THEN None
              ELSE IF r = Here THEN conn[c].look ELSE seen
  BY DEF JoinRoom, Watches
<1>1. LookTypes'
  BY <1>0, <1>a, <1>b, <1>c, <1>d, <1>e DEF LookTypes
<1>2. InFlight' BY <1>b DEF InFlight
<1>3. Stored'
  <2>1. \A d \in Conns : Connected(d)' => (conn'[d].look \in hist.stored /\ (conn'[d].fresh => conn'[d].look = Sanitize(row)))
    BY <1>0 DEF Stored, Connected
  <2>2. seen' \in hist.stored \cup {None} BY <1>a, <1>e DEF Stored
  <2>3. row' = row /\ saves' = saves /\ hist'.stored = hist.stored /\ hist'.writer = hist.writer
    BY <1>b, <1>d
  <2>. QED BY <1>a, <1>c, <2>1, <2>2, <2>3 DEF Stored, Sanitize
<1>4. DriverIsThere' BY <1>0, <1>a, <1>c DEF DriverIsThere
<1>5. Follows' BY <1>a, <1>b, <1>c, <1>d DEF Follows, Sanitize
<1>6. Watched'
  <2>1. seen # None <=> (avatar # None /\ avatar.room = Here) BY DEF Watched
  <2>2. ~hist.silent => seen = IF avatar # None /\ avatar.room = Here THEN avatar.look ELSE None
    BY DEF Watched, WatcherSees
  <2>3. CASE avatar # None /\ avatar.room = r
    BY <1>c, <1>d, <1>e, <2>1, <2>2, <2>3 DEF Watched, WatcherSees
  <2>4. CASE ~(avatar # None /\ avatar.room = r)
    <3>1. seen' = IF r = Here THEN conn[c].look ELSE None BY <1>e, <2>1, <2>4
    <3>2. conn[c].look # None BY <1>a
    <3>. QED BY <1>c, <3>1, <3>2 DEF Watched, WatcherSees
  <2>. QED BY <2>3, <2>4
<1>7. Crowd' BY <1>0, <1>d, CrowdStays
<1>. QED BY <1>1, <1>2, <1>3, <1>4, <1>5, <1>6, <1>7

\* The answer to a save: shown if the socket still drives the avatar.
LEMMA SaveIsAnswered == ASSUME LooksInvariant, NEW s \in Saves, SaveAnswered(s) PROVE LooksInvariant'
<1> USE AppearanceAssumption DEF LooksInvariant
<1> DEFINE c == saves[s].conn
           look == saves[s].look
<1>0. saves[s].step = "stored" /\ c \in Conns /\ look \in Looks /\ look \in hist.stored
      /\ (hist.writer = s => row = look) /\ hist.stored \subseteq Looks
  BY DEF SaveAnswered, InFlight, Stored, LookTypes, Histories
<1>a. UNCHANGED <<row, page, puts, wire, edits>> BY DEF SaveAnswered
<1>b. saves' = [saves EXCEPT ![s] = Idle] BY DEF SaveAnswered
<1>c. /\ saves' \in [Saves -> Slot] /\ saves'[s].step = "free"
      /\ \A x \in Saves : x # s => saves'[x] = saves[x]
  BY <1>b DEF LookTypes, Slot, Idle
<1>d. CASE Drives(c)
  <2>1. /\ avatar # None /\ avatar \in AvatarStates /\ avatar.room = conn[c].room /\ avatar.driver = c
    BY <1>d DEF Drives, LookTypes
  <2>2. avatar' = [avatar EXCEPT !.look = look]
    BY <1>d DEF SaveAnswered, Show
  <2>3. /\ avatar' \in AvatarStates /\ avatar'.room = avatar.room /\ avatar'.driver = c /\ avatar'.look = look
        /\ avatar' # None
    <3>1. avatar' = [room |-> avatar.room, driver |-> c, look |-> look] BY <2>1, <2>2 DEF AvatarStates
    <3>2. avatar.room \in Rooms BY <2>1 DEF AvatarStates
    <3>3. avatar' \in AvatarStates BY <1>0, <3>1, <3>2 DEF AvatarStates
    <3>4. avatar' # None BY <3>3
    <3>. QED BY <3>1, <3>3, <3>4
  <2>4. seen' = IF avatar.room = Here /\ seen # None THEN look ELSE seen
    BY <1>d DEF SaveAnswered, Show, WatchesUpdate
  <2>5. /\ conn' = [conn EXCEPT ![c] = [conn[c] EXCEPT !.look = look, !.fresh = hist.writer = s]]
        /\ hist' = [hist EXCEPT !.astray = hist.writer # s, !.silent = FALSE]
    BY <1>0, <1>d DEF SaveAnswered, MirroredLook, LookTypes
  <2>6. /\ hist' \in Histories /\ hist'.stored = hist.stored /\ hist'.writer = hist.writer
        /\ hist'.crowded = hist.crowded /\ hist'.astray = (hist.writer # s) /\ hist'.silent = FALSE
    BY <2>5 DEF LookTypes, Histories
  <2>7. /\ conn' \in [Conns -> Connections]
        /\ \A d \in Conns : conn'[d].state = conn[d].state /\ conn'[d].room = conn[d].room
        /\ conn'[c].look = look /\ conn'[c].fresh = (hist.writer = s)
        /\ \A d \in Conns : d # c => conn'[d] = conn[d]
    <3> DEFINE k == [conn[c] EXCEPT !.look = look, !.fresh = hist.writer = s]
    <3>1. /\ k \in Connections /\ k.state = conn[c].state /\ k.room = conn[c].room
          /\ k.look = look /\ k.fresh = (hist.writer = s)
      <4>1. conn[c] \in Connections BY <1>0 DEF LookTypes
      <4> HIDE DEF c, look
      <4>2. k \in Connections BY <1>0, <4>1 DEF Connections
      <4>3. k.state = conn[c].state /\ k.room = conn[c].room BY <1>0, <4>1 DEF Connections
      <4>4. k.look = look BY <1>0, <4>1 DEF Connections
      <4>5. k.fresh = (hist.writer = s) BY <1>0, <4>1 DEF Connections
      <4>. QED BY <4>2, <4>3, <4>4, <4>5
    <3>2. conn' = [conn EXCEPT ![c] = k] BY <2>5
    <3> HIDE DEF k
    <3>. QED BY <1>0, <3>1, <3>2 DEF LookTypes
  <2> HIDE DEF c, look
  <2>8. LookTypes' BY <1>0, <1>a, <1>c, <2>3, <2>4, <2>6, <2>7 DEF LookTypes
  <2>9. InFlight' BY <1>a, <1>c DEF InFlight
  <2>10. Stored'
    <3>1. row' = row BY <1>a
    <3>2. ASSUME NEW d \in Conns, Connected(d)'
          PROVE  conn'[d].look \in hist.stored /\ (conn'[d].fresh => conn'[d].look = Sanitize(row))
      <4>1. CASE d = c BY <1>0, <2>7, <4>1 DEF Sanitize
      <4>2. CASE d # c BY <2>7, <3>2, <4>2 DEF Stored, Connected
      <4>. QED BY <4>1, <4>2
    <3>3. seen' \in hist.stored \cup {None} BY <1>0, <2>4 DEF Stored
    <3>4. \A x \in Saves : saves'[x].step = "stored" => (saves'[x].look \in hist.stored /\ (hist.writer = x => row = saves'[x].look))
      BY <1>c DEF Stored
    <3>. QED BY <1>0, <2>3, <2>6, <3>1, <3>2, <3>3, <3>4 DEF Stored, Sanitize
  <2>11. DriverIsThere' BY <1>0, <2>1, <2>3, <2>7 DEF DriverIsThere
  <2>12. Follows'
    <3>1. ~hist'.astray => (avatar'.look = row /\ row' = row /\ row \in Looks) BY <1>0, <1>a, <2>3, <2>6
    <3>. QED BY <3>1 DEF Follows, Sanitize
  <2>13. Watched'
    <3>1. seen # None <=> avatar.room = Here BY <2>1 DEF Watched
    <3>2. look # None BY <1>0
    <3>. QED BY <2>3, <2>4, <3>1, <3>2 DEF Watched, WatcherSees
  <2>14. Crowd' BY <2>6, <2>7, CrowdStays
  <2>. QED BY <2>8, <2>9, <2>10, <2>11, <2>12, <2>13, <2>14
<1>e. CASE ~Drives(c)
  <2>1. /\ hist' = [hist EXCEPT !.astray = TRUE] /\ UNCHANGED <<conn, avatar, seen>>
    BY <1>e DEF SaveAnswered
  <2>2. /\ hist' \in Histories /\ hist'.stored = hist.stored /\ hist'.writer = hist.writer
        /\ hist'.crowded = hist.crowded /\ hist'.astray = TRUE /\ hist'.silent = hist.silent
    BY <2>1 DEF LookTypes, Histories
  <2> HIDE DEF c, look
  <2>3. LookTypes' BY <1>a, <1>c, <2>1, <2>2 DEF LookTypes
  <2>4. InFlight' BY <1>a, <1>c DEF InFlight
  <2>5. Stored'
    <3>1. \A x \in Saves : saves'[x].step = "stored" => (saves'[x].look \in hist.stored /\ (hist.writer = x => row = saves'[x].look))
      BY <1>c DEF Stored
    <3>. QED BY <1>a, <2>1, <2>2, <3>1 DEF Stored, Sanitize, Connected
  <2>6. DriverIsThere' /\ Follows' BY <2>1, <2>2 DEF DriverIsThere, Follows
  <2>7. Watched' BY <2>1, <2>2 DEF Watched, WatcherSees
  <2>8. Crowd' BY <2>1, <2>2, CrowdStays
  <2>. QED BY <2>3, <2>4, <2>5, <2>6, <2>7, <2>8
<1>. QED BY <1>d, <1>e

\* A step that touches neither the row nor the room, and loses sight of nothing
\* that is on its way, keeps the invariant.
LEMMA OutsideTheRoom ==
  ASSUME LooksInvariant, UNCHANGED <<row, conn, avatar, seen>>,
         page' \in [look : Looks, editor : BOOLEAN, started : BOOLEAN, joined : BOOLEAN,
                    link : Conns \cup {None}],
         puts' \in [Puts -> Slot], saves' \in [Saves -> Slot], wire' \in [Conns -> Seq(Looks)],
         InFlight',
         \A s \in Saves : saves'[s].step = "stored" => saves'[s] = saves[s],
         \E b \in BOOLEAN :
           /\ hist' = [hist EXCEPT !.astray = hist.astray \/ b]
           /\ b \/ (UnderWay => UnderWay')
  PROVE  LooksInvariant'
<1> USE DEF LooksInvariant
<1>1. PICK b \in BOOLEAN : /\ hist' = [hist EXCEPT !.astray = hist.astray \/ b]
                           /\ b \/ (UnderWay => UnderWay')
  OBVIOUS
<1>2. hist \in Histories BY DEF LookTypes
<1>3. hist.astray \/ b \in BOOLEAN BY <1>2 DEF Histories
<1>4. /\ hist' \in Histories /\ hist'.writer = hist.writer /\ hist'.stored = hist.stored
      /\ hist'.silent = hist.silent /\ hist'.crowded = hist.crowded
  BY <1>1, <1>2, <1>3 DEF Histories
<1>5. hist'.astray <=> (hist.astray \/ b) BY <1>1, <1>2 DEF Histories
<1>6. LookTypes' BY <1>4 DEF LookTypes
<1>7. Stored' /\ DriverIsThere' BY <1>4 DEF Stored, DriverIsThere, Connected, Sanitize
<1>8. Follows' BY <1>1, <1>5 DEF Follows, Sanitize
<1>9. Watched' BY <1>4 DEF Watched, WatcherSees
<1>10. Crowd' BY <1>4, CrowdStays
<1>. QED BY <1>6, <1>7, <1>8, <1>9, <1>10

\* What OutsideTheRoom asks of hist when a step leaves it.
LEMMA HistoryIsLeft ==
  ASSUME LooksInvariant, UNCHANGED hist, UnderWay => UnderWay'
  PROVE  \E b \in BOOLEAN : /\ hist' = [hist EXCEPT !.astray = hist.astray \/ b]
                            /\ b \/ (UnderWay => UnderWay')
<1>1. hist \in Histories BY DEF LooksInvariant, LookTypes
<1>2. hist = [hist EXCEPT !.astray = hist.astray \/ FALSE]
  <2>1. (hist.astray \/ FALSE) = hist.astray BY <1>1 DEF Histories
  <2>. QED BY <1>1, <2>1 DEF Histories
<1>. QED BY <1>2

\* The page's own steps.
LEMMA PageMoves ==
  ASSUME LooksInvariant, OpenEditor \/ CancelEditor \/ SnapshotArrives \/ PageLoses
  PROVE  LooksInvariant'
<1> USE DEF OpenEditor, CancelEditor, SnapshotArrives, PageLoses
<1>1. UNCHANGED <<row, puts, conn, wire, saves, avatar, seen, hist>> OBVIOUS
<1>2. page' \in [look : Looks, editor : BOOLEAN, started : BOOLEAN, joined : BOOLEAN,
                 link : Conns \cup {None}]
  BY DEF LooksInvariant, LookTypes
<1>3. InFlight' /\ (UnderWay => UnderWay')
  BY <1>1 DEF LooksInvariant, InFlight, UnderWay
<1>4. /\ puts' \in [Puts -> Slot] /\ saves' \in [Saves -> Slot]
      /\ wire' \in [Conns -> Seq(Looks)]
  BY <1>1 DEF LooksInvariant, LookTypes
<1>. QED BY <1>1, <1>2, <1>3, <1>4, HistoryIsLeft, OutsideTheRoom

\* A look is submitted: a request is in flight that was not.
LEMMA Submits ==
  ASSUME LooksInvariant, NEW p \in Puts, NEW look \in Looks, SubmitEditor(p, look)
  PROVE  LooksInvariant'
<1> DEFINE slot == [step |-> "asked", conn |-> None, look |-> look]
<1> USE DEF SubmitEditor
<1>1. UNCHANGED <<row, page, conn, wire, saves, avatar, seen, hist>> OBVIOUS
<1>2. puts' = [puts EXCEPT ![p] = slot] /\ slot \in Slot BY DEF Slot
<1>3. puts \in [Puts -> Slot] /\ puts[p].step = "free"
  BY DEF LooksInvariant, LookTypes, Free
<1>4. puts' \in [Puts -> Slot] BY <1>2, <1>3
<1>5. InFlight' /\ (UnderWay => UnderWay')
  BY <1>1, <1>2, <1>3 DEF LooksInvariant, InFlight, UnderWay
<1>. QED BY <1>1, <1>4, <1>5, HistoryIsLeft, OutsideTheRoom DEF LooksInvariant, LookTypes

\* A request fails: astray, if its statement had been done.
LEMMA PutIsLost == ASSUME LooksInvariant, NEW p \in Puts, PutFails(p) PROVE LooksInvariant'
<1> USE DEF PutFails
<1>1. UNCHANGED <<row, page, conn, wire, saves, avatar, seen>> OBVIOUS
<1>2. puts \in [Puts -> Slot] /\ Idle \in Slot
  BY DEF LooksInvariant, LookTypes, Idle, Slot
<1>3. puts' = [puts EXCEPT ![p] = Idle] /\ puts' \in [Puts -> Slot] BY <1>2
<1>4. InFlight' BY <1>1, <1>2, <1>3 DEF LooksInvariant, InFlight, Idle
<1>5. puts[p].step = "stored" \/ (UnderWay => UnderWay')
  BY <1>1, <1>2, <1>3 DEF UnderWay
<1>6. hist' = [hist EXCEPT !.astray = hist.astray \/ puts[p].step = "stored"] OBVIOUS
<1>. QED BY <1>1, <1>3, <1>4, <1>5, <1>6, OutsideTheRoom DEF LooksInvariant, LookTypes

\* A client sends a look: something is on its way.
LEMMA SendsLook ==
  ASSUME LooksInvariant, NEW c \in Conns, NEW look \in Looks, SendLook(c, look)
  PROVE  LooksInvariant'
<1> USE DEF SendLook
<1>1. UNCHANGED <<row, page, puts, conn, saves, avatar, seen, hist>> OBVIOUS
<1>2. wire \in [Conns -> Seq(Looks)] BY DEF LooksInvariant, LookTypes
<1>3. Append(wire[c], look) \in Seq(Looks) /\ Append(wire[c], look) # <<>> BY <1>2
<1>4. /\ wire' \in [Conns -> Seq(Looks)] /\ wire'[c] # <<>>
      /\ \A d \in Conns : d # c => wire'[d] = wire[d]
  BY <1>2, <1>3
<1>5. InFlight' /\ (UnderWay => UnderWay')
  BY <1>1, <1>4 DEF LooksInvariant, InFlight, UnderWay
<1>. QED BY <1>1, <1>4, <1>5, HistoryIsLeft, OutsideTheRoom DEF LooksInvariant, LookTypes

\* An update is refused: the page's request and the room have parted.
LEMMA RefusesUpdate == ASSUME LooksInvariant, NEW c \in Conns, UpdateRefused(c) PROVE LooksInvariant'
<1> USE DEF UpdateRefused
<1>1. UNCHANGED <<row, page, puts, conn, saves, avatar, seen>> OBVIOUS
<1>2. wire \in [Conns -> Seq(Looks)] /\ wire[c] # <<>> BY DEF LooksInvariant, LookTypes
<1>3. wire' \in [Conns -> Seq(Looks)] BY <1>2
<1>4. InFlight' BY <1>1 DEF LooksInvariant, InFlight
<1>5. hist' = [hist EXCEPT !.astray = hist.astray \/ TRUE]
  <2>1. (hist.astray \/ TRUE) = TRUE OBVIOUS
  <2>. QED BY <2>1
<1>. QED BY <1>1, <1>3, <1>4, <1>5, OutsideTheRoom DEF LooksInvariant, LookTypes

\* An update leaves the wire for its statement.
LEMMA ReceivesUpdate ==
  ASSUME LooksInvariant, NEW c \in Conns, NEW s \in Saves, UpdateReceived(c, s)
  PROVE  LooksInvariant'
<1> USE DEF UpdateReceived, Waits
<1>1. UNCHANGED <<row, page, puts, conn, avatar, seen, hist>> OBVIOUS
<1>2. wire \in [Conns -> Seq(Looks)] /\ wire[c] # <<>> /\ saves \in [Saves -> Slot]
  BY DEF LooksInvariant, LookTypes
<1>3. wire' \in [Conns -> Seq(Looks)] /\ Head(wire[c]) \in Looks BY <1>2
<1> DEFINE slot == [step |-> "asked", conn |-> c, look |-> Head(wire[c])]
<1>4. saves' = [saves EXCEPT ![s] = slot] OBVIOUS
<1>5. slot \in Slot /\ slot.step = "asked" /\ slot.conn = c /\ slot.look \in Looks
  BY <1>3 DEF Slot
<1> HIDE DEF slot
<1>6. /\ saves' \in [Saves -> Slot] /\ saves'[s] = slot
      /\ \A x \in Saves : x # s => saves'[x] = saves[x]
  BY <1>2, <1>4, <1>5
<1>7. InFlight' /\ UnderWay'
  BY <1>1, <1>5, <1>6 DEF LooksInvariant, InFlight, UnderWay
<1>8. \A x \in Saves : saves'[x].step = "stored" => saves'[x] = saves[x] BY <1>5, <1>6
<1>. QED BY <1>1, <1>3, <1>6, <1>7, <1>8, HistoryIsLeft, OutsideTheRoom DEF LooksInvariant, LookTypes

\* A save fails: astray.
LEMMA SaveIsLost == ASSUME LooksInvariant, NEW s \in Saves, SaveFails(s) PROVE LooksInvariant'
<1> USE DEF SaveFails
<1>1. UNCHANGED <<row, page, puts, conn, wire, avatar, seen>> OBVIOUS
<1>2. saves \in [Saves -> Slot] /\ Idle \in Slot
  BY DEF LooksInvariant, LookTypes, Idle, Slot
<1>3. /\ saves' \in [Saves -> Slot] /\ saves'[s] = Idle
      /\ \A x \in Saves : x # s => saves'[x] = saves[x]
  BY <1>2
<1>4. InFlight' BY <1>1, <1>3 DEF LooksInvariant, InFlight, Idle
<1>5. \A x \in Saves : saves'[x].step = "stored" => saves'[x] = saves[x] BY <1>3 DEF Idle
<1>6. hist' = [hist EXCEPT !.astray = hist.astray \/ TRUE]
  <2>1. (hist.astray \/ TRUE) = TRUE OBVIOUS
  <2>. QED BY <2>1
<1>. QED BY <1>1, <1>3, <1>4, <1>5, <1>6, OutsideTheRoom DEF LooksInvariant, LookTypes

\* A statement writes a look of a request in flight: the row, and what connections
\* know of it, change; the room follows, the request being under way.
LEMMA StatementIsDone ==
  ASSUME LooksInvariant, NEW look \in Looks, NEW writer \in Puts \cup Saves, Write(look, writer),
         UNCHANGED <<page, wire, avatar, seen>>,
         puts' \in [Puts -> Slot], saves' \in [Saves -> Slot], InFlight', UnderWay',
         \A s \in Saves : saves'[s].step = "stored" =>
           IF s = writer THEN saves'[s].look = look ELSE saves'[s] = saves[s]
  PROVE  LooksInvariant'
<1> USE DEF LooksInvariant
<1>1. /\ row' = look /\ Sanitize(row)' = look /\ look \in hist'.stored
      /\ hist.stored \subseteq hist'.stored /\ hist'.writer = writer /\ hist' \in Histories
      /\ hist'.silent = hist.silent /\ hist'.crowded = hist.crowded
      /\ conn' \in [Conns -> Connections]
      /\ \A c \in Conns : /\ conn'[c].state = conn[c].state /\ conn'[c].look = conn[c].look
                           /\ conn'[c].room = conn[c].room /\ conn'[c].fresh = FALSE
  BY WriteIs, AppearanceAssumption DEF Sanitize
<1>2. LookTypes' BY <1>1 DEF LookTypes
<1>3. Stored'
  <2>1. ASSUME NEW c \in Conns, Connected(c)'
        PROVE  conn'[c].look \in hist'.stored /\ conn'[c].fresh = FALSE
    BY <1>1, <2>1 DEF Stored, Connected
  <2>2. ASSUME NEW s \in Saves, saves'[s].step = "stored"
        PROVE  saves'[s].look \in hist'.stored /\ (hist'.writer = s => row' = saves'[s].look)
    BY <1>1, <2>2 DEF Stored
  <2>3. (avatar # None => avatar.look \in hist'.stored) /\ seen \in hist'.stored \cup {None}
    BY <1>1 DEF Stored
  <2>. QED BY <1>1, <2>1, <2>2, <2>3 DEF Stored
<1>4. DriverIsThere' BY <1>1 DEF DriverIsThere, LookTypes, AvatarStates
<1>5. Follows' BY DEF Follows
<1>6. Watched' BY <1>1 DEF Watched, WatcherSees
<1>7. Crowd' BY <1>1, CrowdStays
<1>. QED BY <1>2, <1>3, <1>4, <1>5, <1>6, <1>7

\* The request's statement is done.
LEMMA PutIsStored == ASSUME LooksInvariant, NEW p \in Puts, PutStored(p) PROVE LooksInvariant'
<1> USE DEF PutStored
<1>1. UNCHANGED <<page, wire, saves, avatar, seen>> /\ Write(puts[p].look, p) OBVIOUS
<1>2. puts \in [Puts -> Slot] /\ puts[p] \in Slot /\ puts[p].look \in Looks
  BY DEF LooksInvariant, LookTypes, InFlight
<1>3. puts' = [puts EXCEPT ![p] = [puts[p] EXCEPT !.step = "stored"]] OBVIOUS
<1>4. /\ puts' \in [Puts -> Slot] /\ puts'[p].step = "stored" /\ puts'[p].look = puts[p].look
      /\ \A x \in Puts : x # p => puts'[x] = puts[x]
  BY <1>2, <1>3, SlotIs
<1>5. InFlight' /\ UnderWay' BY <1>1, <1>2, <1>4 DEF LooksInvariant, InFlight, UnderWay
<1>6. \A s \in Saves : saves'[s] = saves[s] /\ s # p BY <1>1, AppearanceAssumption
<1>7. saves' \in [Saves -> Slot] BY <1>1 DEF LooksInvariant, LookTypes
<1> HIDE DEF PutStored
<1>. QED BY <1>1, <1>2, <1>4, <1>5, <1>6, <1>7, StatementIsDone

\* The update's statement is done.
LEMMA SaveIsStored == ASSUME LooksInvariant, NEW s \in Saves, SaveStored(s) PROVE LooksInvariant'
<1> USE DEF SaveStored
<1>1. UNCHANGED <<page, puts, wire, avatar, seen>> /\ Write(saves[s].look, s) OBVIOUS
<1>2. saves \in [Saves -> Slot] /\ saves[s] \in Slot /\ saves[s].look \in Looks /\ saves[s].conn \in Conns
  BY DEF LooksInvariant, LookTypes, InFlight
<1>3. saves' = [saves EXCEPT ![s] = [saves[s] EXCEPT !.step = "stored"]] OBVIOUS
<1>4. /\ saves' \in [Saves -> Slot] /\ saves'[s].step = "stored" /\ saves'[s].look = saves[s].look
      /\ saves'[s].conn = saves[s].conn /\ \A x \in Saves : x # s => saves'[x] = saves[x]
  BY <1>2, <1>3, SlotIs
<1>5. InFlight' /\ UnderWay' BY <1>1, <1>2, <1>4 DEF LooksInvariant, InFlight, UnderWay
<1>6. puts' \in [Puts -> Slot] BY <1>1 DEF LooksInvariant, LookTypes
<1>7. \A x \in Saves : saves'[x].step = "stored" =>
        IF x = s THEN saves'[x].look = saves[s].look ELSE saves'[x] = saves[x]
  BY <1>4
<1> HIDE DEF SaveStored
<1>. QED BY <1>1, <1>2, <1>4, <1>5, <1>6, <1>7, StatementIsDone

\* The page sends what was saved, or, having no socket to send it on, goes astray.
LEMMA PutIsAnswered == ASSUME LooksInvariant, NEW p \in Puts, PutAnswered(p) PROVE LooksInvariant'
<1> USE DEF PutAnswered
<1>1. UNCHANGED <<row, conn, saves, avatar, seen>> OBVIOUS
<1>2. /\ puts \in [Puts -> Slot] /\ Idle \in Slot /\ puts[p].look \in Looks
      /\ wire \in [Conns -> Seq(Looks)] /\ page.link \in Conns \cup {None}
      /\ saves \in [Saves -> Slot]
  BY DEF LooksInvariant, LookTypes, InFlight, Idle, Slot
<1>3. puts' \in [Puts -> Slot] /\ (\A x \in Puts : x # p => puts'[x] = puts[x]) /\ puts'[p] = Idle
  BY <1>2
<1>4. page' \in [look : Looks, editor : BOOLEAN, started : BOOLEAN, joined : BOOLEAN,
                 link : Conns \cup {None}]
  BY <1>2 DEF LooksInvariant, LookTypes
<1>5. InFlight' BY <1>1, <1>3 DEF LooksInvariant, InFlight, Idle
<1>6. CASE page.joined /\ page.link # None
  <2>1. UNCHANGED hist /\ wire' = [wire EXCEPT ![page.link] = Append(wire[page.link], puts[p].look)]
    BY <1>6
  <2>2. page.link \in Conns BY <1>2, <1>6
  <2>3. Append(wire[page.link], puts[p].look) \in Seq(Looks) /\ Append(wire[page.link], puts[p].look) # <<>>
    BY <1>2, <2>2
  <2>4. wire' \in [Conns -> Seq(Looks)] /\ wire'[page.link] # <<>> BY <1>2, <2>1, <2>2, <2>3
  <2>5. UnderWay' BY <2>2, <2>4 DEF UnderWay
  <2>. QED BY <1>1, <1>2, <1>3, <1>4, <1>5, <2>1, <2>4, <2>5, HistoryIsLeft, OutsideTheRoom
<1>7. CASE ~(page.joined /\ page.link # None)
  <2>1. UNCHANGED wire /\ hist' = [hist EXCEPT !.astray = TRUE] BY <1>7
  <2>2. (hist.astray \/ TRUE) = TRUE OBVIOUS
  <2>3. hist' = [hist EXCEPT !.astray = hist.astray \/ TRUE] BY <2>1, <2>2
  <2>. QED BY <1>1, <1>2, <1>3, <1>4, <1>5, <2>1, <2>3, OutsideTheRoom
<1>. QED BY <1>6, <1>7

\* An upgrade reads the row; the crowd is noted.
LEMMA Upgrades == ASSUME LooksInvariant, NEW c \in Conns, Upgrade(c) PROVE LooksInvariant'
<1> USE DEF Upgrade, LooksInvariant
<1> DEFINE k == [conn[c] EXCEPT !.state = "upgrading", !.look = Sanitize(row), !.fresh = TRUE]
<1>1. UNCHANGED <<row, puts, wire, saves, avatar, seen>> OBVIOUS
<1>2. conn' = [conn EXCEPT ![c] = k] /\ conn \in [Conns -> Connections] /\ hist \in Histories
  BY DEF LookTypes
<1>3. Sanitize(row) \in Looks BY AppearanceAssumption DEF LookTypes, Sanitize
<1>4. /\ k \in Connections /\ k.state = "upgrading" /\ k.look = Sanitize(row) /\ k.room = conn[c].room
  <2>1. conn[c] \in Connections BY <1>2
  <2>. QED BY <1>3, <2>1 DEF Connections
<1> HIDE DEF k
<1>5. /\ conn' \in [Conns -> Connections] /\ conn'[c] = k
      /\ \A d \in Conns : d # c => conn'[d] = conn[d]
  BY <1>2, <1>4
<1> DEFINE others == Cardinality(Upgrading)
<1>a. IsFiniteSet(Open) /\ IsFiniteSet(Upgrading) /\ others \in Nat /\ Cardinality(Open) \in Nat
  BY FS_Subset, FS_CardinalityType, AppearanceAssumption DEF Open, Upgrading
<1>b. hist' = [hist EXCEPT !.crowded = IF @ < others THEN others ELSE @] OBVIOUS
<1> HIDE DEF others
<1>6. PICK b \in Nat : hist' = [hist EXCEPT !.crowded = b] /\ b >= others
  BY <1>2, <1>a, <1>b DEF Histories
<1>7. /\ hist' \in Histories /\ hist'.writer = hist.writer /\ hist'.stored = hist.stored
      /\ hist'.astray = hist.astray /\ hist'.silent = hist.silent
      /\ hist'.crowded \in Nat /\ hist'.crowded >= others
  BY <1>2, <1>6 DEF Histories
<1>8. page' \in [look : Looks, editor : BOOLEAN, started : BOOLEAN, joined : BOOLEAN,
                 link : Conns \cup {None}]
  BY DEF LookTypes
<1>9. LookTypes' BY <1>1, <1>5, <1>7, <1>8 DEF LookTypes
<1>10. InFlight' /\ Follows' /\ Watched'
  BY <1>1, <1>7 DEF InFlight, Follows, UnderWay, Watched, WatcherSees, Sanitize
<1>11. Stored' BY <1>1, <1>4, <1>5, <1>7 DEF Stored, Connected, Sanitize
<1>12. DriverIsThere' BY <1>1, <1>5 DEF DriverIsThere, LookTypes, AvatarStates
<1>13. Crowd'
  <2>1. Upgrading' = Upgrading \cup {c} /\ c \notin Upgrading /\ Open' = Open /\ c \notin Open
    BY <1>4, <1>5 DEF Open, Upgrading
  <2>2. Cardinality(Open \cup Upgrading) <= Cardinality(Open) + others /\ IsFiniteSet(Open \cup Upgrading)
        /\ Cardinality(Open \cup Upgrading) \in Nat
    <3>1. /\ IsFiniteSet(Open \cup Upgrading)
          /\ Cardinality(Open \cup Upgrading) = Cardinality(Open) + others - Cardinality(Open \cap Upgrading)
      BY <1>a, FS_Union DEF others
    <3>2. Open \cap Upgrading = {} BY DEF Open, Upgrading
    <3>3. Cardinality(Open \cap Upgrading) = 0 BY <3>2, FS_EmptySet
    <3>. QED BY <1>a, <3>1, <3>3
  <2>3. Cardinality((Open \cup Upgrading)') = Cardinality(Open \cup Upgrading) + 1
    <3>1. (Open \cup Upgrading)' = (Open \cup Upgrading) \cup {c} /\ c \notin Open \cup Upgrading BY <2>1
    <3>. QED BY <2>2, <3>1, FS_AddElement
  <2>4. Cardinality(Open) < MaxSockets BY DEF BelowCap
  <2>. QED BY <1>a, <1>7, <2>2, <2>3, <2>4, AppearanceAssumption DEF Crowd
<1>. QED BY <1>9, <1>10, <1>11, <1>12, <1>13

\* The one socket that was being upgraded opens.
LEMMA SocketOpens == ASSUME LooksInvariant, NEW c \in Conns, Opens(c) PROVE LooksInvariant'
<1> USE DEF Opens, LooksInvariant
<1> DEFINE k == [conn[c] EXCEPT !.state = "open"]
<1>1. UNCHANGED <<row, page, puts, wire, saves, avatar, seen, hist>> OBVIOUS
<1>2. conn' = [conn EXCEPT ![c] = k] /\ conn \in [Conns -> Connections] BY DEF LookTypes
<1>3. /\ k \in Connections /\ k.state = "open" /\ k.look = conn[c].look
      /\ k.room = conn[c].room /\ k.fresh = conn[c].fresh
  <2>1. conn[c] \in Connections BY <1>2
  <2>. QED BY <2>1 DEF Connections
<1> HIDE DEF k
<1>4. /\ conn' \in [Conns -> Connections] /\ conn'[c] = k
      /\ \A d \in Conns : d # c => conn'[d] = conn[d]
  BY <1>2, <1>3
<1>5. LookTypes' BY <1>1, <1>4 DEF LookTypes
<1>6. InFlight' /\ Follows' /\ Watched'
  BY <1>1 DEF InFlight, Follows, UnderWay, Watched, WatcherSees, Sanitize
<1>7. Stored' BY <1>1, <1>3, <1>4 DEF Stored, Connected, Sanitize
<1>8. DriverIsThere' BY <1>1, <1>3, <1>4 DEF DriverIsThere, LookTypes, AvatarStates
<1>9. Crowd'
  <2>1. \A d \in Conns : conn'[d].state = IF d = c THEN "open" ELSE conn[d].state
    BY <1>3, <1>4
  <2>2. (Open \cup Upgrading)' = Open \cup Upgrading BY <2>1 DEF Open, Upgrading
  <2>. QED BY <1>1, <2>2 DEF Crowd
<1>. QED BY <1>5, <1>6, <1>7, <1>8, <1>9

\* handleClose takes the avatar along if the socket drove it.
LEMMA SocketCloses == ASSUME LooksInvariant, NEW c \in Conns, Closes(c) PROVE LooksInvariant'
<1> USE AppearanceAssumption DEF LooksInvariant, Closes, Watches
<1> DEFINE k == [state |-> "closed", look |-> None, room |-> None, fresh |-> FALSE]
<1>1. conn' = [conn EXCEPT ![c] = k] /\ conn \in [Conns -> Connections] /\ k \in Connections
      /\ wire' = [wire EXCEPT ![c] = <<>>] /\ wire \in [Conns -> Seq(Looks)] /\ hist \in Histories
  BY DEF LookTypes, Connections
<1>2. /\ conn' \in [Conns -> Connections] /\ wire' \in [Conns -> Seq(Looks)]
      /\ \A d \in Conns : d # c => conn'[d] = conn[d] /\ wire'[d] = wire[d]
      /\ conn'[c].state = "closed" /\ wire'[c] = <<>>
  BY <1>1
<1>3. UNCHANGED <<row, puts, saves, edits>> OBVIOUS
<1>4. /\ hist' \in Histories /\ hist'.stored = hist.stored /\ hist'.writer = hist.writer
      /\ hist'.crowded = hist.crowded
  BY <1>1 DEF Histories
<1>5. page' \in [look : Looks, editor : BOOLEAN, started : BOOLEAN, joined : BOOLEAN,
                 link : Conns \cup {None}]
  BY DEF LookTypes
<1> HIDE DEF k
<1>6. LookTypes'
  <2>1. avatar' \in AvatarStates \cup {None} /\ seen' \in Looks \cup {None} BY DEF LookTypes
  <2>. QED BY <1>2, <1>3, <1>4, <1>5, <2>1 DEF LookTypes
<1>7. InFlight' BY <1>3 DEF InFlight
<1>8. ASSUME avatar # None /\ avatar.driver = c /\ avatar.room = conn[c].room
      PROVE  Stored' /\ DriverIsThere' /\ Follows' /\ Watched'
  <2>1. avatar' = None /\ seen' = (IF avatar.room = Here THEN None ELSE seen) BY <1>8
  <2>2. Stored' BY <1>2, <1>3, <1>4, <2>1 DEF Stored, Connected, Sanitize
  <2>3. DriverIsThere' /\ Follows' BY <2>1 DEF DriverIsThere, Follows
  <2>4. Watched' BY <1>8, <2>1 DEF Watched, WatcherSees
  <2>. QED BY <2>2, <2>3, <2>4
<1>9. ASSUME ~(avatar # None /\ avatar.driver = c /\ avatar.room = conn[c].room)
      PROVE  Stored' /\ DriverIsThere' /\ Follows' /\ Watched'
  <2>1. /\ UNCHANGED <<avatar, seen>>
        /\ hist' = [hist EXCEPT !.astray = hist.astray \/ wire[c] # <<>>]
    BY <1>9
  <2>2. hist'.silent = hist.silent /\ (hist'.astray <=> (hist.astray \/ wire[c] # <<>>))
    BY <1>1, <2>1 DEF Histories
  <2>3. Stored' BY <1>2, <1>3, <1>4, <2>1 DEF Stored, Connected, Sanitize
  <2>4. DriverIsThere' BY <1>2, <1>9, <2>1 DEF DriverIsThere, LookTypes, AvatarStates
  <2>5. Follows' BY <1>2, <1>3, <2>1, <2>2 DEF Follows, UnderWay, Sanitize
  <2>6. Watched' BY <2>1, <2>2 DEF Watched, WatcherSees
  <2>. QED BY <2>3, <2>4, <2>5, <2>6
<1>10. Crowd'
  <2>1. Upgrading' \subseteq Upgrading /\ Open' \subseteq Open
    <3>1. \A d \in Conns : conn'[d].state = conn[d].state \/ conn'[d].state = "closed" BY <1>2
    <3>. QED BY <3>1 DEF Upgrading, Open
  <2>2. IsFiniteSet(Open \cup Upgrading) /\ Cardinality(Open \cup Upgrading) \in Nat
    BY FS_Subset, FS_CardinalityType DEF Open, Upgrading
  <2>3. (Open \cup Upgrading)' \subseteq Open \cup Upgrading BY <2>1
  <2>4. Cardinality((Open \cup Upgrading)') <= Cardinality(Open \cup Upgrading)
        /\ Cardinality((Open \cup Upgrading)') \in Nat
    BY <2>2, <2>3, FS_Subset, FS_CardinalityType
  <2>. QED BY <1>1, <1>4, <2>2, <2>4 DEF Crowd, Histories
<1>. QED BY <1>6, <1>7, <1>8, <1>9, <1>10

\* The invariant holds initially, and every step keeps it.
LEMMA InitLooks == AppearanceInit => LooksInvariant
<1> SUFFICES ASSUME AppearanceInit PROVE LooksInvariant OBVIOUS
<1> USE AppearanceAssumption DEF AppearanceInit
<1>1. Sanitize(row) \in Looks BY DEF Sanitize
<1>2. LookTypes
  BY <1>1 DEF LookTypes, Idle, Slot, Connections, Histories
<1>3. InFlight BY DEF InFlight, Idle
<1>4. Stored /\ DriverIsThere /\ Follows /\ Watched
  BY DEF Stored, DriverIsThere, Follows, Watched, WatcherSees, Connected, Idle
<1>5. Crowd
  <2>1. Open \cup Upgrading = {} BY DEF Open, Upgrading
  <2>2. Cardinality(Open \cup Upgrading) = 0 BY <2>1, FS_EmptySet
  <2>3. hist.crowded = 0 OBVIOUS
  <2>. QED BY <2>2, <2>3 DEF Crowd
<1>. QED BY <1>2, <1>3, <1>4, <1>5 DEF LooksInvariant

LEMMA LooksStay == LooksInvariant /\ UNCHANGED appearanceVars => LooksInvariant'
<1> SUFFICES ASSUME LooksInvariant, UNCHANGED appearanceVars PROVE LooksInvariant' OBVIOUS
<1> USE DEF LooksInvariant, appearanceVars
<1>1. LookTypes' /\ InFlight' /\ Stored' /\ DriverIsThere'
  BY DEF LookTypes, InFlight, Stored, DriverIsThere, Connected, Sanitize
<1>2. Follows' /\ Watched'
  BY DEF Follows, Watched, UnderWay, WatcherSees, Sanitize
<1>3. Crowd' BY CrowdStays
<1>. QED BY <1>1, <1>2, <1>3

LEMMA LooksStep == LooksInvariant /\ [AppearanceNext]_appearanceVars => LooksInvariant'
<1> SUFFICES ASSUME LooksInvariant, AppearanceNext \/ UNCHANGED appearanceVars PROVE LooksInvariant'
  OBVIOUS
<1>1. CASE PageStep
  BY <1>1, PageMoves, Submits, PutIsStored, PutIsAnswered, PutIsLost DEF PageStep
<1>2. CASE \E c \in Conns : ConnStep(c)
  BY <1>2, Upgrades, SocketOpens, SocketCloses, RefusesUpdate, JoinsRoom, SendsLook,
     ReceivesUpdate DEF ConnStep
<1>3. CASE \E s \in Saves : SaveStored(s) \/ SaveAnswered(s) \/ SaveFails(s)
  BY <1>3, SaveIsStored, SaveIsAnswered, SaveIsLost
<1>4. CASE UNCHANGED appearanceVars BY <1>4, LooksStay
<1>. QED BY <1>1, <1>2, <1>3, <1>4 DEF AppearanceNext

\* The row, the connections' copies of it, what is under way, the room's avatar
\* and the watcher of it stay in step, as LooksInvariant says.
THEOREM LooksInvariantHolds == AppearanceSpec => []LooksInvariant
BY InitLooks, LooksStep, PTL DEF AppearanceSpec

\* updateAvatarAppearance persists before it broadcasts: what is shown was saved;
\* the room agrees with the row when nothing is under way and nothing went
\* astray, and the watcher with the room.
THEOREM LooksAlwaysAgree == AppearanceSpec => []LooksAgree
<1>1. ASSUME LooksInvariant PROVE LooksAgree
  <2> USE <1>1, AppearanceAssumption DEF LooksInvariant
  <2>1. AppearanceTypeOK BY DEF AppearanceTypeOK, LookTypes, Connections
  <2>2. SavedBeforeShown BY DEF SavedBeforeShown, Stored
  <2>3. RoomAgrees BY DEF RoomAgrees, Follows, UnderWay, Quiet
  <2>. QED BY <2>1, <2>2, <2>3 DEF LooksAgree, Watched
<1>. QED BY <1>1, LooksInvariantHolds, PTL

\* handleWebSocketUpgrade: no user has more sockets than configured, but by the
\* number of his upgrades that another one overlapped.
THEOREM SocketsStayBelowCap == AppearanceSpec => []SocketsBelowCap
<1>1. ASSUME LooksInvariant PROVE SocketsBelowCap
  <2> USE <1>1, AppearanceAssumption DEF LooksInvariant
  <2>1. IsFiniteSet(Open \cup Upgrading) /\ Open \subseteq Open \cup Upgrading
    BY FS_Subset DEF Open, Upgrading
  <2>2. /\ Cardinality(Open) <= Cardinality(Open \cup Upgrading) /\ Cardinality(Open) \in Nat
        /\ Cardinality(Open \cup Upgrading) \in Nat /\ hist.crowded \in Nat
    BY <2>1, FS_Subset, FS_CardinalityType DEF LookTypes, Histories
  <2>. QED BY <2>2 DEF Crowd, SocketsBelowCap
<1>. QED BY <1>1, LooksInvariantHolds, PTL

\* Of all steps, only the answer to a save of the driving socket changes a look
\* while the avatar keeps its room and driver.
LEMMA OnlyUpdatesChangeTheLook ==
  ASSUME LooksInvariant, AppearanceNext,
         avatar # None, avatar' # None, avatar'.driver = avatar.driver,
         avatar'.room = avatar.room, avatar'.look # avatar.look
  PROVE  \E s \in Saves : /\ saves[s].conn = avatar.driver /\ saves[s].look = avatar'.look
                          /\ saves'[s].step = "free"
<1> USE AppearanceAssumption
<1>1. avatar' # avatar OBVIOUS
<1>2. avatar \in AvatarStates BY DEF LooksInvariant, LookTypes
<1>3. CASE PageStep
  BY <1>1, <1>3 DEF PageStep, OpenEditor, CancelEditor, SnapshotArrives, PageLoses, SubmitEditor,
                    PutStored, PutAnswered, PutFails, Write
<1>4. ASSUME NEW c \in Conns, ConnStep(c) PROVE FALSE
  <2>1. CASE Upgrade(c) \/ Opens(c) \/ UpdateRefused(c) BY <1>1, <2>1 DEF Upgrade, Opens, UpdateRefused
  <2>2. CASE Closes(c) BY <1>1, <2>2 DEF Closes
  <2>3. ASSUME NEW r \in Rooms, JoinRoom(c, r) PROVE FALSE
    <3>1. CASE avatar.room = r
      <4>1. avatar' = [avatar EXCEPT !.driver = c, !.look = ReattachedLook(c)]
        BY <2>3, <3>1 DEF JoinRoom
      <4>2. avatar.driver = c BY <1>2, <4>1 DEF AvatarStates
      <4>3. conn[c].room = r BY <3>1, <4>2 DEF LooksInvariant, DriverIsThere
      <4>. QED BY <2>3, <4>3 DEF JoinRoom
    <3>2. CASE avatar.room # r
      <4>1. avatar' = [room |-> r, driver |-> c, look |-> conn[c].look] BY <2>3, <3>2 DEF JoinRoom
      <4>. QED BY <3>2, <4>1
    <3>. QED BY <3>1, <3>2
  <2>4. ASSUME NEW look \in Looks, SendLook(c, look) PROVE FALSE BY <1>1, <2>4 DEF SendLook
  <2>5. ASSUME NEW s \in Saves, UpdateReceived(c, s) PROVE FALSE
    BY <1>1, <2>5 DEF UpdateReceived, Waits
  <2>. QED BY <1>4, <2>1, <2>2, <2>3, <2>4, <2>5 DEF ConnStep
<1>5. ASSUME NEW s \in Saves, SaveStored(s) \/ SaveFails(s) PROVE FALSE
  BY <1>1, <1>5 DEF SaveStored, SaveFails, Write
<1>6. ASSUME NEW s \in Saves, SaveAnswered(s)
      PROVE  saves[s].conn = avatar.driver /\ saves[s].look = avatar'.look /\ saves'[s].step = "free"
  <2>1. Drives(saves[s].conn) BY <1>1, <1>6 DEF SaveAnswered
  <2>2. avatar' = [avatar EXCEPT !.look = saves[s].look] BY <1>6, <2>1 DEF SaveAnswered, Show
  <2>3. avatar'.look = saves[s].look BY <1>2, <2>2 DEF AvatarStates
  <2>4. saves'[s] = Idle BY <1>6 DEF SaveAnswered, LooksInvariant, LookTypes
  <2>. QED BY <2>1, <2>3, <2>4 DEF Drives, Idle
<1>. QED BY <1>3, <1>4, <1>5, <1>6 DEF AppearanceNext

\* An update that was superseded while it was being saved never reaches the room.
THEOREM OnlyTheDriverDrives == AppearanceSpec => DriverDrives
<1>1. ASSUME LooksInvariant, [AppearanceNext]_appearanceVars
      PROVE  [(avatar # None /\ avatar' # None /\ avatar'.driver = avatar.driver
                 /\ avatar'.room = avatar.room /\ avatar'.look # avatar.look) =>
               \E s \in Saves : /\ saves[s].conn = avatar.driver /\ saves[s].look = avatar'.look
                                /\ saves'[s].step = "free"]_appearanceVars
  BY <1>1, OnlyUpdatesChangeTheLook
<1>. QED BY <1>1, LooksInvariantHolds, PTL DEF AppearanceSpec, DriverDrives
=============================================================================
