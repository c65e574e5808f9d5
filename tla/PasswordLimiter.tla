-------------------------- MODULE PasswordLimiter --------------------------
(***************************************************************************)
(* AuthPasswordLimiter: how many password hashes are computed at once, and *)
(* how many requests may wait for one.  The code keeps a counter and a     *)
(* queue of waiters, each with a timer; it does not record who has a slot. *)
(* "phase" says where each task is: it waits when its promise is in the    *)
(* queue's hands, and runs from the moment its promise is resolved.        *)
(***************************************************************************)
EXTENDS Naturals, Sequences, FiniteSets

CONSTANTS Tasks, Concurrency, MaxQueue

\* config.ts: a positive and a non-negative integer.
ASSUME LimiterAssumption == Concurrency \in Nat \ {0} /\ MaxQueue \in Nat

VARIABLES
  phase,   \* [Tasks -> {"out", "waiting", "running"}]
  active,  \* the counter of slots in use
  queue    \* the waiters in order

limiter == <<phase, active, queue>>

Running == {t \in Tasks : phase[t] = "running"}
Waiting == {t \in Tasks : phase[t] = "waiting"}

LimiterInit ==
  /\ phase = [t \in Tasks |-> "out"]
  /\ active = 0
  /\ queue = <<>>

Enter(t) == phase' = [phase EXCEPT ![t] = "running"]
Quit(t) == phase' = [phase EXCEPT ![t] = "out"]

---------------------------------------------------------------------------
OneTooMany == active <= Concurrency                              \* (mutant)
SlotFree == active < Concurrency

Grant(t) ==
  /\ phase[t] = "out"
  /\ SlotFree
  /\ active' = active + 1
  /\ Enter(t)
  /\ UNCHANGED queue

Enqueue(t) ==
  /\ phase[t] = "out"
  /\ ~SlotFree
  /\ Len(queue) < MaxQueue
  /\ queue' = Append(queue, t)
  /\ phase' = [phase EXCEPT ![t] = "waiting"]
  /\ UNCHANGED active

\* The task is told that the queue is full.
Refused(t) ==
  /\ phase[t] = "out"
  /\ ~SlotFree
  /\ Len(queue) >= MaxQueue
  /\ UNCHANGED limiter

\* queue.splice(k, 1)
KeepInQueue(q, k) == q                                           \* (mutant)
Spliced(q, k) == [j \in 1 .. Len(q) - 1 |-> IF j < k THEN q[j] ELSE q[j + 1]]

TimeOut(t) ==
  \E k \in 1 .. Len(queue) :
    /\ queue[k] = t /\ phase[t] = "waiting"
    /\ queue' = Spliced(queue, k)
    /\ Quit(t)
    /\ UNCHANGED active

\* The slot of a task that ends goes to the first in the queue.
Newest == <<queue[Len(queue)]>> \o SubSeq(queue, 1, Len(queue) - 1) \* (mutant)
InOrder == queue

FreeSlot(t) ==
  /\ queue = <<>>
  /\ active' = IF active = 0 THEN 0 ELSE active - 1
  /\ Quit(t)
  /\ UNCHANGED queue

PassSlot(t) ==
  /\ queue # <<>>
  /\ queue' = Tail(InOrder)
  /\ phase' = [phase EXCEPT ![t] = "out", ![Head(InOrder)] = "running"]
  /\ UNCHANGED active

Release(t) == phase[t] = "running" /\ (FreeSlot(t) \/ PassSlot(t))

LimiterNext ==
  \E t \in Tasks : Grant(t) \/ Enqueue(t) \/ Refused(t) \/ TimeOut(t) \/ Release(t)

LimiterSpec == LimiterInit /\ [][LimiterNext]_limiter

---------------------------------------------------------------------------
LimiterTypeOK ==
  /\ phase \in [Tasks -> {"out", "waiting", "running"}]
  /\ active \in Nat
  /\ queue \in Seq(Tasks)

QueueIsWaiting ==
  /\ \A k \in 1 .. Len(queue) : queue[k] \in Waiting
  /\ \A t \in Waiting : \E k \in 1 .. Len(queue) : queue[k] = t
  /\ \A j, k \in 1 .. Len(queue) : queue[j] = queue[k] => j = k

\* No slot is lost or handed out twice, whichever way releases, timeouts and
\* new requests interleave: the counter is the number of tasks that run and
\* never above the limit, the queue holds exactly the tasks that wait, once
\* each, and only while every slot is in use.
SlotsAccounted ==
  /\ active = Cardinality(Running)
  /\ active <= Concurrency
  /\ QueueIsWaiting
  /\ queue # <<>> => active = Concurrency

Sem == INSTANCE Semaphore
         WITH Slots <- Concurrency, holders <- Running, waiters <- Waiting

\* The limiter implements the semaphore: slots pass directly from the task
\* that ends to one that waits, and never around the queue.
IsSemaphore == Sem!Spec
=============================================================================
