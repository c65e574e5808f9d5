----------------------- MODULE FixedWindowRateLimiter -----------------------
(***************************************************************************)
(* How many requests the server lets in: one limiter of                    *)
(* serverRuntime.ts and the requests that consume it.                      *)
(*                                                                         *)
(* A limiter counts per key, in windows that start with the first request. *)
(* Registrations and client events are counted by address; friends, rooms  *)
(* and purchases by user; a login and a socket's upgrade first by address  *)
(* and, after an await, by user name or user.  A timer prunes the windows  *)
(* that are over.  The clock is Date.now(): it may be set back.            *)
(***************************************************************************)
EXTENDS Integers, FiniteSets

CONSTANTS
  Addresses, Names,  \* keys: client addresses, user names or ids
  Limit, Window,     \* limit, and windowMs in ticks
  Second,            \* ticks in a second, the unit of retryAfterSeconds
  Handlers,          \* bound: requests at their await
  MaxTime,           \* bound: the clock's values
  MaxAdvance,        \* bound: how far the clock advances in all
  NoBucket, NoName

Keys == Addresses \cup Names

ASSUME WindowAssumption ==
  /\ Limit \in Nat \ {0} /\ Window \in Nat \ {0} /\ Second \in Nat \ {0}
  /\ MaxTime \in Nat /\ MaxAdvance \in Nat
  /\ NoBucket \notin [count : Int, resetAt : Int] /\ NoName \notin Names

VARIABLES
  buckets,   \* [Keys -> [count, resetAt], or NoBucket]
  now,
  pending,   \* [Handlers -> the user name counted next, or NoName]
  passed,    \* history: requests let in per key
  opened,    \* history: windows started per key
  forward,   \* history: how far the clock has advanced in all
  promise    \* history: [Keys -> when a refused request was told to come back]

counts == <<passed, opened, promise>>
windows == <<buckets, now, pending, counts, forward>>

---------------------------------------------------------------------------
(* consume.                                                                *)

\* Keys without a window, or whose window is over.
Vacant == {k \in Keys : buckets[k] = NoBucket \/ buckets[k].resetAt <= now}

OneMore(k) == buckets[k].count <= Limit                          \* (mutant)
Admits(k) == buckets[k].count < Limit

\* Whole seconds, at least one.
RoundedDown(k) ==                                                   \* (mutant)
  LET s == (buckets[k].resetAt - now) \div Second IN IF s < 1 THEN 1 ELSE s
RetryAfter(k) ==
  LET s == (buckets[k].resetAt - now + Second - 1) \div Second IN IF s < 1 THEN 1 ELSE s

Opens(k) ==
  /\ k \in Vacant
  /\ buckets' = [buckets EXCEPT ![k] = [count |-> 1, resetAt |-> now + Window]]
  /\ passed' = [passed EXCEPT ![k] = @ + 1]
  /\ opened' = [opened EXCEPT ![k] = @ + 1]
  /\ promise' = [promise EXCEPT ![k] = 0]

Counts(k) ==
  /\ k \notin Vacant /\ Admits(k)
  /\ buckets' = [buckets EXCEPT ![k].count = @ + 1]
  /\ passed' = [passed EXCEPT ![k] = @ + 1]
  /\ UNCHANGED <<opened, promise>>

Refuses(k) ==
  /\ k \notin Vacant /\ ~Admits(k)
  /\ promise' = [promise EXCEPT ![k] = now + RetryAfter(k) * Second]
  /\ UNCHANGED <<buckets, passed, opened>>

Allows(k) == Opens(k) \/ Counts(k)

---------------------------------------------------------------------------
(* Requests.                                                               *)

\* Registrations and client events; friends, rooms and purchases.
OneKey(k) == (Allows(k) \/ Refuses(k)) /\ UNCHANGED <<now, forward, pending>>

\* A login or an upgrade.  What its address has used stays used when the user
\* is refused.
FirstKey(h, a, n) ==
  /\ pending[h] = NoName
  /\ \/ Allows(a) /\ pending' = [pending EXCEPT ![h] = n]
     \/ Refuses(a) /\ UNCHANGED pending
  /\ UNCHANGED <<now, forward>>

\* The body is read, or the token verified.
SecondKey(h) ==
  /\ pending[h] # NoName
  /\ pending' = [pending EXCEPT ![h] = NoName]
  /\ Allows(pending[h]) \/ Refuses(pending[h])
  /\ UNCHANGED <<now, forward>>

\* A bad body, or nobody's token: no user to count.
NoUserFound(h) ==
  /\ pending[h] # NoName
  /\ pending' = [pending EXCEPT ![h] = NoName]
  /\ UNCHANGED <<buckets, now, forward, counts>>

---------------------------------------------------------------------------
(* The timer and the clock.                                                *)

AllOfThem == {k \in Keys : buckets[k] # NoBucket}                   \* (mutant)
Expired == {k \in Keys : buckets[k] # NoBucket /\ buckets[k].resetAt <= now}

Prune ==
  /\ buckets' = [k \in Keys |-> IF k \in Expired THEN NoBucket ELSE buckets[k]]
  /\ UNCHANGED <<now, pending, counts, forward>>

TimeAdvances ==
  /\ now < MaxTime /\ forward < MaxAdvance
  /\ now' = now + 1 /\ forward' = forward + 1
  /\ UNCHANGED <<buckets, pending, counts>>

TimeSetBack ==
  /\ now > 0 /\ forward < MaxAdvance
  /\ now' = now - 1
  /\ UNCHANGED <<buckets, pending, counts, forward>>

---------------------------------------------------------------------------

WindowInit ==
  /\ buckets = [k \in Keys |-> NoBucket]
  /\ now = 0 /\ forward = 0
  /\ pending = [h \in Handlers |-> NoName]
  /\ passed = [k \in Keys |-> 0] /\ opened = [k \in Keys |-> 0]
  /\ promise = [k \in Keys |-> 0]

WindowNext ==
  \/ \E k \in Keys : OneKey(k)
  \/ \E h \in Handlers : SecondKey(h) \/ NoUserFound(h)
                         \/ \E a \in Addresses, n \in Names : FirstKey(h, a, n)
  \/ Prune \/ TimeAdvances \/ TimeSetBack

WindowSpec == WindowInit /\ [][WindowNext]_windows

---------------------------------------------------------------------------
(* Properties.                                                             *)

\* No window lets in more than the limit, in whatever order requests with one
\* key and with two reach it.
WindowTypeOK ==
  /\ \A k \in Keys : buckets[k] # NoBucket =>
       buckets[k].count \in 1 .. Limit /\ buckets[k].resetAt \in Int
  /\ now \in Nat /\ forward \in Nat
  /\ pending \in [Handlers -> Names \cup {NoName}]
  /\ {passed, opened, promise} \subseteq [Keys -> Nat]

\* A key gets its limit through once per window of the clock's advance, and
\* once more: whatever is pruned, and though the clock is set back.
WindowsHold ==
  \A k \in Keys :
    /\ passed[k] <= Limit * opened[k]
    /\ opened[k] > 0 => Window * (opened[k] - 1) <= forward

\* retry-after is not too short: a window that refused a request is over when
\* the client was told to come back.
RetryAfterCovers ==
  \A k \in Keys :
    promise[k] > 0 /\ buckets[k] # NoBucket => buckets[k].resetAt <= promise[k]

\* What a limiter promises: to the server, and to the client it refuses.
LimiterHolds == WindowTypeOK /\ WindowsHold /\ RetryAfterCovers
=============================================================================
